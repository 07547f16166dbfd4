------------------------------- MODULE MCUsdm -------------------------------
(* Usdm with a slab of three words of two bits. *)
EXTENDS Usdm

Req(size, align) == [size |-> size, align |-> align]
SmallAndLarge ==
    [p \in Procs |->
        IF p = Parent THEN {Req(1, 0), Req(2, 2), Req(4, 4), Req(7, 12)}
                      ELSE {Req(13, 12)}]

Symmetry == Permutations(Mem)

=============================================================================
