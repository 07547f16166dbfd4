----------------------------- MODULE MCServices -----------------------------
(* One asymmetric and one compression instance, asymmetric events first.   *)
EXTENDS Services

CONSTANTS asym1, dc1

MCLists == <<<<asym1>>, <<dc1>>>>
MCKind == (asym1 :> "asym") @@ (dc1 :> "dc")

(* Pollers are interchangeable. *)
MCSymmetry == Permutations(Pollers)

=============================================================================
