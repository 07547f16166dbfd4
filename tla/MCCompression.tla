--------------------------- MODULE MCCompression ----------------------------
(* One session of each kind. *)
EXTENDS Compression, TLC

CONSTANTS less, full, chain, dplane, none

MCKind == (less :> "stateless") @@ (full :> "stateful") @@ (chain :> "chain")
          @@ (dplane :> "dp") @@ (none :> "ns")

(* Threads are interchangeable. *)
MCSymmetry == Permutations(Threads)

=============================================================================
