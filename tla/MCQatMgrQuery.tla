--------------------------- MODULE MCQatMgrQuery ----------------------------
(* QatMgrQuery with two threads and two devices. *)
EXTENDS QatMgrQuery, TLC

Symmetry == Permutations(Threads) \cup Permutations(Devices)

=============================================================================
