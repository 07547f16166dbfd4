----------------------------- MODULE MCMemPool -----------------------------
(* MemPool with two threads and three blocks. *)
EXTENDS MemPool, TLC

Symmetry == Permutations(Threads) \cup Permutations(Blocks)
=============================================================================
