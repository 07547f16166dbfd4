---------------------------- MODULE MCSymSession ----------------------------
(* SymSession with two threads and a message of three parts. *)
EXTENDS SymSession, TLC

CONSTANTS p1, p2, p3

ThreeParts == <<p1, p2, p3>>

Symmetry == Permutations(Threads) \cup Permutations(Fulls)
=============================================================================
