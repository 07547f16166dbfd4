----------------------------- MODULE MCRingPair -----------------------------
(* RingPair with two threads, three requests and a ring of four responses. *)
EXTENDS RingPair
=============================================================================
