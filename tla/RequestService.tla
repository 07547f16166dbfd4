--------------------------- MODULE RequestService ---------------------------
(***************************************************************************)
(* What a ring pair promises to the services above it, whatever the ring   *)
(* indices, the shared counter and the device do: at most Capacity         *)
(* requests are outstanding, an outstanding request is not accepted again, *)
(* and every request leaves by exactly one callback.                       *)
(***************************************************************************)
EXTENDS Integers, FiniteSets

CONSTANTS Msgs, Capacity

VARIABLE outstanding

Init == outstanding = {}

Accept(m) ==
  /\ m \notin outstanding
  /\ Cardinality(outstanding) < Capacity
  /\ outstanding' = outstanding \cup {m}

Answer(m) ==
  /\ m \in outstanding
  /\ outstanding' = outstanding \ {m}

Next == \E m \in Msgs : Accept(m) \/ Answer(m)

Spec == Init /\ [][Next]_outstanding
=============================================================================
