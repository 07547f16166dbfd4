---------------------------- MODULE MCSyncCookie ----------------------------
(* SyncCookie with two callers and three addresses. *)
EXTENDS SyncCookie, TLC

Symmetry == Permutations(Callers) \cup Permutations(Addrs)
=============================================================================
