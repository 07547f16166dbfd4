------------------------------ MODULE MCQatMgr ------------------------------
(* QatMgr with two processes that want the same section. *)
EXTENDS QatMgr
=============================================================================
