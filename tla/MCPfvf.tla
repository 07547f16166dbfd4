------------------------------- MODULE MCPfvf -------------------------------
(***************************************************************************)
(* Pfvf with a capabilities message of two payload bytes.  Its bytes are   *)
(* ones for which the CRC of a message that starts with a leftover version *)
(* answer is right: only the order of the answers keeps the VF from taking *)
(* it.                                                                     *)
(***************************************************************************)
EXTENDS Pfvf

Capabilities == <<3, 2, 252, 7>>

=============================================================================
