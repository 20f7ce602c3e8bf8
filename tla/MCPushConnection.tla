-------------------------- MODULE MCPushConnection --------------------------
(* PushConnection with two messages and up to three clients. *)
EXTENDS PushConnection

CONSTANTS m1, m2
=============================================================================
