-------------------------- MODULE MCPushClientParser -------------------------
(* PushClientParser for TLC: small numbers stand for the tags (2 is        *)
(* unknown), and sizes need a second byte from 2 on.                       *)
EXTENDS PushClientParser
=============================================================================
