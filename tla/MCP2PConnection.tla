--------------------------- MODULE MCP2PConnection --------------------------
(* P2PConnection, called by an application that connects and closes at will. *)
EXTENDS P2PConnection
=============================================================================
