-------------------------- MODULE MCP2PDataChannel --------------------------
(* P2PDataChannel with sequence numbers 0..7: the numbers wrap twice.       *)
EXTENDS P2PDataChannel
=============================================================================
