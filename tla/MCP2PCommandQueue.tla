-------------------------- MODULE MCP2PCommandQueue --------------------------
EXTENDS P2PCommandQueue
CONSTANTS c1, c2, c3, p1, t1, t2
MCTypeOf == [c \in Commands |-> IF c = c2 THEN t2 ELSE t1]
=============================================================================
