---------------------------- MODULE MCP2PChannel ----------------------------
(* Small instances of P2PChannel.                                            *)
EXTENDS P2PChannel
CONSTANTS p, q

\* p is preferred to q, and both are on one network, so that q is pruned. Seen
\* from outside q is preferred to p.
Preferences == [c \in Paths |-> IF c = p THEN 3 ELSE 2]
PrflxPreferences == [c \in Paths |-> IF c = p THEN 1 ELSE 4]
OneNetwork == [c \in Paths |-> 1]
=============================================================================
