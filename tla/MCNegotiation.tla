--------------------------- MODULE MCNegotiation ---------------------------
(* Small instances of Negotiation.                                           *)
EXTENDS Negotiation

AllModes == {"none", "refused", "service", "generate"}
AllFailures == {"options", "create", "pushdown", "content", "channels"}
=============================================================================
