---------------------------- MODULE MCPseudoTcp ----------------------------
(* Small instances of PseudoTcp.                                             *)
EXTENDS PseudoTcp

TwoSizes == <<2, 1>>
FarSizes == <<3, 1>>   \* with an advice of 2 between them
=============================================================================
