----------------------------- MODULE MCIceRoles -----------------------------
(* Small instances of IceRoles.                                              *)
EXTENDS IceRoles

Tiebreakers == [x \in Ends |-> IF x = A THEN 2 ELSE 1]

\* Both ends start in one role, or one of them, with the greater tiebreaker or
\* the smaller, calls the other and either restarts once.
UsualCalls ==
    [initiators : {{}, {A, B}}, restarts : {0}] \cup [initiators : {{A}, {B}}, restarts : {1}]
=============================================================================
