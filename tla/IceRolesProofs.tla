--------------------------- MODULE IceRolesProofs ---------------------------
(***************************************************************************)
(* Proofs about IceRoles for any two tiebreakers that differ, any initiators*)
(* and any number of ICE restarts.                                          *)
(***************************************************************************)
EXTENDS IceRoles, TLAPS

USE EndsAssumption, TiebreakerAssumption, CallsAssumption

\* Every step is a step of one of the actions of one of the ends.
LEMMA NextCases ==
    ASSUME Next
    PROVE  \/ \E x \in Ends : OnRoleConflict(x) \/ RestartOffer(x) \/ RestartAnswer(x)
           \/ \E x \in Ends, r \in Roles : SendCheck(x, r)
           \/ \E x \in Ends, m \in net : ReceiveConflict(x, m)
           \/ \E x \in Ends, m \in net, r \in Roles : ReceiveCheck(x, m, r)
           \/ \E m \in net : Lose(m)
BY Zenon DEF Next

\* The role of an end is always one of two: a conflict, an ICE restart, a check
\* or a loss leaves no end without a role (ICEROLE_UNKNOWN).
THEOREM TypeCorrect == Spec => []TypeOK
<1>1. Init => TypeOK
    BY DEF Init, TypeOK, InitialRole, Roles
<1>2. TypeOK /\ [Next]_vars => TypeOK'
    <2> SUFFICES ASSUME TypeOK, [Next]_vars PROVE TypeOK'
        OBVIOUS
    <2> USE DEF TypeOK, Ends
    <2>1. ASSUME NEW x \in Ends, NEW r \in Roles, SendCheck(x, r) PROVE TypeOK'
        <3>1. Check(x, r) \in Packets
            BY DEF Check, Packets, Peer
        <3> QED
            BY <2>1, <3>1 DEF SendCheck
    <2>2. ASSUME NEW x \in Ends, OnRoleConflict(x) PROVE TypeOK'
        BY <2>2 DEF OnRoleConflict, Reverse, Roles
    <2>3. ASSUME NEW x \in Ends, RestartOffer(x) PROVE TypeOK'
        BY <2>3 DEF RestartOffer, SetRestartRole, Roles
    <2>4. ASSUME NEW x \in Ends, RestartAnswer(x) PROVE TypeOK'
        BY <2>4 DEF RestartAnswer, SetRestartRole, Roles
    <2>5. ASSUME NEW x \in Ends, NEW m \in net, NEW r \in Roles, ReceiveCheck(x, m, r)
          PROVE  TypeOK'
        <3>1. Conflict(Peer(x)) \in Packets
            BY DEF Packets, Peer
        <3>2. net' \subseteq Packets
            BY <2>5, <3>1 DEF ReceiveCheck
        <3> QED
            BY <2>5, <3>2 DEF ReceiveCheck, Yields
    <2>6. ASSUME NEW x \in Ends, NEW m \in net, ReceiveConflict(x, m) PROVE TypeOK'
        BY <2>6 DEF ReceiveConflict
    <2>7. ASSUME NEW m \in net, Lose(m) PROVE TypeOK'
        BY <2>7 DEF Lose
    <2>8. CASE UNCHANGED vars
        BY <2>8 DEF vars
    <2> HIDE DEF TypeOK, Ends
    <2> QED
        BY NextCases, <2>1, <2>2, <2>3, <2>4, <2>5, <2>6, <2>7, <2>8
<1> QED
    BY <1>1, <1>2, PTL DEF Spec

-----------------------------------------------------------------------------
(***************************************************************************)
(* Two ends that start in one role.                                         *)
(***************************************************************************)
\* The end that has to give up the role both have: of two controlling ends the
\* one with the smaller tiebreaker, of two controlled ones the other.
Loser ==
    IF (InitialRole(A) = "controlling") = (Tiebreaker[A] < Tiebreaker[B]) THEN A ELSE B

\* As long as there was no restart, only the end that has to yield has switched,
\* has been told to or is about to be told, and the role the other end claims
\* is the first one.
OnlyLoserYields ==
    restarts = 0 /\ InitialRole(A) = InitialRole(B) =>
        LET winner == Peer(Loser) IN
        /\ offerer = None /\ \A x \in Ends : older[x] = {}
        /\ ~role_switch[winner] /\ ~posted[winner]
        /\ Conflict(winner) \notin net
        /\ role[winner] = InitialRole(winner)
        /\ ~role_switch[Loser] => role[Loser] = InitialRole(Loser)
        /\ role_switch[Loser] => role[Loser] = Reverse(InitialRole(Loser))
        /\ \A m \in net : m.type = "check" /\ m.to = Loser => m.role = InitialRole(winner)

\* Of two ends that start in one role only one ever switches, whatever is lost,
\* late or overtaken, and whichever thread is slow: OnRoleConflict never makes
\* both ends yield to each other. For any tiebreakers.
THEOREM OnlyOneYields == Spec => []OneYields
<1>1. Init => OnlyLoserYields
    BY DEF Init, OnlyLoserYields, Ends, Peer, Loser
<1>2. TypeOK /\ OnlyLoserYields /\ [Next]_vars => OnlyLoserYields'
    <2> SUFFICES ASSUME TypeOK, OnlyLoserYields, [Next]_vars,
                        restarts' = 0, InitialRole(A)' = InitialRole(B)'
                 PROVE  OnlyLoserYields'
        BY DEF OnlyLoserYields
    <2> DEFINE winner == Peer(Loser)
    <2>c. call' = call
        BY NextCases DEF vars, SendCheck, OnRoleConflict, RestartOffer, RestartAnswer,
           ReceiveCheck, ReceiveConflict, Lose
    <2>r. restarts = 0 /\ InitialRole(A) = InitialRole(B)
        BY <2>c, NextCases DEF vars, SendCheck, OnRoleConflict, RestartOffer, RestartAnswer,
           ReceiveCheck, ReceiveConflict, Lose, InitialRole, TypeOK, SetRestartRole
    <2>i. /\ Loser' = Loser /\ \A x \in Ends : InitialRole(x)' = InitialRole(x)
        BY <2>c DEF Loser, InitialRole
    <2> USE DEF OnlyLoserYields, TypeOK, Ends, Loser, Peer, InitialRole
    <2>1. ASSUME NEW x \in Ends, NEW r \in Roles, SendCheck(x, r) PROVE OnlyLoserYields'
        BY <2>1, <2>r, <2>i DEF SendCheck, PortRoles, Check, Conflict
    <2>2. ASSUME NEW x \in Ends, OnRoleConflict(x) PROVE OnlyLoserYields'
        BY <2>2, <2>r, <2>i DEF OnRoleConflict
    <2>3. ASSUME NEW x \in Ends, RestartOffer(x) PROVE OnlyLoserYields'
        BY <2>3, <2>r DEF RestartOffer
    <2>4. ASSUME NEW x \in Ends, RestartAnswer(x) PROVE OnlyLoserYields'
        BY <2>4, <2>r DEF RestartAnswer
    <2>5. ASSUME NEW x \in Ends, NEW m \in net, NEW r \in Roles, ReceiveCheck(x, m, r)
          PROVE  OnlyLoserYields'
        BY <2>5, <2>r, <2>i DEF ReceiveCheck, PortRoles, Yields, Insists, Conflict, Reverse
    <2>6. ASSUME NEW x \in Ends, NEW m \in net, ReceiveConflict(x, m) PROVE OnlyLoserYields'
        BY <2>6, <2>r, <2>i DEF ReceiveConflict
    <2>7. ASSUME NEW m \in net, Lose(m) PROVE OnlyLoserYields'
        BY <2>7, <2>r, <2>i DEF Lose
    <2>8. CASE UNCHANGED vars
        BY <2>8, <2>r, <2>i DEF vars
    <2> HIDE DEF OnlyLoserYields, TypeOK, Ends, Loser, Peer, InitialRole
    <2> QED
        BY NextCases, <2>1, <2>2, <2>3, <2>4, <2>5, <2>6, <2>7, <2>8
<1>3. OnlyLoserYields => OneYields
    BY DEF OnlyLoserYields, OneYields, Loser, Peer
<1> QED
    BY <1>1, <1>2, <1>3, TypeCorrect, PTL DEF Spec
=============================================================================
