------------------------------ MODULE IceRoles ------------------------------
(***************************************************************************)
(* How two sessions agree on who is the controlling ICE agent: the role of  *)
(* the ports (webrtc/p2p/base/port.cc), which the checks carry; the conflict*)
(* a port finds on the worker thread and Transport (transport.cc) posts to  *)
(* the signaling thread; BaseSession::OnRoleConflict (session.cc), which    *)
(* switches the role there, once; and the role an ICE restart sets.         *)
(*                                                                          *)
(* The packets between the ends are checks and role conflict errors. They   *)
(* are lost and overtake each other; a check like one still in flight adds  *)
(* nothing. An ICE restart makes new ports; the older ones, whose           *)
(* connections go on, are no longer told of the role.                       *)
(***************************************************************************)
EXTENDS Integers, FiniteSets

CONSTANTS
    A, B,          \* the sessions
    Tiebreaker,    \* their random 64-bit numbers
    Calls,         \* what may happen: who initiates, and how many restarts
    None

Ends == {A, B}
Peer(x) == IF x = A THEN B ELSE A

ASSUME EndsAssumption == A # B /\ None \notin Ends
ASSUME TiebreakerAssumption ==
    Tiebreaker \in [Ends -> Nat] /\ Tiebreaker[A] # Tiebreaker[B]
ASSUME CallsAssumption == Calls \subseteq [initiators : SUBSET Ends, restarts : Nat]

Roles == {"controlling", "controlled"}

\* Mutant: the controlling role is given up for ICEROLE_UNKNOWN.
BugReverse(r) == IF r = "controlling" THEN "unknown" ELSE "controlling"

Reverse(r) == IF r = "controlling" THEN "controlled" ELSE "controlling"

VARIABLES
    call,          \* who is the initiator_; it does not change
    role,          \* of each end: the role of its transport and its newest ports
    older,         \* of each end: the roles its ports of before a restart have
    role_switch,   \* of each end: BaseSession::role_switch_
    posted,        \* of each end: a MSG_ROLECONFLICT waits on the signaling thread
    net,           \* the packets in flight
    offerer,       \* whose ICE restart waits for the answer
    restarts       \* ICE restarts so far
vars == <<call, role, older, role_switch, posted, net, offerer, restarts>>

\* BaseSession::GetOrCreateTransportProxy
InitialRole(x) == IF x \in call.initiators THEN "controlling" ELSE "controlled"

\* The roles of the ports of an end.
PortRoles(x) == {role[x]} \cup older[x]

Check(x, r) == [type |-> "check", to |-> Peer(x), role |-> r]
Conflict(x) == [type |-> "487", to |-> x, role |-> "none"]
Packets == [type : {"check"}, to : Ends, role : Roles] \cup {Conflict(x) : x \in Ends}

TypeOK ==
    /\ call \in Calls /\ role \in [Ends -> Roles] /\ older \in [Ends -> SUBSET Roles]
    /\ role_switch \in [Ends -> BOOLEAN] /\ posted \in [Ends -> BOOLEAN]
    /\ net \subseteq Packets /\ offerer \in Ends \cup {None}
    /\ restarts \in 0 .. call.restarts

Init ==
    /\ call \in Calls
    /\ role = [x \in Ends |-> InitialRole(x)] /\ older = [x \in Ends |-> {}]
    /\ role_switch = [x \in Ends |-> FALSE] /\ posted = [x \in Ends |-> FALSE]
    /\ net = {} /\ offerer = None /\ restarts = 0

-----------------------------------------------------------------------------
(* The worker thread                                                        *)

\* A port of x sends a check with the role it has now.
SendCheck(x, r) ==
    /\ r \in PortRoles(x) /\ Check(x, r) \notin net
    /\ net' = net \cup {Check(x, r)}
    /\ UNCHANGED <<call, role, older, role_switch, posted, offerer, restarts>>

\* Mutant: a controlled end yields whatever the tiebreakers are.
BugYields(x, r, claimed) ==
    r = claimed /\ (claimed = "controlled" \/ Tiebreaker[Peer(x)] >= Tiebreaker[x])

\* Port::MaybeIceRoleConflict, at a port in role r: of two ends in one role the
\* greater tiebreaker is to be the controlling one. The end that has to change
\* signals it to its owner, the other tells its peer to.
Yields(x, r, claimed) ==
    /\ r = claimed
    /\ \/ claimed = "controlling" /\ Tiebreaker[Peer(x)] >= Tiebreaker[x]
       \/ claimed = "controlled" /\ Tiebreaker[Peer(x)] < Tiebreaker[x]

Insists(x, r, claimed) == r = claimed /\ ~Yields(x, r, claimed)

\* A check arrives at a port in role r, new or older.
ReceiveCheck(x, m, r) ==
    /\ m \in net /\ m.type = "check" /\ m.to = x /\ r \in PortRoles(x)
    /\ posted' = [posted EXCEPT ![x] = @ \/ Yields(x, r, m.role)]
    /\ net' = (net \ {m}) \cup (IF Insists(x, r, m.role) THEN {Conflict(Peer(x))} ELSE {})
    /\ UNCHANGED <<call, role, older, role_switch, offerer, restarts>>

\* Connection::HandleRoleConflictFromPeer
ReceiveConflict(x, m) ==
    /\ m \in net /\ m = Conflict(x)
    /\ posted' = [posted EXCEPT ![x] = TRUE]
    /\ net' = net \ {m}
    /\ UNCHANGED <<call, role, older, role_switch, offerer, restarts>>

Lose(m) ==
    /\ m \in net
    /\ net' = net \ {m}
    /\ UNCHANGED <<call, role, older, role_switch, posted, offerer, restarts>>

-----------------------------------------------------------------------------
(* The signaling thread                                                     *)

\* Mutant: the role set is the initial one, not its reverse.
BugOnRoleConflict(x) ==
    /\ posted[x]
    /\ posted' = [posted EXCEPT ![x] = FALSE]
    /\ role_switch' = [role_switch EXCEPT ![x] = TRUE]
    /\ role' = IF role_switch[x] THEN role ELSE [role EXCEPT ![x] = InitialRole(x)]
    /\ UNCHANGED <<call, older, net, offerer, restarts>>

\* BaseSession::OnRoleConflict: "Role will be reverse of initial role setting."
OnRoleConflict(x) ==
    /\ posted[x]
    /\ posted' = [posted EXCEPT ![x] = FALSE]
    /\ role_switch' = [role_switch EXCEPT ![x] = TRUE]
    /\ role' = IF role_switch[x] THEN role
               ELSE [role EXCEPT ![x] = Reverse(InitialRole(x))]
    /\ UNCHANGED <<call, older, net, offerer, restarts>>

\* The ports are told the role of the restart, and give way to new ones.
SetRestartRole(x, r) ==
    /\ role' = [role EXCEPT ![x] = r]
    /\ older' = [older EXCEPT ![x] = @ \cup {r}]

\* Transport::SetLocalTransportDescription_w with new credentials, in an offer.
RestartOffer(x) ==
    /\ offerer = None /\ restarts < call.restarts
    /\ offerer' = x /\ restarts' = restarts + 1
    /\ SetRestartRole(x, "controlling")
    /\ UNCHANGED <<call, role_switch, posted, net>>

\* The same in the answer.
RestartAnswer(x) ==
    /\ offerer = Peer(x)
    /\ offerer' = None
    /\ SetRestartRole(x, "controlled")
    /\ UNCHANGED <<call, role_switch, posted, net, restarts>>

Next ==
    \/ \E x \in Ends :
         \/ OnRoleConflict(x) \/ RestartOffer(x) \/ RestartAnswer(x)
         \/ \E r \in Roles : SendCheck(x, r)
         \/ \E m \in net : ReceiveConflict(x, m) \/ \E r \in Roles : ReceiveCheck(x, m, r)
    \/ \E m \in net : Lose(m)

Spec == Init /\ [][Next]_vars

\* The newest ports send checks for ever and these get through again and again;
\* the signaling thread serves its messages, and an offer is answered.
FairSpec ==
    /\ Spec
    /\ \A x \in Ends :
         /\ WF_vars(SendCheck(x, role[x])) /\ WF_vars(OnRoleConflict(x))
         /\ WF_vars(RestartAnswer(x))
         /\ SF_vars(\E m \in net : ReceiveCheck(x, m, role[x]) /\ m.role = role[Peer(x)])
         /\ SF_vars(\E m \in net : ReceiveConflict(x, m))

-----------------------------------------------------------------------------
(* Properties                                                               *)

\* Two ends that start in the same role resolve it by a switch of one of them:
\* it never happens that both yield, each on what the other said before.
OneYields ==
    (restarts = 0 /\ InitialRole(A) = InitialRole(B)) => ~(role_switch[A] /\ role_switch[B])

\* In the end, and for ever, one end is controlling and the other controlled,
\* whatever is lost or late and whichever thread is slow. It holds when the ends
\* start in one role and there is no restart, and when they start in two and
\* there is one: what OnRoleConflict sets is then what the restart sets. It fails
\* when an end that started in the role of its peer handles the conflict after
\* a restart (or after a second one, wherever they started): the reverse of the
\* initial role replaces the role of the restart, and role_switch_ then keeps
\* the ends from yielding ever again.
RolesSettle == <>[](role[A] # role[B])
=============================================================================
