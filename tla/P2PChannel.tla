----------------------------- MODULE P2PChannel -----------------------------
(***************************************************************************)
(* One cricket::P2PTransportChannel (webrtc/p2p/base/p2ptransportchannel.cc)*)
(* and its cricket::Connections (port.cc), on the worker thread: which      *)
(* connections there are, what is known of them, which one carries the data *)
(* and what the channel tells its owner. The peer and the network are the   *)
(* environment: checks and answers arrive, or do not, on every path.        *)
(*                                                                          *)
(* A path is a pair of a local port and a remote address; it has at most    *)
(* one Connection at a time. The protocol is RFC 5245 with a full peer, so  *)
(* that a readable connection stays readable. The handlers are functions    *)
(* from the record `ch' of the channel's members to the record after them,  *)
(* because they nest: a state that changes calls OnConnectionStateChange    *)
(* and CheckTimeout from where it changes.                                  *)
(*                                                                          *)
(* Time is abstracted: pings_since_last_response_ is kept as how long the   *)
(* oldest ping has waited, last_ping_sent_ as the order of the last pings,  *)
(* and the priorities of two paths differ, so that round-trip times never   *)
(* decide.                                                                  *)
(***************************************************************************)
EXTENDS Integers, Sequences, FiniteSets, SequencesExt

CONSTANTS
    Paths,
    Priority,      \* of a path: Connection::priority
    PrflxPriority, \* and with a peer reflexive local candidate
    Network,       \* of a path: the network of its port
    Natted,        \* the paths from a port that does not know the address its peer sees
    Good,          \* the paths on which the peer answers every check in time
    Role,          \* the first ICE role
    None,
    MaxBacklog,    \* bounds: messages waiting when a packet comes in, and
    MaxRevivals    \* connections made by checks from unknown addresses

ASSUME PathsAssumption ==
    /\ IsFiniteSet(Paths) /\ None \notin Paths /\ Good \subseteq Paths /\ Natted \subseteq Paths
    /\ DOMAIN Network = Paths
    /\ Priority \in [Paths -> Nat] /\ PrflxPriority \in [Paths -> Nat]
    /\ \A c, d \in Paths :
         c # d => {Priority[c], PrflxPriority[c]} \cap {Priority[d], PrflxPriority[d]} = {}
ASSUME BoundAssumption == MaxBacklog \in Nat \ {0} /\ MaxRevivals \in Nat
ASSUME RoleAssumption == Role \in {"controlling", "controlled"}

VARIABLES
    ch,            \* the channel and its connections
    role,          \* ice_role_
    switched,      \* BaseSession::role_switch_: the role changes at most once
    remembered,    \* remote_candidates_: paths whose candidate was signalled
    revivals       \* checks that made a connection so far
vars == <<ch, role, switched, remembered, revivals>>

\* The write states in the order of Connection::WriteState: lower is better.
WriteRank == [WRITABLE |-> 0, UNRELIABLE |-> 1, INIT |-> 2, TIMEOUT |-> 3]

\* How long the oldest ping without a response has waited: there is none; it
\* waits; past CONNECTION_WRITE_CONNECT_TIMEOUT, and as many as
\* CONNECTION_WRITE_CONNECT_FAILURES failed; past CONNECTION_WRITE_TIMEOUT.
Waits == 0 .. 3

\* A connection as its constructor makes it.
NewConnection ==
    [read |-> "INIT", write |-> "INIT", pruned |-> FALSE, waited |-> 0, asked |-> FALSE,
     prflx |-> FALSE]

SORT == <<"sort">>
DELETE(c) == <<"delete", c>>

TypeOK ==
    /\ ch.listed \subseteq Paths
    /\ ch.conn \in [Paths -> [read : {"INIT", "READABLE"},
                              write : DOMAIN WriteRank, pruned : BOOLEAN,
                              waited : Waits, asked : BOOLEAN, prflx : BOOLEAN]]
    /\ {ch.best, ch.pending} \subseteq Paths \cup {None}
    /\ {ch.dirty, ch.writable, ch.was_writable, ch.readable} \subseteq BOOLEAN
    /\ ch.queue \in Seq({SORT} \cup {DELETE(c) : c \in Paths})
    /\ ToSet(ch.turn) \subseteq ch.listed /\ IsInjective(ch.turn)
    /\ role \in {"controlling", "controlled"} /\ switched \in BOOLEAN
    /\ remembered \subseteq Paths /\ revivals \in 0 .. MaxRevivals

Init ==
    /\ ch = [listed |-> {}, conn |-> [c \in Paths |-> NewConnection],
             best |-> None, pending |-> None, dirty |-> FALSE,
             writable |-> FALSE, was_writable |-> FALSE, readable |-> FALSE,
             queue |-> <<>>, turn |-> <<>>]
    /\ role = Role /\ switched = FALSE /\ remembered = {} /\ revivals = 0

-----------------------------------------------------------------------------
(* Changes of a connection's state                                          *)

IsWritable(s, c) == c # None /\ s.conn[c].write = "WRITABLE"

\* A MSG_SORT is posted unless one is known to be on its way.
RequestSort(s) ==
    IF s.dirty THEN s ELSE [s EXCEPT !.dirty = TRUE, !.queue = Append(@, SORT)]

\* A connection that was never readable, or is no longer, and times out on the
\* write side deletes itself.
Dead(conn) == conn.read # "READABLE" /\ conn.write = "TIMEOUT"

\* set_read_state and set_write_state of the connections from s.conn to `conn'.
\* SignalStateChange comes first: OnConnectionStateChange makes the controlled
\* side adopt the connection its peer nominated once it is writable, and asks
\* for a sort. Then CheckTimeout posts the deletion of the connections that are
\* dead. (One is kept of the repeats, which ~Connection clears.)
SetStates(s, conn) ==
    LET changed == {c \in s.listed : \/ conn[c].read # s.conn[c].read
                                     \/ conn[c].write # s.conn[c].write}
        dying   == {c \in changed : Dead(conn[c]) /\ DELETE(c) \notin ToSet(s.queue)}
        adopted == {c \in changed : /\ role = "controlled" /\ c = s.pending
                                    /\ conn[c].write = "WRITABLE"}
    IN  [s EXCEPT
           !.conn    = conn,
           !.best    = IF adopted = {} THEN @ ELSE s.pending,
           !.pending = IF adopted = {} THEN @ ELSE None,
           !.dirty   = @ \/ changed # {},
           !.queue   = @ \o (IF changed = {} \/ s.dirty THEN <<>> ELSE <<SORT>>)
                         \o SetToSeq({DELETE(c) : c \in dying})]

SetReadState(s, c, value) == SetStates(s, [s.conn EXCEPT ![c].read = value])
SetWriteState(s, c, value) == SetStates(s, [s.conn EXCEPT ![c].write = value])

\* The requests in flight are dropped, the pings that wait are not.
Prune(conn) ==
    IF conn.pruned THEN conn
    ELSE [conn EXCEPT !.pruned = TRUE, !.asked = FALSE, !.write = "TIMEOUT"]

\* In RFC 5245 mode only the writable side ages.
UpdateState(conn) ==
    [conn EXCEPT !.write =
       IF @ # "TIMEOUT" /\ conn.waited = 3 THEN "TIMEOUT"
       ELSE IF @ = "WRITABLE" /\ conn.waited = 2 THEN "UNRELIABLE" ELSE @]

\* UpdateConnectionStates: what it leaves of the connections.
UpdatedConnections(s) ==
    [c \in Paths |-> IF c \in s.listed THEN UpdateState(s.conn[c]) ELSE s.conn[c]]

-----------------------------------------------------------------------------
(* Choosing the connection                                                  *)

\* Of the local candidate a connection has now.
PriorityOf(s, c) == IF s.conn[c].prflx THEN PrflxPriority[c] ELSE Priority[c]

\* CompareConnections: write state first, then priority.
Better(s, a, b) ==
    \/ WriteRank[s.conn[a].write] < WriteRank[s.conn[b].write]
    \/ s.conn[a].write = s.conn[b].write /\ PriorityOf(s, a) > PriorityOf(s, b)

\* The first of a set of connections once they are sorted.
Top(s, S) ==
    IF S = {} THEN None ELSE CHOOSE c \in S : \A d \in S \ {c} : Better(s, c, d)

ShouldSwitch(s, a, b) == a # b /\ (a = None \/ b = None \/ Better(s, b, a))

GetBestConnectionOnNetwork(s, n) ==
    IF s.best # None /\ Network[s.best] = n THEN s.best
    ELSE Top(s, {c \in s.listed : Network[c] = n})

\* A connection that a writable one on the same network makes needless.
Redundant(s, c) ==
    /\ c \in s.listed
    /\ \E primier \in {GetBestConnectionOnNetwork(s, Network[c])} :
         /\ primier # c /\ IsWritable(s, primier)
         /\ PriorityOf(s, primier) >= PriorityOf(s, c)

PrunedConnections(s) ==
    [c \in Paths |-> IF Redundant(s, c) THEN Prune(s.conn[c]) ELSE s.conn[c]]

\* HandleWritable, or HandleNotWritable and HandleAllTimedOut, which do the same.
HandleWritability(s) ==
    IF IsWritable(s, s.best) THEN [s EXCEPT !.was_writable = TRUE, !.writable = TRUE]
    ELSE IF s.was_writable THEN [s EXCEPT !.was_writable = FALSE, !.writable = FALSE]
    ELSE s

UpdateChannelState(s) ==
    [s EXCEPT !.readable = \E c \in s.listed : s.conn[c].read = "READABLE"]

\* Only the controlling side chooses by itself.
Switch(s) ==
    LET top == Top(s, s.listed)
    IN  IF role = "controlling" /\ ShouldSwitch(s, s.best, top)
        THEN [s EXCEPT !.best = top] ELSE s

\* SortConnections, from the state s: each \E names what one part of it leaves.
SortConnections(s) ==
    \E updated \in {UpdatedConnections(s)} :
    \E current \in {[SetStates(s, updated) EXCEPT !.dirty = FALSE]} :
    \E chosen  \in {Switch(current)} :
    \E kept    \in {PrunedConnections(chosen)} :
    \E pruned  \in {SetStates(chosen, kept)} :
       ch' = UpdateChannelState(HandleWritability(pruned))

-----------------------------------------------------------------------------
(* Connections come and go                                                  *)

\* A packet, a timer or a call from the transport is served while few messages
\* wait: the thread empties its queue before it looks at its sockets again,
\* but then serves every socket that is ready.
Idle == Len(ch.queue) < MaxBacklog

\* Mutant: what leaves the list stays in the order of the pings.
BugWithout(turn, c) == turn

\* The order of the pings when c leaves it.
Without(turn, c) ==
    IF \E i \in DOMAIN turn : turn[i] = c
    THEN RemoveAt(turn, CHOOSE i \in DOMAIN turn : turn[i] = c) ELSE turn

AddConnections(s, new) ==
    [s EXCEPT !.listed = @ \cup new,
              !.conn = [c \in Paths |-> IF c \in new THEN NewConnection ELSE @[c]]]

\* A candidate is signalled: it makes a connection at every port, or a new port
\* does with every candidate, and then they are sorted, once. What is signalled
\* again, or has a connection, makes no other.
OnCandidate(paths) ==
    /\ Idle /\ paths # {}
    /\ remembered' = remembered \cup paths
    /\ SortConnections(AddConnections(ch, paths \ (remembered \cup ch.listed)))
    /\ UNCHANGED <<role, switched, revivals>>

\* A check from an address without a connection, of a peer whose user name is
\* known from a candidate: it makes the connection, whose deletion may be how
\* the address became unknown. The nomination in it goes unheeded.
OnUnknownAddress(c) ==
    /\ Idle /\ remembered # {} /\ c \notin ch.listed
    /\ revivals < MaxRevivals /\ revivals' = revivals + 1
    /\ SortConnections(SetReadState(AddConnections(ch, {c}), c, "READABLE"))
    /\ UNCHANGED <<role, switched, remembered>>

\* Mutant: the pending connection is forgotten only if it is the best one.
BugOnConnectionDestroyed(s, c) ==
    LET gone == [s EXCEPT !.listed = @ \ {c}, !.conn[c] = NewConnection,
                          !.turn = Without(@, c)]
    IN  IF gone.best = c THEN RequestSort([gone EXCEPT !.best = None, !.pending = None]) ELSE gone

\* MSG_DELETE: Connection::OnMessage and P2PTransportChannel::OnConnectionDestroyed.
OnConnectionDestroyed(s, c) ==
    LET gone == [s EXCEPT !.listed = @ \ {c}, !.conn[c] = NewConnection,
                          !.turn = Without(@, c),
                          !.pending = IF @ = c THEN None ELSE @]
    IN  IF gone.best = c THEN RequestSort([gone EXCEPT !.best = None]) ELSE gone

OnMessage ==
    /\ ch.queue # <<>>
    /\ LET rest == [ch EXCEPT !.queue = Tail(@)]
       IN  \/ Head(ch.queue) = SORT /\ SortConnections(rest)
           \/ \E c \in Paths :
                Head(ch.queue) = DELETE(c) /\ ch' = OnConnectionDestroyed(rest, c)
    /\ UNCHANGED <<role, switched, remembered, revivals>>

\* The session resolves a role conflict: SetIceRole.
SetIceRole ==
    /\ Idle /\ ~switched
    /\ switched' = TRUE
    /\ role' = IF role = "controlling" THEN "controlled" ELSE "controlling"
    /\ UNCHANGED <<ch, remembered, revivals>>

-----------------------------------------------------------------------------
(* Checks                                                                   *)

\* Mutant: a connection that timed out is left alone even when nothing works.
BugIsPingable(s, c) == s.conn[c].write # "TIMEOUT"

IsPingable(s, c) ==
    \/ s.conn[c].write # "TIMEOUT"
    \/ ~s.writable /\ s.conn[c].read # "TIMEOUT"

Ping(s, c) ==
    [s EXCEPT !.conn[c].asked = TRUE,
              !.conn[c].waited = IF @ = 0 THEN 1 ELSE @,
              !.turn = Append(Without(@, c), c)]

\* d was pinged longer ago than c, or never.
PingedBefore(turn, d, c) ==
    \E i \in DOMAIN turn :
      turn[i] = c /\ (d \notin ToSet(turn) \/ \E j \in 1 .. (i - 1) : turn[j] = d)

\* MSG_PING: a connection pinged longest ago, or the best one when it is
\* writable and was not pinged for MAX_CURRENT_WRITABLE_DELAY, which is more
\* than the delay between two pings.
OnPing ==
    /\ \E updated \in {UpdatedConnections(ch)} : \E s \in {SetStates(ch, updated)} :
         \/ IsWritable(s, s.best) /\ Last(s.turn) # s.best /\ ch' = Ping(s, s.best)
         \/ \E c \in s.listed :
              /\ IsPingable(s, c)
              /\ \A d \in s.listed : PingedBefore(s.turn, d, c) => ~IsPingable(s, d)
              /\ ch' = Ping(s, c)
         \/ (\A c \in s.listed : ~IsPingable(s, c)) /\ ch' = s
    /\ UNCHANGED <<role, switched, remembered, revivals>>

\* Mutant: the switch is not followed by a sort.
BugOnUseCandidate(s, c) ==
    IF s.conn[c].write # "WRITABLE" THEN [s EXCEPT !.pending = c]
    ELSE IF s.best # c THEN [s EXCEPT !.best = c, !.pending = None]
    ELSE s

\* The peer's check arrives, with USE-CANDIDATE or without.
OnUseCandidate(s, c) ==
    IF s.conn[c].write # "WRITABLE" THEN [s EXCEPT !.pending = c]
    ELSE IF s.best # c THEN RequestSort([s EXCEPT !.best = c, !.pending = None])
    ELSE s

RestartChecks(s, c) ==
    IF ~s.conn[c].pruned /\ s.conn[c].write = "TIMEOUT"
    THEN SetWriteState(s, c, "INIT") ELSE s

OnBindingRequest(c, use_candidate) ==
    /\ Idle /\ c \in ch.listed
    /\ \E s \in {RestartChecks(SetReadState(ch, c, "READABLE"), c)} :
         ch' = IF role = "controlled" /\ use_candidate THEN OnUseCandidate(s, c) ELSE s
    /\ UNCHANGED <<role, switched, remembered, revivals>>

\* Data on a readable connection.
OnData(c) ==
    /\ Idle /\ c \in ch.listed /\ ch.conn[c].read = "READABLE"
    /\ ch' = RestartChecks(ch, c)
    /\ UNCHANGED <<role, switched, remembered, revivals>>

\* MaybeAddPrflxCandidate: the peer saw an address the port does not know, and
\* the connection changes its local candidate, and so its priority.
AddPrflxCandidate(s, c) == RequestSort([s EXCEPT !.conn[c].prflx = TRUE])

\* The answer to a check in flight. Answers to older checks say nothing new.
OnBindingResponse(c) ==
    /\ Idle /\ c \in ch.listed /\ ch.conn[c].asked
    /\ \E s \in {[SetWriteState(ch, c, "WRITABLE")
                   EXCEPT !.conn[c].waited = 0, !.conn[c].asked = FALSE]} :
         \/ ch' = s
         \/ c \in Natted /\ ~s.conn[c].prflx /\ ch' = AddPrflxCandidate(s, c)
    /\ UNCHANGED <<role, switched, remembered, revivals>>

\* An error nothing recovers from kills the connection.
OnBindingErrorResponse(c) ==
    /\ Idle /\ c \in ch.listed \ Good /\ ch.conn[c].asked
    /\ \E more \in BOOLEAN :
         ch' = [SetWriteState(ch, c, "TIMEOUT") EXCEPT !.conn[c].asked = more]
    /\ UNCHANGED <<role, switched, remembered, revivals>>

\* The last check in flight is forgotten: it times out, or its answer is an
\* error worth a retry.
OnRequestTimeout(c) ==
    /\ c \in ch.listed \ Good /\ ch.conn[c].asked
    /\ ch' = [ch EXCEPT !.conn[c].asked = FALSE]
    /\ UNCHANGED <<role, switched, remembered, revivals>>

\* A ping waits on, without an answer.
Wait(c) ==
    /\ c \in ch.listed /\ ch.conn[c].waited \in {1, 2}
    /\ c \notin Good \/ ~ch.conn[c].asked
    /\ ch' = [ch EXCEPT !.conn[c].waited = @ + 1]
    /\ UNCHANGED <<role, switched, remembered, revivals>>

Next ==
    \/ OnMessage \/ OnPing \/ SetIceRole
    \/ \E paths \in SUBSET Paths : OnCandidate(paths)
    \/ \E c \in Paths :
         \/ OnUnknownAddress(c)
         \/ OnBindingRequest(c, TRUE) \/ OnBindingRequest(c, FALSE) \/ OnData(c)
         \/ OnBindingResponse(c) \/ OnBindingErrorResponse(c)
         \/ OnRequestTimeout(c) \/ Wait(c)

Spec == Init /\ [][Next]_vars

\* The worker thread serves its messages and its ping timer; on a path that
\* works the peer checks, nominates and answers again and again.
Fairness ==
    /\ WF_vars(OnMessage) /\ WF_vars(OnPing)
    /\ \A c \in Good : /\ SF_vars(OnBindingResponse(c))
                       /\ SF_vars(OnBindingRequest(c, TRUE))

FairSpec == Spec /\ Fairness

-----------------------------------------------------------------------------
(* Properties                                                               *)

SortWaits == SORT \in ToSet(ch.queue)

\* best_connection_ and pending_best_connection_ are raw pointers to objects
\* that delete themselves from a posted message: whatever comes between the
\* post and the deletion (a nomination, a check, a sort), neither points to a
\* connection that is gone.
NoDanglingPointer == {ch.best, ch.pending} \subseteq ch.listed \cup {None}

\* What the channel last told its owner is true unless a sort is on its way:
\* it is writable if and only if its best connection is (the ASSERT of
\* UpdateChannelState), and readable if some connection is. The converse of
\* the latter fails: a connection that becomes readable between the sort and
\* the deletion it waits for takes its readability with it, unnoticed.
ChannelStateCurrent ==
    ~SortWaits => /\ ch.writable = IsWritable(ch, ch.best)
                  /\ (\E c \in ch.listed : ch.conn[c].read = "READABLE") => ch.readable

Usable == Good \cap ch.listed

\* A controlled channel uses what its peer nominates, working or not.
Misled == role = "controlled" /\ {ch.best, ch.pending} \ (Good \cup {None}) # {}

\* A channel that is not writable while it has a connection on a path that
\* works becomes writable again, though that connection may have been pruned
\* when another one was better, and may have timed out: IsPingable "needs to
\* try everything that might work".
Recovers == (~ch.writable /\ Usable # {}) ~> (ch.writable \/ Usable = {} \/ Misled)

=============================================================================
