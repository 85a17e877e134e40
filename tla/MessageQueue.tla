---------------------------- MODULE MessageQueue ----------------------------
(***************************************************************************)
(* rtc::MessageQueue (webrtc/base/messagequeue.{h,cc}): one consumer, the   *)
(* thread that runs Thread::ProcessMessages over the queue, and any number  *)
(* of other threads that Post, PostDelayed / PostAt, Dispose, Clear and     *)
(* Quit.                                                                    *)
(*                                                                          *)
(* A message is an element of Msgs and is used at most once. `where' says   *)
(* which container holds it: msgq_ ("ready"), dmsgq_ ("delayed"), msgPeek_  *)
(* ("peek"), the consumer's local Message ("hand"), or none of them.        *)
(* msgq_ is a std::list that is only pushed at the back, popped at the      *)
(* front and filtered, so it is the set of ready messages ordered by        *)
(* `stamp', the number of the push_back that inserted them.                 *)
(*                                                                          *)
(* The mutex crit_ is held across several steps only by the consumer's      *)
(* scan of dmsgq_; every other critical section is one step, guarded by     *)
(* CritFree. What the code does outside crit_ (the tests of fStop_, Quit,   *)
(* the socket server's Wait) is a step of its own.                          *)
(***************************************************************************)
EXTENDS Integers

CONSTANTS
    Msgs,        \* the messages
    Handlers,    \* the MessageHandlers
    Posters,     \* the threads that are not the consumer
    Handler,     \* Handler[m]: the phandler of m, or the object m disposes of
    Disposals,   \* the messages posted by Dispose: MQID_DISPOSE, phandler NULL
    Owner,       \* Owner[h]: the poster that uses handler h
    Offsets,     \* PostDelayed / PostAt: trigger time minus current time
    Waits,       \* the cmsWait arguments of Get
    Modulus,     \* 2^32: rtc::Time() is a uint32 of milliseconds
    StartTime,   \* clock value when the queue is created
    MaxTime,     \* bound: time stops here
    UsePeek,     \* does the consumer call Peek
    WaitMayFail, \* may SocketServer::Wait report an error
    MayQuit      \* do the posters call Quit

None == "none"
Forever == -1                      \* kForever

ASSUME HandlerAssumption == Handler \in [Msgs -> Handlers]
ASSUME OwnerAssumption == Owner \in [Handlers -> Posters]
ASSUME DisposalsAssumption == Disposals \subseteq Msgs
ASSUME OffsetsAssumption == Offsets \subseteq Int
ASSUME WaitsAssumption == Waits \subseteq Nat \cup {Forever}
ASSUME TimeAssumption ==
    StartTime \in Nat /\ MaxTime \in Nat /\ Modulus \in Nat \ {0}
ASSUME NoneAssumption == None \notin Msgs

VARIABLES
    where,       \* [Msgs -> container that holds the message]
    stamp,       \* [Msgs -> number of its push_back on msgq_, 0 before]
    nextStamp,
    due,         \* [Msgs -> trigger time of a delayed message, unwrapped]
    num,         \* [Msgs -> DelayedMessage::num_, -1 if it was not delayed]
    nextNum,     \* dmsgq_next_num_
    order,       \* history: [Msgs -> number of its Dispatch, 0 before]
    nextOrder,
    deleted,     \* history: the handlers that were deleted by Dispose
    fStop,       \* fStop_
    wake,        \* the socket server's wakeup event is signalled
    now,         \* unwrapped time in milliseconds
    ppc,         \* [Posters -> what the poster is in the middle of]
    cpc,         \* control point of the consumer
    hand,        \* the consumer's local Message
    peeking,     \* the consumer is in Peek, not in Get
    cmsWait, msStart, msCurrent, cmsDelayNext,   \* locals of Get
    waitUntil                                    \* end of the Wait in progress

queueVars == <<where, stamp, nextStamp, due, num, nextNum>>
historyVars == <<order, nextOrder, deleted>>
timeVars == <<cmsWait, msStart, msCurrent, cmsDelayNext, waitUntil>>
getVars == <<hand, peeking, timeVars>>
vars == <<queueVars, historyVars, fStop, wake, now, ppc, cpc, getVars>>

Places == {"new", "ready", "delayed", "peek", "hand", "done", "cleared",
           "disposed", "dropped"}
PosterStates ==
    [op : {"idle", "push", "delay", "quit"}, m : Msgs \cup {None}, t : Int]
Idle == [op |-> "idle", m |-> None, t |-> 0]
ConsumerPoints == {"idle", "copyPeek", "top", "scan", "pull", "got", "stop",
                   "wait", "woke", "dispatch", "exited", "destroyed"}

FlagsOK == fStop \in BOOLEAN /\ wake \in BOOLEAN /\ peeking \in BOOLEAN

DataOK ==
    /\ where \in [Msgs -> Places]
    /\ stamp \in [Msgs -> Nat] /\ nextStamp \in Nat \ {0}
    /\ due \in [Msgs -> Int]
    /\ num \in [Msgs -> Int] /\ nextNum \in Nat
    /\ order \in [Msgs -> Nat] /\ nextOrder \in Nat \ {0}
    /\ deleted \subseteq Handlers
    /\ now \in Nat
    /\ ppc \in [Posters -> PosterStates]
    /\ cpc \in ConsumerPoints
    /\ hand \in Msgs \cup {None}
    /\ cmsWait \in Nat \cup {Forever}
    /\ msStart \in Nat /\ msCurrent \in Nat
    /\ cmsDelayNext \in Int
    /\ waitUntil \in Int

TypeOK == FlagsOK /\ DataOK

(***************************************************************************)
(* Time (timeutils.cc): uint32 clock values and their comparison.           *)
(***************************************************************************)
Clock(t) == t % Modulus

\* TimeDiff(later, earlier): int32 difference of two uint32 values.
TimeDiff(later, earlier) ==
    LET d == (later - earlier) % Modulus
    IN  IF 2 * d < Modulus THEN d ELSE d - Modulus

TimeIsLater(earlier, later) == TimeDiff(later, earlier) > 0

(***************************************************************************)
(* The containers.                                                          *)
(***************************************************************************)
Ready == {m \in Msgs : where[m] = "ready"}
Delayed == {m \in Msgs : where[m] = "delayed"}
Peeked == {m \in Msgs : where[m] = "peek"}

\* Mutant: the newest message is taken first.
BugIsFront(m) == m \in Ready /\ \A n \in Ready : stamp[m] >= stamp[n]

IsFront(m) == m \in Ready /\ \A n \in Ready : stamp[m] <= stamp[n]

\* Mutant: of two equal trigger times the later post comes first.
BugSooner(m, n) ==
    \/ Clock(due[m]) < Clock(due[n])
    \/ Clock(due[m]) = Clock(due[n]) /\ num[m] > num[n]

\* DelayedMessage::operator< : the uint32 trigger times are compared as plain
\* numbers, ties by num_.
Sooner(m, n) ==
    \/ Clock(due[m]) < Clock(due[n])
    \/ Clock(due[m]) = Clock(due[n]) /\ num[m] < num[n]
IsTop(m) == m \in Delayed /\ \A n \in Delayed \ {m} : Sooner(m, n)

Init ==
    /\ where = [m \in Msgs |-> "new"]
    /\ stamp = [m \in Msgs |-> 0] /\ nextStamp = 1
    /\ due = [m \in Msgs |-> 0]
    /\ num = [m \in Msgs |-> -1] /\ nextNum = 0
    /\ order = [m \in Msgs |-> 0] /\ nextOrder = 1
    /\ deleted = {}
    /\ fStop = FALSE /\ wake = FALSE
    /\ now = StartTime
    /\ ppc = [p \in Posters |-> Idle]
    /\ cpc = "idle" /\ hand = None /\ peeking = FALSE
    /\ cmsWait = Forever /\ msStart = 0 /\ msCurrent = 0
    /\ cmsDelayNext = Forever
    /\ waitUntil = Forever

-----------------------------------------------------------------------------
(***************************************************************************)
(* The posters. A poster owns its handlers: it stops using a handler once   *)
(* it has asked for its disposal.                                           *)
(***************************************************************************)
CritFree == cpc # "scan"
QueueExists == cpc # "destroyed"

MayUse(p, m) ==
    /\ QueueExists
    /\ where[m] = "new" /\ Owner[Handler[m]] = p
    /\ \A d \in Disposals : Handler[d] = Handler[m] => where[d] = "new"

\* The test of fStop_ at the head of Post and DoDelayPost is made without
\* crit_; the push follows in a step of its own.
BeginPost(p, m) ==
    /\ ppc[p] = Idle /\ MayUse(p, m)
    /\ IF fStop
       THEN where' = [where EXCEPT ![m] = "dropped"] /\ UNCHANGED ppc
       ELSE ppc' = [ppc EXCEPT ![p] = [op |-> "push", m |-> m, t |-> 0]]
            /\ UNCHANGED where
    /\ UNCHANGED <<stamp, nextStamp, due, num, nextNum, historyVars, fStop,
                   wake, now, cpc, getVars>>

\* Mutant: push_front.
BugPushBack(m) ==
    /\ where' = [where EXCEPT ![m] = "ready"]
    /\ stamp' = [stamp EXCEPT ![m] = nextStamp]
    /\ nextStamp' = nextStamp - 1

\* msgq_.push_back.
PushBack(m) ==
    /\ where' = [where EXCEPT ![m] = "ready"]
    /\ stamp' = [stamp EXCEPT ![m] = nextStamp]
    /\ nextStamp' = nextStamp + 1

\* Mutant: the signal is forgotten.
BugWakeUp == UNCHANGED wake

\* SocketServer::WakeUp: the event stays signalled until a Wait resets it.
WakeUp == wake' = TRUE

Post(p) ==
    /\ ppc[p].op = "push" /\ CritFree
    /\ PushBack(ppc[p].m)
    /\ WakeUp
    /\ ppc' = [ppc EXCEPT ![p] = Idle]
    /\ UNCHANGED <<due, num, nextNum, historyVars, fStop, now, cpc, getVars>>

\* The trigger time is computed by the caller, before fStop_ is tested.
BeginDelayPost(p, m, o) ==
    /\ ppc[p] = Idle /\ MayUse(p, m) /\ m \notin Disposals
    /\ now + o <= MaxTime
    /\ IF fStop
       THEN where' = [where EXCEPT ![m] = "dropped"] /\ UNCHANGED ppc
       ELSE ppc' = [ppc EXCEPT ![p] = [op |-> "delay", m |-> m, t |-> now + o]]
            /\ UNCHANGED where
    /\ UNCHANGED <<stamp, nextStamp, due, num, nextNum, historyVars, fStop,
                   wake, now, cpc, getVars>>

DoDelayPost(p) ==
    LET m == ppc[p].m IN
    /\ ppc[p].op = "delay" /\ CritFree
    /\ where' = [where EXCEPT ![m] = "delayed"]
    /\ due' = [due EXCEPT ![m] = ppc[p].t]
    /\ num' = [num EXCEPT ![m] = nextNum]
    /\ nextNum' = nextNum + 1
    /\ WakeUp
    /\ ppc' = [ppc EXCEPT ![p] = Idle]
    /\ UNCHANGED <<stamp, nextStamp, historyVars, fStop, now, cpc, getVars>>

\* Quit sets fStop_ and wakes the consumer, without crit_.
Quit(p) ==
    /\ MayQuit /\ ppc[p] = Idle /\ ~fStop
    /\ fStop' = TRUE
    /\ ppc' = [ppc EXCEPT ![p] = [op |-> "quit", m |-> None, t |-> 0]]
    /\ UNCHANGED <<queueVars, historyVars, wake, now, cpc, getVars>>

\* Mutant: Quit does not wake the consumer.
BugQuitWakeUp(p) ==
    /\ ppc[p].op = "quit"
    /\ ppc' = [ppc EXCEPT ![p] = Idle]
    /\ UNCHANGED <<queueVars, historyVars, fStop, wake, now, cpc, getVars>>

QuitWakeUp(p) ==
    /\ ppc[p].op = "quit"
    /\ WakeUp
    /\ ppc' = [ppc EXCEPT ![p] = Idle]
    /\ UNCHANGED <<queueVars, historyVars, fStop, now, cpc, getVars>>

\* Message::Match(phandler, MQID_ANY): a disposal has phandler NULL.
Match(m, h) == m \notin Disposals /\ Handler[m] = h

\* Mutant: the delayed messages are forgotten.
BugCleared(h) ==
    [m \in Msgs |-> IF Match(m, h) /\ where[m] \in {"peek", "ready"}
                    THEN "cleared" ELSE where[m]]

Cleared(h) ==
    [m \in Msgs |-> IF Match(m, h) /\ where[m] \in {"peek", "ready", "delayed"}
                    THEN "cleared" ELSE where[m]]

Clear(p, h) ==
    /\ ppc[p] = Idle /\ Owner[h] = p /\ QueueExists /\ CritFree
    /\ where' = Cleared(h)
    /\ UNCHANGED <<stamp, nextStamp, due, num, nextNum, historyVars, fStop,
                   wake, now, ppc, cpc, getVars>>

-----------------------------------------------------------------------------
(***************************************************************************)
(* The consumer: Get / Peek and Dispatch.                                   *)
(***************************************************************************)
\* The locals of Get go out of scope when it returns.
LeaveGet ==
    /\ cmsWait' = Forever /\ msStart' = 0 /\ msCurrent' = 0
    /\ cmsDelayNext' = Forever /\ waitUntil' = Forever

BeginGet(w, peek) ==
    /\ cpc = "idle" /\ (peek => UsePeek)
    /\ peeking' = peek
    /\ \/ /\ Peeked = {}
          /\ cpc' = "top"
          /\ cmsWait' = w /\ msStart' = now /\ msCurrent' = now
          /\ UNCHANGED hand
       \/ \E m \in Peeked :
             /\ hand' = m
             /\ cpc' = IF peek THEN "idle" ELSE "copyPeek"
             /\ UNCHANGED <<cmsWait, msStart, msCurrent>>
    /\ UNCHANGED <<queueVars, historyVars, fStop, wake, now, ppc, cmsDelayNext,
                   waitUntil>>

\* Get has copied msgPeek_ without crit_; a Clear may come before it resets
\* fPeekKeep_.
TakePeek ==
    /\ cpc = "copyPeek"
    /\ where' = [m \in Msgs |-> IF where[m] = "peek" THEN "hand" ELSE where[m]]
    /\ cpc' = "dispatch"
    /\ UNCHANGED <<stamp, nextStamp, due, num, nextNum, historyVars, fStop,
                   wake, now, ppc, getVars>>

\* The outer loop: ReceiveSends, which MessageQueue leaves empty, then crit_.
BeginScan ==
    /\ cpc = "top"
    /\ cpc' = "scan" /\ cmsDelayNext' = Forever
    /\ UNCHANGED <<queueVars, historyVars, fStop, wake, now, ppc, hand,
                   peeking, cmsWait, msStart, msCurrent, waitUntil>>

Expired(m) == ~TimeIsLater(Clock(msCurrent), Clock(due[m]))

MoveTriggered(m) ==
    /\ cpc = "scan" /\ IsTop(m) /\ Expired(m)
    /\ PushBack(m)
    /\ UNCHANGED <<due, num, nextNum, historyVars, fStop, wake, now, ppc, cpc,
                   getVars>>

\* Pull a message off msgq_, if one is available.
PullFront ==
    \/ /\ Ready = {}
       /\ cpc' = "stop" /\ UNCHANGED <<where, hand>>
    \/ \E m \in Ready :
          /\ IsFront(m)
          /\ where' = [where EXCEPT ![m] = "hand"]
          /\ hand' = m /\ cpc' = "got"

EndScan ==
    /\ cpc = "scan"
    /\ \/ Delayed = {} /\ UNCHANGED cmsDelayNext
       \/ \E m \in Delayed :
             /\ IsTop(m) /\ ~Expired(m)
             /\ cmsDelayNext' = TimeDiff(Clock(due[m]), Clock(msCurrent))
    /\ PullFront
    /\ UNCHANGED <<stamp, nextStamp, due, num, nextNum, historyVars, fStop,
                   wake, now, ppc, peeking, cmsWait, msStart, msCurrent,
                   waitUntil>>

\* The passes after a disposal.
PullAgain ==
    /\ cpc = "pull"
    /\ PullFront
    /\ UNCHANGED <<stamp, nextStamp, due, num, nextNum, historyVars, fStop,
                   wake, now, ppc, peeking, timeVars>>

\* Deleting the handler runs ~MessageHandler, which clears its messages from
\* every queue.
DisposeOf ==
    /\ cpc = "got" /\ hand \in Disposals
    /\ where' = [Cleared(Handler[hand]) EXCEPT ![hand] = "disposed"]
    /\ deleted' = deleted \cup {Handler[hand]}
    /\ hand' = None /\ cpc' = "pull"
    /\ UNCHANGED <<stamp, nextStamp, due, num, nextNum, order, nextOrder,
                   fStop, wake, now, ppc, peeking, timeVars>>

GetReturnsTrue ==
    /\ cpc = "got" /\ hand \notin Disposals
    /\ IF peeking
       THEN where' = [where EXCEPT ![hand] = "peek"] /\ cpc' = "idle"
       ELSE UNCHANGED where /\ cpc' = "dispatch"
    /\ LeaveGet
    /\ UNCHANGED <<stamp, nextStamp, due, num, nextNum, historyVars, fStop,
                   wake, now, ppc, hand, peeking>>

Dispatch ==
    /\ cpc = "dispatch"
    /\ where' = [where EXCEPT ![hand] = "done"]
    /\ order' = [order EXCEPT ![hand] = nextOrder]
    /\ nextOrder' = nextOrder + 1
    /\ cpc' = "idle" /\ hand' = None
    /\ UNCHANGED <<stamp, nextStamp, due, num, nextNum, deleted, fStop, wake,
                   now, ppc, peeking, timeVars>>

\* fStop_ is tested without crit_: Get gives up even if a message was posted
\* after the queue was found empty.
GetStops ==
    /\ cpc = "stop" /\ fStop
    /\ cpc' = "exited"
    /\ LeaveGet
    /\ UNCHANGED <<queueVars, historyVars, fStop, wake, now, ppc, hand, peeking>>

\* Mutant: only the asked wait counts.
BugCmsNext ==
    IF cmsWait = Forever THEN Forever
    ELSE LET elapsed == TimeDiff(Clock(msCurrent), Clock(msStart))
         IN  IF cmsWait > elapsed THEN cmsWait - elapsed ELSE 0

\* How long to wait: the shorter of the next trigger and the asked wait.
CmsNext ==
    LET elapsed == TimeDiff(Clock(msCurrent), Clock(msStart))
        rest == IF cmsWait > elapsed THEN cmsWait - elapsed ELSE 0
    IN  IF cmsWait = Forever THEN cmsDelayNext
        ELSE IF cmsDelayNext # Forever /\ cmsDelayNext < rest THEN cmsDelayNext
        ELSE rest

BeginWait ==
    /\ cpc = "stop" /\ ~fStop
    /\ cpc' = "wait"
    /\ waitUntil' = IF CmsNext = Forever THEN Forever ELSE now + CmsNext
    /\ UNCHANGED <<queueVars, historyVars, fStop, wake, now, ppc, hand,
                   peeking, cmsWait, msStart, msCurrent, cmsDelayNext>>

\* SocketServer::Wait returns true when signalled, resetting the event, or
\* when the time is up.
EndWait ==
    /\ cpc = "wait"
    /\ \/ wake /\ wake' = FALSE
       \/ waitUntil # Forever /\ now >= waitUntil /\ UNCHANGED wake
    /\ cpc' = "woke"
    /\ UNCHANGED <<queueVars, historyVars, fStop, now, ppc, getVars>>

WaitFails ==
    /\ WaitMayFail /\ cpc = "wait"
    /\ cpc' = "exited"
    /\ LeaveGet
    /\ UNCHANGED <<queueVars, historyVars, fStop, wake, now, ppc, hand, peeking>>

TimeIsUp ==
    cmsWait # Forever /\ TimeDiff(Clock(now), Clock(msStart)) >= cmsWait

AfterWait ==
    /\ cpc = "woke"
    /\ \/ TimeIsUp /\ cpc' = "idle" /\ LeaveGet
       \/ /\ ~TimeIsUp
          /\ cpc' = "top" /\ msCurrent' = now
          /\ UNCHANGED <<cmsWait, msStart, cmsDelayNext, waitUntil>>
    /\ UNCHANGED <<queueVars, historyVars, fStop, wake, now, ppc, hand, peeking>>

-----------------------------------------------------------------------------
\* Thread::Start on a thread whose loop has ended resets fStop_.
Restart ==
    /\ cpc = "exited"
    /\ fStop' = FALSE /\ cpc' = "idle"
    /\ UNCHANGED <<queueVars, historyVars, wake, now, ppc, getVars>>

\* ~MessageQueue: Clear(NULL) matches every message, disposals included.
Destroy ==
    /\ cpc = "exited" /\ \A p \in Posters : ppc[p] = Idle
    /\ cpc' = "destroyed" /\ fStop' = TRUE
    /\ where' = [m \in Msgs |->
                   IF where[m] \in {"peek", "ready", "delayed"} THEN "cleared"
                   ELSE where[m]]
    /\ deleted' = deleted \cup {Handler[m] : m \in Ready \cap Disposals}
    /\ UNCHANGED <<stamp, nextStamp, due, num, nextNum, order, nextOrder,
                   wake, now, ppc, getVars>>

\* Time is bounded by MaxTime, except that it goes on while Get sleeps until
\* the trigger time of a delayed message.
Tick ==
    /\ now < MaxTime \/ (cmsWait = Forever /\ now < waitUntil)
    /\ now' = now + 1
    /\ UNCHANGED <<queueVars, historyVars, fStop, wake, ppc, cpc, getVars>>

Consumer ==
    \/ \E w \in Waits, peek \in BOOLEAN : BeginGet(w, peek)
    \/ TakePeek \/ BeginScan \/ EndScan \/ PullAgain \/ DisposeOf
    \/ \E m \in Msgs : MoveTriggered(m)
    \/ GetReturnsTrue \/ Dispatch \/ GetStops
    \/ BeginWait \/ EndWait \/ WaitFails \/ AfterWait

Poster(p) ==
    \/ \E m \in Msgs : BeginPost(p, m)
    \/ \E m \in Msgs, o \in Offsets : BeginDelayPost(p, m, o)
    \/ \E h \in Handlers : Clear(p, h)
    \/ Post(p) \/ DoDelayPost(p) \/ Quit(p) \/ QuitWakeUp(p)

Next ==
    \/ Consumer \/ Restart \/ Destroy \/ Tick
    \/ \E p \in Posters : Poster(p)

Spec == Init /\ [][Next]_vars

(***************************************************************************)
(* The operating system schedules the consumer and a poster that is inside  *)
(* a call, and time passes. Nothing obliges a poster to make another call.  *)
(***************************************************************************)
FairSpec ==
    /\ Spec
    /\ WF_vars(Consumer) /\ WF_vars(Tick)
    /\ \A p \in Posters : WF_vars(Post(p) \/ DoDelayPost(p) \/ QuitWakeUp(p))

-----------------------------------------------------------------------------
(***************************************************************************)
(* Properties.                                                              *)
(***************************************************************************)

\* No lost wakeup. A consumer that sleeps in SocketServer::Wait (Get tests the
\* queue under crit_ and fStop_ without it, and only then waits) has its
\* wakeup event signalled whenever a message is ready, whenever it would sleep
\* forever past a delayed message, and whenever Quit has set fStop_, unless
\* the quitting thread is just about to signal.
NoLostWakeup ==
    cpc = "wait" /\ ~wake =>
        /\ Ready = {}
        /\ Delayed # {} => waitUntil # Forever
        /\ fStop => \E p \in Posters : ppc[p].op = "quit"

\* Posted messages are dispatched in the order in which they were pushed on
\* msgq_: when a message has been dispatched, every message that was pushed
\* before it was dispatched before it, or was removed by Clear or Dispose.
DispatchInArrivalOrder ==
    \A m, n \in Msgs :
        /\ stamp[m] > 0 /\ stamp[m] < stamp[n] /\ order[n] > 0
        => \/ order[m] > 0 /\ order[m] < order[n]
           \/ where[m] \in {"cleared", "disposed"}

\* Delayed messages are dispatched by trigger time, first come first served
\* for equal times (DelayedMessage): one that was posted earlier and triggers
\* no later is never overtaken.
DelayedInTriggerOrder ==
    \A m, n \in Msgs :
        /\ num[m] >= 0 /\ num[m] < num[n]
        /\ due[m] <= due[n] /\ order[n] > 0
        => \/ order[m] > 0 /\ order[m] < order[n]
           \/ where[m] = "cleared"

\* Get does not oversleep: unless it has been woken, the time it sleeps is at
\* most what every delayed message still had to run when Get read the clock.
NoOversleep ==
    cpc = "wait" /\ ~wake =>
        \A m \in Delayed :
            CmsNext # Forever /\ CmsNext <= due[m] - msCurrent

\* Dispose is safe: the handler of a message about to be dispatched has not
\* been deleted, whichever container held the message when it was.
HandlerAliveAtDispatch ==
    cpc = "dispatch" => Handler[hand] \notin deleted

\* Every message accepted by Post or PostDelayed is in the end dispatched,
\* cleared or disposed of, unless the queue stops.
PostedIsServed ==
    \A m \in Msgs :
        where[m] \in {"ready", "delayed", "hand"}
            ~> where[m] \in {"done", "cleared", "disposed"} \/ fStop

\* After Quit, Get returns false: the thread's loop ends, so that Thread::Stop
\* can join it.
QuitEndsLoop ==
    fStop ~> cpc \in {"exited", "destroyed"}

-----------------------------------------------------------------------------
(***************************************************************************)
(* What the queue is to the threads that use it: a mailbox.                 *)
(***************************************************************************)
BoxOf(place) ==
    IF place \in {"ready", "peek", "hand"} THEN "in"
    ELSE IF place = "delayed" THEN "timed"
    ELSE IF place = "done" THEN "served"
    ELSE IF place \in {"cleared", "disposed"} THEN "gone"
    ELSE "out"

AsMailbox == INSTANCE Mailbox WITH
                 box <- [m \in Msgs |-> BoxOf(where[m])],
                 rank <- stamp, next <- nextStamp

\* As long as nobody calls Peek, the queue implements the mailbox: a message
\* that Post or PostDelayed accepted is served at most once and in the order of
\* arrival, and one that Clear or a disposal has removed never comes back.
ImplementsMailbox == AsMailbox!Spec
=============================================================================
