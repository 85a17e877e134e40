------------------------- MODULE MessageQueueProofs -------------------------
(***************************************************************************)
(* Proofs about MessageQueue for any number of messages, handlers and       *)
(* posting threads, any trigger times and any clock width.                  *)
(***************************************************************************)
EXTENDS MessageQueue, TLAPS

\* What a poster in the middle of a call holds: an unused message of a handler
\* it owns and whose disposal has not been asked for.
PosterOK ==
    \A p \in Posters :
        ppc[p].op \in {"push", "delay"} =>
            /\ ppc[p].m \in Msgs
            /\ where[ppc[p].m] = "new"
            /\ Owner[Handler[ppc[p].m]] = p
            /\ \A d \in Disposals :
                  Handler[d] = Handler[ppc[p].m] => where[d] = "new"

Holding == cpc \in {"copyPeek", "got", "dispatch"}

\* The message in the consumer's hand, and msgPeek_, which excludes it.
HandOK ==
    /\ Holding => hand \in Msgs /\ where[hand] # "new"
    /\ \A m \in Msgs : where[m] = "hand" => Holding /\ m = hand
    /\ \A m, n \in Peeked : m = n
    /\ Peeked # {} => cpc \in {"idle", "copyPeek"}
    /\ cpc = "copyPeek" => Peeked \subseteq {hand}
    /\ cmsDelayNext = Forever \/ cmsDelayNext > 0

BaseInv == DataOK /\ PosterOK /\ HandOK

USE HandlerAssumption, OwnerAssumption, DisposalsAssumption, OffsetsAssumption,
    WaitsAssumption, TimeAssumption, NoneAssumption

\* A clock value and the difference of two clock values are integers, whatever
\* the clock width.
LEMMA ClockType == \A a \in Int : Clock(a) \in Int
BY DEF Clock

\* TimeDiff is an integer for any clock width.
LEMMA TimeDiffType == \A a, b \in Int : TimeDiff(a, b) \in Int
BY DEF TimeDiff


\* The actions and what they are built from.
USE DEF Forever, None

\* Every step is a step of one of the actions. The quantifiers of Next are
\* taken apart once here.
LEMMA NextCases ==
    ASSUME Next
    PROVE  \/ \E w \in Waits, peek \in BOOLEAN : BeginGet(w, peek)
           \/ TakePeek \/ BeginScan \/ EndScan \/ PullAgain \/ DisposeOf
           \/ \E m \in Msgs : MoveTriggered(m)
           \/ GetReturnsTrue \/ Dispatch \/ GetStops
           \/ BeginWait \/ EndWait \/ WaitFails \/ AfterWait
           \/ Restart \/ Destroy \/ Tick
           \/ \E p \in Posters, m \in Msgs : BeginPost(p, m)
           \/ \E p \in Posters, m \in Msgs, o \in Offsets :
                 BeginDelayPost(p, m, o)
           \/ \E p \in Posters, h \in Handlers : Clear(p, h)
           \/ \E p \in Posters :
                 Post(p) \/ DoDelayPost(p) \/ Quit(p) \/ QuitWakeUp(p)
BY Zenon DEF Next, Consumer, Poster

\* What the scan of dmsgq_ leaves in cmsDelayNext.
LEMMA EndScanDelay ==
    ASSUME DataOK, EndScan
    PROVE  /\ cmsDelayNext' \in Int
           /\ (cmsDelayNext' = cmsDelayNext /\ Delayed = {}) \/ cmsDelayNext' > 0
<1>1. ASSUME NEW m \in Delayed
      PROVE  TimeDiff(Clock(due[m]), Clock(msCurrent)) \in Int
    <2>1. due[m] \in Int /\ msCurrent \in Int
        BY DEF Delayed, DataOK
    <2>2. Clock(due[m]) \in Int /\ Clock(msCurrent) \in Int
        BY <2>1, ClockType
    <2> QED
        BY <2>2, TimeDiffType
<1> QED
    BY <1>1 DEF EndScan, Expired, TimeIsLater, DataOK

\* The time Get asks to wait is not negative, unless it waits forever.
LEMMA CmsNextType ==
    ASSUME DataOK, cmsDelayNext = Forever \/ cmsDelayNext > 0
    PROVE  /\ CmsNext \in Nat \cup {Forever}
           /\ cmsDelayNext # Forever => CmsNext # Forever
<1>1. Clock(msCurrent) \in Int /\ Clock(msStart) \in Int
    BY ClockType DEF DataOK
<1>2. TimeDiff(Clock(msCurrent), Clock(msStart)) \in Int
    BY <1>1, TimeDiffType
<1> QED
    BY <1>2 DEF CmsNext, DataOK

\* A queue that has just been constructed satisfies the base invariant.
LEMMA InitBase == Init => BaseInv
<1> SUFFICES ASSUME Init PROVE BaseInv
    OBVIOUS
<1>1. DataOK
    BY DEF Init, DataOK, Places, PosterStates, Idle, ConsumerPoints
<1>2. PosterOK
    BY DEF Init, PosterOK, Idle
<1>3. HandOK
    BY DEF Init, HandOK, Holding, Peeked
<1> QED
    BY <1>1, <1>2, <1>3 DEF BaseInv

\* Every step preserves the base invariant: the types, what each poster holds
\* and what the consumer holds. One step per action.
LEMMA NextBase == BaseInv /\ [Next]_vars => BaseInv'
<1> SUFFICES ASSUME BaseInv, [Next]_vars PROVE BaseInv'
    OBVIOUS
<1> USE DEF BaseInv, DataOK, PosterOK, HandOK, Holding, Peeked, Places,
            PosterStates, Idle, ConsumerPoints
<1>1. CASE UNCHANGED vars
    BY <1>1 DEF vars, queueVars, historyVars, getVars, timeVars
<1>2. ASSUME NEW w \in Waits, NEW peek \in BOOLEAN, BeginGet(w, peek)
      PROVE  BaseInv'
    BY <1>2 DEF BeginGet, queueVars, historyVars
<1>3. CASE TakePeek
    BY <1>3 DEF TakePeek, historyVars, getVars, timeVars
<1>4. CASE BeginScan
    BY <1>4 DEF BeginScan, queueVars, historyVars
<1>5. CASE EndScan
    <2>1. cmsDelayNext' \in Int /\ (cmsDelayNext' = Forever \/ cmsDelayNext' > 0)
        BY <1>5, EndScanDelay
    <2> QED
        <3>1. CASE Ready = {}
            BY <1>5, <2>1, <3>1 DEF EndScan, PullFront, historyVars
        <3>2. ASSUME NEW m \in Ready, where' = [where EXCEPT ![m] = "hand"],
                     hand' = m, cpc' = "got"
              PROVE  BaseInv'
            BY <1>5, <2>1, <3>2 DEF EndScan, Ready, historyVars
        <3> QED
            BY <1>5, <3>1, <3>2 DEF EndScan, PullFront
<1>6. CASE PullAgain
    BY <1>6, SMTT(40) DEF PullAgain, PullFront, IsFront, Ready, historyVars, timeVars
<1>7. CASE DisposeOf
    <2>1. where' = [m \in Msgs |->
                      IF m = hand THEN "disposed"
                      ELSE IF Match(m, Handler[hand])
                              /\ where[m] \in {"peek", "ready", "delayed"}
                           THEN "cleared" ELSE where[m]]
        BY <1>7 DEF DisposeOf, Cleared
    <2>2. DataOK'
        <3>1. where' \in [Msgs -> Places]
            BY <2>1
        <3>2. deleted' \subseteq Handlers
            BY <1>7 DEF DisposeOf
        <3> QED
            BY <1>7, <3>1, <3>2 DEF DisposeOf, timeVars
    <2>3. PosterOK'
        BY <1>7, <2>1, SMTT(40) DEF DisposeOf
    <2>4. HandOK'
        BY <1>7, <2>1 DEF DisposeOf, timeVars
    <2> QED
        BY <2>2, <2>3, <2>4
<1>8. ASSUME NEW m \in Msgs, MoveTriggered(m) PROVE BaseInv'
    BY <1>8 DEF MoveTriggered, PushBack, IsTop, Delayed, historyVars, getVars,
                timeVars
<1>9. CASE GetReturnsTrue
    BY <1>9 DEF GetReturnsTrue, LeaveGet, historyVars
<1>10. CASE Dispatch
    BY <1>10 DEF Dispatch, timeVars
<1>11. CASE GetStops
    BY <1>11 DEF GetStops, LeaveGet, queueVars, historyVars
<1>12. CASE BeginWait
    <2>1. CmsNext \in Int
        BY CmsNextType
    <2> QED
        BY <1>12, <2>1 DEF BeginWait, queueVars, historyVars
<1>13. CASE EndWait
    BY <1>13 DEF EndWait, queueVars, historyVars, getVars, timeVars
<1>14. CASE WaitFails
    BY <1>14 DEF WaitFails, LeaveGet, queueVars, historyVars
<1>15. CASE AfterWait
    BY <1>15 DEF AfterWait, LeaveGet, queueVars, historyVars
<1>16. CASE Restart
    BY <1>16 DEF Restart, queueVars, historyVars, getVars, timeVars
<1>17. CASE Destroy
    BY <1>17 DEF Destroy, getVars, timeVars
<1>18. CASE Tick
    BY <1>18 DEF Tick, queueVars, historyVars, getVars, timeVars
<1>19. ASSUME NEW p \in Posters, NEW m \in Msgs, BeginPost(p, m) PROVE BaseInv'
    <2>1. DataOK'
        <3>1. where' \in [Msgs -> Places]
            BY <1>19 DEF BeginPost
        <3>2. ppc' \in [Posters -> PosterStates]
            BY <1>19 DEF BeginPost
        <3> QED
            BY <1>19, <3>1, <3>2 DEF BeginPost, historyVars, getVars, timeVars
    <2>2. PosterOK'
        <3>1. CASE fStop
            BY <1>19, <3>1 DEF BeginPost, MayUse
        <3>2. CASE ~fStop
            BY <1>19, <3>2, SMTT(40) DEF BeginPost, MayUse
        <3> QED
            BY <3>1, <3>2
    <2>3. HandOK'
        BY <1>19 DEF BeginPost, MayUse, getVars, timeVars
    <2> QED
        BY <2>1, <2>2, <2>3
<1>20. ASSUME NEW p \in Posters, NEW m \in Msgs, NEW o \in Offsets,
              BeginDelayPost(p, m, o)
       PROVE  BaseInv'
    <2>1. DataOK'
        <3>1. where' \in [Msgs -> Places]
            <4>1. \/ where' = [where EXCEPT ![m] = "dropped"]
                  \/ where' = where
                BY <1>20, Zenon DEF BeginDelayPost
            <4> QED
                BY <4>1, SMTT(40)
        <3>2. ppc' \in [Posters -> PosterStates]
            BY <1>20, SMTT(40) DEF BeginDelayPost
        <3> QED
            BY <1>20, <3>1, <3>2 DEF BeginDelayPost, historyVars, getVars, timeVars
    <2>2. PosterOK'
        <3>1. CASE fStop
            BY <1>20, <3>1 DEF BeginDelayPost, MayUse
        <3>2. CASE ~fStop
            BY <1>20, <3>2 DEF BeginDelayPost, MayUse
        <3> QED
            BY <3>1, <3>2
    <2>3. HandOK'
        BY <1>20 DEF BeginDelayPost, MayUse, getVars, timeVars
    <2> QED
        BY <2>1, <2>2, <2>3
<1>21. ASSUME NEW p \in Posters, NEW h \in Handlers, Clear(p, h) PROVE BaseInv'
    BY <1>21 DEF Clear, Cleared, Match, historyVars, getVars, timeVars
<1>22. ASSUME NEW p \in Posters, Post(p) PROVE BaseInv'
    BY <1>22 DEF Post, PushBack, WakeUp, historyVars, getVars, timeVars
<1>23. ASSUME NEW p \in Posters, DoDelayPost(p) PROVE BaseInv'
    BY <1>23 DEF DoDelayPost, WakeUp, historyVars, getVars, timeVars
<1>24. ASSUME NEW p \in Posters, Quit(p) PROVE BaseInv'
    BY <1>24 DEF Quit, queueVars, historyVars, getVars, timeVars
<1>25. ASSUME NEW p \in Posters, QuitWakeUp(p) PROVE BaseInv'
    BY <1>25 DEF QuitWakeUp, WakeUp, queueVars, historyVars, getVars, timeVars
<1> HIDE DEF BaseInv, DataOK, PosterOK, HandOK, Holding, Peeked, Places,
             PosterStates, Idle, ConsumerPoints
<1> QED
    BY NextCases, <1>1, <1>2, <1>3, <1>4, <1>5, <1>6, <1>7, <1>8, <1>9, <1>10,
       <1>11, <1>12, <1>13, <1>14, <1>15, <1>16, <1>17, <1>18, <1>19, <1>20,
       <1>21, <1>22, <1>23, <1>24, <1>25

\* The three flags stay Boolean.
LEMMA FlagsInvariant == FlagsOK /\ [Next]_vars => FlagsOK'
<1> SUFFICES ASSUME FlagsOK, [Next]_vars PROVE FlagsOK'
    OBVIOUS
<1>1. fStop' \in BOOLEAN
    <2>1. fStop' = fStop \/ fStop' = TRUE \/ fStop' = FALSE
        BY NextCases, Zenon
        DEF vars, queueVars, historyVars, getVars, timeVars, BeginGet, TakePeek,
            BeginScan, EndScan, PullAgain, DisposeOf, MoveTriggered,
            GetReturnsTrue, Dispatch, GetStops, BeginWait, EndWait, WaitFails,
            AfterWait, Restart, Destroy, Tick, BeginPost, BeginDelayPost, Clear,
            Post, DoDelayPost, Quit, QuitWakeUp
    <2> QED
        BY <2>1, Zenon DEF FlagsOK
<1>2. wake' \in BOOLEAN
    <2>1. wake' = wake \/ wake' = TRUE \/ wake' = FALSE
        BY NextCases, Zenon
        DEF vars, queueVars, historyVars, getVars, timeVars, BeginGet, TakePeek,
            BeginScan, EndScan, PullAgain, DisposeOf, MoveTriggered,
            GetReturnsTrue, Dispatch, GetStops, BeginWait, EndWait, WaitFails,
            AfterWait, Restart, Destroy, Tick, BeginPost, BeginDelayPost, Clear,
            Post, DoDelayPost, Quit, QuitWakeUp, WakeUp
    <2> QED
        BY <2>1, Zenon DEF FlagsOK
<1>3. peeking' \in BOOLEAN
    <2>1. peeking' = peeking \/ \E peek \in BOOLEAN : peeking' = peek
        BY NextCases, Zenon
        DEF vars, queueVars, historyVars, getVars, timeVars, BeginGet, TakePeek,
            BeginScan, EndScan, PullAgain, DisposeOf, MoveTriggered,
            GetReturnsTrue, Dispatch, GetStops, BeginWait, EndWait, WaitFails,
            AfterWait, Restart, Destroy, Tick, BeginPost, BeginDelayPost, Clear,
            Post, DoDelayPost, Quit, QuitWakeUp
    <2> QED
        BY <2>1, Zenon DEF FlagsOK
<1> QED
    BY <1>1, <1>2, <1>3, Zenon DEF FlagsOK

\* Type correctness of the queue, for every value of the constants, with what
\* a poster and the consumer hold in the middle of a call.
THEOREM TypeCorrect == Spec => [](TypeOK /\ BaseInv)
<1>1. Init => FlagsOK /\ BaseInv
    <2>1. Init => FlagsOK
        BY Zenon DEF Init, FlagsOK
    <2> QED
        BY <2>1, InitBase, Zenon
<1>2. FlagsOK /\ BaseInv /\ [Next]_vars => (FlagsOK /\ BaseInv)'
    BY FlagsInvariant, NextBase, Zenon
<1>3. FlagsOK /\ BaseInv => TypeOK /\ BaseInv
    BY Zenon DEF TypeOK, BaseInv
<1> QED
    BY <1>1, <1>2, <1>3, PTL DEF Spec

-----------------------------------------------------------------------------
(***************************************************************************)
(* No lost wakeup. NoLostWakeup speaks of the consumer asleep in Wait; it   *)
(* is inductive once it also covers the points between the end of the       *)
(* critical section and Wait, where messages and Quit may slip in: whoever  *)
(* slips in leaves the event signalled, and nothing resets it before Wait.  *)
(***************************************************************************)
WakeInv ==
    /\ cpc \in {"stop", "wait"} /\ ~wake => Ready = {}
    /\ cpc \in {"got", "pull", "stop", "wait"} /\ ~wake /\ Delayed # {} =>
          cmsDelayNext # Forever
    /\ cpc = "wait" /\ cmsDelayNext # Forever => waitUntil # Forever
    /\ cpc = "wait" /\ ~wake /\ fStop => \E p \in Posters : ppc[p].op = "quit"

\* Every step preserves the wakeup invariant. One step per action.
LEMMA NextWake == BaseInv /\ WakeInv /\ [Next]_vars => WakeInv'
<1> SUFFICES ASSUME BaseInv, WakeInv, [Next]_vars PROVE WakeInv'
    OBVIOUS
<1> USE DEF BaseInv, DataOK, WakeInv, Ready, Delayed, HandOK, PosterOK, Idle
<1>1. CASE UNCHANGED vars
    BY <1>1 DEF vars, queueVars, historyVars, getVars, timeVars
<1>2. ASSUME NEW w \in Waits, NEW peek \in BOOLEAN, BeginGet(w, peek)
      PROVE  WakeInv'
    BY <1>2 DEF BeginGet, queueVars, historyVars
<1>3. CASE TakePeek
    BY <1>3 DEF TakePeek, historyVars, getVars, timeVars
<1>4. CASE BeginScan
    BY <1>4 DEF BeginScan, queueVars, historyVars
<1>5. CASE EndScan
    <2>1. cmsDelayNext' = Forever => Delayed = {}
        BY <1>5, EndScanDelay
    <2>2. CASE Ready = {}
        BY <1>5, <2>1, <2>2 DEF EndScan, PullFront
    <2>3. ASSUME NEW m \in Ready, where' = [where EXCEPT ![m] = "hand"],
                 cpc' = "got"
          PROVE  WakeInv'
        BY <2>1, <2>3
    <2> QED
        BY <1>5, <2>2, <2>3 DEF EndScan, PullFront
<1>6. CASE PullAgain
    BY <1>6 DEF PullAgain, PullFront, IsFront, historyVars, timeVars
<1>7. CASE DisposeOf
    <2>1. Delayed' \subseteq Delayed
        BY <1>7 DEF DisposeOf, Cleared
    <2> QED
        BY <1>7, <2>1 DEF DisposeOf, timeVars
<1>8. ASSUME NEW m \in Msgs, MoveTriggered(m)
      PROVE  WakeInv'
    BY <1>8 DEF MoveTriggered, PushBack, IsTop, historyVars, getVars, timeVars
<1>9. CASE GetReturnsTrue
    BY <1>9 DEF GetReturnsTrue, LeaveGet, historyVars
<1>10. CASE Dispatch
    BY <1>10 DEF Dispatch, timeVars
<1>11. CASE GetStops
    BY <1>11 DEF GetStops, LeaveGet, queueVars, historyVars
<1>12. CASE BeginWait
    BY <1>12, CmsNextType DEF BeginWait, queueVars, historyVars
<1>13. CASE EndWait
    BY <1>13 DEF EndWait, queueVars, historyVars, getVars, timeVars
<1>14. CASE WaitFails
    BY <1>14 DEF WaitFails, LeaveGet, queueVars, historyVars
<1>15. CASE AfterWait
    BY <1>15 DEF AfterWait, LeaveGet, queueVars, historyVars
<1>16. CASE Restart
    BY <1>16 DEF Restart, queueVars, historyVars, getVars, timeVars
<1>17. CASE Destroy
    BY <1>17 DEF Destroy, getVars, timeVars
<1>18. CASE Tick
    BY <1>18 DEF Tick, queueVars, historyVars, getVars, timeVars
<1>19. ASSUME NEW p \in Posters, NEW m \in Msgs, BeginPost(p, m)
      PROVE  WakeInv'
    BY <1>19 DEF BeginPost, MayUse, historyVars, getVars, timeVars
<1>20. ASSUME NEW p \in Posters, NEW m \in Msgs, NEW o \in Offsets,
              BeginDelayPost(p, m, o)
      PROVE  WakeInv'
    BY <1>20 DEF BeginDelayPost, MayUse, historyVars, getVars, timeVars
<1>21. ASSUME NEW p \in Posters, NEW h \in Handlers, Clear(p, h)
      PROVE  WakeInv'
    BY <1>21 DEF Clear, Cleared, Match, historyVars, getVars, timeVars
<1>22. ASSUME NEW p \in Posters, Post(p)
      PROVE  WakeInv'
    BY <1>22 DEF Post, PushBack, WakeUp, historyVars, getVars, timeVars
<1>23. ASSUME NEW p \in Posters, DoDelayPost(p)
      PROVE  WakeInv'
    BY <1>23 DEF DoDelayPost, WakeUp, historyVars, getVars, timeVars
<1>24. ASSUME NEW p \in Posters, Quit(p)
      PROVE  WakeInv'
    BY <1>24 DEF Quit, queueVars, historyVars, getVars, timeVars
<1>25. ASSUME NEW p \in Posters, QuitWakeUp(p)
      PROVE  WakeInv'
    BY <1>25 DEF QuitWakeUp, WakeUp, queueVars, historyVars, getVars, timeVars
<1> HIDE DEF BaseInv, DataOK, WakeInv, Ready, Delayed, HandOK, PosterOK, Idle
<1> QED
    BY NextCases, <1>1, <1>2, <1>3, <1>4, <1>5, <1>6, <1>7, <1>8, <1>9, <1>10, <1>11, <1>12, <1>13,
       <1>14, <1>15, <1>16, <1>17, <1>18, <1>19, <1>20, <1>21, <1>22, <1>23, <1>24, <1>25

\* The consumer never sleeps on a ready message, on the trigger time of a
\* delayed one, or on a Quit, without its wakeup being signalled (Get, Post,
\* DoDelayPost and Quit test and set the shared state under different locks).
THEOREM NoWakeupIsLost == Spec => []NoLostWakeup
<1>1. Init => WakeInv
    BY DEF Init, WakeInv
<1>2. BaseInv /\ WakeInv /\ [Next]_vars => WakeInv'
    BY NextWake
<1>3. WakeInv => NoLostWakeup
    BY DEF WakeInv, NoLostWakeup
<1> QED
    BY <1>1, <1>2, <1>3, TypeCorrect, PTL DEF Spec

-----------------------------------------------------------------------------
(***************************************************************************)
(* Dispatch in arrival order. msgq_ is ahead of the message in hand, which  *)
(* is ahead of everything dispatched; a message that is in no container has *)
(* no stamp yet, or was removed.                                            *)
(***************************************************************************)
OrderInv ==
    /\ \A m \in Msgs : stamp[m] < nextStamp /\ order[m] < nextOrder
    /\ \A m \in Msgs : where[m] \in {"new", "delayed", "dropped"} => stamp[m] = 0
    /\ \A m \in Msgs : order[m] > 0 <=> where[m] = "done"
    /\ \A m, n \in Msgs :
          /\ where[m] = "ready" /\ where[n] \in {"peek", "done"} =>
                stamp[n] <= stamp[m]
          /\ where[m] = "peek" /\ where[n] = "done" => stamp[n] <= stamp[m]
          /\ where[m] = "done" /\ where[n] = "done" /\ stamp[m] < stamp[n] =>
                order[m] < order[n]
    /\ Holding =>
          /\ where[hand] # "done"
          /\ \A n \in Msgs : where[n] = "done" => stamp[n] <= stamp[hand]
          /\ \A n \in Msgs : where[n] = "ready" => stamp[hand] <= stamp[n]

\* Every step preserves the order invariant. One step per action.
LEMMA NextOrder == BaseInv /\ OrderInv /\ [Next]_vars => OrderInv'
<1> SUFFICES ASSUME BaseInv, OrderInv, [Next]_vars PROVE OrderInv'
    OBVIOUS
<1> USE DEF BaseInv, DataOK, HandOK, PosterOK, Holding, Peeked, Ready, OrderInv
<1>1. CASE UNCHANGED vars
    BY <1>1 DEF vars, queueVars, historyVars, getVars, timeVars
<1>2. ASSUME NEW w \in Waits, NEW peek \in BOOLEAN, BeginGet(w, peek)
      PROVE  OrderInv'
    BY <1>2 DEF BeginGet, queueVars, historyVars
<1>3. CASE TakePeek
    BY <1>3 DEF TakePeek, historyVars, getVars, timeVars
<1>4. CASE BeginScan
    BY <1>4 DEF BeginScan, queueVars, historyVars
<1>5. CASE EndScan
    BY <1>5 DEF EndScan, PullFront, IsFront, historyVars
<1>6. CASE PullAgain
    BY <1>6 DEF PullAgain, PullFront, IsFront, historyVars, timeVars
<1>7. CASE DisposeOf
    BY <1>7 DEF DisposeOf, Cleared, Match, timeVars
<1>8. ASSUME NEW m \in Msgs, MoveTriggered(m)
      PROVE  OrderInv'
    BY <1>8 DEF MoveTriggered, PushBack, IsTop, Delayed, historyVars, getVars,
                timeVars
<1>9. CASE GetReturnsTrue
    BY <1>9 DEF GetReturnsTrue, LeaveGet, historyVars
<1>10. CASE Dispatch
    BY <1>10 DEF Dispatch, timeVars
<1>11. CASE GetStops
    BY <1>11 DEF GetStops, LeaveGet, queueVars, historyVars
<1>12. CASE BeginWait
    BY <1>12 DEF BeginWait, queueVars, historyVars
<1>13. CASE EndWait
    BY <1>13 DEF EndWait, queueVars, historyVars, getVars, timeVars
<1>14. CASE WaitFails
    BY <1>14 DEF WaitFails, LeaveGet, queueVars, historyVars
<1>15. CASE AfterWait
    BY <1>15 DEF AfterWait, LeaveGet, queueVars, historyVars
<1>16. CASE Restart
    BY <1>16 DEF Restart, queueVars, historyVars, getVars, timeVars
<1>17. CASE Destroy
    BY <1>17 DEF Destroy, getVars, timeVars
<1>18. CASE Tick
    BY <1>18 DEF Tick, queueVars, historyVars, getVars, timeVars
<1>19. ASSUME NEW p \in Posters, NEW m \in Msgs, BeginPost(p, m)
      PROVE  OrderInv'
    BY <1>19 DEF BeginPost, MayUse, historyVars, getVars, timeVars
<1>20. ASSUME NEW p \in Posters, NEW m \in Msgs, NEW o \in Offsets,
              BeginDelayPost(p, m, o)
      PROVE  OrderInv'
    BY <1>20 DEF BeginDelayPost, MayUse, historyVars, getVars, timeVars
<1>21. ASSUME NEW p \in Posters, NEW h \in Handlers, Clear(p, h)
      PROVE  OrderInv'
    BY <1>21 DEF Clear, Cleared, Match, historyVars, getVars, timeVars
<1>22. ASSUME NEW p \in Posters, Post(p)
      PROVE  OrderInv'
    BY <1>22 DEF Post, PushBack, WakeUp, historyVars, getVars, timeVars
<1>23. ASSUME NEW p \in Posters, DoDelayPost(p)
      PROVE  OrderInv'
    BY <1>23 DEF DoDelayPost, WakeUp, historyVars, getVars, timeVars
<1>24. ASSUME NEW p \in Posters, Quit(p)
      PROVE  OrderInv'
    BY <1>24 DEF Quit, queueVars, historyVars, getVars, timeVars
<1>25. ASSUME NEW p \in Posters, QuitWakeUp(p)
      PROVE  OrderInv'
    BY <1>25 DEF QuitWakeUp, WakeUp, queueVars, historyVars, getVars, timeVars
<1> HIDE DEF BaseInv, DataOK, HandOK, PosterOK, Holding, Peeked, Ready, OrderInv
<1> QED
    BY NextCases, <1>1, <1>2, <1>3, <1>4, <1>5, <1>6, <1>7, <1>8, <1>9, <1>10, <1>11, <1>12, <1>13,
       <1>14, <1>15, <1>16, <1>17, <1>18, <1>19, <1>20, <1>21, <1>22, <1>23, <1>24, <1>25

\* Get and Dispatch keep the order of msgq_, whatever Peek, Clear, Dispose,
\* Quit and Restart do in between.
THEOREM ArrivalOrder == Spec => []DispatchInArrivalOrder
<1>1. Init => OrderInv
    BY DEF Init, OrderInv, Holding
<1>2. BaseInv /\ OrderInv /\ [Next]_vars => OrderInv'
    BY NextOrder
<1>3. BaseInv /\ OrderInv => DispatchInArrivalOrder
    BY DEF BaseInv, DataOK, HandOK, Places, OrderInv, Holding,
           DispatchInArrivalOrder
<1> QED
    BY <1>1, <1>2, <1>3, TypeCorrect, PTL DEF Spec

-----------------------------------------------------------------------------
(***************************************************************************)
(* Dispose. A deleted handler had its disposal posted, so its owner posts   *)
(* to it no more, and no container holds a message for it.                  *)
(***************************************************************************)
DisposeInv ==
    /\ \A h \in deleted :
          \E d \in Disposals : Handler[d] = h /\ where[d] # "new"
    /\ \A m \in Msgs \ Disposals :
          Handler[m] \in deleted =>
             where[m] \notin {"ready", "delayed", "peek"} /\ ~(Holding /\ m = hand)
    /\ \A d \in Disposals : where[d] # "peek"
    /\ cpc \in {"copyPeek", "dispatch"} => hand \notin Disposals

\* Every step preserves the disposal invariant. One step per action.
LEMMA NextDispose == BaseInv /\ DisposeInv /\ [Next]_vars => DisposeInv'
<1> SUFFICES ASSUME BaseInv, DisposeInv, [Next]_vars PROVE DisposeInv'
    OBVIOUS
<1> USE DEF BaseInv, DataOK, HandOK, PosterOK, Holding, Peeked, Ready, DisposeInv
<1>1. CASE UNCHANGED vars
    BY <1>1 DEF vars, queueVars, historyVars, getVars, timeVars
<1>2. ASSUME NEW w \in Waits, NEW peek \in BOOLEAN, BeginGet(w, peek)
      PROVE  DisposeInv'
    BY <1>2 DEF BeginGet, queueVars, historyVars
<1>3. CASE TakePeek
    BY <1>3 DEF TakePeek, historyVars, getVars, timeVars
<1>4. CASE BeginScan
    BY <1>4 DEF BeginScan, queueVars, historyVars
<1>5. CASE EndScan
    BY <1>5 DEF EndScan, PullFront, IsFront, historyVars
<1>6. CASE PullAgain
    BY <1>6 DEF PullAgain, PullFront, IsFront, historyVars, timeVars
<1>7. CASE DisposeOf
    BY <1>7 DEF DisposeOf, Cleared, Match, timeVars
<1>8. ASSUME NEW m \in Msgs, MoveTriggered(m)
      PROVE  DisposeInv'
    BY <1>8 DEF MoveTriggered, PushBack, IsTop, Delayed, historyVars, getVars,
                timeVars
<1>9. CASE GetReturnsTrue
    BY <1>9 DEF GetReturnsTrue, LeaveGet, historyVars
<1>10. CASE Dispatch
    BY <1>10 DEF Dispatch, timeVars
<1>11. CASE GetStops
    BY <1>11 DEF GetStops, LeaveGet, queueVars, historyVars
<1>12. CASE BeginWait
    BY <1>12 DEF BeginWait, queueVars, historyVars
<1>13. CASE EndWait
    BY <1>13 DEF EndWait, queueVars, historyVars, getVars, timeVars
<1>14. CASE WaitFails
    BY <1>14 DEF WaitFails, LeaveGet, queueVars, historyVars
<1>15. CASE AfterWait
    BY <1>15 DEF AfterWait, LeaveGet, queueVars, historyVars
<1>16. CASE Restart
    BY <1>16 DEF Restart, queueVars, historyVars, getVars, timeVars
<1>17. CASE Destroy
    BY <1>17 DEF Destroy, getVars, timeVars
<1>18. CASE Tick
    BY <1>18 DEF Tick, queueVars, historyVars, getVars, timeVars
<1>19. ASSUME NEW p \in Posters, NEW m \in Msgs, BeginPost(p, m)
      PROVE  DisposeInv'
    BY <1>19 DEF BeginPost, MayUse, historyVars, getVars, timeVars
<1>20. ASSUME NEW p \in Posters, NEW m \in Msgs, NEW o \in Offsets,
              BeginDelayPost(p, m, o)
      PROVE  DisposeInv'
    BY <1>20 DEF BeginDelayPost, MayUse, historyVars, getVars, timeVars
<1>21. ASSUME NEW p \in Posters, NEW h \in Handlers, Clear(p, h)
      PROVE  DisposeInv'
    BY <1>21 DEF Clear, Cleared, Match, historyVars, getVars, timeVars
<1>22. ASSUME NEW p \in Posters, Post(p)
      PROVE  DisposeInv'
    BY <1>22 DEF Post, PushBack, WakeUp, historyVars, getVars, timeVars
<1>23. ASSUME NEW p \in Posters, DoDelayPost(p)
      PROVE  DisposeInv'
    BY <1>23 DEF DoDelayPost, WakeUp, historyVars, getVars, timeVars
<1>24. ASSUME NEW p \in Posters, Quit(p)
      PROVE  DisposeInv'
    BY <1>24 DEF Quit, queueVars, historyVars, getVars, timeVars
<1>25. ASSUME NEW p \in Posters, QuitWakeUp(p)
      PROVE  DisposeInv'
    BY <1>25 DEF QuitWakeUp, WakeUp, queueVars, historyVars, getVars, timeVars
<1> HIDE DEF BaseInv, DataOK, HandOK, PosterOK, Holding, Peeked, Ready, DisposeInv
<1> QED
    BY NextCases, <1>1, <1>2, <1>3, <1>4, <1>5, <1>6, <1>7, <1>8, <1>9, <1>10, <1>11, <1>12, <1>13,
       <1>14, <1>15, <1>16, <1>17, <1>18, <1>19, <1>20, <1>21, <1>22, <1>23, <1>24, <1>25

\* A handler deleted through Dispose is not called afterwards: Clear, run by
\* its destructor, reaches every message that was posted to it.
THEOREM DisposeIsSafe == Spec => []HandlerAliveAtDispatch
<1>1. Init => DisposeInv
    BY DEF Init, DisposeInv, Holding
<1>2. BaseInv /\ DisposeInv /\ [Next]_vars => DisposeInv'
    BY NextDispose
<1>3. BaseInv /\ DisposeInv => HandlerAliveAtDispatch
    BY DEF BaseInv, DataOK, HandOK, DisposeInv, Holding, HandlerAliveAtDispatch
<1> QED
    BY <1>1, <1>2, <1>3, TypeCorrect, PTL DEF Spec

-----------------------------------------------------------------------------
(***************************************************************************)
(* Trigger times. DelayedMessage::operator< compares uint32 values as plain *)
(* numbers, and Get subtracts them: the two theorems below are about runs   *)
(* in which no trigger time (MaxTime bounds them) is on the other side of a *)
(* wrap, and, for the second, in which no two times are half a period apart.*)
(* A Get that sleeps for a delayed message may make time go on after        *)
(* MaxTime, but not for more than twice as long again.                      *)
(***************************************************************************)
TriggersFit == MaxTime < Modulus /\ \A o \in Offsets : StartTime + o >= 0
ClockFits == StartTime <= MaxTime /\ 6 * MaxTime < Modulus

\* What a delayed message has: a number, a trigger time that does not wrap, and
\* once it is pushed a place in msgq_.
TimesInv ==
    /\ now >= StartTime
    /\ \A p \in Posters : ppc[p].op = "delay" => ppc[p].t \in 0 .. MaxTime /\ ppc[p].m \notin Disposals
    /\ \A m \in Msgs :
          /\ num[m] < nextNum
          /\ where[m] = "delayed" => num[m] >= 0
          /\ num[m] >= 0 => /\ due[m] \in 0 .. MaxTime /\ m \notin Disposals
                            /\ where[m] \notin {"new", "dropped"}
          /\ where[m] = "disposed" => m \in Disposals
          /\ where[m] \in {"ready", "peek", "hand", "done"} => stamp[m] > 0
    /\ Holding => stamp[hand] > 0

\* A message that triggers no later than n and was posted before it is pushed
\* on msgq_ before it, or was cleared while it waited.
TriggerInv ==
    \A m, n \in Msgs :
        num[m] >= 0 /\ num[m] < num[n] /\ due[m] <= due[n] /\ stamp[n] > 0 =>
            \/ stamp[m] > 0 /\ stamp[m] < stamp[n]
            \/ stamp[m] = 0 /\ where[m] = "cleared"

\* The clock shows the time as long as that has not wrapped.
LEMMA ClockShows == \A t \in Int : 0 <= t /\ t < Modulus => Clock(t) = t
BY DEF Clock

\* Every step preserves TimesInv. One step per action.
LEMMA NextTimes ==
    ASSUME TriggersFit PROVE BaseInv /\ OrderInv /\ TimesInv /\ [Next]_vars => TimesInv'
<1> SUFFICES ASSUME BaseInv, OrderInv, TimesInv, [Next]_vars PROVE TimesInv'
    OBVIOUS
<1> USE DEF BaseInv, DataOK, HandOK, PosterOK, Holding, Peeked, Ready, Delayed, Idle, OrderInv, TimesInv
<1>1. CASE UNCHANGED vars
    BY <1>1 DEF vars, queueVars, historyVars, getVars, timeVars
<1>2. ASSUME NEW w \in Waits, NEW peek \in BOOLEAN, BeginGet(w, peek)
      PROVE  TimesInv'
    BY <1>2 DEF BeginGet, queueVars, historyVars
<1>3. CASE TakePeek
    BY <1>3 DEF TakePeek, historyVars, getVars, timeVars
<1>4. CASE BeginScan
    BY <1>4 DEF BeginScan, queueVars, historyVars
<1>5. CASE EndScan
    BY <1>5 DEF EndScan, PullFront, IsFront, historyVars
<1>6. CASE PullAgain
    BY <1>6 DEF PullAgain, PullFront, IsFront, historyVars, timeVars
<1>7. CASE DisposeOf
    BY <1>7 DEF DisposeOf, Cleared, Match, timeVars
<1>8. ASSUME NEW m \in Msgs, MoveTriggered(m)
      PROVE  TimesInv'
    BY <1>8 DEF MoveTriggered, PushBack, IsTop, historyVars, getVars, timeVars
<1>9. CASE GetReturnsTrue
    BY <1>9 DEF GetReturnsTrue, LeaveGet, historyVars
<1>10. CASE Dispatch
    BY <1>10 DEF Dispatch, timeVars
<1>11. CASE GetStops
    BY <1>11 DEF GetStops, LeaveGet, queueVars, historyVars
<1>12. CASE BeginWait
    BY <1>12 DEF BeginWait, queueVars, historyVars
<1>13. CASE EndWait
    BY <1>13 DEF EndWait, queueVars, historyVars, getVars, timeVars
<1>14. CASE WaitFails
    BY <1>14 DEF WaitFails, LeaveGet, queueVars, historyVars
<1>15. CASE AfterWait
    BY <1>15 DEF AfterWait, LeaveGet, queueVars, historyVars
<1>16. CASE Restart
    BY <1>16 DEF Restart, queueVars, historyVars, getVars, timeVars
<1>17. CASE Destroy
    BY <1>17 DEF Destroy, getVars, timeVars
<1>18. CASE Tick
    BY <1>18 DEF Tick, queueVars, historyVars, getVars, timeVars
<1>19. ASSUME NEW p \in Posters, NEW m \in Msgs, BeginPost(p, m)
      PROVE  TimesInv'
    BY <1>19 DEF BeginPost, MayUse, historyVars, getVars, timeVars
<1>20. ASSUME NEW p \in Posters, NEW m \in Msgs, NEW o \in Offsets,
              BeginDelayPost(p, m, o)
      PROVE  TimesInv'
    <2>1. now + o \in 0 .. MaxTime
        BY <1>20 DEF BeginDelayPost, TriggersFit
    <2> QED
        BY <1>20, <2>1, SMTT(40) DEF BeginDelayPost, MayUse, historyVars, getVars, timeVars
<1>21. ASSUME NEW p \in Posters, NEW h \in Handlers, Clear(p, h)
      PROVE  TimesInv'
    BY <1>21 DEF Clear, Cleared, Match, historyVars, getVars, timeVars
<1>22. ASSUME NEW p \in Posters, Post(p)
      PROVE  TimesInv'
    BY <1>22 DEF Post, PushBack, WakeUp, historyVars, getVars, timeVars
<1>23. ASSUME NEW p \in Posters, DoDelayPost(p)
      PROVE  TimesInv'
    BY <1>23 DEF DoDelayPost, WakeUp, historyVars, getVars, timeVars
<1>24. ASSUME NEW p \in Posters, Quit(p)
      PROVE  TimesInv'
    BY <1>24 DEF Quit, queueVars, historyVars, getVars, timeVars
<1>25. ASSUME NEW p \in Posters, QuitWakeUp(p)
      PROVE  TimesInv'
    BY <1>25 DEF QuitWakeUp, WakeUp, queueVars, historyVars, getVars, timeVars
<1> HIDE DEF BaseInv, DataOK, HandOK, PosterOK, Holding, Peeked, Ready, Delayed, Idle, OrderInv, TimesInv
<1> QED
    BY NextCases, <1>1, <1>2, <1>3, <1>4, <1>5, <1>6, <1>7, <1>8, <1>9, <1>10, <1>11, <1>12, <1>13,
       <1>14, <1>15, <1>16, <1>17, <1>18, <1>19, <1>20, <1>21, <1>22, <1>23, <1>24, <1>25

\* Every step preserves TriggerInv. One step per action.
LEMMA NextTrigger ==
    ASSUME TriggersFit PROVE BaseInv /\ OrderInv /\ TimesInv /\ TriggerInv /\ [Next]_vars => TriggerInv'
<1> SUFFICES ASSUME BaseInv, OrderInv, TimesInv, TriggerInv, [Next]_vars PROVE TriggerInv'
    OBVIOUS
<1> USE DEF BaseInv, DataOK, HandOK, PosterOK, Holding, Peeked, Ready, Delayed, Idle, OrderInv, TimesInv, TriggerInv
<1>1. CASE UNCHANGED vars
    BY <1>1 DEF vars, queueVars, historyVars, getVars, timeVars
<1>2. ASSUME NEW w \in Waits, NEW peek \in BOOLEAN, BeginGet(w, peek)
      PROVE  TriggerInv'
    BY <1>2 DEF BeginGet, queueVars, historyVars
<1>3. CASE TakePeek
    BY <1>3 DEF TakePeek, historyVars, getVars, timeVars
<1>4. CASE BeginScan
    BY <1>4 DEF BeginScan, queueVars, historyVars
<1>5. CASE EndScan
    BY <1>5 DEF EndScan, PullFront, IsFront, historyVars
<1>6. CASE PullAgain
    BY <1>6 DEF PullAgain, PullFront, IsFront, historyVars, timeVars
<1>7. CASE DisposeOf
    BY <1>7 DEF DisposeOf, Cleared, Match, timeVars
<1>8. ASSUME NEW m \in Msgs, MoveTriggered(m)
      PROVE  TriggerInv'
    <2>1. /\ where[m] = "delayed" /\ stamp' = [stamp EXCEPT ![m] = nextStamp] /\ num' = num /\ due' = due
          /\ where' = [where EXCEPT ![m] = "ready"]
        BY <1>8 DEF MoveTriggered, PushBack, IsTop
    <2>2. ASSUME NEW k \in Msgs, num[k] >= 0, num[k] < num[m], due[k] <= due[m]
          PROVE  \/ stamp[k] > 0 /\ stamp[k] < nextStamp
                 \/ stamp[k] = 0 /\ where[k] = "cleared"
        <3>1. CASE where[k] = "delayed"
            <4>1. Sooner(m, k)
                BY <1>8, <2>2, <3>1 DEF MoveTriggered, IsTop
            <4>2. Clock(due[m]) = due[m] /\ Clock(due[k]) = due[k]
                BY <2>1, <2>2, ClockShows DEF TriggersFit
            <4> QED
                BY <2>1, <2>2, <4>1, <4>2 DEF Sooner
        <3>2. CASE where[k] # "delayed"
            BY <2>2, <3>2 DEF Places
        <3> QED
            BY <3>1, <3>2
    <2>3. ASSUME NEW k \in Msgs, NEW n \in Msgs, num[k] >= 0, num[k] < num[n], due[k] <= due[n], stamp'[n] > 0
          PROVE  \/ stamp'[k] > 0 /\ stamp'[k] < stamp'[n]
                 \/ stamp'[k] = 0 /\ where'[k] = "cleared"
        <3>1. CASE n = m
            BY <2>1, <2>2, <2>3, <3>1
        <3>2. CASE n # m
            <4>1. \/ stamp[k] > 0 /\ stamp[k] < stamp[n]
                  \/ stamp[k] = 0 /\ where[k] = "cleared"
                BY <2>1, <2>3, <3>2
            <4>2. k # m
                BY <2>1, <4>1
            <4> QED
                BY <2>1, <3>2, <4>1, <4>2
        <3> QED
            BY <3>1, <3>2
    <2> QED
        BY <2>1, <2>3
<1>9. CASE GetReturnsTrue
    BY <1>9 DEF GetReturnsTrue, LeaveGet, historyVars
<1>10. CASE Dispatch
    BY <1>10 DEF Dispatch, timeVars
<1>11. CASE GetStops
    BY <1>11 DEF GetStops, LeaveGet, queueVars, historyVars
<1>12. CASE BeginWait
    BY <1>12 DEF BeginWait, queueVars, historyVars
<1>13. CASE EndWait
    BY <1>13 DEF EndWait, queueVars, historyVars, getVars, timeVars
<1>14. CASE WaitFails
    BY <1>14 DEF WaitFails, LeaveGet, queueVars, historyVars
<1>15. CASE AfterWait
    BY <1>15 DEF AfterWait, LeaveGet, queueVars, historyVars
<1>16. CASE Restart
    BY <1>16 DEF Restart, queueVars, historyVars, getVars, timeVars
<1>17. CASE Destroy
    BY <1>17 DEF Destroy, getVars, timeVars
<1>18. CASE Tick
    BY <1>18 DEF Tick, queueVars, historyVars, getVars, timeVars
<1>19. ASSUME NEW p \in Posters, NEW m \in Msgs, BeginPost(p, m)
      PROVE  TriggerInv'
    BY <1>19 DEF BeginPost, MayUse, historyVars, getVars, timeVars
<1>20. ASSUME NEW p \in Posters, NEW m \in Msgs, NEW o \in Offsets,
              BeginDelayPost(p, m, o)
      PROVE  TriggerInv'
    BY <1>20 DEF BeginDelayPost, MayUse, historyVars, getVars, timeVars
<1>21. ASSUME NEW p \in Posters, NEW h \in Handlers, Clear(p, h)
      PROVE  TriggerInv'
    BY <1>21 DEF Clear, Cleared, Match, historyVars, getVars, timeVars
<1>22. ASSUME NEW p \in Posters, Post(p)
      PROVE  TriggerInv'
    BY <1>22 DEF Post, PushBack, WakeUp, historyVars, getVars, timeVars
<1>23. ASSUME NEW p \in Posters, DoDelayPost(p)
      PROVE  TriggerInv'
    BY <1>23 DEF DoDelayPost, WakeUp, historyVars, getVars, timeVars
<1>24. ASSUME NEW p \in Posters, Quit(p)
      PROVE  TriggerInv'
    BY <1>24 DEF Quit, queueVars, historyVars, getVars, timeVars
<1>25. ASSUME NEW p \in Posters, QuitWakeUp(p)
      PROVE  TriggerInv'
    BY <1>25 DEF QuitWakeUp, WakeUp, queueVars, historyVars, getVars, timeVars
<1> HIDE DEF BaseInv, DataOK, HandOK, PosterOK, Holding, Peeked, Ready, Delayed, Idle, OrderInv, TimesInv, TriggerInv
<1> QED
    BY NextCases, <1>1, <1>2, <1>3, <1>4, <1>5, <1>6, <1>7, <1>8, <1>9, <1>10, <1>11, <1>12, <1>13,
       <1>14, <1>15, <1>16, <1>17, <1>18, <1>19, <1>20, <1>21, <1>22, <1>23, <1>24, <1>25

\* The base invariant, the order of msgq_ and the trigger times, together.
LEMMA TimesHold == ASSUME TriggersFit PROVE Spec => [](BaseInv /\ OrderInv /\ TimesInv)
<1>1. Init => OrderInv /\ TimesInv
    BY DEF Init, OrderInv, TimesInv, Holding, Idle
<1>2. BaseInv /\ OrderInv /\ TimesInv /\ [Next]_vars => OrderInv' /\ TimesInv'
    BY NextOrder, NextTimes
<1> QED
    BY <1>1, <1>2, TypeCorrect, PTL DEF Spec

\* PostDelayed and PostAt: of two delayed messages the one that triggers earlier,
\* or at the same time but was posted first, is dispatched first, whatever is
\* posted, cleared, peeked at or disposed of in between, as long as no trigger
\* time wraps. (When one does, the code lets it overtake.)
THEOREM TriggerOrder == ASSUME TriggersFit PROVE Spec => []DelayedInTriggerOrder
<1>1. Init => TriggerInv
    BY DEF Init, TriggerInv
<1>2. BaseInv /\ OrderInv /\ TimesInv /\ TriggerInv /\ [Next]_vars => TriggerInv'
    BY NextTrigger
<1>3. BaseInv /\ OrderInv /\ TimesInv /\ TriggerInv /\ DispatchInArrivalOrder => DelayedInTriggerOrder
    <2> SUFFICES ASSUME BaseInv, OrderInv, TimesInv, TriggerInv, DispatchInArrivalOrder,
                        NEW m \in Msgs, NEW n \in Msgs, num[m] >= 0, num[m] < num[n],
                        due[m] <= due[n], order[n] > 0
                 PROVE  (order[m] > 0 /\ order[m] < order[n]) \/ where[m] = "cleared"
        BY DEF DelayedInTriggerOrder
    <2>1. where[n] = "done" /\ stamp[n] > 0 /\ stamp[m] \in Nat
        BY DEF OrderInv, TimesInv, BaseInv, DataOK
    <2>2. \/ stamp[m] > 0 /\ stamp[m] < stamp[n]
          \/ where[m] = "cleared"
        BY <2>1 DEF TriggerInv
    <2>3. where[m] # "disposed"
        BY DEF TimesInv
    <2> QED
        BY <2>2, <2>3 DEF DispatchInArrivalOrder
<1>4. Spec => [](BaseInv /\ OrderInv /\ TimesInv)
    BY TimesHold
<1> QED
    BY <1>1, <1>2, <1>3, <1>4, ArrivalOrder, PTL DEF Spec

-----------------------------------------------------------------------------
(***************************************************************************)
(* Sleeping. Get computes its wait from a clock value that it read before   *)
(* the critical section and after which time has gone on, so that it may    *)
(* sleep past MaxTime; but a Get that has read a clock value after MaxTime  *)
(* finds nothing delayed and does not sleep for anything.                   *)
(***************************************************************************)
Scanned == {"got", "pull", "stop", "wait"}

\* How far time may have gone.
NowInv ==
    /\ now <= 3 * MaxTime /\ msCurrent <= 3 * MaxTime
    /\ cpc \in {"idle", "copyPeek", "dispatch", "exited", "destroyed"} =>
          cmsWait = Forever /\ waitUntil = Forever
    /\ cpc = "scan" => cmsDelayNext = Forever
    /\ cpc \in Scanned /\ cmsDelayNext # Forever => msCurrent < MaxTime /\ cmsDelayNext <= MaxTime
    /\ cmsWait = Forever =>
          /\ waitUntil <= now + MaxTime /\ waitUntil <= 3 * MaxTime
          /\ cpc \in {"top", "scan", "got", "pull", "stop"} /\ msCurrent < MaxTime =>
                now <= 2 * MaxTime /\ waitUntil <= 2 * MaxTime

\* What Get has found out about the delayed messages, unless it is woken.
SleepInv ==
    cpc \in Scanned /\ ~wake =>
        \A m \in Delayed : cmsDelayNext # Forever /\ cmsDelayNext <= due[m] - msCurrent

\* The signed difference of two clock values is that of the times.
LEMMA TimeDiffShows ==
    ASSUME NEW a \in Int, NEW b \in Int, 0 <= a, a < Modulus, 0 <= b, b < Modulus,
           2 * (a - b) < Modulus, 2 * (b - a) < Modulus
    PROVE  TimeDiff(Clock(a), Clock(b)) = a - b
<1>1. Clock(a) = a /\ Clock(b) = b
    BY ClockShows
<1>2. CASE a >= b
    <2>1. (a - b) % Modulus = a - b
        BY <1>2
    <2> QED
        BY <1>1, <2>1 DEF TimeDiff
<1>3. CASE a < b
    <2>1. (a - b) % Modulus = a - b + Modulus
        BY <1>3
    <2> QED
        BY <1>1, <1>3, <2>1 DEF TimeDiff
<1> QED
    BY <1>2, <1>3

\* What EndScan leaves in cmsDelayNext: the time to the next trigger.
LEMMA EndScanShows ==
    ASSUME TriggersFit, ClockFits, BaseInv, TimesInv, NowInv, EndScan
    PROVE  \/ Delayed = {} /\ cmsDelayNext' = Forever
           \/ /\ msCurrent < MaxTime /\ cmsDelayNext' <= MaxTime /\ cmsDelayNext' > 0
              /\ \A m \in Delayed : cmsDelayNext' <= due[m] - msCurrent
<1>1. CASE Delayed = {} /\ cmsDelayNext' = cmsDelayNext
    BY <1>1 DEF EndScan, NowInv
<1>2. ASSUME NEW m \in Delayed, IsTop(m), ~Expired(m),
             cmsDelayNext' = TimeDiff(Clock(due[m]), Clock(msCurrent))
      PROVE  /\ msCurrent < MaxTime /\ cmsDelayNext' <= MaxTime /\ cmsDelayNext' > 0
             /\ \A k \in Delayed : cmsDelayNext' <= due[k] - msCurrent
    <2>1. /\ msCurrent \in Nat /\ msCurrent <= 3 * MaxTime
          /\ \A k \in Delayed : due[k] \in 0 .. MaxTime
        BY DEF BaseInv, DataOK, NowInv, TimesInv, Delayed
    <2>2. TimeDiff(Clock(due[m]), Clock(msCurrent)) = due[m] - msCurrent
        <3>1. /\ due[m] \in Int /\ 0 <= due[m] /\ due[m] < Modulus
              /\ msCurrent \in Int /\ 0 <= msCurrent /\ msCurrent < Modulus
              /\ 2 * (due[m] - msCurrent) < Modulus /\ 2 * (msCurrent - due[m]) < Modulus
            BY <2>1 DEF TriggersFit, ClockFits
        <3> QED
            BY <3>1, TimeDiffShows
    <2>3. due[m] - msCurrent > 0
        BY <1>2, <2>2 DEF Expired, TimeIsLater
    <2>4. ASSUME NEW k \in Delayed PROVE due[m] <= due[k]
        <3>1. Clock(due[k]) = due[k] /\ Clock(due[m]) = due[m]
            BY <2>1, ClockShows DEF TriggersFit
        <3> QED
            BY <1>2, <2>1, <3>1 DEF IsTop, Sooner
    <2> QED
        BY <1>2, <2>1, <2>2, <2>3, <2>4
<1> QED
    BY <1>1, <1>2 DEF EndScan

\* Every step preserves NowInv. One step per action.
LEMMA NextNow ==
    ASSUME TriggersFit, ClockFits PROVE BaseInv /\ TimesInv /\ NowInv /\ [Next]_vars => NowInv'
<1> SUFFICES ASSUME BaseInv, TimesInv, NowInv, [Next]_vars PROVE NowInv'
    OBVIOUS
<1>0. /\ now \in Nat /\ msCurrent \in Nat /\ MaxTime \in Nat /\ waitUntil \in Int /\ cmsDelayNext \in Int
      /\ cmsWait \in Nat \cup {Forever}
    BY DEF BaseInv, DataOK
<1> USE DEF NowInv, Scanned
<1>1. CASE UNCHANGED vars
    BY <1>1, <1>0 DEF vars, queueVars, historyVars, getVars, timeVars
<1>2. ASSUME NEW w \in Waits, NEW peek \in BOOLEAN, BeginGet(w, peek)
      PROVE  NowInv'
    BY <1>2, <1>0 DEF BeginGet, queueVars, historyVars
<1>3. CASE TakePeek
    BY <1>3, <1>0 DEF TakePeek, historyVars, getVars, timeVars
<1>4. CASE BeginScan
    BY <1>4, <1>0 DEF BeginScan, queueVars, historyVars
<1>5. CASE EndScan
    <2>1. cmsDelayNext' = Forever \/ (msCurrent < MaxTime /\ cmsDelayNext' <= MaxTime)
        BY <1>5, EndScanShows
    <2> QED
        BY <1>0, <1>5, <2>1 DEF EndScan, PullFront, historyVars
<1>6. CASE PullAgain
    BY <1>6, <1>0 DEF PullAgain, PullFront, IsFront, historyVars, timeVars
<1>7. CASE DisposeOf
    BY <1>7, <1>0 DEF DisposeOf, Cleared, Match, timeVars
<1>8. ASSUME NEW m \in Msgs, MoveTriggered(m)
      PROVE  NowInv'
    BY <1>8, <1>0 DEF MoveTriggered, PushBack, IsTop, historyVars, getVars, timeVars
<1>9. CASE GetReturnsTrue
    BY <1>9, <1>0 DEF GetReturnsTrue, LeaveGet, historyVars
<1>10. CASE Dispatch
    BY <1>10, <1>0 DEF Dispatch, timeVars
<1>11. CASE GetStops
    BY <1>11, <1>0 DEF GetStops, LeaveGet, queueVars, historyVars
<1>12. CASE BeginWait
    <2>1. cmsWait = Forever => CmsNext = cmsDelayNext
        BY DEF CmsNext
    <2> QED
        BY <1>0, <1>12, <2>1 DEF BeginWait, queueVars, historyVars
<1>13. CASE EndWait
    BY <1>13, <1>0 DEF EndWait, queueVars, historyVars, getVars, timeVars
<1>14. CASE WaitFails
    BY <1>14, <1>0 DEF WaitFails, LeaveGet, queueVars, historyVars
<1>15. CASE AfterWait
    BY <1>15, <1>0 DEF AfterWait, LeaveGet, queueVars, historyVars
<1>16. CASE Restart
    BY <1>16, <1>0 DEF Restart, queueVars, historyVars, getVars, timeVars
<1>17. CASE Destroy
    BY <1>17, <1>0 DEF Destroy, getVars, timeVars
<1>18. CASE Tick
    BY <1>18, <1>0 DEF Tick, queueVars, historyVars, getVars, timeVars
<1>19. ASSUME NEW p \in Posters, NEW m \in Msgs, BeginPost(p, m)
      PROVE  NowInv'
    BY <1>19, <1>0 DEF BeginPost, MayUse, historyVars, getVars, timeVars
<1>20. ASSUME NEW p \in Posters, NEW m \in Msgs, NEW o \in Offsets,
              BeginDelayPost(p, m, o)
      PROVE  NowInv'
    BY <1>20, <1>0 DEF BeginDelayPost, MayUse, historyVars, getVars, timeVars
<1>21. ASSUME NEW p \in Posters, NEW h \in Handlers, Clear(p, h)
      PROVE  NowInv'
    BY <1>21, <1>0 DEF Clear, Cleared, Match, historyVars, getVars, timeVars
<1>22. ASSUME NEW p \in Posters, Post(p)
      PROVE  NowInv'
    BY <1>22, <1>0 DEF Post, PushBack, WakeUp, historyVars, getVars, timeVars
<1>23. ASSUME NEW p \in Posters, DoDelayPost(p)
      PROVE  NowInv'
    BY <1>23, <1>0 DEF DoDelayPost, WakeUp, historyVars, getVars, timeVars
<1>24. ASSUME NEW p \in Posters, Quit(p)
      PROVE  NowInv'
    BY <1>24, <1>0 DEF Quit, queueVars, historyVars, getVars, timeVars
<1>25. ASSUME NEW p \in Posters, QuitWakeUp(p)
      PROVE  NowInv'
    BY <1>25, <1>0 DEF QuitWakeUp, WakeUp, queueVars, historyVars, getVars, timeVars
<1> HIDE DEF NowInv, Scanned
<1> QED
    BY NextCases, <1>1, <1>2, <1>3, <1>4, <1>5, <1>6, <1>7, <1>8, <1>9, <1>10, <1>11, <1>12, <1>13,
       <1>14, <1>15, <1>16, <1>17, <1>18, <1>19, <1>20, <1>21, <1>22, <1>23, <1>24, <1>25

\* Every step preserves SleepInv. One step per action.
LEMMA NextSleep ==
    ASSUME TriggersFit, ClockFits
    PROVE  BaseInv /\ TimesInv /\ NowInv /\ SleepInv /\ [Next]_vars => SleepInv'
<1> SUFFICES ASSUME BaseInv, TimesInv, NowInv, SleepInv, [Next]_vars PROVE SleepInv'
    OBVIOUS
<1> USE DEF SleepInv, Scanned, Delayed, BaseInv, DataOK, HandOK, PosterOK, Idle
<1>1. CASE UNCHANGED vars
    BY <1>1 DEF vars, queueVars, historyVars, getVars, timeVars
<1>2. ASSUME NEW w \in Waits, NEW peek \in BOOLEAN, BeginGet(w, peek)
      PROVE  SleepInv'
    BY <1>2 DEF BeginGet, queueVars, historyVars
<1>3. CASE TakePeek
    BY <1>3 DEF TakePeek, historyVars, getVars, timeVars
<1>4. CASE BeginScan
    BY <1>4 DEF BeginScan, queueVars, historyVars
<1>5. CASE EndScan
    <2>1. \A m \in Delayed : cmsDelayNext' # Forever /\ cmsDelayNext' <= due[m] - msCurrent
        BY <1>5, EndScanShows
    <2>2. Delayed' \subseteq Delayed /\ due' = due /\ msCurrent' = msCurrent
        BY <1>5 DEF EndScan, PullFront, Ready
    <2> QED
        BY <2>1, <2>2
<1>6. CASE PullAgain
    <2>1. Delayed' \subseteq Delayed
        BY <1>6 DEF PullAgain, PullFront, Ready
    <2> QED
        BY <1>6, <2>1 DEF PullAgain, timeVars
<1>7. CASE DisposeOf
    <2>1. Delayed' \subseteq Delayed
        BY <1>7 DEF DisposeOf, Cleared
    <2> QED
        BY <1>7, <2>1 DEF DisposeOf, timeVars
<1>8. ASSUME NEW m \in Msgs, MoveTriggered(m)
      PROVE  SleepInv'
    BY <1>8 DEF MoveTriggered, PushBack, IsTop, historyVars, getVars, timeVars
<1>9. CASE GetReturnsTrue
    BY <1>9 DEF GetReturnsTrue, LeaveGet, historyVars
<1>10. CASE Dispatch
    BY <1>10 DEF Dispatch, timeVars
<1>11. CASE GetStops
    BY <1>11 DEF GetStops, LeaveGet, queueVars, historyVars
<1>12. CASE BeginWait
    BY <1>12 DEF BeginWait, queueVars, historyVars
<1>13. CASE EndWait
    BY <1>13 DEF EndWait, queueVars, historyVars, getVars, timeVars
<1>14. CASE WaitFails
    BY <1>14 DEF WaitFails, LeaveGet, queueVars, historyVars
<1>15. CASE AfterWait
    BY <1>15 DEF AfterWait, LeaveGet, queueVars, historyVars
<1>16. CASE Restart
    BY <1>16 DEF Restart, queueVars, historyVars, getVars, timeVars
<1>17. CASE Destroy
    BY <1>17 DEF Destroy, getVars, timeVars
<1>18. CASE Tick
    BY <1>18 DEF Tick, queueVars, historyVars, getVars, timeVars
<1>19. ASSUME NEW p \in Posters, NEW m \in Msgs, BeginPost(p, m)
      PROVE  SleepInv'
    BY <1>19 DEF BeginPost, MayUse, historyVars, getVars, timeVars
<1>20. ASSUME NEW p \in Posters, NEW m \in Msgs, NEW o \in Offsets,
              BeginDelayPost(p, m, o)
      PROVE  SleepInv'
    BY <1>20 DEF BeginDelayPost, MayUse, historyVars, getVars, timeVars
<1>21. ASSUME NEW p \in Posters, NEW h \in Handlers, Clear(p, h)
      PROVE  SleepInv'
    BY <1>21 DEF Clear, Cleared, Match, historyVars, getVars, timeVars
<1>22. ASSUME NEW p \in Posters, Post(p)
      PROVE  SleepInv'
    BY <1>22 DEF Post, PushBack, WakeUp, historyVars, getVars, timeVars
<1>23. ASSUME NEW p \in Posters, DoDelayPost(p)
      PROVE  SleepInv'
    BY <1>23 DEF DoDelayPost, WakeUp, historyVars, getVars, timeVars
<1>24. ASSUME NEW p \in Posters, Quit(p)
      PROVE  SleepInv'
    BY <1>24 DEF Quit, queueVars, historyVars, getVars, timeVars
<1>25. ASSUME NEW p \in Posters, QuitWakeUp(p)
      PROVE  SleepInv'
    BY <1>25 DEF QuitWakeUp, WakeUp, queueVars, historyVars, getVars, timeVars
<1> HIDE DEF SleepInv, Scanned, Delayed, BaseInv, DataOK, HandOK, PosterOK, Idle
<1> QED
    BY NextCases, <1>1, <1>2, <1>3, <1>4, <1>5, <1>6, <1>7, <1>8, <1>9, <1>10, <1>11, <1>12, <1>13,
       <1>14, <1>15, <1>16, <1>17, <1>18, <1>19, <1>20, <1>21, <1>22, <1>23, <1>24, <1>25

\* Get does not sleep past the trigger time of a delayed message: unless it has
\* been woken, the time it asks Wait for is at most what each delayed message
\* had to run when Get read the clock, for any wait asked of Get and any delays,
\* as long as the clock does not wrap.
THEOREM SleepsInTime == ASSUME TriggersFit, ClockFits PROVE Spec => []NoOversleep
<1>1. Init => NowInv /\ SleepInv
    BY DEF Init, NowInv, SleepInv, Scanned, ClockFits
<1>2. BaseInv /\ TimesInv /\ NowInv /\ SleepInv /\ [Next]_vars => NowInv' /\ SleepInv'
    BY NextNow, NextSleep
<1>3. BaseInv /\ SleepInv => NoOversleep
    <2> SUFFICES ASSUME BaseInv, SleepInv, cpc = "wait", ~wake, NEW m \in Delayed
                 PROVE  CmsNext # Forever /\ CmsNext <= due[m] - msCurrent
        BY DEF NoOversleep
    <2>1. cmsDelayNext # Forever /\ cmsDelayNext <= due[m] - msCurrent
        BY DEF SleepInv, Scanned
    <2>2. CmsNext \in Nat
        BY <2>1, CmsNextType DEF BaseInv, HandOK
    <2>3. CmsNext <= cmsDelayNext
        <3>1. cmsDelayNext \in Int /\ cmsDelayNext > 0 /\ cmsWait \in Nat \cup {Forever}
            BY <2>1 DEF BaseInv, DataOK, HandOK
        <3> QED
            BY <2>1, <2>2, <3>1 DEF CmsNext
    <2>4. due[m] \in Int /\ msCurrent \in Int /\ cmsDelayNext \in Int
        BY DEF BaseInv, DataOK, Delayed
    <2> QED
        BY <2>1, <2>2, <2>3, <2>4
<1>4. Spec => [](BaseInv /\ OrderInv /\ TimesInv)
    BY TimesHold
<1> QED
    BY <1>1, <1>2, <1>3, <1>4, PTL DEF Spec

=============================================================================
