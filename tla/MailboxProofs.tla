--------------------------- MODULE MailboxProofs ---------------------------
(***************************************************************************)
(* MessageQueue implements Mailbox, for any number of messages, handlers    *)
(* and posting threads, any trigger times and any clock width, when nobody  *)
(* calls Peek: Get copies msgPeek_ without crit_, and a message that Clear  *)
(* removes at that moment is dispatched all the same.                       *)
(***************************************************************************)
EXTENDS MessageQueueProofs

\* The message that Get has taken off msgq_ is nowhere else, and its owner
\* cannot remove it any more.
NoPeekInv ==
    /\ Peeked = {} /\ cpc # "copyPeek" /\ peeking = FALSE
    /\ Holding => where[hand] = "hand"

\* Without calls of Peek, msgPeek_ is never used. One step per action.
LEMMA NextNoPeek ==
    ASSUME UsePeek = FALSE, BaseInv, NoPeekInv, [Next]_vars
    PROVE  NoPeekInv'
<1> USE DEF BaseInv, DataOK, HandOK, PosterOK, Holding, Peeked, Ready, NoPeekInv
<1>1. CASE UNCHANGED vars
    BY <1>1 DEF vars, queueVars, historyVars, getVars, timeVars
<1>2. ASSUME NEW w \in Waits, NEW peek \in BOOLEAN, BeginGet(w, peek)
      PROVE  NoPeekInv'
    BY <1>2 DEF BeginGet, queueVars, historyVars
<1>3. CASE TakePeek
    BY <1>3 DEF TakePeek, historyVars, getVars, timeVars
<1>4. CASE BeginScan
    BY <1>4 DEF BeginScan, queueVars, historyVars
<1>5. CASE EndScan
    BY <1>5 DEF EndScan, PullFront, IsFront, historyVars
<1>6. CASE PullAgain
    BY <1>6 DEF PullAgain, PullFront, IsFront, historyVars, timeVars
<1>7. CASE DisposeOf
    BY <1>7 DEF DisposeOf, Cleared, Match, timeVars
<1>8. ASSUME NEW m \in Msgs, MoveTriggered(m)
      PROVE  NoPeekInv'
    BY <1>8 DEF MoveTriggered, PushBack, IsTop, Delayed, historyVars, getVars,
                timeVars
<1>9. CASE GetReturnsTrue
    BY <1>9 DEF GetReturnsTrue, LeaveGet, historyVars
<1>10. CASE Dispatch
    BY <1>10 DEF Dispatch, timeVars
<1>11. CASE GetStops
    BY <1>11 DEF GetStops, LeaveGet, queueVars, historyVars
<1>12. CASE BeginWait
    BY <1>12 DEF BeginWait, queueVars, historyVars
<1>13. CASE EndWait
    BY <1>13 DEF EndWait, queueVars, historyVars, getVars, timeVars
<1>14. CASE WaitFails
    BY <1>14 DEF WaitFails, LeaveGet, queueVars, historyVars
<1>15. CASE AfterWait
    BY <1>15 DEF AfterWait, LeaveGet, queueVars, historyVars
<1>16. CASE Restart
    BY <1>16 DEF Restart, queueVars, historyVars, getVars, timeVars
<1>17. CASE Destroy
    BY <1>17 DEF Destroy, getVars, timeVars
<1>18. CASE Tick
    BY <1>18 DEF Tick, queueVars, historyVars, getVars, timeVars
<1>19. ASSUME NEW p \in Posters, NEW m \in Msgs, BeginPost(p, m)
      PROVE  NoPeekInv'
    BY <1>19 DEF BeginPost, MayUse, historyVars, getVars, timeVars
<1>20. ASSUME NEW p \in Posters, NEW m \in Msgs, NEW o \in Offsets,
              BeginDelayPost(p, m, o)
      PROVE  NoPeekInv'
    BY <1>20 DEF BeginDelayPost, MayUse, historyVars, getVars, timeVars
<1>21. ASSUME NEW p \in Posters, NEW h \in Handlers, Clear(p, h)
      PROVE  NoPeekInv'
    BY <1>21 DEF Clear, Cleared, Match, historyVars, getVars, timeVars
<1>22. ASSUME NEW p \in Posters, Post(p)
      PROVE  NoPeekInv'
    BY <1>22 DEF Post, PushBack, WakeUp, historyVars, getVars, timeVars
<1>23. ASSUME NEW p \in Posters, DoDelayPost(p)
      PROVE  NoPeekInv'
    BY <1>23 DEF DoDelayPost, WakeUp, historyVars, getVars, timeVars
<1>24. ASSUME NEW p \in Posters, Quit(p)
      PROVE  NoPeekInv'
    BY <1>24 DEF Quit, queueVars, historyVars, getVars, timeVars
<1>25. ASSUME NEW p \in Posters, QuitWakeUp(p)
      PROVE  NoPeekInv'
    BY <1>25 DEF QuitWakeUp, WakeUp, queueVars, historyVars, getVars, timeVars
<1> HIDE DEF BaseInv, DataOK, HandOK, PosterOK, Holding, Peeked, Ready, NoPeekInv
<1> QED
    BY NextCases, <1>1, <1>2, <1>3, <1>4, <1>5, <1>6, <1>7, <1>8, <1>9, <1>10, <1>11, <1>12, <1>13,
       <1>14, <1>15, <1>16, <1>17, <1>18, <1>19, <1>20, <1>21, <1>22, <1>23, <1>24, <1>25

-----------------------------------------------------------------------------
(***************************************************************************)
(* The refinement. Most steps leave the three containers alone or move a    *)
(* message inside the mailbox; the other ones are one lemma each.           *)
(***************************************************************************)
\* A step that changes neither the place of a message, up to the mailbox, nor
\* a stamp is a stutter of the mailbox.
LEMMA Stutter ==
    ASSUME where \in [Msgs -> Places], where' \in [Msgs -> Places],
           \A m \in Msgs : BoxOf(where'[m]) = BoxOf(where[m]),
           UNCHANGED <<stamp, nextStamp>>
    PROVE  UNCHANGED AsMailbox!vars
BY DEF AsMailbox!vars

\* push_back is the arrival of a message.
LEMMA PushIsArrive ==
    ASSUME where \in [Msgs -> Places], stamp \in [Msgs -> Nat],
           NEW m \in Msgs, where[m] \in {"new", "delayed"}, PushBack(m)
    PROVE  AsMailbox!Arrive(m)
BY DEF AsMailbox!Arrive, PushBack, BoxOf, Places

\* A step that empties places of containers into "cleared" and "disposed" is a
\* removal.
LEMMA ClearIsRemove ==
    ASSUME where \in [Msgs -> Places], where' \in [Msgs -> Places],
           \A m \in Msgs :
              \/ where'[m] = where[m]
              \/ /\ where'[m] \in {"cleared", "disposed"}
                 /\ where[m] \in {"peek", "ready", "delayed", "hand"},
           UNCHANGED <<stamp, nextStamp>>
    PROVE  AsMailbox!Next
<1> DEFINE S == {m \in Msgs : where'[m] # where[m]}
<1>1. AsMailbox!Remove(S)
    BY DEF AsMailbox!Remove, BoxOf, Places
<1> QED
    BY <1>1 DEF AsMailbox!Next

\* Every step of the queue is a step of the mailbox or leaves it alone.
LEMMA StepRefines ==
    ASSUME BaseInv, BaseInv', OrderInv, NoPeekInv, [Next]_vars
    PROVE  [AsMailbox!Next]_(AsMailbox!vars)
<1> DEFINE Refines == [AsMailbox!Next]_(AsMailbox!vars)
<1> SUFFICES Refines
    OBVIOUS
<1>a. /\ where \in [Msgs -> Places] /\ where' \in [Msgs -> Places]
      /\ stamp \in [Msgs -> Nat]
    BY DEF BaseInv, DataOK
<1>0. ASSUME UNCHANGED <<where, stamp, nextStamp>> PROVE Refines
    BY <1>a, <1>0, Stutter
<1>1. CASE UNCHANGED vars
    BY <1>0, <1>1 DEF vars, queueVars
<1>2. ASSUME NEW w \in Waits, NEW peek \in BOOLEAN, BeginGet(w, peek)
      PROVE  Refines
    BY <1>0, <1>2 DEF BeginGet, queueVars
<1>3. CASE TakePeek
    BY <1>3 DEF TakePeek, NoPeekInv
<1>4. CASE BeginScan
    BY <1>0, <1>4 DEF BeginScan, queueVars
<1>p. ASSUME PullFront, UNCHANGED <<stamp, nextStamp>>
      PROVE  Refines
    BY <1>a, <1>p, Stutter DEF PullFront, IsFront, Ready, BoxOf
<1>5. CASE EndScan
    BY <1>p, <1>5 DEF EndScan
<1>6. CASE PullAgain
    BY <1>p, <1>6 DEF PullAgain
<1>7. CASE DisposeOf
    <2>1. hand \in Msgs /\ where[hand] = "hand"
        BY <1>7 DEF BaseInv, HandOK, NoPeekInv, Holding, DisposeOf
    <2>2. AsMailbox!Next
        BY <1>a, <1>7, <2>1, ClearIsRemove DEF DisposeOf, Cleared
    <2> QED
        BY <2>2
<1>8. ASSUME NEW m \in Msgs, MoveTriggered(m)
      PROVE  Refines
    BY <1>a, <1>8, PushIsArrive DEF MoveTriggered, IsTop, Delayed, AsMailbox!Next
<1>9. CASE GetReturnsTrue
    BY <1>0, <1>9 DEF GetReturnsTrue, NoPeekInv
<1>10. CASE Dispatch
    <2>1. hand \in Msgs /\ where[hand] = "hand"
        BY <1>10 DEF BaseInv, HandOK, NoPeekInv, Holding, Dispatch
    <2>2. \A n \in Msgs : BoxOf(where[n]) = "in" => stamp[hand] <= stamp[n]
        BY <1>a, <1>10, <2>1 DEF BaseInv, HandOK, NoPeekInv, OrderInv, Holding,
           Peeked, BoxOf, Dispatch, Places
    <2>3. AsMailbox!Serve(hand)
        BY <1>a, <1>10, <2>1, <2>2 DEF Dispatch, AsMailbox!Serve, BoxOf
    <2> QED
        BY <2>1, <2>3 DEF AsMailbox!Next
<1>11. CASE GetStops
    BY <1>0, <1>11 DEF GetStops, queueVars
<1>12. CASE BeginWait
    BY <1>0, <1>12 DEF BeginWait, queueVars
<1>13. CASE EndWait
    BY <1>0, <1>13 DEF EndWait, queueVars
<1>14. CASE WaitFails
    BY <1>0, <1>14 DEF WaitFails, queueVars
<1>15. CASE AfterWait
    BY <1>0, <1>15 DEF AfterWait, queueVars
<1>16. CASE Restart
    BY <1>0, <1>16 DEF Restart, queueVars
<1>17. CASE Destroy
    <2>1. AsMailbox!Next
        BY <1>a, <1>17, ClearIsRemove DEF Destroy
    <2> QED
        BY <2>1
<1>18. CASE Tick
    BY <1>0, <1>18 DEF Tick, queueVars
<1>19. ASSUME NEW p \in Posters, NEW m \in Msgs, BeginPost(p, m)
      PROVE  Refines
    BY <1>a, <1>19, Stutter DEF BeginPost, MayUse, BoxOf
<1>20. ASSUME NEW p \in Posters, NEW m \in Msgs, NEW o \in Offsets,
              BeginDelayPost(p, m, o)
      PROVE  Refines
    BY <1>a, <1>20, Stutter DEF BeginDelayPost, MayUse, BoxOf
<1>21. ASSUME NEW p \in Posters, NEW h \in Handlers, Clear(p, h)
      PROVE  Refines
    <2>1. AsMailbox!Next
        BY <1>a, <1>21, ClearIsRemove DEF Clear, Cleared
    <2> QED
        BY <2>1
<1>22. ASSUME NEW p \in Posters, Post(p)
      PROVE  Refines
    <2>1. ppc[p].m \in Msgs /\ where[ppc[p].m] = "new"
        BY <1>22 DEF Post, BaseInv, PosterOK
    <2> QED
        BY <1>a, <1>22, <2>1, PushIsArrive DEF Post, AsMailbox!Next
<1>23. ASSUME NEW p \in Posters, DoDelayPost(p)
      PROVE  Refines
    <2>1. ppc[p].m \in Msgs /\ where[ppc[p].m] = "new"
        BY <1>23 DEF DoDelayPost, BaseInv, PosterOK
    <2>2. AsMailbox!Delay(ppc[p].m)
        BY <1>a, <1>23, <2>1 DEF DoDelayPost, AsMailbox!Delay, BoxOf
    <2> QED
        BY <2>1, <2>2 DEF AsMailbox!Next
<1>24. ASSUME NEW p \in Posters, Quit(p)
      PROVE  Refines
    BY <1>0, <1>24 DEF Quit, queueVars
<1>25. ASSUME NEW p \in Posters, QuitWakeUp(p)
      PROVE  Refines
    BY <1>0, <1>25 DEF QuitWakeUp, queueVars
<1> HIDE DEF Refines
<1> QED
    BY NextCases, <1>1, <1>2, <1>3, <1>4, <1>5, <1>6, <1>7, <1>8, <1>9, <1>10, <1>11, <1>12, <1>13,
       <1>14, <1>15, <1>16, <1>17, <1>18, <1>19, <1>20, <1>21, <1>22, <1>23, <1>24, <1>25

\* To the threads that use it the queue is a mailbox: what Post and PostDelayed
\* accept is served once, in the order of arrival, or removed for good.
THEOREM QueueIsMailbox ==
    ASSUME UsePeek = FALSE
    PROVE  Spec => ImplementsMailbox
<1>1. Init => NoPeekInv
    BY DEF Init, NoPeekInv, Peeked, Holding
<1>2. BaseInv /\ NoPeekInv /\ [Next]_vars => NoPeekInv'
    BY NextNoPeek
<1>3. Init => AsMailbox!Init
    BY DEF Init, AsMailbox!Init, BoxOf
<1>4. BaseInv /\ BaseInv' /\ OrderInv /\ NoPeekInv /\ [Next]_vars
        => [AsMailbox!Next]_(AsMailbox!vars)
    BY StepRefines
<1>5. Init => OrderInv
    BY DEF Init, OrderInv, Holding
<1>6. BaseInv /\ OrderInv /\ [Next]_vars => OrderInv'
    BY NextOrder
<1> QED
    BY <1>1, <1>2, <1>3, <1>4, <1>5, <1>6, TypeCorrect, PTL
       DEF Spec, ImplementsMailbox, AsMailbox!Spec
=============================================================================
