------------------------------- MODULE Thread -------------------------------
(***************************************************************************)
(* rtc::Thread (webrtc/base/thread.cc): synchronous calls between threads.  *)
(*                                                                          *)
(* Thread::Send puts a message on the target's sendlist_ and blocks until   *)
(* the target has run its handler. While it blocks, it serves the sends     *)
(* that come from its own target, so that two threads may call each other;  *)
(* a handler that is served this way may Send again, so calls nest. A       *)
(* thread is a stack of activation records, the innermost last:             *)
(*   "get"   Get in ProcessMessages, at the bottom of the stack;            *)
(*   "task"  the handler of a posted message (Dispatch);                    *)
(*   "serve" the handler of send id, run by ReceiveSendsFromThread;         *)
(*   "send"  Thread::Send of send id to `to', with its local `waited'.       *)
(* A send gets its number when it is queued, so that sendlist_ is a set and *)
(* the oldest of its members is the one with the least number.              *)
(* The messages that are posted are counted only; MessageQueue says how     *)
(* they are kept. What the code does under crit_ of one thread is one step. *)
(***************************************************************************)
EXTENDS Naturals, Sequences, SequencesExt

CONSTANTS
    Threads,
    MaySend,    \* <<t, u>>: handlers that run on t may Send to u
    MayPost,    \* <<t, u>>: handlers that run on t may Post to u
    Quitters,   \* the threads that somebody may stop
    MaxSends,   \* bound on the number of sends
    MaxPosts    \* bound on the number of posts

ASSUME EdgesAssumption ==
    MaySend \subseteq Threads \X Threads /\ MayPost \subseteq Threads \X Threads
ASSUME BoundsAssumption == MaxSends \in Nat /\ MaxPosts \in Nat

VARIABLES
    stack,     \* [Threads -> Seq(frames)]; empty when the loop has ended
    sendlist,  \* [Threads -> sets of send ids]: sendlist_
    msgq,      \* [Threads -> number of posted messages]: msgq_
    wake,      \* [Threads -> the socket server is signalled]
    fStop,     \* [Threads -> fStop_]
    gone,      \* the threads whose destructor has run
    from,      \* [ids -> thread]: who sent id
    ready,     \* the ids whose `ready' flag was set
    sends, posts

vars == <<stack, sendlist, msgq, wake, fStop, gone, from, ready, sends, posts>>

Ids == DOMAIN from
NoId == 0

\* `to' is the thread that a "send" frame calls, and the frame's own otherwise.
Frame(k, to, id, pc) ==
    [k |-> k, to |-> to, id |-> id, pc |-> pc, waited |-> FALSE]
Frames ==
    [k : {"get", "task", "serve", "send"}, to : Threads, id : Nat,
     pc : {"sends", "queue", "stop", "wait", "run", "push", "wakeUp", "test",
           "receive"},
     waited : BOOLEAN]

TypeOK ==
    /\ stack \in [Threads -> Seq(Frames)]
    /\ from \in Seq(Threads)
    /\ sendlist \in [Threads -> SUBSET Ids] /\ ready \subseteq Ids
    /\ \A t \in Threads : \A i \in DOMAIN stack[t] : stack[t][i].id \in Ids \cup {NoId}
    /\ msgq \in [Threads -> 0 .. MaxPosts]
    /\ wake \in [Threads -> BOOLEAN] /\ fStop \in [Threads -> BOOLEAN]
    /\ gone \subseteq Threads
    /\ sends \in 0 .. MaxSends /\ posts \in 0 .. MaxPosts

\* Every thread is in Get.
Init ==
    /\ stack = [t \in Threads |-> <<Frame("get", t, NoId, "sends")>>]
    /\ sendlist = [t \in Threads |-> {}]
    /\ msgq = [t \in Threads |-> 0]
    /\ wake = [t \in Threads |-> FALSE] /\ fStop = [t \in Threads |-> FALSE]
    /\ gone = {}
    /\ from = <<>> /\ ready = {}
    /\ sends = 0 /\ posts = 0

-----------------------------------------------------------------------------
(***************************************************************************)
(* The stack of a thread.                                                   *)
(***************************************************************************)
At(t, k, pc) ==
    stack[t] # <<>> /\ Last(stack[t]).k = k /\ Last(stack[t]).pc = pc
InHandler(t) == At(t, "task", "run") \/ At(t, "serve", "run")

\* The innermost frame of t goes on at pc; a call pushes f, a return pops.
Goto(t, pc) ==
    stack' = [stack EXCEPT ![t][Len(stack[t])].pc = pc]
GotoAndCall(t, pc, f) ==
    stack' = [stack EXCEPT ![t] =
                Append([@ EXCEPT ![Len(@)].pc = pc], f)]
Call(t, f) == stack' = [stack EXCEPT ![t] = Append(@, f)]
Return(t) == stack' = [stack EXCEPT ![t] = Front(@)]

WakeUp(t) == wake' = [wake EXCEPT ![t] = TRUE]

\* The first match in sendlist_, and its erase in PopSendMessageFromThread.
First(id, ids) == id \in ids /\ \A j \in ids : id <= j
PopSend(t, id) == sendlist' = [sendlist EXCEPT ![t] = @ \ {id}]

(***************************************************************************)
(* Get: serve the sends, then the posted messages, then stop or sleep.      *)
(***************************************************************************)
ReceiveSends(t) ==
    /\ At(t, "get", "sends")
    /\ \/ /\ sendlist[t] = {}
          /\ Goto(t, "queue") /\ UNCHANGED sendlist
       \/ \E id \in sendlist[t] :
             /\ First(id, sendlist[t])
             /\ Call(t, Frame("serve", t, id, "run"))
             /\ PopSend(t, id)
    /\ UNCHANGED <<msgq, wake, fStop, gone, from, ready, sends, posts>>

\* Mutant: msgq_ is popped without being tested.
BugGetMessage(t) ==
    /\ At(t, "get", "queue")
    /\ msgq' = [msgq EXCEPT ![t] = @ - 1]
    /\ GotoAndCall(t, "sends", Frame("task", t, NoId, "run"))
    /\ UNCHANGED <<sendlist, wake, fStop, gone, from, ready, sends, posts>>

GetMessage(t) ==
    /\ At(t, "get", "queue")
    /\ \/ msgq[t] = 0 /\ Goto(t, "stop") /\ UNCHANGED msgq
       \/ /\ msgq[t] > 0
          /\ msgq' = [msgq EXCEPT ![t] = @ - 1]
          /\ GotoAndCall(t, "sends", Frame("task", t, NoId, "run"))
    /\ UNCHANGED <<sendlist, wake, fStop, gone, from, ready, sends, posts>>

GetStopOrWait(t) ==
    /\ At(t, "get", "stop")
    /\ IF fStop[t] THEN Return(t) ELSE Goto(t, "wait")
    /\ UNCHANGED <<sendlist, msgq, wake, fStop, gone, from, ready, sends, posts>>

GetWakesUp(t) ==
    /\ At(t, "get", "wait") /\ wake[t]
    /\ wake' = [wake EXCEPT ![t] = FALSE]
    /\ Goto(t, "sends")
    /\ UNCHANGED <<sendlist, msgq, fStop, gone, from, ready, sends, posts>>

(***************************************************************************)
(* What a handler may do: Send, Post, return.                               *)
(***************************************************************************)
\* Thread::Send: refused when the target is stopping (fStop_ is read without
\* crit_), a direct call on the current thread, a blocking call otherwise.
Send(t, u) ==
    /\ InHandler(t) /\ <<t, u>> \in MaySend /\ u \notin gone
    /\ ~fStop[u] /\ sends < MaxSends
    /\ Call(t, IF t = u THEN Frame("task", t, NoId, "run")
               ELSE Frame("send", u, NoId, "push"))
    /\ sends' = sends + 1
    /\ UNCHANGED <<sendlist, msgq, wake, fStop, gone, from, ready, posts>>

\* A Post to another thread, or from outside the modelled threads (t = u).
Post(t, u) ==
    /\ t = u \/ InHandler(t)
    /\ <<t, u>> \in MayPost /\ posts < MaxPosts /\ ~fStop[u] /\ u \notin gone
    /\ msgq' = [msgq EXCEPT ![u] = @ + 1] /\ posts' = posts + 1
    /\ WakeUp(u)
    /\ UNCHANGED <<stack, sendlist, fStop, gone, from, ready, sends>>

TaskReturns(t) ==
    /\ At(t, "task", "run")
    /\ Return(t)
    /\ UNCHANGED <<sendlist, msgq, wake, fStop, gone, from, ready, sends, posts>>

\* The end of ReceiveSendsFromThread's loop body: *smsg.ready = true, and wake
\* the sender.
ServeReturns(t) ==
    LET id == Last(stack[t]).id IN
    /\ At(t, "serve", "run")
    /\ ready' = ready \cup {id}
    /\ WakeUp(from[id])
    /\ Return(t)
    /\ UNCHANGED <<sendlist, msgq, fStop, gone, from, sends, posts>>

(***************************************************************************)
(* The rest of Thread::Send.                                                *)
(***************************************************************************)
PushSend(t) ==
    LET id == Len(from) + 1 IN
    /\ At(t, "send", "push")
    /\ from' = Append(from, t)
    /\ sendlist' = [sendlist EXCEPT ![Last(stack[t]).to] = @ \cup {id}]
    /\ stack' = [stack EXCEPT ![t][Len(stack[t])] =
                   [@ EXCEPT !.pc = "wakeUp", !.id = id]]
    /\ UNCHANGED <<msgq, wake, fStop, gone, ready, sends, posts>>

WakeTarget(t) ==
    /\ At(t, "send", "wakeUp")
    /\ WakeUp(Last(stack[t]).to)
    /\ Goto(t, "test")
    /\ UNCHANGED <<sendlist, msgq, fStop, gone, from, ready, sends, posts>>

\* Mutant: the wakeups that the wait consumed are not reissued.
BugTestReady(t) ==
    LET f == Last(stack[t]) IN
    /\ At(t, "send", "test")
    /\ IF f.id \in ready THEN Return(t) ELSE Goto(t, "receive")
    /\ UNCHANGED <<sendlist, msgq, wake, fStop, gone, from, ready, sends, posts>>

\* while (!ready): leave, or go round again. A Send that has waited may have
\* consumed a wakeup meant for an outer frame, so it reissues one.
TestReady(t) ==
    LET f == Last(stack[t]) IN
    /\ At(t, "send", "test")
    /\ IF f.id \in ready
       THEN Return(t) /\ wake' = [wake EXCEPT ![t] = @ \/ f.waited]
       ELSE Goto(t, "receive") /\ UNCHANGED wake
    /\ UNCHANGED <<sendlist, msgq, fStop, gone, from, ready, sends, posts>>

\* PopSendMessageFromThread: the sends by source.
FromSource(t, source) == {id \in sendlist[t] : from[id] = source}

\* ReceiveSendsFromThread(target), called by a blocked Send.
ReceiveSendsFromThread(t) ==
    LET from_u == FromSource(t, Last(stack[t]).to) IN
    /\ At(t, "send", "receive")
    /\ \/ from_u = {} /\ Goto(t, "wait") /\ UNCHANGED sendlist
       \/ \E id \in from_u :
             /\ First(id, from_u)
             /\ Call(t, Frame("serve", t, id, "run"))
             /\ PopSend(t, id)
    /\ UNCHANGED <<msgq, wake, fStop, gone, from, ready, sends, posts>>

SendWakesUp(t) ==
    /\ At(t, "send", "wait") /\ wake[t]
    /\ wake' = [wake EXCEPT ![t] = FALSE]
    /\ stack' = [stack EXCEPT ![t][Len(stack[t])] =
                   [@ EXCEPT !.pc = "test", !.waited = TRUE]]
    /\ UNCHANGED <<sendlist, msgq, fStop, gone, from, ready, sends, posts>>

(***************************************************************************)
(* Clear, Quit and the destructor, called from outside the modelled threads.*)
(***************************************************************************)
\* Mutant: the cleared sends stay on the list.
BugClearSends(t, ids) ==
    /\ ready' = ready \cup ids
    /\ wake' = [u \in Threads |-> wake[u] \/ \E id \in ids : from[id] = u]
    /\ UNCHANGED sendlist

\* The sends that match are erased and answered.
ClearSends(t, ids) ==
    /\ sendlist' = [sendlist EXCEPT ![t] = @ \ ids]
    /\ ready' = ready \cup ids
    /\ wake' = [u \in Threads |-> wake[u] \/ \E id \in ids : from[id] = u]

\* Thread::Clear for one handler: `ids' are its unserved sends, and all but
\* `rest' of the posted messages are its own.
Clear(t, ids, rest) ==
    /\ ids # {} \/ rest < msgq[t]
    /\ ClearSends(t, ids)
    /\ msgq' = [msgq EXCEPT ![t] = rest]
    /\ UNCHANGED <<stack, fStop, gone, from, sends, posts>>

Quit(t) ==
    /\ t \in Quitters /\ ~fStop[t]
    /\ fStop' = [fStop EXCEPT ![t] = TRUE]
    /\ WakeUp(t)
    /\ UNCHANGED <<stack, sendlist, msgq, gone, from, ready, sends, posts>>

\* Mutant: the sends that were never served are forgotten.
BugDestroy(t) ==
    /\ fStop[t] /\ stack[t] = <<>> /\ t \notin gone
    /\ gone' = gone \cup {t}
    /\ UNCHANGED <<stack, sendlist, msgq, wake, fStop, from, ready, sends, posts>>

\* ~Thread, after Join: Clear(NULL) answers the sends that were never served.
\* Whoever destroys a thread must not do so while another thread is entering
\* a Send to it; a Send that is already queued is answered.
Destroy(t) ==
    /\ fStop[t] /\ stack[t] = <<>> /\ t \notin gone
    /\ \A u \in Threads :
          At(u, "send", "push") \/ At(u, "send", "wakeUp") =>
              Last(stack[u]).to # t
    /\ gone' = gone \cup {t}
    /\ ClearSends(t, sendlist[t])
    /\ msgq' = [msgq EXCEPT ![t] = 0]
    /\ UNCHANGED <<stack, fStop, from, sends, posts>>

Step(t) ==
    \/ ReceiveSends(t) \/ GetMessage(t) \/ GetStopOrWait(t) \/ GetWakesUp(t)
    \/ TaskReturns(t) \/ ServeReturns(t)
    \/ PushSend(t) \/ WakeTarget(t) \/ TestReady(t)
    \/ ReceiveSendsFromThread(t) \/ SendWakesUp(t)

Next ==
    \E t \in Threads :
        \/ Step(t)
        \/ \E u \in Threads : Send(t, u) \/ Post(t, u)
        \/ \E ids \in SUBSET sendlist[t], rest \in 0 .. msgq[t] :
              Clear(t, ids, rest)
        \/ Quit(t) \/ Destroy(t)

Spec == Init /\ [][Next]_vars

(***************************************************************************)
(* Threads are scheduled and handlers return; the owner of a stopped thread *)
(* destroys it. Nothing obliges a handler to Send or to Post.               *)
(***************************************************************************)
FairSpec ==
    Spec /\ \A t \in Threads : WF_vars(Step(t)) /\ WF_vars(Destroy(t))

-----------------------------------------------------------------------------
(***************************************************************************)
(* Properties.                                                              *)
(***************************************************************************)
SendFrame(t, id) ==
    \E i \in DOMAIN stack[t] : stack[t][i].k = "send" /\ stack[t][i].id = id
Serving(t, id) ==
    \E i \in DOMAIN stack[t] : stack[t][i].k = "serve" /\ stack[t][i].id = id

\* A send that is queued or being served still has its Send blocked on it: the
\* pointers to `ready' and to the message, which live in Send's frame, are
\* valid when ReceiveSendsFromThread and Clear use them.
ReadyPointerValid ==
    \A t \in Threads, id \in Ids :
        id \in sendlist[t] \/ Serving(t, id) =>
            SendFrame(from[id], id) /\ id \notin ready

\* No lost wakeup: a thread that sleeps, in Get or in Send, without being
\* signalled has nothing to do. In Get it has no send and no message; in Send
\* its answer has not come and its target has sent it nothing. The exception
\* is a sender that has queued its send and is about to signal.
AboutToSignal(id) == At(from[id], "send", "wakeUp") /\ Last(stack[from[id]]).id = id
NoLostWakeup ==
    \A t \in Threads : ~wake[t] =>
        /\ At(t, "get", "wait") =>
              /\ msgq[t] = 0 /\ ~fStop[t]
              /\ \A id \in sendlist[t] : AboutToSignal(id)
        /\ At(t, "send", "wait") =>
              LET f == Last(stack[t]) IN
              /\ f.id \notin ready
              /\ \A id \in sendlist[t] :
                    from[id] = f.to => AboutToSignal(id)

\* Every Send returns: the target serves it, Clear or the target's destructor
\* answers it, and the answer is not missed. Holds when the threads do not
\* wait for each other in a ring of three or more.
SendReturns ==
    \A id \in 1 .. MaxSends :
        (\E t \in Threads : SendFrame(t, id)) ~> (\A t \in Threads : ~SendFrame(t, id))
=============================================================================
