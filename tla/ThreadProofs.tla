---------------------------- MODULE ThreadProofs ----------------------------
(***************************************************************************)
(* Proofs about Thread for any set of threads, any permission to send and   *)
(* to post, and any number of sends and posts.                              *)
(***************************************************************************)
EXTENDS Thread, SequenceTheorems, TLAPS

USE EdgesAssumption, BoundsAssumption

Kinds == {"get", "task", "serve", "send"}
Pcs == {"sends", "queue", "stop", "wait", "run", "push", "wakeUp", "test", "receive"}

-----------------------------------------------------------------------------
(***************************************************************************)
(* What a step does to the stacks.                                          *)
(***************************************************************************)
\* Only the stack of t changes; of its frames the first n stay as they are.
Keeps(t, n) ==
    /\ stack' \in [Threads -> Seq(Frames)]
    /\ \A u \in Threads : u # t => stack'[u] = stack[u]
    /\ \A i \in 1 .. n : i \in DOMAIN stack[t] /\ i \in DOMAIN stack'[t] /\ stack'[t][i] = stack[t][i]

\* The innermost frame is replaced by f.
Replaces(t, f) ==
    /\ Keeps(t, Len(stack[t]) - 1)
    /\ DOMAIN stack'[t] = DOMAIN stack[t] /\ Len(stack'[t]) = Len(stack[t])
    /\ stack'[t][Len(stack[t])] = f

\* A frame f is called, or the innermost one returns.
Calls(t, f) ==
    /\ Keeps(t, Len(stack[t]))
    /\ DOMAIN stack'[t] = 1 .. (Len(stack[t]) + 1) /\ Len(stack'[t]) = Len(stack[t]) + 1
    /\ stack'[t][Len(stack[t]) + 1] = f
Returns(t) ==
    /\ Keeps(t, Len(stack[t]) - 1)
    /\ DOMAIN stack'[t] = 1 .. (Len(stack[t]) - 1) /\ Len(stack'[t]) = Len(stack[t]) - 1

\* The innermost frame of a stack that is not empty.
LEMMA TopFrame ==
    ASSUME TypeOK, NEW t \in Threads, stack[t] # <<>>
    PROVE  /\ stack[t] \in Seq(Frames) /\ Len(stack[t]) \in Nat \ {0}
           /\ DOMAIN stack[t] = 1 .. Len(stack[t]) /\ Len(stack[t]) \in DOMAIN stack[t]
           /\ Last(stack[t]) = stack[t][Len(stack[t])] /\ Last(stack[t]) \in Frames
<1>1. stack[t] \in Seq(Frames)
    BY SMTT(40) DEF TypeOK
<1> QED
    BY <1>1 DEF Last

\* Replacing the innermost frame.
LEMMA ReplaceStack ==
    ASSUME TypeOK, NEW t \in Threads, stack[t] # <<>>, NEW f \in Frames,
           stack' = [stack EXCEPT ![t] = [@ EXCEPT ![Len(stack[t])] = f]]
    PROVE  Replaces(t, f)
<1>1. stack \in [Threads -> Seq(Frames)]
    BY DEF TypeOK
<1>2. stack[t] \in Seq(Frames) /\ Len(stack[t]) \in DOMAIN stack[t]
    BY TopFrame
<1> DEFINE s == stack[t]
           r == [s EXCEPT ![Len(s)] = f]
<1>3. /\ r \in Seq(Frames) /\ Len(r) = Len(s) /\ DOMAIN r = DOMAIN s
      /\ \A i \in 1 .. (Len(s) - 1) : i \in DOMAIN s /\ r[i] = s[i]
      /\ r[Len(s)] = f
    BY <1>2
<1>4. stack'[t] = r /\ stack' = [stack EXCEPT ![t] = r]
    BY <1>1
<1> HIDE DEF r
<1> QED
    BY <1>1, <1>3, <1>4 DEF Replaces, Keeps

\* The three ways in which the actions move the innermost frame on.
LEMMA GotoStack ==
    ASSUME TypeOK, NEW t \in Threads, stack[t] # <<>>, NEW pc \in Pcs, Goto(t, pc)
    PROVE  Replaces(t, [Last(stack[t]) EXCEPT !.pc = pc])
<1>1. stack \in [Threads -> Seq(Frames)] /\ stack[t] \in Seq(Frames)
    BY DEF TypeOK
<1>2. [Last(stack[t]) EXCEPT !.pc = pc] \in Frames
    BY TopFrame DEF Frames, Pcs
<1>3. stack' = [stack EXCEPT ![t] = [@ EXCEPT ![Len(stack[t])] = [Last(stack[t]) EXCEPT !.pc = pc]]]
    BY <1>1, TopFrame DEF Goto
<1> QED
    BY <1>2, <1>3, ReplaceStack

\* A call.
LEMMA CallStack ==
    ASSUME TypeOK, NEW t \in Threads, NEW f \in Frames, Call(t, f)
    PROVE  Calls(t, f)
<1>1. stack \in [Threads -> Seq(Frames)] /\ stack[t] \in Seq(Frames)
    BY DEF TypeOK
<1> DEFINE s == stack[t]
           r == Append(s, f)
<1>2. /\ r \in Seq(Frames) /\ Len(r) = Len(s) + 1 /\ DOMAIN r = 1 .. (Len(s) + 1)
      /\ \A i \in 1 .. Len(s) : i \in DOMAIN s /\ i \in DOMAIN r /\ r[i] = s[i]
      /\ r[Len(s) + 1] = f
    BY <1>1, AppendProperties
<1>3. stack'[t] = r /\ stack' = [stack EXCEPT ![t] = r]
    BY <1>1 DEF Call
<1> HIDE DEF r
<1> QED
    BY <1>1, <1>2, <1>3 DEF Calls, Keeps

\* A return.
LEMMA ReturnStack ==
    ASSUME TypeOK, NEW t \in Threads, stack[t] # <<>>, Return(t)
    PROVE  Returns(t)
<1>1. stack \in [Threads -> Seq(Frames)] /\ stack[t] \in Seq(Frames)
    BY DEF TypeOK
<1> DEFINE s == stack[t]
           r == Front(s)
<1>2. /\ r \in Seq(Frames) /\ Len(r) = Len(s) - 1 /\ DOMAIN r = 1 .. (Len(s) - 1)
      /\ \A i \in 1 .. (Len(s) - 1) : i \in DOMAIN s /\ i \in DOMAIN r /\ r[i] = s[i]
    <2>1. Len(s) \in Nat \ {0} /\ DOMAIN s = 1 .. Len(s)
        BY <1>1, TopFrame
    <2>2. \A i \in 1 .. (Len(s) - 1) : s[i] \in Frames
        BY <1>1, <2>1
    <2>3. /\ SubSeq(s, 1, Len(s) - 1) \in Seq(Frames)
          /\ Len(SubSeq(s, 1, Len(s) - 1)) = IF 1 <= Len(s) - 1 THEN Len(s) - 1 - 1 + 1 ELSE 0
          /\ \A i \in 1 .. (Len(s) - 1 - 1 + 1) : SubSeq(s, 1, Len(s) - 1)[i] = s[1 + i - 1]
        BY <2>1, <2>2, SubSeqProperties
    <2>4. Len(s) - 1 - 1 + 1 = Len(s) - 1 /\ \A i \in 1 .. (Len(s) - 1) : 1 + i - 1 = i
        BY <2>1
    <2>5. /\ r \in Seq(Frames) /\ Len(r) = Len(s) - 1
          /\ \A i \in 1 .. (Len(s) - 1) : r[i] = s[i]
        BY <2>1, <2>3, <2>4 DEF Front
    <2> HIDE DEF r
    <2> QED
        BY <2>1, <2>5
<1>3. stack'[t] = r /\ stack' = [stack EXCEPT ![t] = r]
    BY <1>1 DEF Return
<1> HIDE DEF r
<1> QED
    BY <1>1, <1>2, <1>3 DEF Returns, Keeps

\* A message of msgq_ is taken: Get goes on with the sends once its handler has
\* returned.
LEMMA TaskStack ==
    ASSUME TypeOK, NEW t \in Threads, stack[t] # <<>>, NEW pc \in Pcs, NEW f \in Frames,
           GotoAndCall(t, pc, f)
    PROVE  /\ Keeps(t, Len(stack[t]) - 1)
           /\ DOMAIN stack'[t] = 1 .. (Len(stack[t]) + 1) /\ Len(stack'[t]) = Len(stack[t]) + 1
           /\ stack'[t][Len(stack[t])] = [Last(stack[t]) EXCEPT !.pc = pc]
           /\ stack'[t][Len(stack[t]) + 1] = f
<1>1. stack \in [Threads -> Seq(Frames)] /\ stack[t] \in Seq(Frames)
    BY DEF TypeOK
<1> DEFINE s == stack[t]
           g == [Last(s) EXCEPT !.pc = pc]
           q == [s EXCEPT ![Len(s)] = g]
           r == Append(q, f)
<1>2. g \in Frames /\ Len(s) \in DOMAIN s /\ Len(s) \in Nat \ {0} /\ Last(s) = s[Len(s)]
    BY TopFrame DEF Frames, Pcs
<1>3. stack'[t] = r /\ stack' = [stack EXCEPT ![t] = r]
    BY <1>1, <1>2 DEF GotoAndCall
<1> HIDE DEF g
<1>4. /\ q \in Seq(Frames) /\ Len(q) = Len(s) /\ DOMAIN q = DOMAIN s /\ q[Len(s)] = g
      /\ \A i \in 1 .. (Len(s) - 1) : i \in DOMAIN s /\ q[i] = s[i]
    BY <1>1, <1>2
<1> HIDE DEF q
<1>5. /\ r \in Seq(Frames) /\ Len(r) = Len(s) + 1 /\ DOMAIN r = 1 .. (Len(s) + 1)
      /\ \A i \in 1 .. Len(s) : r[i] = q[i]
      /\ r[Len(s) + 1] = f
    BY <1>1, <1>2, <1>4, AppendProperties
<1> HIDE DEF r
<1>6. \A i \in 1 .. (Len(s) - 1) : i \in DOMAIN s /\ i \in DOMAIN r /\ r[i] = s[i]
    BY <1>2, <1>4, <1>5
<1>7. r[Len(s)] = g
    BY <1>2, <1>4, <1>5
<1> QED
    BY <1>1, <1>3, <1>5, <1>6, <1>7 DEF Keeps, g

-----------------------------------------------------------------------------
(***************************************************************************)
(* Type correctness.                                                        *)
(***************************************************************************)
\* The queue of a thread holds no more than what was posted.
BaseInv == TypeOK /\ \A t \in Threads : msgq[t] <= posts

StackOK ==
    /\ stack \in [Threads -> Seq(Frames)]
    /\ \A t \in Threads : \A i \in DOMAIN stack[t] : stack[t][i].id \in Ids \cup {NoId}

\* The identifiers in the frames stay known.
LEMMA StackTyped ==
    ASSUME TypeOK, NEW t \in Threads, NEW n \in Nat, Keeps(t, n), Ids \subseteq Ids',
           \A i \in DOMAIN stack'[t] : i > n => stack'[t][i].id \in Ids' \cup {NoId}
    PROVE  StackOK'
<1>1. stack' \in [Threads -> Seq(Frames)]
    BY DEF Keeps
<1>2. ASSUME NEW u \in Threads, NEW i \in DOMAIN stack'[u] PROVE stack'[u][i].id \in Ids' \cup {NoId}
    <2>1. CASE u # t
        BY <1>2, <2>1 DEF Keeps, TypeOK
    <2>2. CASE u = t
        <3>1. i \in Nat /\ i > 0
            BY <1>1, <1>2
        <3>2. CASE i > n
            BY <1>2, <2>2, <3>2
        <3>3. CASE ~(i > n)
            <4>1. i \in 1 .. n
                BY <3>1, <3>3
            <4> QED
                BY <2>2, <4>1 DEF Keeps, TypeOK
        <3> QED
            BY <3>2, <3>3
    <2> QED
        BY <2>1, <2>2
<1> QED
    BY <1>1, <1>2 DEF StackOK

\* The shapes of the frames that are called.
LEMMA FrameTypes ==
    /\ \A t \in Threads : /\ Frame("task", t, NoId, "run") \in Frames
                          /\ Frame("send", t, NoId, "push") \in Frames
                          /\ Frame("get", t, NoId, "sends") \in Frames
                          /\ Frame("task", t, NoId, "run").id = NoId
                          /\ Frame("send", t, NoId, "push").id = NoId
    /\ \A t \in Threads, id \in Nat : /\ Frame("serve", t, id, "run") \in Frames
                                      /\ Frame("serve", t, id, "run").id = id
BY DEF Frame, Frames, NoId

-----------------------------------------------------------------------------
(***************************************************************************)
(* The pointers into the frame of a Send.                                   *)
(***************************************************************************)
IsSend(f) == f.k = "send" /\ f.id # NoId

\* A send has one frame, on the thread that sent it; it is in the list of the
\* thread it was sent to, or served in one place, or neither, and while it is in
\* one of them it is not answered.
PtrInv ==
    /\ \A t \in Threads : \A i \in DOMAIN stack[t] :
          IsSend(stack[t][i]) => stack[t][i].id \in Ids /\ from[stack[t][i].id] = t
    /\ \A t \in Threads : \A i, j \in DOMAIN stack[t] :
          IsSend(stack[t][i]) /\ IsSend(stack[t][j]) /\ stack[t][i].id = stack[t][j].id => i = j
    /\ \A t \in Threads : \A i \in DOMAIN stack[t] : stack[t][i].k = "serve" =>
          /\ stack[t][i].id \in Ids \ ready
          /\ SendFrame(from[stack[t][i].id], stack[t][i].id)
    /\ \A t, u \in Threads : \A i \in DOMAIN stack[t], j \in DOMAIN stack[u] :
          stack[t][i].k = "serve" /\ stack[u][j].k = "serve" /\ stack[t][i].id = stack[u][j].id =>
              t = u /\ i = j
    /\ \A t \in Threads : \A id \in sendlist[t] :
          /\ id \notin ready
          /\ \E i \in DOMAIN stack[from[id]] :
                /\ IsSend(stack[from[id]][i])
                /\ stack[from[id]][i].id = id /\ stack[from[id]][i].to = t
    /\ \A t, u \in Threads : \A id \in sendlist[t], i \in DOMAIN stack[u] :
          stack[u][i].k = "serve" => stack[u][i].id # id

(***************************************************************************)
(* Wakeups.                                                                 *)
(***************************************************************************)
\* A frame that has called another one goes on here.
Suspended(f) ==
    /\ f.k = "get" => f.pc = "sends"
    /\ f.k = "send" => f.pc = "receive"
    /\ f.k \in {"task", "serve"} => f.pc = "run"

\* The stack: Get is at the bottom, and a Send has no number before it is queued.
Nested(t) ==
    /\ \A i \in DOMAIN stack[t] : i < Len(stack[t]) => Suspended(stack[t][i])
    /\ \A i \in DOMAIN stack[t] : stack[t][i].k = "get" => i = 1
    /\ At(t, "send", "push") => Last(stack[t]).id = NoId

\* An outer Send whose answer has come will be told, because an inner one that
\* has waited wakes the thread when it returns.
Told(t) ==
    ~wake[t] =>
        \A i \in DOMAIN stack[t] :
            stack[t][i].k = "send" /\ stack[t][i].pc = "receive" /\ stack[t][i].id \in ready =>
                \E j \in DOMAIN stack[t] : j > i /\ stack[t][j].k = "send" /\ stack[t][j].waited

\* What the innermost frame of t, on its way to sleep, has seen already.
Seen(t) ==
    ~wake[t] =>
        /\ At(t, "get", "queue") \/ At(t, "get", "stop") \/ At(t, "get", "wait") =>
              \A id \in sendlist[t] : AboutToSignal(id)
        /\ At(t, "get", "stop") \/ At(t, "get", "wait") => msgq[t] = 0
        /\ At(t, "get", "wait") => ~fStop[t]
        /\ At(t, "send", "wait") =>
              /\ Last(stack[t]).id \notin ready
              /\ \A id \in sendlist[t] : from[id] = Last(stack[t]).to => AboutToSignal(id)
WakeOK(t) == Nested(t) /\ Told(t) /\ Seen(t)
WakeInv == \A t \in Threads : WakeOK(t)

-----------------------------------------------------------------------------
(***************************************************************************)
(* Preservation, for each kind of step.                                     *)
(***************************************************************************)
Alike(f, g) == f.k = g.k /\ f.id = g.id /\ f.to = g.to

\* The numbers of the sends.
LEMMA IdFacts ==
    ASSUME TypeOK
    PROVE  /\ Len(from) \in Nat /\ Ids = 1 .. Len(from) /\ from \in Seq(Threads)
           /\ \A id \in Ids : id \in Nat /\ id # NoId /\ from[id] \in Threads
           /\ \A t \in Threads : sendlist[t] \subseteq Ids
           /\ ready \subseteq Ids
<1>1. from \in Seq(Threads)
    BY DEF TypeOK
<1>2. Len(from) \in Nat /\ Ids = 1 .. Len(from) /\ \A id \in Ids : from[id] \in Threads
    BY <1>1 DEF Ids
<1>3. \A id \in Ids : id \in Nat /\ id # NoId
    BY <1>2, SMTT(40) DEF NoId
<1> QED
    BY <1>1, <1>2, <1>3 DEF TypeOK

\* Steps that serve nothing new: frames of sends go only when they are answered,
\* and what is answered is neither queued nor served any more.
LEMMA PtrKept ==
    ASSUME TypeOK, TypeOK', PtrInv, from' = from, ready \subseteq ready',
           \A t \in Threads : sendlist'[t] \subseteq sendlist[t],
           \A t \in Threads : \A i \in DOMAIN stack'[t] :
               stack'[t][i].k = "serve" \/ IsSend(stack'[t][i]) =>
                   i \in DOMAIN stack[t] /\ Alike(stack'[t][i], stack[t][i]),
           \A t \in Threads : \A i \in DOMAIN stack[t] :
               IsSend(stack[t][i]) /\ stack[t][i].id \notin ready' =>
                   i \in DOMAIN stack'[t] /\ Alike(stack'[t][i], stack[t][i]),
           \A t \in Threads : \A id \in sendlist'[t] : id \in ready' => id \in ready,
           \A t \in Threads : \A i \in DOMAIN stack'[t] :
               stack'[t][i].k = "serve" /\ stack'[t][i].id \in ready' => stack'[t][i].id \in ready
    PROVE  PtrInv'
<1>t. /\ \A id \in Ids : id # NoId /\ from[id] \in Threads
      /\ \A t \in Threads : sendlist[t] \subseteq Ids
    BY IdFacts
<1>0. \A f, g : Alike(f, g) => (IsSend(f) <=> IsSend(g))
    BY DEF Alike, IsSend
<1>1. \A t \in Threads : \A i \in DOMAIN stack'[t] :
          IsSend(stack'[t][i]) => stack'[t][i].id \in Ids' /\ from'[stack'[t][i].id] = t
    BY <1>0 DEF PtrInv, Ids, Alike
<1>2. \A t \in Threads : \A i, j \in DOMAIN stack'[t] :
          IsSend(stack'[t][i]) /\ IsSend(stack'[t][j]) /\ stack'[t][i].id = stack'[t][j].id => i = j
    BY <1>0, SMTT(40) DEF PtrInv, Alike
<1>s. ASSUME NEW t \in Threads, NEW i \in DOMAIN stack[t], NEW id \in Ids, stack[t][i].k = "send",
             stack[t][i].id = id, id \notin ready'
      PROVE  i \in DOMAIN stack'[t] /\ Alike(stack'[t][i], stack[t][i]) /\ stack'[t][i].k = "send"
             /\ stack'[t][i].id = id
    <2>1. IsSend(stack[t][i])
        BY <1>s, <1>t DEF IsSend
    <2> QED
        BY <1>s, <2>1 DEF Alike
<1>3. ASSUME NEW t \in Threads, NEW i \in DOMAIN stack'[t], stack'[t][i].k = "serve"
      PROVE  /\ stack'[t][i].id \in Ids' \ ready'
             /\ \E j \in DOMAIN stack'[from'[stack'[t][i].id]] :
                   /\ stack'[from'[stack'[t][i].id]][j].k = "send"
                   /\ stack'[from'[stack'[t][i].id]][j].id = stack'[t][i].id
    <2>1. i \in DOMAIN stack[t] /\ Alike(stack'[t][i], stack[t][i]) /\ stack[t][i].k = "serve"
        BY <1>3 DEF Alike
    <2>2. stack'[t][i].id \in Ids \ ready /\ SendFrame(from[stack'[t][i].id], stack'[t][i].id)
        BY <2>1 DEF PtrInv, Alike
    <2>3. stack'[t][i].id \notin ready'
        BY <1>3, <2>2
    <2>4. from[stack'[t][i].id] \in Threads
        BY <1>t, <2>2, SMTT(40)
    <2>5. PICK j \in DOMAIN stack[from[stack'[t][i].id]] :
              /\ stack[from[stack'[t][i].id]][j].k = "send"
              /\ stack[from[stack'[t][i].id]][j].id = stack'[t][i].id
        BY <2>2, ZenonT(40) DEF SendFrame
    <2>6. /\ j \in DOMAIN stack'[from[stack'[t][i].id]]
          /\ stack'[from[stack'[t][i].id]][j].k = "send"
          /\ stack'[from[stack'[t][i].id]][j].id = stack'[t][i].id
        BY <1>s, <2>2, <2>3, <2>4, <2>5
    <2> QED
        BY <2>2, <2>3, <2>6 DEF Ids
<1>4. \A t, u \in Threads : \A i \in DOMAIN stack'[t], j \in DOMAIN stack'[u] :
          stack'[t][i].k = "serve" /\ stack'[u][j].k = "serve" /\ stack'[t][i].id = stack'[u][j].id =>
              t = u /\ i = j
    BY DEF PtrInv, Alike
<1>5. ASSUME NEW t \in Threads, NEW id \in sendlist'[t]
      PROVE  /\ id \notin ready'
             /\ \E i \in DOMAIN stack'[from'[id]] :
                   /\ IsSend(stack'[from'[id]][i])
                   /\ stack'[from'[id]][i].id = id /\ stack'[from'[id]][i].to = t
    <2>1. id \in sendlist[t] /\ id \in Ids /\ id \notin ready' /\ from[id] \in Threads
        BY <1>5, <1>t DEF PtrInv
    <2>2. PICK i \in DOMAIN stack[from[id]] :
              /\ IsSend(stack[from[id]][i])
              /\ stack[from[id]][i].id = id /\ stack[from[id]][i].to = t
        BY <2>1 DEF PtrInv
    <2>3. i \in DOMAIN stack'[from[id]] /\ Alike(stack'[from[id]][i], stack[from[id]][i])
        BY <2>1, <2>2
    <2> QED
        BY <1>0, <2>1, <2>2, <2>3 DEF Alike
<1>6. \A t, u \in Threads : \A id \in sendlist'[t], i \in DOMAIN stack'[u] :
          stack'[u][i].k = "serve" => stack'[u][i].id # id
    BY DEF PtrInv, Alike
<1> QED
    BY <1>1, <1>2, <1>3, <1>4, <1>5, <1>6, SMTT(40) DEF PtrInv, IsSend, SendFrame

\* A queued send is queued once.
LEMMA QueuedOnce ==
    ASSUME TypeOK, PtrInv, NEW t \in Threads, NEW u \in Threads, NEW id \in sendlist[t], id \in sendlist[u]
    PROVE  t = u
<1>1. from[id] \in Threads
    BY IdFacts
<1>2. PICK i \in DOMAIN stack[from[id]] :
          IsSend(stack[from[id]][i]) /\ stack[from[id]][i].id = id /\ stack[from[id]][i].to = t
    BY DEF PtrInv
<1>3. PICK j \in DOMAIN stack[from[id]] :
          IsSend(stack[from[id]][j]) /\ stack[from[id]][j].id = id /\ stack[from[id]][j].to = u
    BY DEF PtrInv
<1>4. i = j
    BY <1>1, <1>2, <1>3, SMTT(40) DEF PtrInv
<1> QED
    BY <1>2, <1>3, <1>4

\* A send is taken from the list and served.
LEMMA PtrServed ==
    ASSUME TypeOK, TypeOK', PtrInv, NEW t \in Threads, NEW id \in sendlist[t],
           Calls(t, Frame("serve", t, id, "run")), PopSend(t, id), UNCHANGED <<from, ready>>
    PROVE  PtrInv'
<1> DEFINE f == Frame("serve", t, id, "run")
           n == Len(stack[t])
<1>f. f.k = "serve" /\ f.id = id /\ ~IsSend(f)
    BY DEF Frame, IsSend
<1>t. /\ \A x \in Ids : x # NoId /\ from[x] \in Threads
      /\ \A u \in Threads : sendlist[u] \subseteq Ids
      /\ stack \in [Threads -> Seq(Frames)] /\ n \in Nat /\ DOMAIN stack[t] = 1 .. n
    <2>1. stack \in [Threads -> Seq(Frames)] /\ stack[t] \in Seq(Frames)
        BY DEF TypeOK
    <2> QED
        BY <2>1, IdFacts
<1>a. \A u \in Threads : \A i \in DOMAIN stack[u] : i \in DOMAIN stack'[u] /\ stack'[u][i] = stack[u][i]
    BY <1>t DEF Calls, Keeps
<1>c. \A u \in Threads : \A i \in DOMAIN stack'[u] :
          i \in DOMAIN stack[u] \/ (u = t /\ i = n + 1 /\ stack'[u][i] = f)
    BY <1>t DEF Calls, Keeps
<1>b. \A u \in Threads : \A i \in DOMAIN stack'[u] : stack'[u][i] = f \/ i \in DOMAIN stack[u]
    BY <1>c
<1>l. \A u \in Threads : \A x \in sendlist'[u] : x \in sendlist[u] /\ x # id
    <2>1. \A u \in Threads : sendlist'[u] = IF u = t THEN sendlist[u] \ {id} ELSE sendlist[u]
        BY DEF PopSend, TypeOK
    <2> QED
        BY <2>1, QueuedOnce
<1> HIDE DEF f, n
<1>1. \A u \in Threads : \A i \in DOMAIN stack'[u] :
          IsSend(stack'[u][i]) => stack'[u][i].id \in Ids' /\ from'[stack'[u][i].id] = u
    BY <1>a, <1>b, <1>f DEF PtrInv, Ids
<1>2. \A u \in Threads : \A i, j \in DOMAIN stack'[u] :
          IsSend(stack'[u][i]) /\ IsSend(stack'[u][j]) /\ stack'[u][i].id = stack'[u][j].id => i = j
    BY <1>a, <1>b, <1>f DEF PtrInv
<1>3. ASSUME NEW u \in Threads, NEW i \in DOMAIN stack'[u], NEW x, stack'[u][i].k = "serve",
             x = stack'[u][i].id
      PROVE  /\ x \in Ids' \ ready'
             /\ \E j \in DOMAIN stack'[from'[x]] :
                   stack'[from'[x]][j].k = "send" /\ stack'[from'[x]][j].id = x
    <2>1. x \in Ids \ ready /\ \E j \in DOMAIN stack[from[x]] :
                   stack[from[x]][j].k = "send" /\ stack[from[x]][j].id = x
        <3>1. CASE i \in DOMAIN stack[u]
            BY <1>3, <1>a, <3>1 DEF PtrInv, SendFrame
        <3>2. CASE stack'[u][i] = f
            <4>1. x = id /\ id \in Ids
                BY <1>3, <1>f, <1>t, <3>2
            <4> QED
                BY <4>1 DEF PtrInv, IsSend
        <3> QED
            BY <1>b, <3>1, <3>2
    <2> QED
        BY <1>a, <1>t, <2>1, ZenonT(40) DEF Ids
<1>4. ASSUME NEW u \in Threads, NEW v \in Threads, NEW i \in DOMAIN stack'[u], NEW j \in DOMAIN stack'[v],
             stack'[u][i].k = "serve", stack'[v][j].k = "serve", stack'[u][i].id = stack'[v][j].id
      PROVE  u = v /\ i = j
    <2>1. CASE i \in DOMAIN stack[u] /\ j \in DOMAIN stack[v]
        BY <1>4, <1>a, <2>1 DEF PtrInv
    <2>2. CASE i \in DOMAIN stack[u] /\ stack'[v][j] = f
        BY <1>4, <1>a, <1>f, <2>2 DEF PtrInv
    <2>3. CASE stack'[u][i] = f /\ j \in DOMAIN stack[v]
        BY <1>4, <1>a, <1>f, <2>3 DEF PtrInv
    <2> QED
        BY <1>c, <2>1, <2>2, <2>3
<1>5. ASSUME NEW u \in Threads, NEW x \in sendlist'[u]
      PROVE  /\ x \notin ready'
             /\ \E i \in DOMAIN stack'[from'[x]] :
                   IsSend(stack'[from'[x]][i]) /\ stack'[from'[x]][i].id = x /\ stack'[from'[x]][i].to = u
    <2>1. x \in sendlist[u] /\ from[x] \in Threads
        BY <1>l, <1>t
    <2>2. PICK i \in DOMAIN stack[from[x]] :
              IsSend(stack[from[x]][i]) /\ stack[from[x]][i].id = x /\ stack[from[x]][i].to = u
        BY <2>1 DEF PtrInv
    <2> QED
        BY <1>a, <2>1, <2>2 DEF PtrInv
<1>6. \A u, v \in Threads : \A x \in sendlist'[u], i \in DOMAIN stack'[v] :
          stack'[v][i].k = "serve" => stack'[v][i].id # x
    BY <1>a, <1>b, <1>f, <1>l, SMTT(40) DEF PtrInv
<1> QED
    BY <1>1, <1>2, <1>3, <1>4, <1>5, <1>6, SMTT(40) DEF PtrInv, IsSend, SendFrame

\* A send is queued, under a new number.
LEMMA PtrPushed ==
    ASSUME TypeOK, TypeOK', PtrInv, NEW t \in Threads, PushSend(t), Last(stack[t]).id = NoId,
           Replaces(t, [Last(stack[t]) EXCEPT !.pc = "wakeUp", !.id = Len(from) + 1])
    PROVE  PtrInv'
<1> DEFINE new == Len(from) + 1
           f == [Last(stack[t]) EXCEPT !.pc = "wakeUp", !.id = Len(from) + 1]
           n == Len(stack[t])
           to == Last(stack[t]).to
<1>n. stack[t] # <<>> /\ Last(stack[t]).k = "send" /\ from' = Append(from, t) /\ UNCHANGED ready
      /\ sendlist' = [sendlist EXCEPT ![to] = @ \cup {new}]
    BY DEF PushSend, At
<1>f. f.k = "send" /\ f.id = new /\ f.to = to /\ to \in Threads
    BY <1>n, TopFrame DEF Frames
<1>t. /\ \A x \in Ids : x # NoId /\ from[x] \in Threads
      /\ \A u \in Threads : sendlist[u] \subseteq Ids /\ ready \subseteq Ids
      /\ stack \in [Threads -> Seq(Frames)] /\ n \in Nat \ {0} /\ DOMAIN stack[t] = 1 .. n
      /\ new \notin Ids /\ new # NoId /\ Ids' = Ids \cup {new}
      /\ \A x \in Ids : from'[x] = from[x]
      /\ from'[new] = t
    <2>1. Len(from) \in Nat /\ Ids = 1 .. Len(from) /\ from \in Seq(Threads)
        BY IdFacts
    <2>2. new \notin Ids /\ new # NoId
        BY <2>1 DEF NoId
    <2>3. DOMAIN from' = 1 .. (Len(from) + 1) /\ from'[Len(from) + 1] = t /\ \A x \in 1 .. Len(from) : from'[x] = from[x]
        BY <1>n, <2>1
    <2>4. Ids' = Ids \cup {new}
        BY <2>1, <2>3 DEF Ids
    <2> QED
        BY <1>n, <2>1, <2>2, <2>3, <2>4, IdFacts, TopFrame DEF TypeOK
<1>a. \A u \in Threads : \A i \in DOMAIN stack[u] : i \in DOMAIN stack'[u]
                         /\ (stack'[u][i] = stack[u][i] \/ (u = t /\ i = n /\ stack'[u][i] = f /\ ~IsSend(stack[u][i])))
    <2> SUFFICES ASSUME NEW u \in Threads, NEW i \in DOMAIN stack[u]
                 PROVE  /\ i \in DOMAIN stack'[u]
                        /\ \/ stack'[u][i] = stack[u][i]
                           \/ u = t /\ i = n /\ stack'[u][i] = f /\ ~IsSend(stack[u][i])
        OBVIOUS
    <2>1. CASE u # t
        BY <2>1 DEF Replaces, Keeps
    <2>2. CASE u = t /\ i \in 1 .. (n - 1)
        BY <2>2 DEF Replaces, Keeps
    <2>3. CASE u = t /\ i = n
        <3>1. stack'[t][n] = f /\ n \in DOMAIN stack'[t]
            BY <1>t DEF Replaces
        <3>2. ~IsSend(stack[t][n])
            BY DEF IsSend, Last
        <3> QED
            BY <2>3, <3>1, <3>2
    <2>4. u = t => i \in 1 .. (n - 1) \/ i = n
        BY <1>t
    <2> QED
        BY <2>1, <2>2, <2>3, <2>4
<1>b. \A u \in Threads : \A i \in DOMAIN stack'[u] : i \in DOMAIN stack[u]
    BY <1>t DEF Replaces, Keeps
<1>l. \A u \in Threads : \A x \in sendlist'[u] : x \in sendlist[u] \/ (u = to /\ x = new)
    BY <1>n DEF TypeOK
<1> HIDE DEF f, n, new, to
<1>i. IsSend(f)
    BY <1>f, <1>t DEF IsSend
<1>s. \A u \in Threads : \A i \in DOMAIN stack[u] : IsSend(stack[u][i]) => stack[u][i].id \in Ids
    BY DEF PtrInv
<1>1. ASSUME NEW u \in Threads, NEW i \in DOMAIN stack'[u], IsSend(stack'[u][i])
      PROVE  stack'[u][i].id \in Ids' /\ from'[stack'[u][i].id] = u
    <2>1. CASE stack'[u][i] = stack[u][i]
        <3>1. stack[u][i].id \in Ids /\ from[stack[u][i].id] = u
            BY <1>1, <1>b, <2>1 DEF PtrInv
        <3> QED
            BY <1>t, <2>1, <3>1
    <2>2. CASE u = t /\ stack'[u][i] = f
        BY <1>f, <1>t, <2>2
    <2> QED
        BY <1>a, <1>b, <2>1, <2>2
<1>2. ASSUME NEW u \in Threads, NEW i \in DOMAIN stack'[u], NEW j \in DOMAIN stack'[u],
             IsSend(stack'[u][i]), IsSend(stack'[u][j]), stack'[u][i].id = stack'[u][j].id
      PROVE  i = j
    <2>1. CASE stack'[u][i] = stack[u][i] /\ stack'[u][j] = stack[u][j]
        BY <1>2, <1>b, <2>1 DEF PtrInv
    <2>2. CASE stack'[u][i] = stack[u][i] /\ stack'[u][j] = f
        BY <1>2, <1>b, <1>f, <1>s, <1>t, <2>2
    <2>3. CASE stack'[u][i] = f /\ stack'[u][j] = stack[u][j]
        BY <1>2, <1>b, <1>f, <1>s, <1>t, <2>3
    <2> QED
        BY <1>a, <1>b, <2>1, <2>2, <2>3
<1>v. \A u \in Threads : \A i \in DOMAIN stack'[u] :
          stack'[u][i].k = "serve" => i \in DOMAIN stack[u] /\ stack'[u][i] = stack[u][i]
    BY <1>a, <1>b, <1>f
<1>k. \A u \in Threads : \A i \in DOMAIN stack[u] :
          IsSend(stack[u][i]) => i \in DOMAIN stack'[u] /\ stack'[u][i] = stack[u][i]
    BY <1>a
<1>3. ASSUME NEW u \in Threads, NEW i \in DOMAIN stack'[u], NEW x, stack'[u][i].k = "serve",
             x = stack'[u][i].id
      PROVE  /\ x \in Ids' \ ready'
             /\ \E j \in DOMAIN stack'[from'[x]] :
                   stack'[from'[x]][j].k = "send" /\ stack'[from'[x]][j].id = x
    <2>4. i \in DOMAIN stack[u] /\ stack[u][i].k = "serve" /\ x = stack[u][i].id
        BY <1>3, <1>v
    <2>5. x \in Ids \ ready /\ SendFrame(from[x], x)
        BY <2>4 DEF PtrInv
    <2>1. x \in Ids \ ready /\ \E j \in DOMAIN stack[from[x]] :
                   stack[from[x]][j].k = "send" /\ stack[from[x]][j].id = x
        BY <2>5 DEF SendFrame
    <2>2. PICK j \in DOMAIN stack[from[x]] : stack[from[x]][j].k = "send" /\ stack[from[x]][j].id = x
        BY <2>1
    <2>3. IsSend(stack[from[x]][j]) /\ from[x] \in Threads /\ from'[x] = from[x]
        BY <1>t, <2>1, <2>2 DEF IsSend
    <2> QED
        BY <1>k, <1>n, <1>t, <2>1, <2>2, <2>3, SMTT(40)
<1>4. \A u, v \in Threads : \A i \in DOMAIN stack'[u], j \in DOMAIN stack'[v] :
          stack'[u][i].k = "serve" /\ stack'[v][j].k = "serve" /\ stack'[u][i].id = stack'[v][j].id =>
              u = v /\ i = j
    BY <1>v DEF PtrInv
<1>5. ASSUME NEW u \in Threads, NEW x \in sendlist'[u]
      PROVE  /\ x \notin ready'
             /\ \E i \in DOMAIN stack'[from'[x]] :
                   IsSend(stack'[from'[x]][i]) /\ stack'[from'[x]][i].id = x /\ stack'[from'[x]][i].to = u
    <2>1. CASE x \in sendlist[u]
        <3>1. x \in Ids /\ from[x] \in Threads /\ from'[x] = from[x] /\ x \notin ready
            BY <1>t, <2>1 DEF PtrInv
        <3>2. PICK i \in DOMAIN stack[from[x]] :
                  IsSend(stack[from[x]][i]) /\ stack[from[x]][i].id = x /\ stack[from[x]][i].to = u
            BY <2>1 DEF PtrInv
        <3> QED
            BY <1>k, <1>n, <3>1, <3>2
    <2>2. CASE u = to /\ x = new
        <3>1. n \in DOMAIN stack'[t] /\ stack'[t][n] = f
            BY <1>t DEF Replaces, f, n
        <3> QED
            BY <1>f, <1>i, <1>n, <1>t, <2>2, <3>1
    <2> QED
        BY <1>l, <2>1, <2>2
<1>6. ASSUME NEW u \in Threads, NEW v \in Threads, NEW x \in sendlist'[u], NEW i \in DOMAIN stack'[v],
             stack'[v][i].k = "serve"
      PROVE  stack'[v][i].id # x
    <2>1. stack'[v][i] = stack[v][i] /\ i \in DOMAIN stack[v] /\ stack[v][i].id \in Ids
        BY <1>6, <1>v DEF PtrInv
    <2>2. CASE x \in sendlist[u]
        BY <1>6, <2>1, <2>2 DEF PtrInv
    <2>3. CASE x = new
        BY <1>t, <2>1, <2>3
    <2> QED
        BY <1>l, <2>2, <2>3
<1> QED
    BY <1>1, <1>2, <1>3, <1>4, <1>5, <1>6, SMTT(40) DEF PtrInv, IsSend, SendFrame

-----------------------------------------------------------------------------
(***************************************************************************)
(* The threads that do not take the step.                                   *)
(***************************************************************************)
\* A sender that is about to signal stays so until it signals.
LEMMA AboutKept ==
    ASSUME TypeOK, NEW t \in Threads, NEW id \in Ids, from'[id] = from[id],
           \A u \in Threads : u # t => stack'[u] = stack[u],
           ~At(t, "send", "wakeUp"), AboutToSignal(id)
    PROVE  AboutToSignal(id)'
<1>1. from[id] \in Threads /\ from[id] # t
    BY IdFacts DEF AboutToSignal
<1>2. stack'[from'[id]] = stack[from[id]]
    BY <1>1
<1> QED
    BY <1>2 DEF AboutToSignal, At

\* A thread whose stack stays is not left asleep when what it waits for comes.
LEMMA OtherAwake ==
    ASSUME TypeOK, TypeOK', NEW v \in Threads, WakeOK(v), stack'[v] = stack[v], wake[v] => wake'[v],
           ~wake'[v] =>
               /\ fStop'[v] = fStop[v] /\ (msgq[v] = 0 => msgq'[v] = 0)
               /\ \A i \in DOMAIN stack[v] : stack[v][i].k = "send" /\ stack[v][i].id \in ready' =>
                     stack[v][i].id \in ready
               /\ \A id \in sendlist'[v] :
                     \/ AboutToSignal(id)'
                     \/ id \in sendlist[v] /\ from'[id] = from[id] /\ ~AboutToSignal(id)
    PROVE  WakeOK(v)'
<1>1. Nested(v)'
    BY DEF WakeOK, Nested, At
<1>2. Told(v)'
    BY DEF WakeOK, Told
<1>3. \A k, pc : At(v, k, pc)' <=> At(v, k, pc)
    BY DEF At
<1>4. Seen(v)'
    <2> SUFFICES ASSUME ~wake'[v] PROVE Seen(v)'
        BY DEF Seen
    <2>1. ~wake[v]
        OBVIOUS
    <2>2. At(v, "send", "wait") => Last(stack[v]).id \notin ready'
        <3>1. At(v, "send", "wait") => Len(stack[v]) \in DOMAIN stack[v] /\ Last(stack[v]) = stack[v][Len(stack[v])]
            BY TopFrame DEF At
        <3> QED
            BY <2>1, <3>1 DEF WakeOK, Seen, At
    <2>3. At(v, "get", "queue") \/ At(v, "get", "stop") \/ At(v, "get", "wait") =>
              \A id \in sendlist'[v] : AboutToSignal(id)'
        BY <2>1 DEF WakeOK, Seen
    <2>4. At(v, "send", "wait") =>
              \A id \in sendlist'[v] : from'[id] = Last(stack[v]).to => AboutToSignal(id)'
        BY <2>1 DEF WakeOK, Seen
    <2>5. /\ At(v, "get", "stop") \/ At(v, "get", "wait") => msgq'[v] = 0
          /\ At(v, "get", "wait") => ~fStop'[v]
        BY <2>1 DEF WakeOK, Seen
    <2> QED
        BY <1>3, <2>2, <2>3, <2>4, <2>5 DEF Seen
<1> QED
    BY <1>1, <1>2, <1>4 DEF WakeOK

\* A step of t that concerns nobody else.
LEMMA OthersKept ==
    ASSUME TypeOK, TypeOK', WakeInv, NEW t \in Threads, ~At(t, "send", "wakeUp"), from' = from, ready' = ready,
           \A v \in Threads : v # t =>
               /\ stack'[v] = stack[v] /\ wake'[v] = wake[v] /\ fStop'[v] = fStop[v]
               /\ msgq'[v] = msgq[v] /\ sendlist'[v] = sendlist[v],
           WakeOK(t)'
    PROVE  WakeInv'
<1> SUFFICES ASSUME NEW v \in Threads, v # t PROVE WakeOK(v)'
    BY DEF WakeInv
<1>1. \A id \in sendlist[v] : AboutToSignal(id) => AboutToSignal(id)'
    BY AboutKept, IdFacts
<1>2. WakeOK(v)
    BY DEF WakeInv
<1> QED
    BY <1>1, <1>2, OtherAwake

-----------------------------------------------------------------------------
(***************************************************************************)
(* The thread that takes the step.                                          *)
(***************************************************************************)
\* Its innermost frame moves on.
LEMMA OwnReplaced ==
    ASSUME TypeOK, TypeOK', NEW t \in Threads, Nested(t), Told(t), stack[t] # <<>>, NEW f \in Frames,
           f.k = Last(stack[t]).k, Replaces(t, f), f.pc # "push",
           ~wake'[t] => \/ f.k = "get"
                        \/ f.k = "send" /\ f.waited
                        \/ ~wake[t] /\ f.waited = Last(stack[t]).waited,
           ~wake'[t] => \A i \in DOMAIN stack[t] : stack[t][i].k = "send" /\ stack[t][i].id \in ready' =>
                            stack[t][i].id \in ready,
           ~wake'[t] /\ f.k = "send" /\ f.pc = "receive" => f.id \notin ready'
    PROVE  /\ Nested(t)' /\ Told(t)'
           /\ \A k, pc : At(t, k, pc)' <=> f.k = k /\ f.pc = pc
           /\ Last(stack'[t]) = f
<1> DEFINE n == Len(stack[t])
<1>t. /\ n \in Nat \ {0} /\ DOMAIN stack[t] = 1 .. n /\ Last(stack[t]) = stack[t][n]
      /\ DOMAIN stack'[t] = 1 .. n /\ Len(stack'[t]) = n /\ stack'[t][n] = f
      /\ \A i \in 1 .. (n - 1) : stack'[t][i] = stack[t][i]
    BY TopFrame DEF Replaces, Keeps
<1>0. Last(stack'[t]) = f /\ stack'[t] # <<>>
    <2>1. stack'[t] \in Seq(Frames)
        BY DEF Replaces, Keeps
    <2> QED
        BY <1>t, <2>1 DEF Last
<1> HIDE DEF n
<1>1. \A k, pc : At(t, k, pc)' <=> f.k = k /\ f.pc = pc
    BY <1>0 DEF At
<1>2. Nested(t)'
    <2>1. \A i \in DOMAIN stack'[t] : i < Len(stack'[t]) => Suspended(stack'[t][i])
        BY <1>t DEF Nested, n
    <2>2. \A i \in DOMAIN stack'[t] : stack'[t][i].k = "get" => i = 1
        BY <1>t DEF Nested
    <2> QED
        BY <1>1, <2>1, <2>2 DEF Nested, Suspended
<1>3. Told(t)'
    <2> SUFFICES ASSUME ~wake'[t], NEW i \in DOMAIN stack'[t], stack'[t][i].k = "send",
                        stack'[t][i].pc = "receive", stack'[t][i].id \in ready'
                 PROVE  \E j \in DOMAIN stack'[t] : j > i /\ stack'[t][j].k = "send" /\ stack'[t][j].waited
        BY DEF Told
    <2>1. i \in 1 .. (n - 1) /\ i # n
        BY <1>t
    <2>2. CASE f.k = "get"
        <3>1. n = 1
            BY <1>t, <2>2 DEF Nested
        <3> QED
            BY <1>t, <2>1, <3>1
    <2>3. CASE f.k = "send" /\ f.waited
        BY <1>t, <2>1, <2>3
    <2>4. CASE ~wake[t] /\ f.waited = Last(stack[t]).waited
        <3>1. i \in DOMAIN stack[t] /\ stack[t][i] = stack'[t][i] /\ stack[t][i].id \in ready
            BY <1>t, <2>1
        <3>2. PICK j \in DOMAIN stack[t] : j > i /\ stack[t][j].k = "send" /\ stack[t][j].waited
            BY <2>4, <3>1 DEF Told
        <3>3. CASE j = n
            BY <1>t, <2>4, <3>2, <3>3
        <3>4. CASE j # n
            BY <1>t, <3>2, <3>4
        <3> QED
            BY <3>3, <3>4
    <2> QED
        BY <2>2, <2>3, <2>4
<1> QED
    BY <1>0, <1>1, <1>2, <1>3

\* It calls f.
LEMMA OwnCalled ==
    ASSUME TypeOK, TypeOK', NEW t \in Threads, Nested(t), Told(t), stack[t] # <<>>, NEW f \in Frames,
           Suspended(Last(stack[t])), Calls(t, f), f.k \in {"task", "serve", "send"}, f.pc \in {"run", "push"},
           f.k = "send" => f.id = NoId, wake' = wake, ready' = ready
    PROVE  WakeOK(t)'
<1> DEFINE n == Len(stack[t])
<1>t. /\ n \in Nat \ {0} /\ DOMAIN stack[t] = 1 .. n /\ Last(stack[t]) = stack[t][n]
      /\ DOMAIN stack'[t] = 1 .. (n + 1) /\ Len(stack'[t]) = n + 1 /\ stack'[t][n + 1] = f
      /\ \A i \in 1 .. n : stack'[t][i] = stack[t][i]
    BY TopFrame DEF Calls, Keeps
<1>0. Last(stack'[t]) = f
    BY <1>t DEF Last
<1> HIDE DEF n
<1>1. \A k, pc : At(t, k, pc)' => f.k = k /\ f.pc = pc
    BY <1>0 DEF At
<1>2. Nested(t)'
    <2>1. \A i \in DOMAIN stack'[t] : i < Len(stack'[t]) => Suspended(stack'[t][i])
        <3> SUFFICES ASSUME NEW i \in DOMAIN stack'[t], i < Len(stack'[t]) PROVE Suspended(stack'[t][i])
            OBVIOUS
        <3>1. i \in 1 .. n /\ (i < n \/ i = n)
            BY <1>t
        <3> QED
            BY <1>t, <3>1 DEF Nested, n
    <2>2. \A i \in DOMAIN stack'[t] : stack'[t][i].k = "get" => i = 1
        BY <1>t DEF Nested
    <2> QED
        BY <1>0, <1>1, <2>1, <2>2 DEF Nested, Suspended
<1>3. Told(t)'
    <2> SUFFICES ASSUME ~wake'[t], NEW i \in DOMAIN stack'[t], stack'[t][i].k = "send",
                        stack'[t][i].pc = "receive", stack'[t][i].id \in ready'
                 PROVE  \E j \in DOMAIN stack'[t] : j > i /\ stack'[t][j].k = "send" /\ stack'[t][j].waited
        BY DEF Told
    <2>1. i \in DOMAIN stack[t] /\ stack'[t][i] = stack[t][i]
        BY <1>t
    <2>2. PICK j \in DOMAIN stack[t] : j > i /\ stack[t][j].k = "send" /\ stack[t][j].waited
        BY <2>1 DEF Told
    <2> QED
        BY <1>t, <2>2
<1> QED
    BY <1>1, <1>2, <1>3 DEF WakeOK, Seen

\* Its innermost frame returns.
LEMMA OwnReturned ==
    ASSUME TypeOK, TypeOK', NEW t \in Threads, Nested(t), Told(t), stack[t] # <<>>, Returns(t),
           ~wake'[t] => /\ ~wake[t]
                        /\ Last(stack[t]).k = "send" => ~Last(stack[t]).waited
                        /\ \A i \in DOMAIN stack[t] : stack[t][i].k = "send" /\ stack[t][i].id \in ready' =>
                              stack[t][i].id \in ready
    PROVE  WakeOK(t)'
<1> DEFINE n == Len(stack[t])
<1>t. /\ n \in Nat \ {0} /\ DOMAIN stack[t] = 1 .. n /\ Last(stack[t]) = stack[t][n]
      /\ DOMAIN stack'[t] = 1 .. (n - 1) /\ Len(stack'[t]) = n - 1
      /\ \A i \in 1 .. (n - 1) : stack'[t][i] = stack[t][i]
      /\ stack'[t] \in Seq(Frames)
    BY TopFrame DEF Returns, Keeps
<1> HIDE DEF n
<1>0. \A i \in DOMAIN stack'[t] : Suspended(stack'[t][i])
    BY <1>t, SMTT(40) DEF Nested, n
<1>1. stack'[t] # <<>> => Suspended(Last(stack'[t]))
    <2>1. stack'[t] # <<>> => Len(stack'[t]) \in DOMAIN stack'[t]
        BY <1>t
    <2> QED
        BY <1>0, <2>1 DEF Last
<1>2. Nested(t)'
    <2>1. \A i \in DOMAIN stack'[t] : stack'[t][i].k = "get" => i = 1
        BY <1>t DEF Nested
    <2> QED
        BY <1>0, <1>1, <2>1 DEF Nested, Suspended, At
<1>3. Told(t)'
    <2> SUFFICES ASSUME ~wake'[t], NEW i \in DOMAIN stack'[t], stack'[t][i].k = "send",
                        stack'[t][i].pc = "receive", stack'[t][i].id \in ready'
                 PROVE  \E j \in DOMAIN stack'[t] : j > i /\ stack'[t][j].k = "send" /\ stack'[t][j].waited
        BY DEF Told
    <2>1. i \in DOMAIN stack[t] /\ stack'[t][i] = stack[t][i] /\ stack[t][i].id \in ready
        BY <1>t
    <2>2. PICK j \in DOMAIN stack[t] : j > i /\ stack[t][j].k = "send" /\ stack[t][j].waited
        BY <2>1 DEF Told
    <2>3. j # n
        BY <1>t, <2>2
    <2> QED
        BY <1>t, <2>2, <2>3
<1>4. Seen(t)'
    BY <1>1 DEF Seen, Suspended, At
<1> QED
    BY <1>2, <1>3, <1>4 DEF WakeOK

-----------------------------------------------------------------------------
(***************************************************************************)
(* The actions.                                                             *)
(***************************************************************************)
Inv == BaseInv /\ PtrInv /\ WakeInv

rest == <<sendlist, msgq, fStop, gone, from, ready, sends, posts>>

\* The innermost frame of t moves on and nothing else changes but the signal of
\* t; what Seen asks of the place it moves to is a hypothesis.
LEMMA Moved ==
    ASSUME Inv, NEW t \in Threads, stack[t] # <<>>, NEW f \in Frames,
           Alike(f, Last(stack[t])), Replaces(t, f), f.pc # "push", ~At(t, "send", "wakeUp"),
           UNCHANGED rest, wake' \in [Threads -> BOOLEAN], \A v \in Threads : v # t => wake'[v] = wake[v],
           ~wake'[t] => \/ f.k = "get"
                        \/ f.k = "send" /\ f.waited
                        \/ ~wake[t] /\ f.waited = Last(stack[t]).waited,
           ~wake'[t] /\ f.k = "send" /\ f.pc \in {"receive", "wait"} => f.id \notin ready,
           ~wake'[t] /\ f.k = "get" /\ f.pc \in {"queue", "stop", "wait"} =>
               \A id \in sendlist[t] : AboutToSignal(id),
           ~wake'[t] /\ f.k = "get" /\ f.pc \in {"stop", "wait"} => msgq[t] = 0,
           ~wake'[t] /\ f.k = "get" /\ f.pc = "wait" => ~fStop[t],
           ~wake'[t] /\ f.k = "send" /\ f.pc = "wait" =>
               \A id \in sendlist[t] : from[id] = f.to => AboutToSignal(id)
    PROVE  Inv'
<1> DEFINE n == Len(stack[t])
<1>0. TypeOK /\ Nested(t) /\ Told(t) /\ Seen(t) /\ PtrInv /\ WakeInv
    BY DEF Inv, BaseInv, WakeInv, WakeOK
<1>t. /\ n \in Nat \ {0} /\ n - 1 \in Nat /\ DOMAIN stack[t] = 1 .. n /\ Last(stack[t]) = stack[t][n]
      /\ DOMAIN stack'[t] = 1 .. n /\ stack'[t][n] = f
    BY <1>0, TopFrame DEF Replaces
<1>u. Ids' = Ids
    BY DEF rest, Ids
<1>f. f.id \in Ids \cup {NoId}
    BY <1>0, <1>t DEF TypeOK, Alike
<1>1. StackOK'
    <2>1. \A i \in DOMAIN stack'[t] : i > n - 1 => stack'[t][i].id \in Ids' \cup {NoId}
        BY <1>f, <1>t, <1>u
    <2>2. Keeps(t, n - 1)
        BY DEF Replaces
    <2> QED
        BY <1>0, <1>t, <1>u, <2>1, <2>2, StackTyped
<1>2. BaseInv' /\ TypeOK'
    BY <1>1, <1>u DEF Inv, BaseInv, TypeOK, StackOK, rest
<1>a. \A u \in Threads : DOMAIN stack'[u] = DOMAIN stack[u]
                         /\ \A i \in DOMAIN stack[u] : Alike(stack'[u][i], stack[u][i])
    <2> SUFFICES ASSUME NEW u \in Threads
                 PROVE  DOMAIN stack'[u] = DOMAIN stack[u]
                        /\ \A i \in DOMAIN stack[u] : Alike(stack'[u][i], stack[u][i])
        OBVIOUS
    <2>1. CASE u # t
        BY <2>1 DEF Replaces, Keeps, Alike
    <2>2. CASE u = t
        <3>1. \A i \in 1 .. (n - 1) : stack'[t][i] = stack[t][i]
            BY DEF Replaces, Keeps
        <3>2. \A i \in DOMAIN stack[t] : i = n \/ i \in 1 .. (n - 1)
            BY <1>t
        <3> QED
            BY <1>t, <2>2, <3>1, <3>2 DEF Alike
    <2> QED
        BY <2>1, <2>2
<1>3. PtrInv'
    <2>1. from' = from /\ ready' = ready /\ sendlist' = sendlist
        BY DEF rest
    <2>2. \A u \in Threads : \A i \in DOMAIN stack'[u] : i \in DOMAIN stack[u] /\ Alike(stack'[u][i], stack[u][i])
        BY <1>a
    <2> QED
        BY <1>0, <1>2, <1>a, <2>1, <2>2, PtrKept
<1>4. WakeOK(t)'
    <2>1. /\ Nested(t)' /\ Told(t)' /\ Last(stack'[t]) = f
          /\ \A k, pc : At(t, k, pc)' <=> f.k = k /\ f.pc = pc
        <3>1. f.k = Last(stack[t]).k
            BY DEF Alike
        <3> QED
            BY <1>0, <1>2, <3>1, OwnReplaced DEF rest
    <2>2. \A id \in sendlist[t] : AboutToSignal(id) => AboutToSignal(id)'
        <3>1. \A u \in Threads : u # t => stack'[u] = stack[u]
            BY DEF Replaces, Keeps
        <3> QED
            BY <1>0, <3>1, AboutKept, IdFacts DEF rest
    <2>3. Seen(t)'
        BY <2>1, <2>2 DEF Seen, rest
    <2> QED
        BY <2>1, <2>3 DEF WakeOK
<1>5. WakeInv'
    <2>1. \A u \in Threads : u # t => stack'[u] = stack[u]
        BY DEF Replaces, Keeps
    <2> QED
        BY <1>0, <1>2, <1>4, <2>1, OthersKept DEF rest
<1> QED
    BY <1>2, <1>3, <1>5 DEF Inv

\* The innermost frame of t returns.
LEMMA Returned ==
    ASSUME Inv, NEW t \in Threads, stack[t] # <<>>, Returns(t), ~At(t, "send", "wakeUp"),
           Last(stack[t]).k = "send" => Last(stack[t]).id \in ready, Last(stack[t]).k # "serve",
           UNCHANGED rest, wake' \in [Threads -> BOOLEAN], \A v \in Threads : v # t => wake'[v] = wake[v],
           ~wake'[t] => ~wake[t] /\ (Last(stack[t]).k = "send" => ~Last(stack[t]).waited)
    PROVE  Inv'
<1> DEFINE n == Len(stack[t])
<1>0. TypeOK /\ Nested(t) /\ Told(t) /\ Seen(t) /\ PtrInv /\ WakeInv
    BY DEF Inv, BaseInv, WakeInv, WakeOK
<1>t. /\ n \in Nat \ {0} /\ n - 1 \in Nat /\ DOMAIN stack[t] = 1 .. n /\ Last(stack[t]) = stack[t][n]
      /\ DOMAIN stack'[t] = 1 .. (n - 1)
    BY <1>0, TopFrame DEF Returns
<1>u. Ids' = Ids
    BY DEF rest, Ids
<1>1. StackOK'
    <2>1. \A i \in DOMAIN stack'[t] : i > n - 1 => stack'[t][i].id \in Ids' \cup {NoId}
        BY <1>t
    <2>2. Keeps(t, n - 1)
        BY DEF Returns
    <2> QED
        BY <1>0, <1>t, <1>u, <2>1, <2>2, StackTyped
<1>2. BaseInv' /\ TypeOK'
    BY <1>1, <1>u DEF Inv, BaseInv, TypeOK, StackOK, rest
<1>a. \A u \in Threads : \A i \in DOMAIN stack'[u] : i \in DOMAIN stack[u] /\ Alike(stack'[u][i], stack[u][i])
    BY <1>t DEF Returns, Keeps, Alike
<1>b. \A u \in Threads : \A i \in DOMAIN stack[u] :
          \/ i \in DOMAIN stack'[u] /\ Alike(stack'[u][i], stack[u][i])
          \/ u = t /\ i = n
    <2>1. \A i \in DOMAIN stack[t] : i \in 1 .. (n - 1) \/ i = n
        BY <1>t
    <2> QED
        BY <2>1 DEF Returns, Keeps, Alike
<1>3. PtrInv'
    <2>1. from' = from /\ ready' = ready /\ sendlist' = sendlist
        BY DEF rest
    <2>2. \A u \in Threads : \A i \in DOMAIN stack[u] : IsSend(stack[u][i]) /\ stack[u][i].id \notin ready' =>
                   i \in DOMAIN stack'[u] /\ Alike(stack'[u][i], stack[u][i])
        BY <1>b, <1>t, <2>1 DEF IsSend
    <2> QED
        BY <1>0, <1>2, <1>a, <2>1, <2>2, PtrKept
<1>4. WakeOK(t)'
    BY <1>0, <1>2, OwnReturned DEF rest
<1>5. WakeInv'
    <2>1. \A u \in Threads : u # t => stack'[u] = stack[u]
        BY DEF Returns, Keeps
    <2> QED
        BY <1>0, <1>2, <1>4, <2>1, OthersKept DEF rest
<1> QED
    BY <1>2, <1>3, <1>5 DEF Inv

\* Handlers: a Send begins.
LEMMA SendInv == ASSUME Inv, NEW t \in Threads, NEW u \in Threads, Send(t, u) PROVE Inv'
<1> DEFINE n == Len(stack[t])
           f == IF t = u THEN Frame("task", t, NoId, "run") ELSE Frame("send", u, NoId, "push")
<1>0. TypeOK /\ Nested(t) /\ Told(t) /\ PtrInv /\ WakeInv
    BY DEF Inv, BaseInv, WakeInv, WakeOK
<1>f. /\ f \in Frames /\ f.id = NoId /\ f.k \in {"task", "send"} /\ f.pc \in {"run", "push"} /\ ~IsSend(f)
    BY DEF Frame, Frames, NoId, IsSend
<1> HIDE DEF f
<1>s. /\ stack[t] # <<>> /\ Suspended(Last(stack[t])) /\ ~At(t, "send", "wakeUp")
      /\ Call(t, f) /\ sends < MaxSends /\ sends' = sends + 1
      /\ UNCHANGED <<sendlist, msgq, wake, fStop, gone, from, ready, posts>>
    BY DEF Send, InHandler, At, Suspended, f
<1>c. Calls(t, f)
    BY <1>0, <1>f, <1>s, CallStack
<1>t. /\ n \in Nat \ {0} /\ DOMAIN stack[t] = 1 .. n
      /\ DOMAIN stack'[t] = 1 .. (n + 1) /\ stack'[t][n + 1] = f
    BY <1>0, <1>c, <1>s, TopFrame DEF Calls
<1>u. Ids' = Ids
    BY <1>s DEF Ids
<1>1. StackOK'
    <2>1. \A i \in DOMAIN stack'[t] : i > n => stack'[t][i].id \in Ids' \cup {NoId}
        BY <1>f, <1>t
    <2>2. Keeps(t, n)
        BY <1>c DEF Calls
    <2> QED
        BY <1>0, <1>t, <1>u, <2>1, <2>2, StackTyped
<1>2. BaseInv' /\ TypeOK'
    BY <1>1, <1>s, <1>u DEF Inv, BaseInv, TypeOK, StackOK
<1>a. \A v \in Threads : \A i \in DOMAIN stack[v] : i \in DOMAIN stack'[v] /\ stack'[v][i] = stack[v][i]
    BY <1>c, <1>t DEF Calls, Keeps
<1>b. \A v \in Threads : \A i \in DOMAIN stack'[v] : i \in DOMAIN stack[v] \/ stack'[v][i] = f
    <2>1. \A i \in DOMAIN stack'[t] : i \in 1 .. n \/ i = n + 1
        BY <1>t
    <2> QED
        BY <1>c, <1>t, <2>1 DEF Calls, Keeps
<1>3. PtrInv'
    <2>1. \A v \in Threads : \A i \in DOMAIN stack'[v] :
              stack'[v][i].k = "serve" \/ IsSend(stack'[v][i]) =>
                  i \in DOMAIN stack[v] /\ Alike(stack'[v][i], stack[v][i])
        BY <1>a, <1>b, <1>f DEF Alike
    <2>2. \A v \in Threads : \A i \in DOMAIN stack[v] :
                  i \in DOMAIN stack'[v] /\ Alike(stack'[v][i], stack[v][i])
        BY <1>a DEF Alike
    <2> QED
        BY <1>0, <1>2, <1>s, <2>1, <2>2, PtrKept
<1>4. WakeOK(t)'
    BY <1>0, <1>2, <1>c, <1>f, <1>s, OwnCalled
<1>5. \A v \in Threads : v # t => stack'[v] = stack[v]
    BY <1>c DEF Calls, Keeps
<1>6. WakeInv'
    BY <1>0, <1>2, <1>4, <1>5, <1>s, OthersKept
<1> QED
    BY <1>2, <1>3, <1>6 DEF Inv

\* A send is served, from Get or from a blocked Send.
LEMMA ServeInv ==
    ASSUME Inv, NEW t \in Threads, NEW id \in sendlist[t],
           At(t, "get", "sends") \/ At(t, "send", "receive"),
           Call(t, Frame("serve", t, id, "run")), PopSend(t, id),
           UNCHANGED <<msgq, wake, fStop, gone, from, ready, sends, posts>>
    PROVE  Inv'
<1> DEFINE n == Len(stack[t])
           f == Frame("serve", t, id, "run")
<1>0. TypeOK /\ Nested(t) /\ Told(t) /\ PtrInv /\ WakeInv
    BY DEF Inv, BaseInv, WakeInv, WakeOK
<1>i. id \in Ids /\ id \in Nat
    BY <1>0, IdFacts
<1>f. f \in Frames /\ f.id = id /\ f.k = "serve" /\ f.pc = "run"
    BY <1>i DEF Frame, Frames
<1>s. /\ stack[t] # <<>> /\ Suspended(Last(stack[t])) /\ ~At(t, "send", "wakeUp")
    BY DEF At, Suspended
<1>c. Calls(t, Frame("serve", t, id, "run"))
    BY <1>0, <1>f, CallStack
<1>t. /\ n \in Nat \ {0} /\ DOMAIN stack[t] = 1 .. n
      /\ DOMAIN stack'[t] = 1 .. (n + 1) /\ stack'[t][n + 1] = f
    BY <1>0, <1>c, <1>s, TopFrame DEF Calls
<1>u. Ids' = Ids
    BY DEF Ids
<1> HIDE DEF f
<1>1. StackOK'
    <2>1. \A i \in DOMAIN stack'[t] : i > n => stack'[t][i].id \in Ids' \cup {NoId}
        BY <1>f, <1>i, <1>t, <1>u
    <2>2. Keeps(t, n)
        BY <1>c DEF Calls
    <2> QED
        BY <1>0, <1>t, <1>u, <2>1, <2>2, StackTyped
<1>l. /\ sendlist' \in [Threads -> SUBSET Ids]
      /\ \A v \in Threads : v # t => sendlist'[v] = sendlist[v]
    BY <1>0 DEF PopSend, TypeOK
<1>2. BaseInv' /\ TypeOK'
    BY <1>1, <1>l, <1>u DEF Inv, BaseInv, TypeOK, StackOK
<1>3. PtrInv'
    BY <1>0, <1>2, <1>c, PtrServed
<1>4. WakeOK(t)'
    <2>1. Calls(t, f)
        BY <1>c DEF f
    <2> QED
        BY <1>0, <1>2, <1>f, <1>s, <2>1, OwnCalled
<1>5. \A v \in Threads : v # t => stack'[v] = stack[v]
    BY <1>c DEF Calls, Keeps
<1>6. WakeInv'
    BY <1>0, <1>2, <1>4, <1>5, <1>l, <1>s, OthersKept
<1> QED
    BY <1>2, <1>3, <1>6 DEF Inv

\* The stacks stay, and sends and messages are taken away, answered or added with
\* a signal: Post, Quit, Clear and the destructor.
LEMMA OutsideInv ==
    ASSUME Inv, UNCHANGED <<stack, from, sends>>, TypeOK', \A v \in Threads : msgq'[v] <= posts',
           ready \subseteq ready', \A v \in Threads : sendlist'[v] \subseteq sendlist[v] \ (ready' \ ready),
           \A v \in Threads : wake[v] => wake'[v],
           \A id \in ready' \ ready : wake'[from[id]] /\ \E v \in Threads : id \in sendlist[v],
           \A v \in Threads : ~wake'[v] => fStop'[v] = fStop[v] /\ (msgq[v] = 0 => msgq'[v] = 0)
    PROVE  Inv'
<1>0. TypeOK /\ PtrInv /\ WakeInv
    BY DEF Inv, BaseInv
<1>1. PtrInv'
    <2>1. \A v \in Threads : \A i \in DOMAIN stack[v] : Alike(stack[v][i], stack[v][i])
        BY DEF Alike
    <2>2. \A v \in Threads : \A i \in DOMAIN stack'[v] :
               stack'[v][i].k = "serve" /\ stack'[v][i].id \in ready' => stack'[v][i].id \in ready
        BY <1>0 DEF PtrInv
    <2> QED
        BY <1>0, <2>1, <2>2, PtrKept
<1>2. ASSUME NEW v \in Threads PROVE WakeOK(v)'
    <2>1. \A i \in DOMAIN stack[v] : ~wake'[v] /\ stack[v][i].k = "send" /\ stack[v][i].id \in ready' =>
                     stack[v][i].id \in ready
        <3> SUFFICES ASSUME NEW i \in DOMAIN stack[v], ~wake'[v], stack[v][i].k = "send",
                            stack[v][i].id \in ready', stack[v][i].id \notin ready
                     PROVE  FALSE
            OBVIOUS
        <3>1. stack[v][i].id \in Ids
            <4>1. ready' \subseteq Ids'
                BY DEF TypeOK
            <4> QED
                BY <4>1 DEF Ids
        <3>2. IsSend(stack[v][i])
            BY <1>0, <3>1, IdFacts DEF IsSend
        <3>3. from[stack[v][i].id] = v
            BY <1>0, <3>2 DEF PtrInv
        <3> QED
            BY <3>3
    <2>2. \A id : AboutToSignal(id) <=> AboutToSignal(id)'
        BY DEF AboutToSignal, At
    <2>3. WakeOK(v)
        BY <1>0 DEF WakeInv
    <2> QED
        BY <1>0, <2>1, <2>2, <2>3, OtherAwake
<1> QED
    BY <1>1, <1>2 DEF Inv, BaseInv, WakeInv

\* A message of msgq_ is taken by Get.
LEMMA TaskInv ==
    ASSUME Inv, NEW t \in Threads, At(t, "get", "queue"), msgq[t] > 0,
           msgq' = [msgq EXCEPT ![t] = @ - 1], GotoAndCall(t, "sends", Frame("task", t, NoId, "run")),
           UNCHANGED <<sendlist, wake, fStop, gone, from, ready, sends, posts>>
    PROVE  Inv'
<1> DEFINE n == Len(stack[t])
           f == Frame("task", t, NoId, "run")
           g == [Last(stack[t]) EXCEPT !.pc = "sends"]
<1>0. TypeOK /\ Nested(t) /\ Told(t) /\ PtrInv /\ WakeInv
    BY DEF Inv, BaseInv, WakeInv, WakeOK
<1>f. f \in Frames /\ f.id = NoId /\ f.k = "task" /\ f.pc = "run"
    BY DEF Frame, Frames, NoId
<1>s. stack[t] # <<>> /\ ~At(t, "send", "wakeUp") /\ Last(stack[t]).k = "get"
    BY DEF At
<1>g. g.k = "get" /\ g.id = Last(stack[t]).id /\ g.pc = "sends"
    BY <1>0, <1>s, TopFrame DEF Frames
<1>c. /\ Keeps(t, n - 1) /\ DOMAIN stack'[t] = 1 .. (n + 1) /\ Len(stack'[t]) = n + 1
      /\ stack'[t][n] = g /\ stack'[t][n + 1] = f
    BY <1>0, <1>f, <1>s, TaskStack DEF Pcs
<1>t. /\ n \in Nat \ {0} /\ n - 1 \in Nat /\ DOMAIN stack[t] = 1 .. n /\ Last(stack[t]) = stack[t][n]
    BY <1>0, <1>s, TopFrame
<1>n. n = 1
    <2>1. n \in DOMAIN stack[t] /\ stack[t][n].k = "get"
        BY <1>s, <1>t
    <2> QED
        BY <1>0, <2>1 DEF Nested
<1>u. Ids' = Ids
    BY DEF Ids
<1> HIDE DEF f, g
<1>d. \A i \in DOMAIN stack'[t] : (i = 1 /\ stack'[t][i] = g) \/ (i = 2 /\ stack'[t][i] = f)
    BY <1>c, <1>n
<1>1. StackOK'
    <2>1. Last(stack[t]).id \in Ids \cup {NoId}
        BY <1>0, <1>t DEF TypeOK
    <2>2. \A i \in DOMAIN stack'[t] : i > n - 1 => stack'[t][i].id \in Ids' \cup {NoId}
        BY <1>d, <1>f, <1>g, <1>u, <2>1
    <2> QED
        BY <1>0, <1>c, <1>t, <1>u, <2>2, StackTyped
<1>m. msgq' \in [Threads -> 0 .. MaxPosts] /\ \A v \in Threads : msgq'[v] <= posts' /\ (v # t => msgq'[v] = msgq[v])
    <2>1. msgq \in [Threads -> 0 .. MaxPosts] /\ posts \in 0 .. MaxPosts /\ \A v \in Threads : msgq[v] <= posts
        BY DEF Inv, BaseInv, TypeOK
    <2> QED
        BY <2>1
<1>2. BaseInv' /\ TypeOK'
    BY <1>0, <1>1, <1>m, <1>u DEF BaseInv, TypeOK, StackOK
<1>5. \A v \in Threads : v # t => stack'[v] = stack[v]
    BY <1>c DEF Keeps
<1>3. PtrInv'
    <2>1. ~IsSend(f) /\ ~IsSend(g) /\ ~IsSend(stack[t][1]) /\ f.k # "serve" /\ g.k # "serve"
        BY <1>f, <1>g, <1>n, <1>s, <1>t DEF IsSend
    <2>2. \A v \in Threads : \A i \in DOMAIN stack'[v] :
              stack'[v][i].k = "serve" \/ IsSend(stack'[v][i]) =>
                  i \in DOMAIN stack[v] /\ Alike(stack'[v][i], stack[v][i])
        BY <1>5, <1>d, <2>1 DEF Alike
    <2>3. \A v \in Threads : \A i \in DOMAIN stack[v] : IsSend(stack[v][i]) =>
                  i \in DOMAIN stack'[v] /\ Alike(stack'[v][i], stack[v][i])
        BY <1>5, <1>n, <1>t, <2>1 DEF Alike
    <2> QED
        BY <1>0, <1>2, <2>2, <2>3, PtrKept
<1>4. WakeOK(t)'
    <2>1. Last(stack'[t]) = f /\ Len(stack'[t]) = 2
        BY <1>c, <1>n DEF Last
    <2> QED
        BY <1>d, <1>f, <1>g, <2>1 DEF WakeOK, Nested, Told, Seen, At, Suspended
<1>6. WakeInv'
    BY <1>0, <1>2, <1>4, <1>5, <1>m, <1>s, OthersKept
<1> QED
    BY <1>2, <1>3, <1>6 DEF Inv

\* The handler of a send has returned: the send is answered and its sender woken.
LEMMA ServeReturnsInv == ASSUME Inv, NEW t \in Threads, ServeReturns(t) PROVE Inv'
<1> DEFINE n == Len(stack[t])
           id == Last(stack[t]).id
<1>0. TypeOK /\ Nested(t) /\ Told(t) /\ PtrInv /\ WakeInv
    BY DEF Inv, BaseInv, WakeInv, WakeOK
<1>s. /\ stack[t] # <<>> /\ ~At(t, "send", "wakeUp") /\ Last(stack[t]).k = "serve"
      /\ ready' = ready \cup {id} /\ wake' = [wake EXCEPT ![from[id]] = TRUE] /\ Return(t)
      /\ UNCHANGED <<sendlist, msgq, fStop, gone, from, sends, posts>>
    BY DEF ServeReturns, At, WakeUp
<1>r. Returns(t)
    BY <1>0, <1>s, ReturnStack
<1>t. /\ n \in Nat \ {0} /\ n - 1 \in Nat /\ DOMAIN stack[t] = 1 .. n /\ Last(stack[t]) = stack[t][n]
      /\ DOMAIN stack'[t] = 1 .. (n - 1) /\ n \in DOMAIN stack[t]
    BY <1>0, <1>r, <1>s, TopFrame DEF Returns
<1>i. id \in Ids \ ready /\ from[id] \in Threads
    BY <1>0, <1>s, <1>t, IdFacts DEF PtrInv
<1>w. /\ wake' \in [Threads -> BOOLEAN] /\ wake'[from[id]]
      /\ \A v \in Threads : wake[v] => wake'[v]
    BY <1>0, <1>i, <1>s DEF TypeOK
<1>v. \A v \in Threads : ~wake'[v] => ~wake[v] /\ from[id] # v
    BY <1>w
<1>u. Ids' = Ids
    BY <1>s DEF Ids
<1>1. StackOK'
    <2>1. \A i \in DOMAIN stack'[t] : i > n - 1 => stack'[t][i].id \in Ids' \cup {NoId}
        BY <1>t
    <2>2. Keeps(t, n - 1)
        BY <1>r DEF Returns
    <2> QED
        BY <1>0, <1>t, <1>u, <2>1, <2>2, StackTyped
<1>2. BaseInv' /\ TypeOK'
    BY <1>1, <1>i, <1>s, <1>u, <1>w DEF Inv, BaseInv, TypeOK, StackOK
<1>a. \A u \in Threads : \A i \in DOMAIN stack'[u] :
          i \in DOMAIN stack[u] /\ stack'[u][i] = stack[u][i] /\ ~(u = t /\ i = n)
    BY <1>r, <1>t, SMTT(40) DEF Returns, Keeps
<1>b. \A u \in Threads : \A i \in DOMAIN stack[u] :
          \/ i \in DOMAIN stack'[u] /\ stack'[u][i] = stack[u][i]
          \/ u = t /\ i = n
    <2>1. \A i \in DOMAIN stack[t] : i \in 1 .. (n - 1) \/ i = n
        BY <1>t
    <2> QED
        BY <1>r, <2>1 DEF Returns, Keeps
<1> HIDE DEF id, n
<1>k. id = stack[t][n].id /\ stack[t][n].k = "serve"
    BY <1>s, <1>t DEF id
<1>3. PtrInv'
    <2>1. \A u \in Threads : \A i \in DOMAIN stack'[u] : i \in DOMAIN stack[u] /\ Alike(stack'[u][i], stack[u][i])
        BY <1>a DEF Alike
    <2>2. \A u \in Threads : \A i \in DOMAIN stack[u] : IsSend(stack[u][i]) =>
                   i \in DOMAIN stack'[u] /\ Alike(stack'[u][i], stack[u][i])
        BY <1>b, <1>k DEF IsSend, Alike
    <2>3. \A u \in Threads : \A x \in sendlist'[u] : x \in ready' => x \in ready
        BY <1>0, <1>k, <1>s, <1>t DEF PtrInv
    <2>4. ASSUME NEW u \in Threads, NEW i \in DOMAIN stack'[u], stack'[u][i].k = "serve",
                 stack'[u][i].id \in ready'
          PROVE  stack'[u][i].id \in ready
        <3>1. i \in DOMAIN stack[u] /\ stack[u][i].k = "serve" /\ ~(u = t /\ i = n)
              /\ stack'[u][i].id = stack[u][i].id
            BY <1>a, <2>4
        <3>2. stack[u][i].id # id
            BY <1>0, <1>k, <1>t, <3>1 DEF PtrInv
        <3> QED
            BY <1>s, <2>4, <3>1, <3>2
    <2>5. ready \subseteq ready' /\ from' = from /\ \A u \in Threads : sendlist'[u] \subseteq sendlist[u]
        BY <1>s
    <2> QED
        BY <1>0, <1>2, <2>1, <2>2, <2>3, <2>4, <2>5, PtrKept
<1>f. ASSUME NEW v \in Threads, ~wake'[v], NEW i \in DOMAIN stack[v], stack[v][i].k = "send",
             stack[v][i].id \in ready'
      PROVE  stack[v][i].id \in ready
    <2>1. CASE stack[v][i].id = id
        <3>1. IsSend(stack[v][i])
            BY <1>0, <1>f, <1>i, <2>1, IdFacts DEF IsSend
        <3> QED
            BY <1>0, <1>f, <1>v, <2>1, <3>1 DEF PtrInv
    <2> QED
        BY <1>f, <1>s, <2>1
<1>4. WakeOK(t)'
    BY <1>0, <1>2, <1>f, <1>r, <1>s, <1>v, OwnReturned
<1>5. ASSUME NEW v \in Threads, v # t PROVE WakeOK(v)'
    <2>1. \A u \in Threads : u # t => stack'[u] = stack[u]
        BY <1>r DEF Returns, Keeps
    <2>2. \A x \in sendlist[v] : AboutToSignal(x) => AboutToSignal(x)'
        BY <1>0, <1>s, <2>1, AboutKept, IdFacts
    <2>3. WakeOK(v)
        BY <1>0 DEF WakeInv
    <2>4. \A x \in sendlist'[v] :
              \/ AboutToSignal(x)'
              \/ x \in sendlist[v] /\ from'[x] = from[x] /\ ~AboutToSignal(x)
        BY <1>s, <2>2
    <2> QED
        BY <1>0, <1>2, <1>5, <1>f, <1>s, <1>w, <2>1, <2>3, <2>4, OtherAwake
<1> QED
    BY <1>2, <1>3, <1>4, <1>5 DEF Inv, WakeInv

\* A send is queued.
LEMMA PushInv == ASSUME Inv, NEW t \in Threads, PushSend(t) PROVE Inv'
<1> DEFINE n == Len(stack[t])
           new == Len(from) + 1
           f == [Last(stack[t]) EXCEPT !.pc = "wakeUp", !.id = new]
           to == Last(stack[t]).to
<1>0. TypeOK /\ Nested(t) /\ Told(t) /\ PtrInv /\ WakeInv
    BY DEF Inv, BaseInv, WakeInv, WakeOK
<1>s. /\ stack[t] # <<>> /\ ~At(t, "send", "wakeUp") /\ Last(stack[t]).k = "send" /\ Last(stack[t]).id = NoId
      /\ from' = Append(from, t) /\ sendlist' = [sendlist EXCEPT ![to] = @ \cup {new}]
      /\ UNCHANGED <<msgq, wake, fStop, gone, ready, sends, posts>>
    BY <1>0 DEF PushSend, At, Nested
<1>i. /\ Len(from) \in Nat /\ Ids = 1 .. Len(from) /\ from \in Seq(Threads) /\ ready \subseteq Ids
      /\ new \in Nat /\ new \notin ready
    BY <1>0, IdFacts
<1>j. /\ Ids' = Ids \cup {new} /\ from' \in Seq(Threads) /\ from'[new] = t
      /\ \A x \in Ids : from'[x] = from[x]
    <2>1. DOMAIN from' = 1 .. (Len(from) + 1) /\ from' \in Seq(Threads) /\ from'[Len(from) + 1] = t
          /\ \A x \in 1 .. Len(from) : from'[x] = from[x]
        BY <1>i, <1>s
    <2>2. Ids' = Ids \cup {new}
        BY <1>i, <2>1 DEF Ids
    <2> QED
        BY <1>i, <2>1, <2>2
<1>f. /\ f \in Frames /\ f.k = "send" /\ f.pc = "wakeUp" /\ f.id = new /\ to \in Threads
      /\ f.waited = Last(stack[t]).waited
    <2>1. Last(stack[t]) \in Frames
        BY <1>0, <1>s, TopFrame
    <2> QED
        BY <1>i, <1>s, <2>1 DEF Frames
<1>r. Replaces(t, f)
    <2>1. stack' = [stack EXCEPT ![t] = [@ EXCEPT ![Len(stack[t])] = f]]
        <3>1. stack' = [stack EXCEPT ![t][Len(stack[t])] = [@ EXCEPT !.pc = "wakeUp", !.id = new]]
            BY DEF PushSend
        <3>2. t \in DOMAIN stack /\ Last(stack[t]) = stack[t][Len(stack[t])] /\ Len(stack[t]) \in DOMAIN stack[t]
            BY <1>0, <1>s, TopFrame DEF TypeOK
        <3> QED
            BY <3>1, <3>2
    <2> HIDE DEF f
    <2> QED
        BY <1>0, <1>f, <1>s, <2>1, ReplaceStack
<1>t. /\ n \in Nat \ {0} /\ n - 1 \in Nat /\ DOMAIN stack'[t] = 1 .. n /\ stack'[t][n] = f
    BY <1>0, <1>r, <1>s, TopFrame DEF Replaces
<1>3a. TypeOK' => PtrInv'
    BY <1>0, <1>r, <1>s, PtrPushed
<1> HIDE DEF f, new, to
<1>1. StackOK'
    <2>1. \A i \in DOMAIN stack'[t] : i > n - 1 => stack'[t][i].id \in Ids' \cup {NoId}
        BY <1>f, <1>j, <1>t
    <2>2. Keeps(t, n - 1)
        BY <1>r DEF Replaces
    <2> QED
        BY <1>0, <1>j, <1>t, <2>1, <2>2, StackTyped
<1>l. /\ sendlist' \in [Threads -> SUBSET (Ids')]
      /\ \A v \in Threads : \A x \in sendlist'[v] : x \in sendlist[v] \/ x = new
    <2>1. sendlist \in [Threads -> SUBSET Ids]
        BY <1>0 DEF TypeOK
    <2> QED
        BY <1>f, <1>j, <1>s, <2>1
<1>2. BaseInv' /\ TypeOK'
    BY <1>1, <1>i, <1>j, <1>l, <1>s DEF Inv, BaseInv, TypeOK, StackOK
<1>4. /\ Nested(t)' /\ Told(t)' /\ Last(stack'[t]) = f
      /\ \A k, pc : At(t, k, pc)' <=> f.k = k /\ f.pc = pc
    <2>1. wake'[t] = wake[t] /\ ready' = ready
        BY <1>s
    <2> QED
        BY <1>0, <1>2, <1>f, <1>r, <1>s, <2>1, OwnReplaced
<1>5. WakeOK(t)'
    BY <1>4, <1>f DEF WakeOK, Seen
<1>6. ASSUME NEW x, x = new PROVE AboutToSignal(x)'
    <2>1. stack'[t] # <<>> /\ Last(stack'[t]) = f
        BY <1>4, <1>f DEF At
    <2>2. Last(stack'[from'[x]]) = f /\ stack'[from'[x]] # <<>>
        BY <1>6, <1>j, <2>1
    <2> QED
        BY <1>6, <1>f, <2>2 DEF AboutToSignal, At
<1>7. ASSUME NEW v \in Threads, v # t PROVE WakeOK(v)'
    <2>1. \A u \in Threads : u # t => stack'[u] = stack[u]
        BY <1>r DEF Replaces, Keeps
    <2>2. \A x \in sendlist[v] : x \in Ids /\ from'[x] = from[x]
        BY <1>0, <1>j, IdFacts
    <2>3. \A x \in sendlist[v] : AboutToSignal(x) => AboutToSignal(x)'
        BY <1>0, <1>s, <2>1, <2>2, AboutKept
    <2>4. WakeOK(v)
        BY <1>0 DEF WakeInv
    <2>5. \A x \in sendlist'[v] :
              \/ AboutToSignal(x)'
              \/ x \in sendlist[v] /\ from'[x] = from[x] /\ ~AboutToSignal(x)
        BY <1>6, <1>l, <2>2, <2>3
    <2> QED
        BY <1>0, <1>2, <1>7, <1>s, <2>1, <2>4, <2>5, OtherAwake
<1> QED
    BY <1>2, <1>3a, <1>5, <1>7 DEF Inv, WakeInv

\* The target of a send is signalled.
LEMMA WakeTargetInv == ASSUME Inv, NEW t \in Threads, WakeTarget(t) PROVE Inv'
<1> DEFINE n == Len(stack[t])
           f == [Last(stack[t]) EXCEPT !.pc = "test"]
           to == Last(stack[t]).to
<1>0. TypeOK /\ Nested(t) /\ Told(t) /\ PtrInv /\ WakeInv
    BY DEF Inv, BaseInv, WakeInv, WakeOK
<1>s. /\ stack[t] # <<>> /\ Last(stack[t]).k = "send" /\ Last(stack[t]).pc = "wakeUp"
      /\ wake' = [wake EXCEPT ![to] = TRUE]
      /\ Goto(t, "test") /\ UNCHANGED rest
    BY DEF WakeTarget, At, WakeUp, rest
<1>r. Replaces(t, f)
    BY <1>0, <1>s, GotoStack DEF Pcs
<1>p. Last(stack[t]) \in Frames
    BY <1>0, <1>s, TopFrame
<1>f. /\ f \in Frames /\ f.k = "send" /\ f.pc = "test" /\ f.id = Last(stack[t]).id /\ f.to = to
      /\ f.waited = Last(stack[t]).waited /\ to \in Threads
    BY <1>p, <1>s DEF Frames
<1>t. /\ n \in Nat \ {0} /\ n - 1 \in Nat /\ DOMAIN stack[t] = 1 .. n /\ Last(stack[t]) = stack[t][n]
      /\ DOMAIN stack'[t] = 1 .. n /\ stack'[t][n] = f
    BY <1>0, <1>r, <1>s, TopFrame DEF Replaces
<1>w. /\ wake' \in [Threads -> BOOLEAN] /\ wake'[to] /\ \A v \in Threads : wake[v] => wake'[v]
    BY <1>0, <1>f, <1>s DEF TypeOK
<1>u. Ids' = Ids
    BY <1>s DEF rest, Ids
<1> HIDE DEF f, to
<1>1. StackOK'
    <2>1. Last(stack[t]).id \in Ids \cup {NoId}
        BY <1>0, <1>t DEF TypeOK
    <2>2. \A i \in DOMAIN stack'[t] : i > n - 1 => stack'[t][i].id \in Ids' \cup {NoId}
        BY <1>f, <1>t, <1>u, <2>1
    <2>3. Keeps(t, n - 1)
        BY <1>r DEF Replaces
    <2> QED
        BY <1>0, <1>t, <1>u, <2>2, <2>3, StackTyped
<1>2. BaseInv' /\ TypeOK'
    BY <1>1, <1>s, <1>u, <1>w DEF Inv, BaseInv, TypeOK, StackOK, rest
<1>5. \A u \in Threads : u # t => stack'[u] = stack[u]
    BY <1>r DEF Replaces, Keeps
<1>a. \A u \in Threads : DOMAIN stack'[u] = DOMAIN stack[u]
                         /\ \A i \in DOMAIN stack[u] : Alike(stack'[u][i], stack[u][i])
    <2>1. \A i \in 1 .. (n - 1) : stack'[t][i] = stack[t][i]
        BY <1>r DEF Replaces, Keeps
    <2>2. \A i \in DOMAIN stack[t] : i = n \/ i \in 1 .. (n - 1)
        BY <1>t
    <2>3. \A i \in DOMAIN stack[t] : Alike(stack'[t][i], stack[t][i])
        BY <1>f, <1>s, <1>t, <2>1, <2>2 DEF Alike, to
    <2> QED
        BY <1>5, <1>t, <2>3 DEF Alike
<1>3. PtrInv'
    BY <1>0, <1>2, <1>a, <1>s, PtrKept DEF rest
<1>4. WakeOK(t)'
    <2>1. ~wake'[t] => ~wake[t]
        BY <1>w
    <2>2. /\ Nested(t)' /\ Told(t)'
          /\ \A k, pc : At(t, k, pc)' <=> f.k = k /\ f.pc = pc
        BY <1>0, <1>2, <1>f, <1>r, <1>s, <2>1, OwnReplaced DEF rest
    <2> QED
        BY <1>f, <2>2 DEF WakeOK, Seen
<1>6. ASSUME NEW v \in Threads, v # t PROVE WakeOK(v)'
    <2>1. WakeOK(v)
        BY <1>0 DEF WakeInv
    <2>2. ASSUME ~wake'[v], NEW x \in sendlist[v], AboutToSignal(x) PROVE AboutToSignal(x)'
        <3>1. x \in Ids /\ from[x] \in Threads /\ x # NoId /\ from' = from
            BY <1>0, <1>s, IdFacts DEF rest
        <3>2. CASE from[x] # t
            BY <1>5, <2>2, <3>1, <3>2 DEF AboutToSignal, At
        <3>3. CASE from[x] = t
            <4>1. Last(stack[t]).id = x /\ IsSend(stack[t][n]) /\ n \in DOMAIN stack[t]
                BY <1>s, <1>t, <2>2, <3>1, <3>3 DEF AboutToSignal, IsSend
            <4>2. PICK i \in DOMAIN stack[t] :
                      IsSend(stack[t][i]) /\ stack[t][i].id = x /\ stack[t][i].to = v
                BY <1>0, <3>3 DEF PtrInv
            <4>3. i = n
                BY <1>0, <1>t, <4>1, <4>2 DEF PtrInv
            <4>4. to = v
                BY <1>t, <4>2, <4>3 DEF to
            <4> QED
                BY <1>w, <2>2, <4>4
        <3> QED
            BY <3>2, <3>3
    <2>3. ~wake'[v] => \A x \in sendlist'[v] :
              \/ AboutToSignal(x)'
              \/ x \in sendlist[v] /\ from'[x] = from[x] /\ ~AboutToSignal(x)
        BY <1>s, <2>2 DEF rest
    <2>4. wake[v] => wake'[v]
        BY <1>w
    <2> QED
        BY <1>0, <1>2, <1>5, <1>6, <1>s, <2>1, <2>3, <2>4, OtherAwake DEF rest
<1> QED
    BY <1>2, <1>3, <1>4, <1>6 DEF Inv, WakeInv

\* The steps that move the innermost frame on, in Get.
LEMMA GetMovesInv ==
    ASSUME Inv, NEW t \in Threads, NEW pc \in {"sends", "queue", "stop", "wait"},
           At(t, "get", "sends") \/ At(t, "get", "queue") \/ At(t, "get", "stop") \/ At(t, "get", "wait"),
           Goto(t, pc), UNCHANGED rest, wake' \in [Threads -> BOOLEAN],
           \A v \in Threads : v # t => wake'[v] = wake[v],
           ~wake'[t] /\ pc \in {"queue", "stop", "wait"} => \A id \in sendlist[t] : AboutToSignal(id),
           ~wake'[t] /\ pc \in {"stop", "wait"} => msgq[t] = 0,
           ~wake'[t] /\ pc = "wait" => ~fStop[t]
    PROVE  Inv'
<1> DEFINE f == [Last(stack[t]) EXCEPT !.pc = pc]
<1>0. TypeOK
    BY DEF Inv, BaseInv
<1>1. stack[t] # <<>> /\ Last(stack[t]).k = "get" /\ ~At(t, "send", "wakeUp")
    BY DEF At
<1>2. Replaces(t, f)
    BY <1>0, <1>1, GotoStack DEF Pcs
<1>3. Last(stack[t]) \in Frames
    BY <1>0, <1>1, TopFrame
<1>4. f \in Frames /\ f.k = "get" /\ f.pc = pc /\ Alike(f, Last(stack[t]))
    BY <1>1, <1>3 DEF Frames, Alike
<1> HIDE DEF f
<1> QED
    BY <1>1, <1>2, <1>4, Moved

\* ReceiveSends in Get.
LEMMA ReceiveSendsInv == ASSUME Inv, NEW t \in Threads, ReceiveSends(t) PROVE Inv'
<1>0. wake \in [Threads -> BOOLEAN]
    BY DEF Inv, BaseInv, TypeOK
<1>1. CASE sendlist[t] = {} /\ Goto(t, "queue") /\ UNCHANGED sendlist
    <2>1. At(t, "get", "sends") /\ UNCHANGED rest /\ wake' = wake
        BY <1>1 DEF ReceiveSends, rest
    <2> QED
        BY <1>0, <1>1, <2>1, GetMovesInv
<1>2. CASE \E id \in sendlist[t] : Call(t, Frame("serve", t, id, "run")) /\ PopSend(t, id)
    BY <1>2, ServeInv DEF ReceiveSends
<1> QED
    BY <1>1, <1>2 DEF ReceiveSends

\* The look at msgq_ in Get.
LEMMA GetMessageInv == ASSUME Inv, NEW t \in Threads, GetMessage(t) PROVE Inv'
<1>0. wake \in [Threads -> BOOLEAN] /\ Seen(t)
    BY DEF Inv, BaseInv, TypeOK, WakeInv, WakeOK
<1>1. CASE msgq[t] = 0 /\ Goto(t, "stop") /\ UNCHANGED msgq
    <2>1. At(t, "get", "queue") /\ UNCHANGED rest /\ wake' = wake
        BY <1>1 DEF GetMessage, rest
    <2>2. ~wake'[t] => \A id \in sendlist[t] : AboutToSignal(id)
        BY <1>0, <2>1 DEF Seen
    <2> QED
        BY <1>0, <1>1, <2>1, <2>2, GetMovesInv
<1>2. CASE msgq[t] > 0
    <2>1. ~(msgq[t] = 0)
        BY <1>2
    <2> QED
        BY <1>2, <2>1, TaskInv DEF GetMessage
<1> QED
    BY <1>1, <1>2 DEF GetMessage

\* The test of fStop_ in Get.
LEMMA GetStopOrWaitInv == ASSUME Inv, NEW t \in Threads, GetStopOrWait(t) PROVE Inv'
<1>0. wake \in [Threads -> BOOLEAN] /\ Seen(t) /\ TypeOK
    BY DEF Inv, BaseInv, TypeOK, WakeInv, WakeOK
<1>s. At(t, "get", "stop") /\ UNCHANGED rest /\ wake' = wake
    BY DEF GetStopOrWait, rest
<1>1. CASE fStop[t]
    <2>1. stack[t] # <<>> /\ Last(stack[t]).k = "get" /\ ~At(t, "send", "wakeUp") /\ Return(t)
        BY <1>1, <1>s DEF At, GetStopOrWait
    <2>2. Returns(t)
        BY <1>0, <2>1, ReturnStack
    <2> QED
        BY <1>0, <1>s, <2>1, <2>2, Returned
<1>2. CASE ~fStop[t]
    <2>1. Goto(t, "wait")
        BY <1>2 DEF GetStopOrWait
    <2>2. ~wake'[t] => msgq[t] = 0 /\ \A id \in sendlist[t] : AboutToSignal(id)
        BY <1>0, <1>s DEF Seen
    <2> QED
        BY <1>0, <1>2, <1>s, <2>1, <2>2, GetMovesInv
<1> QED
    BY <1>1, <1>2

\* Get wakes up and starts again.
LEMMA GetWakesUpInv == ASSUME Inv, NEW t \in Threads, GetWakesUp(t) PROVE Inv'
<1>1. wake' \in [Threads -> BOOLEAN] /\ \A v \in Threads : v # t => wake'[v] = wake[v]
    BY DEF Inv, BaseInv, TypeOK, GetWakesUp
<1>2. At(t, "get", "wait") /\ UNCHANGED rest /\ Goto(t, "sends")
    BY DEF GetWakesUp, rest
<1> QED
    BY <1>1, <1>2, GetMovesInv

\* The handler of a message returns.
LEMMA TaskReturnsInv == ASSUME Inv, NEW t \in Threads, TaskReturns(t) PROVE Inv'
<1>0. wake \in [Threads -> BOOLEAN] /\ TypeOK
    BY DEF Inv, BaseInv, TypeOK
<1>1. stack[t] # <<>> /\ Last(stack[t]).k = "task" /\ ~At(t, "send", "wakeUp") /\ Return(t)
      /\ UNCHANGED rest /\ wake' = wake
    BY DEF TaskReturns, At, rest
<1>2. Returns(t)
    BY <1>0, <1>1, ReturnStack
<1> QED
    BY <1>0, <1>1, <1>2, Returned

\* The test of `ready' in Send.
LEMMA TestReadyInv == ASSUME Inv, NEW t \in Threads, TestReady(t) PROVE Inv'
<1> DEFINE f == [Last(stack[t]) EXCEPT !.pc = "receive"]
<1>0. wake \in [Threads -> BOOLEAN] /\ TypeOK
    BY DEF Inv, BaseInv, TypeOK
<1>s. stack[t] # <<>> /\ Last(stack[t]).k = "send" /\ ~At(t, "send", "wakeUp") /\ UNCHANGED rest
    BY DEF TestReady, At, rest
<1>p. Last(stack[t]) \in Frames
    BY <1>0, <1>s, TopFrame
<1>1. CASE Last(stack[t]).id \in ready
    <2>1. Return(t) /\ wake' = [wake EXCEPT ![t] = @ \/ Last(stack[t]).waited]
        BY <1>1 DEF TestReady
    <2>2. Returns(t)
        BY <1>0, <1>s, <2>1, ReturnStack
    <2>3. Last(stack[t]).waited \in BOOLEAN
        BY <1>p DEF Frames
    <2>4. wake'[t] = (wake[t] \/ Last(stack[t]).waited)
        BY <1>0, <2>1
    <2>5. wake' \in [Threads -> BOOLEAN] /\ \A v \in Threads : v # t => wake'[v] = wake[v]
        BY <1>0, <2>1, <2>3
    <2>6. ~wake'[t] => ~wake[t] /\ ~Last(stack[t]).waited
        BY <2>4
    <2> QED
        BY <1>1, <1>s, <2>2, <2>5, <2>6, Returned
<1>2. CASE Last(stack[t]).id \notin ready
    <2>1. Goto(t, "receive") /\ wake' = wake
        BY <1>2 DEF TestReady
    <2>2. Replaces(t, f)
        BY <1>0, <1>s, <2>1, GotoStack DEF Pcs
    <2>3. /\ f \in Frames /\ f.k = "send" /\ f.pc = "receive" /\ f.id \notin ready
          /\ f.waited = Last(stack[t]).waited /\ Alike(f, Last(stack[t]))
        BY <1>2, <1>p, <1>s DEF Frames, Alike
    <2> HIDE DEF f
    <2> QED
        BY <1>0, <1>s, <2>1, <2>2, <2>3, Moved
<1> QED
    BY <1>1, <1>2

\* ReceiveSendsFromThread in Send. An answer that came since the test has
\* signalled the thread.
LEMMA ReceiveFromThreadInv == ASSUME Inv, NEW t \in Threads, ReceiveSendsFromThread(t) PROVE Inv'
<1> DEFINE f == [Last(stack[t]) EXCEPT !.pc = "wait"]
           ids == FromSource(t, Last(stack[t]).to)
<1>0. wake \in [Threads -> BOOLEAN] /\ TypeOK /\ Told(t)
    BY DEF Inv, BaseInv, TypeOK, WakeInv, WakeOK
<1>s. /\ stack[t] # <<>> /\ Last(stack[t]).k = "send" /\ Last(stack[t]).pc = "receive"
      /\ ~At(t, "send", "wakeUp") /\ At(t, "send", "receive") /\ wake' = wake
      /\ UNCHANGED <<msgq, wake, fStop, gone, from, ready, sends, posts>>
    BY DEF ReceiveSendsFromThread, At
<1>p. Last(stack[t]) \in Frames
    BY <1>0, <1>s, TopFrame
<1>1. CASE ids = {} /\ Goto(t, "wait") /\ UNCHANGED sendlist
    <2>1. UNCHANGED rest
        BY <1>1, <1>s DEF rest
    <2>2. Replaces(t, f)
        BY <1>0, <1>1, <1>s, GotoStack DEF Pcs
    <2>3. /\ f \in Frames /\ f.k = "send" /\ f.pc = "wait" /\ f.to = Last(stack[t]).to
          /\ f.waited = Last(stack[t]).waited /\ Alike(f, Last(stack[t])) /\ f.id = Last(stack[t]).id
        BY <1>p, <1>s DEF Frames, Alike
    <2>4. ASSUME ~wake[t] PROVE Last(stack[t]).id \notin ready
        <3> DEFINE n == Len(stack[t])
        <3>1. n \in DOMAIN stack[t] /\ Last(stack[t]) = stack[t][n] /\ DOMAIN stack[t] = 1 .. n /\ n \in Nat
            BY <1>0, <1>s, TopFrame
        <3>2. ~ \E j \in DOMAIN stack[t] : j > n
            BY <3>1
        <3> HIDE DEF n
        <3> QED
            BY <1>0, <1>s, <2>4, <3>1, <3>2 DEF Told
    <2>5. \A id \in sendlist[t] : from[id] # Last(stack[t]).to
        BY <1>1 DEF FromSource
    <2> HIDE DEF f
    <2> QED
        BY <1>0, <1>s, <2>1, <2>2, <2>3, <2>4, <2>5, Moved
<1>2. CASE \E id \in ids : Call(t, Frame("serve", t, id, "run")) /\ PopSend(t, id)
    <2>1. PICK id \in sendlist[t] : Call(t, Frame("serve", t, id, "run")) /\ PopSend(t, id)
        BY <1>2 DEF FromSource
    <2> QED
        BY <1>s, <2>1, ServeInv
<1> QED
    BY <1>1, <1>2 DEF ReceiveSendsFromThread

\* A blocked Send wakes up.
LEMMA SendWakesUpInv == ASSUME Inv, NEW t \in Threads, SendWakesUp(t) PROVE Inv'
<1> DEFINE f == [Last(stack[t]) EXCEPT !.pc = "test", !.waited = TRUE]
<1>0. wake \in [Threads -> BOOLEAN] /\ TypeOK
    BY DEF Inv, BaseInv, TypeOK
<1>s. stack[t] # <<>> /\ Last(stack[t]).k = "send" /\ ~At(t, "send", "wakeUp") /\ UNCHANGED rest
      /\ wake' = [wake EXCEPT ![t] = FALSE]
    BY DEF SendWakesUp, At, rest
<1>p. Last(stack[t]) \in Frames
    BY <1>0, <1>s, TopFrame
<1>f. f \in Frames /\ f.k = "send" /\ f.pc = "test" /\ f.waited /\ Alike(f, Last(stack[t]))
    BY <1>p, <1>s DEF Frames, Alike
<1>r. Replaces(t, f)
    <2>1. stack' = [stack EXCEPT ![t] = [@ EXCEPT ![Len(stack[t])] = f]]
        <3>1. stack' = [stack EXCEPT ![t][Len(stack[t])] = [@ EXCEPT !.pc = "test", !.waited = TRUE]]
            BY DEF SendWakesUp
        <3>2. t \in DOMAIN stack /\ Last(stack[t]) = stack[t][Len(stack[t])] /\ Len(stack[t]) \in DOMAIN stack[t]
            BY <1>0, <1>s, TopFrame DEF TypeOK
        <3> QED
            BY <3>1, <3>2
    <2> HIDE DEF f
    <2> QED
        BY <1>0, <1>f, <1>s, <2>1, ReplaceStack
<1>w. wake' \in [Threads -> BOOLEAN] /\ \A v \in Threads : v # t => wake'[v] = wake[v]
    BY <1>0, <1>s
<1> HIDE DEF f
<1> QED
    BY <1>f, <1>r, <1>s, <1>w, Moved

\* A message is posted.
LEMMA PostInv == ASSUME Inv, NEW t \in Threads, NEW u \in Threads, Post(t, u) PROVE Inv'
<1>0. TypeOK /\ \A v \in Threads : msgq[v] <= posts
    BY DEF Inv, BaseInv
<1>s. /\ msgq' = [msgq EXCEPT ![u] = @ + 1] /\ posts' = posts + 1 /\ posts < MaxPosts
      /\ wake' = [wake EXCEPT ![u] = TRUE]
      /\ UNCHANGED <<stack, sendlist, fStop, gone, from, ready, sends>>
    BY DEF Post, WakeUp
<1>1. /\ msgq' \in [Threads -> 0 .. MaxPosts] /\ posts' \in 0 .. MaxPosts
      /\ \A v \in Threads : msgq'[v] <= posts'
    <2>1. msgq \in [Threads -> 0 .. MaxPosts] /\ posts \in 0 .. MaxPosts
        BY <1>0 DEF TypeOK
    <2> QED
        BY <1>0, <1>s, <2>1
<1>2. /\ wake' \in [Threads -> BOOLEAN] /\ \A v \in Threads : wake[v] => wake'[v]
      /\ \A v \in Threads : ~wake'[v] => msgq'[v] = msgq[v]
    <2>1. wake \in [Threads -> BOOLEAN] /\ msgq \in [Threads -> 0 .. MaxPosts]
        BY <1>0 DEF TypeOK
    <2> QED
        BY <1>s, <2>1
<1>3. TypeOK'
    <2>1. Ids' = Ids
        BY <1>s DEF Ids
    <2> QED
        BY <1>0, <1>1, <1>2, <1>s, <2>1 DEF TypeOK
<1> QED
    BY <1>1, <1>2, <1>3, <1>s, OutsideInv

\* A thread is told to stop.
LEMMA QuitInv == ASSUME Inv, NEW t \in Threads, Quit(t) PROVE Inv'
<1>0. TypeOK /\ \A v \in Threads : msgq[v] <= posts
    BY DEF Inv, BaseInv
<1>s. /\ fStop' = [fStop EXCEPT ![t] = TRUE] /\ wake' = [wake EXCEPT ![t] = TRUE]
      /\ UNCHANGED <<stack, sendlist, msgq, gone, from, ready, sends, posts>>
    BY DEF Quit, WakeUp
<1>1. /\ wake' \in [Threads -> BOOLEAN] /\ fStop' \in [Threads -> BOOLEAN]
      /\ \A v \in Threads : wake[v] => wake'[v]
      /\ \A v \in Threads : ~wake'[v] => fStop'[v] = fStop[v]
    <2>1. wake \in [Threads -> BOOLEAN] /\ fStop \in [Threads -> BOOLEAN]
        BY <1>0 DEF TypeOK
    <2> QED
        BY <1>s, <2>1
<1>2. TypeOK'
    <2>1. Ids' = Ids
        BY <1>s DEF Ids
    <2> QED
        BY <1>0, <1>1, <1>s, <2>1 DEF TypeOK
<1> QED
    BY <1>0, <1>1, <1>2, <1>s, OutsideInv

\* Sends are cleared and messages dropped.
LEMMA ClearInv ==
    ASSUME Inv, NEW t \in Threads, NEW ids \in SUBSET sendlist[t], NEW left \in 0 .. msgq[t],
           ClearSends(t, ids), msgq' = [msgq EXCEPT ![t] = left], gone' \subseteq Threads,
           UNCHANGED <<stack, fStop, from, sends, posts>>
    PROVE  Inv'
<1>0. TypeOK /\ PtrInv /\ \A v \in Threads : msgq[v] <= posts
    BY DEF Inv, BaseInv
<1>i. ids \subseteq Ids /\ Ids' = Ids
    BY <1>0, IdFacts DEF Ids
<1>1. /\ msgq' \in [Threads -> 0 .. MaxPosts] /\ \A v \in Threads : msgq'[v] <= posts'
      /\ \A v \in Threads : msgq[v] = 0 => msgq'[v] = 0
    <2>1. msgq \in [Threads -> 0 .. MaxPosts] /\ posts \in 0 .. MaxPosts
        BY <1>0 DEF TypeOK
    <2>2. left \in 0 .. MaxPosts /\ left <= posts /\ (msgq[t] = 0 => left = 0)
        BY <1>0, <2>1
    <2> QED
        BY <1>0, <2>1, <2>2
<1>2. /\ sendlist' \in [Threads -> SUBSET Ids]
      /\ \A v \in Threads : sendlist'[v] = IF v = t THEN sendlist[v] \ ids ELSE sendlist[v]
      /\ ready' = ready \cup ids
    BY <1>0 DEF ClearSends, TypeOK
<1>3. /\ wake' \in [Threads -> BOOLEAN]
      /\ \A v \in Threads : wake[v] => wake'[v]
      /\ \A id \in ids : wake'[from[id]]
    <2>1. wake' = [u \in Threads |-> wake[u] \/ \E id \in ids : from[id] = u]
        BY DEF ClearSends
    <2>2. \A v \in Threads : wake[v] \in BOOLEAN
        BY <1>0 DEF TypeOK
    <2>3. \A v \in Threads : wake'[v] = (wake[v] \/ \E id \in ids : from[id] = v)
        BY <2>1
    <2>4. wake' \in [Threads -> BOOLEAN]
        BY <2>1
    <2>5. \A id \in ids : from[id] \in Threads
        BY <1>0, <1>i, IdFacts
    <2> QED
        BY <2>3, <2>4, <2>5
<1>4. TypeOK'
    BY <1>0, <1>1, <1>2, <1>3, <1>i DEF TypeOK
<1>5. \A v \in Threads : sendlist'[v] \subseteq sendlist[v] \ (ready' \ ready)
    <2>1. \A v \in Threads : \A id \in sendlist[v] : id \in ids => v = t
        BY <1>0, QueuedOnce
    <2> QED
        BY <1>2, <2>1
<1>6. \A id \in ready' \ ready : wake'[from[id]] /\ \E v \in Threads : id \in sendlist[v]
    BY <1>2, <1>3
<1>7. ready \subseteq ready'
    BY <1>2
<1> QED
    BY <1>1, <1>3, <1>4, <1>5, <1>6, <1>7, OutsideInv

\* The destructor of a thread.
LEMMA DestroyInv == ASSUME Inv, NEW t \in Threads, Destroy(t) PROVE Inv'
<1>1. sendlist[t] \in SUBSET sendlist[t] /\ 0 \in 0 .. msgq[t]
    BY DEF Inv, BaseInv, TypeOK
<1>2. gone' \subseteq Threads
    BY DEF Inv, BaseInv, TypeOK, Destroy
<1> QED
    BY <1>1, <1>2, ClearInv DEF Destroy

\* Every step preserves the invariant.
LEMMA NextInv == Inv /\ [Next]_vars => Inv'
<1> SUFFICES ASSUME Inv, [Next]_vars PROVE Inv'
    OBVIOUS
<1>1. CASE UNCHANGED vars
    <2>1. /\ UNCHANGED stack /\ UNCHANGED sendlist /\ UNCHANGED msgq /\ UNCHANGED wake /\ UNCHANGED fStop
          /\ UNCHANGED gone /\ UNCHANGED from /\ UNCHANGED ready /\ UNCHANGED sends /\ UNCHANGED posts
        BY <1>1 DEF vars
    <2>2. TypeOK' /\ \A v \in Threads : msgq'[v] <= posts'
        BY <2>1 DEF Inv, BaseInv, TypeOK, Ids
    <2> QED
        BY <2>1, <2>2, OutsideInv
<1>2. ASSUME NEW t \in Threads, Step(t) PROVE Inv'
    BY <1>2, ReceiveSendsInv, GetMessageInv, GetStopOrWaitInv, GetWakesUpInv, TaskReturnsInv, ServeReturnsInv,
       PushInv, WakeTargetInv, TestReadyInv, ReceiveFromThreadInv, SendWakesUpInv DEF Step
<1>3. ASSUME NEW t \in Threads, NEW u \in Threads, Send(t, u) \/ Post(t, u) PROVE Inv'
    BY <1>3, SendInv, PostInv
<1>4. ASSUME NEW t \in Threads, NEW ids \in SUBSET sendlist[t], NEW left \in 0 .. msgq[t], Clear(t, ids, left)
      PROVE  Inv'
    <2>1. gone' \subseteq Threads
        BY <1>4 DEF Inv, BaseInv, TypeOK, Clear
    <2> QED
        BY <1>4, <2>1, ClearInv DEF Clear
<1>5. ASSUME NEW t \in Threads, Quit(t) \/ Destroy(t) PROVE Inv'
    BY <1>5, QuitInv, DestroyInv
<1> QED
    BY <1>1, <1>2, <1>3, <1>4, <1>5 DEF Next

\* Every thread starts in Get with nothing to do.
LEMMA InitInv == Init => Inv
<1> SUFFICES ASSUME Init PROVE Inv
    OBVIOUS
<1>1. \A t \in Threads : stack[t] = <<Frame("get", t, NoId, "sends")>>
    BY DEF Init
<1>2. ASSUME NEW t \in Threads
      PROVE  /\ DOMAIN stack[t] = {1} /\ Len(stack[t]) = 1 /\ stack[t] \in Seq(Frames)
             /\ stack[t][1] = Frame("get", t, NoId, "sends") /\ Last(stack[t]) = stack[t][1]
    <2>1. Frame("get", t, NoId, "sends") \in Frames
        BY FrameTypes
    <2>2. \A g \in Frames : /\ DOMAIN <<g>> = 1 .. 1 /\ Len(<<g>>) = 1 /\ <<g>> \in Seq(Frames)
                            /\ <<g>>[1] = g
        OBVIOUS
    <2>3. 1 .. 1 = {1}
        OBVIOUS
    <2>4. stack[t] = <<Frame("get", t, NoId, "sends")>>
        BY <1>1
    <2> QED
        BY <2>1, <2>2, <2>3, <2>4 DEF Last
<1>3. \A t \in Threads : stack[t][1].k = "get" /\ stack[t][1].id = NoId /\ stack[t][1].pc = "sends"
    <2>1. \A t : Frame("get", t, NoId, "sends").k = "get" /\ Frame("get", t, NoId, "sends").id = NoId
                 /\ Frame("get", t, NoId, "sends").pc = "sends"
        BY DEF Frame
    <2> QED
        BY <1>2, <2>1
<1>4. stack \in [Threads -> Seq(Frames)]
    BY <1>2 DEF Init
<1>5. BaseInv
    <2>1. from = <<>> /\ from \in Seq(Threads) /\ Ids = {}
        BY DEF Init, Ids
    <2>2. \A t \in Threads : \A i \in DOMAIN stack[t] : stack[t][i].id \in Ids \cup {NoId}
        BY <1>2, <1>3
    <2>3. \A t \in Threads : msgq[t] = 0 /\ posts = 0
        BY DEF Init
    <2> QED
        BY <1>4, <2>1, <2>2, <2>3 DEF Init, BaseInv, TypeOK
<1>6. PtrInv
    <2>1. \A t \in Threads : \A i \in DOMAIN stack[t] : stack[t][i].k = "get" /\ ~IsSend(stack[t][i])
        BY <1>2, <1>3 DEF IsSend
    <2>2. \A t \in Threads : sendlist[t] = {}
        BY DEF Init
    <2> QED
        BY <2>1, <2>2 DEF PtrInv
<1>7. WakeInv
    BY <1>2, <1>3 DEF WakeInv, WakeOK, Nested, Told, Seen, At
<1> QED
    BY <1>5, <1>6, <1>7 DEF Inv

-----------------------------------------------------------------------------
(***************************************************************************)
(* The theorems.                                                            *)
(***************************************************************************)
\* The invariant holds in every reachable state.
LEMMA Invariant == Spec => []Inv
    BY InitInv, NextInv, PTL DEF Spec

\* Stacks, lists and counters stay within their types: the frames carry known
\* sends, and the queues stay within the bound on posts.
THEOREM TypeCorrect == Spec => []TypeOK
<1>1. Inv => TypeOK
    BY DEF Inv, BaseInv
<1> QED
    BY <1>1, Invariant, PTL

\* While a send is in sendlist_ or its handler runs, its sender is blocked in
\* Thread::Send and it is not answered, so that *ready and the message, which
\* live in the sender's frame, may be used. For any nesting of calls, and with
\* Clear, Quit and the destructor at any moment.
THEOREM ReadyPointersValid == Spec => []ReadyPointerValid
<1>1. Inv => ReadyPointerValid
    <2> SUFFICES ASSUME Inv, NEW t \in Threads, NEW id \in Ids, id \in sendlist[t] \/ Serving(t, id)
                 PROVE  SendFrame(from[id], id) /\ id \notin ready
        BY DEF ReadyPointerValid
    <2>0. PtrInv
        BY DEF Inv
    <2>1. CASE id \in sendlist[t]
        BY <2>0, <2>1 DEF PtrInv, SendFrame, IsSend
    <2>2. CASE Serving(t, id)
        BY <2>0, <2>2 DEF PtrInv, Serving
    <2> QED
        BY <2>1, <2>2
<1> QED
    BY <1>1, Invariant, PTL

\* No wakeup is lost, though each thread has one signal that Get and all of its
\* nested Sends share and consume: whoever sleeps without being signalled has
\* nothing to do.
THEOREM NoWakeupLost == Spec => []NoLostWakeup
<1>1. Inv => NoLostWakeup
    BY DEF Inv, WakeInv, WakeOK, Seen, NoLostWakeup
<1> QED
    BY <1>1, Invariant, PTL
=============================================================================
