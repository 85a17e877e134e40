-------------------------- MODULE DataChannelProofs --------------------------
(***************************************************************************)
(* Proofs about DataChannel for any set of configurations, any sizes of the *)
(* buffers and any number of messages: the order in which the nested calls  *)
(* of datachannel.cc run and what follows from it for the handshake, the    *)
(* two streams and the buffers.                                             *)
(***************************************************************************)
EXTENDS DataChannel, FiniteSetTheorems, SequenceTheorems, TLAPS

(***************************************************************************)
(* The sizes of queues, as sums.                                            *)
(***************************************************************************)
Msgs == [id : Nat, size : Nat]

\* Induction over the natural numbers, for a set instead of a predicate: the
\* finite sets are well founded.
LEMMA Induction ==
    ASSUME NEW S, 0 \in S, \A n \in Nat : n \in S => n + 1 \in S
    PROVE  Nat \subseteq S
<1> SUFFICES ASSUME NEW b \in Nat, b \notin S PROVE FALSE
    OBVIOUS
<1> DEFINE T == {0 .. n : n \in Nat \ S}
<1>1. T \subseteq FiniteSubsetsOf(Nat)
    <2> SUFFICES ASSUME NEW n \in Nat PROVE 0 .. n \in FiniteSubsetsOf(Nat)
        OBVIOUS
    <2>1. IsFiniteSet(0 .. n)
        BY FS_Interval
    <2> QED
        BY <2>1 DEF FiniteSubsetsOf
<1>2. T # {}
    OBVIOUS
<1>3. IsWellFoundedOn(StrictSubsetOrdering(Nat), FiniteSubsetsOf(Nat))
    BY FS_StrictSubsetOrderingWellFounded
<1> HIDE DEF T
<1>4. PICK x \in T : \A y \in T : ~(<<y, x>> \in StrictSubsetOrdering(Nat))
    BY <1>1, <1>2, <1>3, WFMin
<1>5. PICK n \in Nat \ S : x = 0 .. n
    BY DEF T
<1>6. n - 1 \in Nat \ S
    <2>1. n # 0
        OBVIOUS
    <2>2. n - 1 \in Nat /\ (n - 1) + 1 = n
        BY <2>1
    <2> QED
        BY <2>2
<1>7. 0 .. (n - 1) \in T
    BY <1>6 DEF T
<1>8. <<0 .. (n - 1), 0 .. n>> \in StrictSubsetOrdering(Nat)
    BY SMTT(40) DEF StrictSubsetOrdering
<1> QED
    BY <1>4, <1>5, <1>7, <1>8

\* The sums of the first sizes of q.
IsSum(f, q, k) == f = [n \in 0 .. k |-> IF n = 0 THEN 0 ELSE f[n - 1] + q[n].size]

\* The recursive function of Bytes exists.
LEMMA SumDefined ==
    ASSUME NEW q
    PROVE  \A k \in Nat : \E f : IsSum(f, q, k)
<1> DEFINE S == {k \in Nat : \E f : IsSum(f, q, k)}
<1>1. 0 \in S
    <2> DEFINE f == [n \in 0 .. 0 |-> 0]
    <2>1. IsSum(f, q, 0)
        BY DEF IsSum
    <2> QED
        BY <2>1
<1>2. ASSUME NEW k \in Nat, k \in S PROVE k + 1 \in S
    <2>1. PICK f : IsSum(f, q, k)
        BY <1>2
    <2> DEFINE g == [n \in 0 .. k + 1 |-> IF n <= k THEN f[n] ELSE f[k] + q[k + 1].size]
    <2>2. IsSum(g, q, k + 1)
        <3> HIDE DEF S
        <3> SUFFICES ASSUME NEW n \in 0 .. k + 1
                     PROVE  g[n] = IF n = 0 THEN 0 ELSE g[n - 1] + q[n].size
            BY DEF IsSum
        <3>1. CASE n <= k
            <4>1. g[n] = f[n]
                BY <3>1
            <4>2. n # 0 => g[n - 1] = f[n - 1]
                BY <3>1
            <4>3. f[n] = IF n = 0 THEN 0 ELSE f[n - 1] + q[n].size
                BY <2>1, <3>1 DEF IsSum
            <4> QED
                BY <4>1, <4>2, <4>3
        <3>2. CASE n = k + 1
            BY <3>2
        <3> QED
            BY <3>1, <3>2
    <2> HIDE DEF g
    <2> QED
        BY <2>2
<1> HIDE DEF S
<1>3. Nat \subseteq S
    BY <1>1, <1>2, Induction
<1> QED
    BY <1>3 DEF S

\* Bytes is the last of the sums, which are natural numbers.
LEMMA BytesSum ==
    ASSUME NEW q \in Seq(Msgs), NEW L \in Nat, L = Len(q)
    PROVE  \E f : /\ Bytes(q) = f[L] /\ \A n \in 0 .. L : f[n] \in Nat
                  /\ f[0] = 0 /\ \A n \in 1 .. L : f[n] = f[n - 1] + q[n].size
<1> DEFINE F == CHOOSE f : IsSum(f, q, L)
<1>1. Bytes(q) = F[L]
    BY DEF Bytes, IsSum
<1>2. IsSum(F, q, L)
    BY SumDefined
<1> HIDE DEF F
<1>3. F[0] = 0 /\ \A n \in 1 .. L : F[n] = F[n - 1] + q[n].size
    <2>1. \A n \in 0 .. L : F[n] = IF n = 0 THEN 0 ELSE F[n - 1] + q[n].size
        BY <1>2 DEF IsSum
    <2> QED
        BY <2>1
<1>4. ASSUME NEW n \in 1 .. L PROVE q[n].size \in Nat
    <2>1. q[n] \in Msgs
        BY ElementOfSeq
    <2> QED
        BY <2>1 DEF Msgs
<1> DEFINE S == {n \in Nat : n <= L => F[n] \in Nat}
<1>5. 0 \in S
    BY <1>3
<1>6. ASSUME NEW n \in Nat, n \in S PROVE n + 1 \in S
    <2> SUFFICES ASSUME n + 1 <= L PROVE F[n + 1] \in Nat
        OBVIOUS
    <2>1. n + 1 \in 1 .. L /\ (n + 1) - 1 = n /\ n <= L
        OBVIOUS
    <2>2. F[n + 1] = F[n] + q[n + 1].size
        BY <1>3, <2>1
    <2>3. F[n] \in Nat
        BY <1>6, <2>1
    <2> QED
        BY <1>4, <2>1, <2>2, <2>3
<1> HIDE DEF S
<1>7. Nat \subseteq S
    BY <1>5, <1>6, Induction
<1>8. \A n \in 0 .. L : F[n] \in Nat
    BY <1>7 DEF S
<1> QED
    BY <1>1, <1>3, <1>8

\* Two sums that grow alike keep their distance.
LEMMA SumsApart ==
    ASSUME NEW f, NEW g, NEW L \in Nat, NEW k \in Nat,
           \A n \in 0 .. L : f[n + k] \in Nat /\ g[n] \in Nat,
           \A n \in 1 .. L : f[n + k] - f[(n - 1) + k] = g[n] - g[n - 1]
    PROVE  f[L + k] - g[L] = f[k] - g[0]
<1> DEFINE S == {n \in Nat : n <= L => f[n + k] - g[n] = f[k] - g[0]}
<1>1. 0 \in S
    <2>1. 0 + k = k
        OBVIOUS
    <2> QED
        BY <2>1
<1>2. ASSUME NEW n \in Nat, n \in S PROVE n + 1 \in S
    <2> SUFFICES ASSUME n + 1 <= L PROVE f[(n + 1) + k] - g[n + 1] = f[k] - g[0]
        OBVIOUS
    <2>1. n + 1 \in 1 .. L /\ n + 1 \in 0 .. L /\ n \in 0 .. L /\ 0 \in 0 .. L /\ (n + 1) - 1 = n /\ 0 + k = k
        OBVIOUS
    <2>2. f[(n + 1) + k] - f[n + k] = g[n + 1] - g[n]
        BY <2>1
    <2>3. f[n + k] - g[n] = f[k] - g[0]
        BY <1>2, <2>1
    <2>4. f[(n + 1) + k] \in Nat /\ f[n + k] \in Nat /\ g[n + 1] \in Nat /\ g[n] \in Nat /\ f[k] \in Nat /\ g[0] \in Nat
        BY <2>1
    <2> QED
        BY <2>2, <2>3, <2>4
<1> HIDE DEF S
<1>3. L \in S
    BY <1>1, <1>2, Induction
<1> QED
    BY <1>3 DEF S

\* No queue holds less than nothing.
LEMMA BytesNat == \A q \in Seq(Msgs) : Bytes(q) \in Nat
<1> SUFFICES ASSUME NEW q \in Seq(Msgs) PROVE Bytes(q) \in Nat
    OBVIOUS
<1> DEFINE L == Len(q)
<1>1. L \in Nat /\ L \in 0 .. L
    OBVIOUS
<1>2. PICK f : Bytes(q) = f[L] /\ \A n \in 0 .. L : f[n] \in Nat
    BY <1>1, BytesSum
<1> QED
    BY <1>1, <1>2

\* An empty queue holds nothing.
LEMMA BytesEmpty == Bytes(<<>>) = 0
<1>1. <<>> \in Seq(Msgs) /\ Len(<<>>) = 0
    OBVIOUS
<1>2. PICK f : Bytes(<<>>) = f[0] /\ f[0] = 0
    BY <1>1, BytesSum
<1> QED
    BY <1>2

\* A packet that is pushed is added.
LEMMA BytesAppend ==
    ASSUME NEW q \in Seq(Msgs), NEW m \in Msgs
    PROVE  Bytes(Append(q, m)) = Bytes(q) + m.size
<1> DEFINE r == Append(q, m)
           L == Len(q)
<1>1. r \in Seq(Msgs) /\ Len(r) = L + 1 /\ r[L + 1] = m /\ \A n \in 1 .. L : r[n] = q[n]
    BY AppendProperties
<1>2. L \in Nat /\ m.size \in Nat
    BY DEF Msgs
<1> HIDE DEF r, L
<1>3. PICK f : /\ Bytes(r) = f[L + 1] /\ \A n \in 0 .. L + 1 : f[n] \in Nat
               /\ f[0] = 0 /\ \A n \in 1 .. L + 1 : f[n] = f[n - 1] + r[n].size
    <2>1. L + 1 \in Nat /\ Len(r) = L + 1
        BY <1>1, <1>2
    <2> QED
        BY <1>1, <2>1, BytesSum, Zenon
<1>4. PICK g : /\ Bytes(q) = g[L] /\ \A n \in 0 .. L : g[n] \in Nat
               /\ g[0] = 0 /\ \A n \in 1 .. L : g[n] = g[n - 1] + q[n].size
    BY <1>2, BytesSum DEF L
<1>5. ASSUME NEW n \in 1 .. L PROVE f[n + 0] - f[(n - 1) + 0] = g[n] - g[n - 1]
    <2>1. /\ n + 0 = n /\ (n - 1) + 0 = n - 1 /\ n \in 0 .. L + 1 /\ n - 1 \in 0 .. L + 1
          /\ n \in 1 .. L + 1 /\ n \in 0 .. L /\ n - 1 \in 0 .. L
        BY <1>2
    <2>2. f[n] = f[n - 1] + q[n].size /\ g[n] = g[n - 1] + q[n].size
        BY <1>1, <1>3, <1>4, <2>1
    <2>3. q[n] \in Msgs
        BY <1>2, ElementOfSeq DEF L
    <2>4. q[n].size \in Nat
        BY <2>3 DEF Msgs
    <2>5. f[n - 1] \in Nat /\ g[n - 1] \in Nat
        BY <1>3, <1>4, <2>1
    <2> QED
        BY <2>1, <2>2, <2>4, <2>5
<1>6. \A n \in 0 .. L : f[n + 0] \in Nat /\ g[n] \in Nat
    BY <1>2, <1>3, <1>4
<1>7. f[L + 0] - g[L] = f[0] - g[0]
    <2>1. 0 \in Nat
        OBVIOUS
    <2> QED
        BY <1>2, <1>5, <1>6, <2>1, SumsApart, ZenonT(40)
<1>8. f[L + 1] = f[L] + m.size
    <2>1. L + 1 \in 1 .. L + 1 /\ (L + 1) - 1 = L
        BY <1>2
    <2> QED
        BY <1>1, <1>3, <2>1
<1>9. f[L] = g[L]
    <2>1. L + 0 = L /\ L \in 0 .. L
        BY <1>2
    <2>2. f[L] \in Nat /\ g[L] \in Nat /\ f[L] - g[L] = 0
        BY <1>3, <1>4, <1>6, <1>7, <2>1
    <2> QED
        BY <2>2
<1> QED
    BY <1>3, <1>4, <1>8, <1>9 DEF r

\* A packet that is popped is taken away.
LEMMA BytesTail ==
    ASSUME NEW q \in Seq(Msgs), q # <<>>
    PROVE  /\ Head(q) \in Msgs /\ Head(q).size \in Nat /\ Tail(q) \in Seq(Msgs)
           /\ Bytes(q) = Head(q).size + Bytes(Tail(q))
<1> DEFINE r == Tail(q)
           L == Len(r)
<1>1. /\ r \in Seq(Msgs) /\ Len(q) = L + 1 /\ q[1] = Head(q) /\ Head(q) \in Msgs
      /\ \A n \in 1 .. L : r[n] = q[n + 1]
    BY HeadTailProperties
<1>2. L \in Nat /\ Head(q).size \in Nat
    BY <1>1 DEF Msgs
<1> HIDE DEF r, L
<1>3. PICK f : /\ Bytes(q) = f[L + 1] /\ \A n \in 0 .. L + 1 : f[n] \in Nat
               /\ f[0] = 0 /\ \A n \in 1 .. L + 1 : f[n] = f[n - 1] + q[n].size
    <2>1. L + 1 \in Nat /\ Len(q) = L + 1
        BY <1>1, <1>2
    <2> QED
        BY <1>1, <2>1, BytesSum, Zenon
<1>4. PICK g : /\ Bytes(r) = g[L] /\ \A n \in 0 .. L : g[n] \in Nat
               /\ g[0] = 0 /\ \A n \in 1 .. L : g[n] = g[n - 1] + r[n].size
    BY <1>1, <1>2, BytesSum DEF L
<1>5. ASSUME NEW n \in 1 .. L PROVE f[n + 1] - f[(n - 1) + 1] = g[n] - g[n - 1]
    <2>1. /\ (n - 1) + 1 = n /\ (n + 1) - 1 = n /\ n + 1 \in 1 .. L + 1
          /\ n \in 0 .. L + 1 /\ n \in 0 .. L /\ n - 1 \in 0 .. L
        BY <1>2
    <2>2. f[n + 1] = f[n] + r[n].size /\ g[n] = g[n - 1] + r[n].size
        BY <1>1, <1>3, <1>4, <2>1
    <2>3. r[n] \in Msgs
        BY <1>1, <1>2, ElementOfSeq DEF L
    <2>4. r[n].size \in Nat
        BY <2>3 DEF Msgs
    <2>5. f[n] \in Nat /\ g[n - 1] \in Nat
        BY <1>3, <1>4, <2>1
    <2> QED
        BY <2>1, <2>2, <2>4, <2>5
<1>6. \A n \in 0 .. L : f[n + 1] \in Nat /\ g[n] \in Nat
    BY <1>2, <1>3, <1>4
<1>7. f[L + 1] - g[L] = f[1] - g[0]
    <2>1. 1 \in Nat
        OBVIOUS
    <2> QED
        BY <1>2, <1>5, <1>6, <2>1, SumsApart, ZenonT(40)
<1>8. f[1] = Head(q).size
    <2>1. 1 \in 1 .. L + 1 /\ 1 - 1 = 0
        BY <1>2
    <2>2. f[1] = f[0] + q[1].size
        BY <1>3, <2>1
    <2> QED
        BY <1>1, <1>2, <1>3, <2>2
<1>9. f[L + 1] = Head(q).size + g[L]
    <2>1. L \in 0 .. L
        BY <1>2
    <2>2. f[L + 1] \in Nat /\ g[L] \in Nat
        BY <1>6, <2>1
    <2> QED
        BY <1>2, <1>4, <1>7, <1>8, <2>2
<1> QED
    BY <1>1, <1>2, <1>3, <1>4, <1>9 DEF r

-----------------------------------------------------------------------------
USE ConfigAssumption, LimitAssumption

Calls == [f : CallNames, m : Msgs]
Packets == [k : {"control", "data"}, id : Nat, ordered : BOOLEAN, heard : BOOLEAN,
            held : BOOLEAN]

\* The types that the proofs need. (That the byte counts never go below zero
\* is a fact about sums: BufferInv.)
FlagTypes ==
    /\ waitingAck \in BOOLEAN /\ everWritable \in BOOLEAN /\ connected \in BOOLEAN
    /\ sendSsrcSet \in BOOLEAN /\ recvSsrcSet \in BOOLEAN /\ posted \in BOOLEAN
    /\ observer \in BOOLEAN /\ heard \in BOOLEAN /\ refused \in BOOLEAN
DataTypes ==
    /\ config \in Configs /\ state \in {"connecting", "open", "closing", "closed"}
    /\ ctrlq \in Nat /\ recvq \in Seq(Msgs) /\ sendq \in Seq(Msgs)
    /\ heap \in {"ok", "dangling", "corrupt", "crashed"} /\ transport \in {"none", "up", "gone"}
    /\ wire \in Seq(Packets) /\ shown \in Seq(Nat) /\ accepted \in Nat /\ arrived \in Nat
Types == todo \in Seq(Calls) /\ FlagTypes /\ DataTypes

(***************************************************************************)
(* The call stack: N(i) is the i-th function that runs.                     *)
(***************************************************************************)
N(i) == todo[i].f
Top == IF todo = <<>> THEN "none" ELSE N(1)

\* Only these are ever below another one.
Resumed == {"UpdateState", "SetOpen", "Deliver", "FlushData", "PopReceived", "DeliverFront",
            "TransportGone", "SendControl"}
Below == \A i \in DOMAIN todo : i > 1 => N(i) \in Resumed

\* What is delivered, and the update of a channel that is not closing, wait for
\* everything else.
Bottomed ==
    \A i \in DOMAIN todo :
        /\ N(i) \in {"Deliver", "DeliverFront"} => i = Len(todo)
        /\ N(i) = "SetOpen" => i = Len(todo) - 1 /\ N(Len(todo)) = "Deliver"
        /\ N(i) = "PopReceived" => i = Len(todo) - 1 /\ recvq # <<>>
        /\ N(i) = "UpdateState" =>
              i = Len(todo) \/ state \in {"closing", "closed"} \/ Top = "SetClosing"

\* The functions that are wrong if the channel closes before they resume, and
\* what may run before that.
Exposed == {"SetOpen", "FlushData"}
Control == {"FlushControl", "SendControl"}
Shielded ==
    \A i \in DOMAIN todo : N(i) \in Exposed =>
        /\ state = IF N(i) = "SetOpen" THEN "connecting" ELSE "open"
        /\ \A j \in DOMAIN todo : j < i => N(j) \in Control

Writable ==
    /\ state = "open" => everWritable
    /\ \A i \in DOMAIN todo : N(i) \in Exposed \cup Control => everWritable

ClosingBegins == Top = "SetClosing" => state # "closed"

\* The transport goes when the channel is closed.
TransportLeft ==
    /\ everWritable \/ connected \/ posted => transport # "none"
    /\ transport = "gone" => state = "closed"
Leaving ==
    \A i \in DOMAIN todo : N(i) = "TransportGone" =>
       \/ state = "closed"
       \/ /\ ~sendSsrcSet /\ ~recvSsrcSet
          /\ \/ Top = "SetClosing" /\ \E j \in DOMAIN todo : 1 < j /\ j < i /\ N(j) = "UpdateState"
             \/ /\ state = "closing"
                /\ Top = "SetClosed" \/ \E j \in DOMAIN todo : j < i /\ N(j) = "UpdateState"

Nesting == Below /\ Bottomed /\ Shielded /\ Writable /\ ClosingBegins
StackInv == Types /\ Nesting /\ TransportLeft /\ Leaving

(***************************************************************************)
(* The handshake of an opener.                                              *)
(***************************************************************************)
HasControl == \E j \in DOMAIN wire : wire[j].k = "control"
OpenerInv ==
    Type = "SCTP" /\ Role = "opener" =>
        /\ everWritable /\ state \in {"connecting", "open"} =>
              HasControl \/ ctrlq > 0 \/ Top \in {"SendControl", "Close", "SetClosing"}
        /\ HasControl => waitingAck \/ heard

(***************************************************************************)
(* The two streams.                                                         *)
(***************************************************************************)
\* The channel is not about to close.
Live == state \in {"connecting", "open"} /\ Top \notin {"Close", "SetClosing"}

\* The transport took the messages up to n, once each and in their order, and
\* the queue q goes on from there.
SentUpTo(n, q) ==
    /\ n \in Nat /\ {wire[i].id : i \in Sent} = 1 .. n
    /\ \A i, j \in Sent : i < j => wire[i].id < wire[j].id
    /\ \A i \in DOMAIN q : q[i].id = n + i

SendInv ==
    /\ state = "connecting" => accepted = 0 /\ sendq = <<>> /\ Sent = {}
    /\ state = "open" /\ Live /\ HeapOK => SentUpTo(accepted - Len(sendq), sendq)

\* What was shown, followed by q, is what came first.
Continues(q, n) ==
    /\ n = Len(shown) + Len(q)
    /\ \A i \in DOMAIN shown : shown[i] = i
    /\ \A i \in DOMAIN q : q[i].id = Len(shown) + i

\* An SCTP channel that is not about to close: the last of the nested calls
\* empties the queue that was filled while nobody could be shown it.
Bottom == IF todo = <<>> THEN "none" ELSE N(Len(todo))
Popping == \E i \in DOMAIN todo : N(i) = "PopReceived"

Stacked ==
    /\ \A i \in DOMAIN todo :
          /\ N(i) = "UpdateState" => state = "connecting"
          /\ N(i) = "PopReceived" => i < 3 /\ N(1) \in {"OnMessage", "Send", "PopReceived"}
    /\ everWritable /\ observer /\ recvq # <<>> => Bottom \in {"UpdateState", "Deliver", "DeliverFront"}

Shown ==
    /\ Top = "OnMessage" =>
          \/ Popping /\ todo[1].m = recvq[1] /\ Continues(recvq, arrived)
          \/ /\ Len(todo) = 1 /\ recvq = <<>> /\ todo[1].m.id = arrived
             /\ Continues(<<>>, arrived - 1)
    /\ Top # "OnMessage" => Continues(IF Popping THEN Tail(recvq) ELSE recvq, arrived)

ReceiveInv ==
    Type = "SCTP" => ~sendSsrcSet /\ ~recvSsrcSet /\ (Live => Stacked /\ Shown)

(***************************************************************************)
(* The buffers. Nothing here depends on what the transport answers.         *)
(***************************************************************************)
\* The messages on the stack; a Send that has been called was still allowed.
Loaded ==
    \A i \in DOMAIN todo : todo[i].m \in Messages /\ (N(i) = "Send" => accepted < MaxSends)
Laid == Below /\ Bottomed /\ Loaded

\* The queue q holds n bytes, and was below its limit before its last message.
Limited(q, n) == n = Bytes(q) /\ (q # <<>> => n - q[Len(q)].size < MaxQueuedSendBytes)

\* Both queues, with the numbers of the messages in them.
Incoming ==
    /\ recvq \in Seq(Messages) /\ arrived \in 0 .. MaxReceives
    /\ recvBytes = Bytes(recvq) /\ recvBytes <= MaxQueuedReceivedBytes
Outgoing ==
    /\ sendq \in Seq(Messages) /\ accepted \in 0 .. MaxSends
    /\ sendBytes \in Nat /\ (HeapOK => Limited(sendq, sendBytes))
BufferInv == Types /\ Laid /\ Incoming /\ Outgoing /\ sid \in BOOLEAN /\ listed \in BOOLEAN

-----------------------------------------------------------------------------
(***************************************************************************)
(* How the stack changes.                                                   *)
(***************************************************************************)
\* The running function, if there is one, is replaced by the calls c.
Stepped(c) ==
    /\ todo' \in Seq(Calls)
    /\ Len(todo') = Len(c) + (IF todo = <<>> THEN 0 ELSE Len(todo) - 1)
    /\ \A i \in 1 .. Len(c) : i \in DOMAIN todo' /\ todo'[i] = c[i]
    /\ \A i \in DOMAIN todo' :
          \/ i \in 1 .. Len(c)
          \/ /\ i - Len(c) + 1 \in DOMAIN todo /\ i - Len(c) > 0
             /\ todo'[i] = todo[i - Len(c) + 1]
    /\ \A i \in DOMAIN todo : i > 1 =>
          i + Len(c) - 1 \in DOMAIN todo' /\ todo'[i + Len(c) - 1] = todo[i]

\* The elements of a stack whose head is replaced.
LEMMA Replaced ==
    ASSUME NEW S, NEW t \in Seq(S), t # <<>>, NEW c \in Seq(S), NEW r, r = c \o Tail(t)
    PROVE  /\ r \in Seq(S) /\ Len(r) = Len(c) + Len(t) - 1
           /\ \A i \in 1 .. Len(c) : i \in DOMAIN r /\ r[i] = c[i]
           /\ \A i \in 1 .. (Len(t) - 1) : i + Len(c) \in DOMAIN r /\ r[i + Len(c)] = t[i + 1]
<1>1. /\ Tail(t) \in Seq(S) /\ Len(t) \in Nat \ {0} /\ Len(Tail(t)) = Len(t) - 1
      /\ \A i \in 1 .. (Len(t) - 1) : Tail(t)[i] = t[i + 1]
    BY HeadTailProperties
<1> DEFINE u == Tail(t)
<1>2. u \in Seq(S)
    BY <1>1
<1> HIDE DEF u
<1>3. /\ c \o u \in Seq(S) /\ Len(c \o u) = Len(c) + Len(u)
      /\ \A i \in 1 .. Len(c) : (c \o u)[i] = c[i]
      /\ \A i \in 1 .. Len(u) : (c \o u)[Len(c) + i] = u[i]
    BY <1>2, ConcatProperties
<1>4. r = c \o u /\ Len(u) = Len(t) - 1 /\ \A i \in 1 .. (Len(t) - 1) : u[i] = t[i + 1]
    BY <1>1 DEF u
<1>5. r \in Seq(S) /\ Len(r) = Len(c) + Len(t) - 1 /\ Len(c) \in Nat
    BY <1>1, <1>3, <1>4
<1>6. DOMAIN r = 1 .. Len(r)
    BY <1>5
<1>7. \A i \in 1 .. Len(c) : i \in DOMAIN r /\ r[i] = c[i]
    BY <1>1, <1>3, <1>4, <1>5, <1>6
<1>8. ASSUME NEW i \in 1 .. (Len(t) - 1) PROVE i + Len(c) \in DOMAIN r /\ r[i + Len(c)] = t[i + 1]
    <2>1. Len(c) + i = i + Len(c)
        BY <1>5
    <2>2. (c \o u)[Len(c) + i] = u[i]
        BY <1>3, <1>4
    <2>3. i + Len(c) \in DOMAIN r
        BY <1>1, <1>5, <1>6
    <2> QED
        BY <1>4, <2>1, <2>2, <2>3
<1> QED
    BY <1>5, <1>7, <1>8

\* A function that runs returns, to calls c or to nothing.
LEMMA Stepping ==
    ASSUME Types
    PROVE  /\ \A c \in Seq(Calls) : todo # <<>> /\ ReturnTo(c) => Stepped(c)
           /\ todo # <<>> /\ Return => Stepped(<<>>)
           /\ \A c \in Seq(Calls) : todo = <<>> /\ todo' = c => Stepped(c)
<1>0. todo \in Seq(Calls) /\ <<>> \in Seq(Calls) /\ Len(todo) \in Nat /\ DOMAIN todo = 1 .. Len(todo)
    BY DEF Types
<1>1. ASSUME NEW c \in Seq(Calls), todo # <<>>, todo' = c \o Tail(todo) PROVE Stepped(c)
    <2>1. /\ todo' \in Seq(Calls) /\ Len(todo') = Len(c) + Len(todo) - 1
          /\ \A i \in 1 .. Len(c) : i \in DOMAIN todo' /\ todo'[i] = c[i]
          /\ \A i \in 1 .. (Len(todo) - 1) : i + Len(c) \in DOMAIN todo' /\ todo'[i + Len(c)] = todo[i + 1]
        BY <1>0, <1>1, Replaced
    <2>2. Len(todo) > 0 /\ Len(c) \in Nat /\ DOMAIN todo' = 1 .. Len(todo') /\ Len(todo') \in Nat
        BY <1>0, <1>1, <2>1
    <2>3. ASSUME NEW i \in DOMAIN todo', i \notin 1 .. Len(c)
          PROVE  i - Len(c) + 1 \in DOMAIN todo /\ i - Len(c) > 0 /\ todo'[i] = todo[i - Len(c) + 1]
        <3>1. i - Len(c) \in 1 .. (Len(todo) - 1) /\ (i - Len(c)) + Len(c) = i
            BY <1>0, <2>1, <2>2, <2>3
        <3>2. todo'[(i - Len(c)) + Len(c)] = todo[(i - Len(c)) + 1]
            BY <2>1, <3>1, Zenon
        <3>3. i - Len(c) + 1 \in 1 .. Len(todo) /\ i - Len(c) > 0
            BY <1>0, <3>1
        <3> QED
            BY <1>0, <3>1, <3>2, <3>3, Zenon
    <2>4. ASSUME NEW i \in DOMAIN todo, i > 1
          PROVE  i + Len(c) - 1 \in DOMAIN todo' /\ todo'[i + Len(c) - 1] = todo[i]
        <3>1. i - 1 \in 1 .. (Len(todo) - 1) /\ (i - 1) + 1 = i /\ (i - 1) + Len(c) = i + Len(c) - 1
            BY <1>0, <2>2, <2>4
        <3> QED
            BY <2>1, <3>1
    <2>5. Len(todo') = Len(c) + (IF todo = <<>> THEN 0 ELSE Len(todo) - 1)
        BY <1>1, <1>0, <2>1, <2>2, SMTT(40)
    <2> QED
        BY <2>1, <2>3, <2>4, <2>5 DEF Stepped
<1>2. ASSUME todo # <<>>, Return PROVE Stepped(<<>>)
    <2>1. todo' = Tail(todo) /\ Tail(todo) \in Seq(Calls)
        BY <1>0, <1>2 DEF Return
    <2>2. <<>> \o Tail(todo) = Tail(todo)
        BY <2>1
    <2> QED
        BY <1>0, <1>1, <1>2, <2>1, <2>2
<1>3. ASSUME NEW c \in Seq(Calls), todo = <<>>, todo' = c PROVE Stepped(c)
    BY <1>0, <1>3 DEF Stepped
<1> QED
    BY <1>1, <1>2, <1>3 DEF ReturnTo

\* Calls are calls.
LEMMA CallTypes ==
    /\ \A f \in CallNames : Call(f) \in Calls /\ Call(f).f = f
    /\ \A f \in CallNames, m \in Msgs : CallWith(f, m) \in Calls /\ CallWith(f, m).f = f /\ CallWith(f, m).m = m
    /\ \A a, b \in Nat : Msg(a, b) \in Msgs /\ Msg(a, b).id = a
    /\ <<>> \in Seq(Calls) /\ Len(<<>>) = 0
    /\ \A a \in Calls : <<a>> \in Seq(Calls) /\ Len(<<a>>) = 1 /\ <<a>>[1] = a
    /\ \A a, b \in Calls : <<a, b>> \in Seq(Calls) /\ Len(<<a, b>>) = 2 /\ <<a, b>>[1] = a /\ <<a, b>>[2] = b
    /\ \A a, b, c \in Calls : /\ <<a, b, c>> \in Seq(Calls) /\ Len(<<a, b, c>>) = 3
                              /\ <<a, b, c>>[1] = a /\ <<a, b, c>>[2] = b /\ <<a, b, c>>[3] = c
<1>1. \A a, b \in Nat : Msg(a, b) \in Msgs /\ Msg(a, b).id = a
    BY DEF Msg, Msgs
<1>2. \A f \in CallNames : Call(f) \in Calls /\ Call(f).f = f
    BY <1>1 DEF Call, Calls
<1>3. \A f \in CallNames, m \in Msgs : CallWith(f, m) \in Calls /\ CallWith(f, m).f = f /\ CallWith(f, m).m = m
    BY DEF CallWith, Calls
<1> QED
    BY <1>1, <1>2, <1>3

\* Short lists of calls, put together.
LEMMA CallLists ==
    /\ \A a, b \in Calls : <<a>> \o <<b>> = <<a, b>>
    /\ \A a, b, c \in Calls : <<a, b>> \o <<c>> = <<a, b, c>>
<1>0. \A s, t \in Seq(Calls) :
         /\ s \o t \in Seq(Calls) /\ Len(s \o t) = Len(s) + Len(t)
         /\ \A i \in 1 .. Len(s) : (s \o t)[i] = s[i]
         /\ \A i \in 1 .. Len(t) : (s \o t)[Len(s) + i] = t[i]
    BY ConcatProperties
<1>1. ASSUME NEW a \in Calls, NEW b \in Calls PROVE <<a>> \o <<b>> = <<a, b>>
    <2> DEFINE s == <<a>>  t == <<b>>  r == s \o t  u == <<a, b>>
    <2>1. s \in Seq(Calls) /\ t \in Seq(Calls) /\ Len(s) = 1 /\ Len(t) = 1 /\ s[1] = a /\ t[1] = b
        OBVIOUS
    <2>2. u \in Seq(Calls) /\ Len(u) = 2 /\ u[1] = a /\ u[2] = b
        OBVIOUS
    <2> HIDE DEF s, t, u
    <2>6. /\ r \in Seq(Calls) /\ Len(r) = Len(s) + Len(t)
          /\ \A i \in 1 .. Len(s) : r[i] = s[i]
          /\ \A i \in 1 .. Len(t) : r[Len(s) + i] = t[i]
        BY <1>0, <2>1, ZenonT(40)
    <2>3. r \in Seq(Calls) /\ Len(r) = 2 /\ r[1] = a /\ r[1 + 1] = b
        <3> HIDE DEF r
        <3> QED
            BY <2>1, <2>6
    <2> HIDE DEF r
    <2>4. \A i \in 1 .. 2 : r[i] = u[i]
        BY <2>2, <2>3
    <2>5. r = u
        BY <2>2, <2>3, <2>4, SeqEqual
    <2> QED
        BY <2>5 DEF r, s, t, u
<1>2. ASSUME NEW a \in Calls, NEW b \in Calls, NEW c \in Calls PROVE <<a, b>> \o <<c>> = <<a, b, c>>
    <2> DEFINE s == <<a, b>>  t == <<c>>  r == s \o t  u == <<a, b, c>>
    <2>1. s \in Seq(Calls) /\ t \in Seq(Calls) /\ Len(s) = 2 /\ Len(t) = 1 /\ s[1] = a /\ s[2] = b /\ t[1] = c
        OBVIOUS
    <2>2. u \in Seq(Calls) /\ Len(u) = 3 /\ u[1] = a /\ u[2] = b /\ u[3] = c
        OBVIOUS
    <2> HIDE DEF s, t, u
    <2>6. /\ r \in Seq(Calls) /\ Len(r) = Len(s) + Len(t)
          /\ \A i \in 1 .. Len(s) : r[i] = s[i]
          /\ \A i \in 1 .. Len(t) : r[Len(s) + i] = t[i]
        BY <1>0, <2>1, ZenonT(40)
    <2>3. r \in Seq(Calls) /\ Len(r) = 3 /\ r[1] = a /\ r[2] = b /\ r[2 + 1] = c
        <3> HIDE DEF r
        <3> QED
            BY <2>1, <2>6
    <2> HIDE DEF r
    <2>4. \A i \in 1 .. 3 : r[i] = u[i]
        BY <2>2, <2>3
    <2>5. r = u
        BY <2>2, <2>3, <2>4, SeqEqual
    <2> QED
        BY <2>5 DEF r, s, t, u
<1> QED
    BY <1>1, <1>2

\* A function that runs is on top.
LEMMA Runs ==
    ASSUME Types, NEW f, Running(f)
    PROVE  /\ todo # <<>> /\ N(1) = f /\ Top = f /\ 1 \in DOMAIN todo /\ Len(todo) \in Nat /\ Len(todo) > 0
           /\ DOMAIN todo = 1 .. Len(todo) /\ Head(todo) = todo[1] /\ todo[1] \in Calls
BY DEF Types, Running, N, Top

\* What each function leaves on the stack.
LEMMA Returns ==
    ASSUME Types
    PROVE  /\ Close => \/ state = "closed" /\ Stepped(<<>>)
                       \/ state # "closed" /\ Stepped(<<Call("SetClosing"), Call("UpdateState")>>)
           /\ \A f, s : SetState(f, s) => Stepped(<<>>) \/ Stepped(<<Call("OnStateChange")>>)
           /\ UpdateState =>
                 \/ /\ state = "connecting" /\ sendSsrcSet = recvSsrcSet /\ everWritable
                    /\ Stepped(<<Call("FlushControl"), Call("SetOpen"), Call("Deliver")>>)
                 \/ state = "connecting" /\ (sendSsrcSet # recvSsrcSet \/ ~everWritable) /\ Stepped(<<>>)
                 \/ state = "closing" /\ ~sendSsrcSet /\ ~recvSsrcSet /\ Stepped(<<Call("SetClosed")>>)
                 \/ state = "closing" /\ (sendSsrcSet \/ recvSsrcSet) /\ Stepped(<<>>)
                 \/ state \in {"open", "closed"} /\ Stepped(<<>>)
           /\ \A r : SendControl(r) => \/ r = "error" /\ Stepped(<<Call("Close")>>)
                                       \/ r # "error" /\ Stepped(<<>>)
           /\ FlushControl => /\ [i \in 1 .. ctrlq |-> Call("SendControl")] \in Seq(Calls)
                              /\ Stepped([i \in 1 .. ctrlq |-> Call("SendControl")])
<1>0. /\ Call("Close") \in Calls /\ Call("SetClosing") \in Calls /\ Call("UpdateState") \in Calls
      /\ Call("OnStateChange") \in Calls /\ Call("FlushControl") \in Calls /\ Call("SetOpen") \in Calls
      /\ Call("Deliver") \in Calls /\ Call("SetClosed") \in Calls /\ Call("SendControl") \in Calls
    BY CallTypes DEF CallNames
<1>1. Close => \/ state = "closed" /\ Stepped(<<>>)
               \/ state # "closed" /\ Stepped(<<Call("SetClosing"), Call("UpdateState")>>)
    <2> SUFFICES ASSUME Close
                 PROVE  \/ state = "closed" /\ Stepped(<<>>)
                        \/ state # "closed" /\ Stepped(<<Call("SetClosing"), Call("UpdateState")>>)
        OBVIOUS
    <2>1. todo # <<>>
        BY Runs DEF Close
    <2>2. BeginClosing = <<Call("SetClosing"), Call("UpdateState")>> /\ BeginClosing \in Seq(Calls)
        BY <1>0, CallTypes DEF BeginClosing
    <2> QED
        BY <2>1, <2>2, Stepping DEF Close
<1>2. ASSUME NEW f, NEW s, SetState(f, s) PROVE Stepped(<<>>) \/ Stepped(<<Call("OnStateChange")>>)
    <2>1. todo # <<>>
        BY <1>2, Runs DEF SetState
    <2>2. ReturnTo(<<>>) \/ ReturnTo(<<Call("OnStateChange")>>)
        BY <1>2 DEF SetState
    <2> QED
        BY <1>0, <2>1, <2>2, Stepping, CallTypes
<1>3. UpdateState =>
         \/ /\ state = "connecting" /\ sendSsrcSet = recvSsrcSet /\ everWritable
            /\ Stepped(<<Call("FlushControl"), Call("SetOpen"), Call("Deliver")>>)
         \/ state = "connecting" /\ (sendSsrcSet # recvSsrcSet \/ ~everWritable) /\ Stepped(<<>>)
         \/ state = "closing" /\ ~sendSsrcSet /\ ~recvSsrcSet /\ Stepped(<<Call("SetClosed")>>)
         \/ state = "closing" /\ (sendSsrcSet \/ recvSsrcSet) /\ Stepped(<<>>)
         \/ state \in {"open", "closed"} /\ Stepped(<<>>)
    <2> SUFFICES ASSUME UpdateState
                 PROVE
         \/ /\ state = "connecting" /\ sendSsrcSet = recvSsrcSet /\ everWritable
            /\ Stepped(<<Call("FlushControl"), Call("SetOpen"), Call("Deliver")>>)
         \/ state = "connecting" /\ (sendSsrcSet # recvSsrcSet \/ ~everWritable) /\ Stepped(<<>>)
         \/ state = "closing" /\ ~sendSsrcSet /\ ~recvSsrcSet /\ Stepped(<<Call("SetClosed")>>)
         \/ state = "closing" /\ (sendSsrcSet \/ recvSsrcSet) /\ Stepped(<<>>)
         \/ state \in {"open", "closed"} /\ Stepped(<<>>)
        OBVIOUS
    <2>1. todo # <<>>
        BY Runs DEF UpdateState
    <2>2. \/ /\ state = "connecting" /\ sendSsrcSet = recvSsrcSet /\ everWritable
             /\ ReturnTo(<<Call("FlushControl"), Call("SetOpen"), Call("Deliver")>>)
          \/ state = "connecting" /\ (sendSsrcSet # recvSsrcSet \/ ~everWritable) /\ (ReturnTo(<<>>) \/ Return)
          \/ state = "closing" /\ ~sendSsrcSet /\ ~recvSsrcSet /\ ReturnTo(<<Call("SetClosed")>>)
          \/ state = "closing" /\ (sendSsrcSet \/ recvSsrcSet) /\ ReturnTo(<<>>)
          \/ state \in {"open", "closed"} /\ Return
        BY DEF UpdateState
    <2>3. /\ <<>> \in Seq(Calls) /\ <<Call("SetClosed")>> \in Seq(Calls)
          /\ <<Call("FlushControl"), Call("SetOpen"), Call("Deliver")>> \in Seq(Calls)
        BY <1>0, CallTypes
    <2>4. /\ ReturnTo(<<>>) \/ Return => Stepped(<<>>)
          /\ ReturnTo(<<Call("SetClosed")>>) => Stepped(<<Call("SetClosed")>>)
          /\ ReturnTo(<<Call("FlushControl"), Call("SetOpen"), Call("Deliver")>>) =>
                Stepped(<<Call("FlushControl"), Call("SetOpen"), Call("Deliver")>>)
        BY <2>1, <2>3, Stepping
    <2> QED
        BY <2>2, <2>4
<1>4. ASSUME NEW r, SendControl(r)
      PROVE  (r = "error" /\ Stepped(<<Call("Close")>>)) \/ (r # "error" /\ Stepped(<<>>))
    <2>1. todo # <<>>
        BY <1>4, Runs DEF SendControl
    <2>2. (r = "error" /\ ReturnTo(<<Call("Close")>>)) \/ (r # "error" /\ ReturnTo(<<>>))
        BY <1>4 DEF SendControl
    <2> QED
        BY <1>0, <2>1, <2>2, Stepping, CallTypes
<1>5. ASSUME FlushControl
      PROVE  /\ [i \in 1 .. ctrlq |-> Call("SendControl")] \in Seq(Calls)
             /\ Stepped([i \in 1 .. ctrlq |-> Call("SendControl")])
    <2> DEFINE c == [i \in 1 .. ctrlq |-> Call("SendControl")]
    <2>1. c \in Seq(Calls)
        BY <1>0 DEF Types, DataTypes
    <2>2. todo # <<>> /\ ReturnTo(c)
        BY <1>5, Runs DEF FlushControl
    <2> HIDE DEF c
    <2>3. Stepped(c)
        BY <2>1, <2>2, Stepping
    <2> QED
        BY <2>1, <2>3 DEF c
<1> QED
    BY <1>1, <1>2, <1>3, <1>4, <1>5

\* The rest of them.
LEMMA ReturnsToo ==
    ASSUME Types
    PROVE  /\ Deliver => \/ everWritable /\ observer /\ Stepped(<<Call("DeliverFront")>>)
                         \/ ~(everWritable /\ observer) /\ Stepped(<<>>)
           /\ DeliverFront =>
                 \/ recvq = <<>> /\ Stepped(<<>>)
                 \/ /\ recvq # <<>> /\ Head(recvq) \in Msgs
                    /\ Stepped(<<CallWith("OnMessage", Head(recvq)), Call("PopReceived"), Call("DeliverFront")>>)
           /\ PopReceived => Stepped(<<>>)
           /\ todo # <<>> /\ React =>
                 \/ Stepped(<<>>) \/ Stepped(<<Call("Close")>>)
                 \/ \E z \in Nat : z \in Sizes /\ accepted < MaxSends /\ Stepped(<<CallWith("Send", Msg(0, z))>>)
           /\ \A r : Send(r) => Stepped(<<>>) \/ Stepped(<<Call("Close")>>)
           /\ \A r : FlushData(r) => Stepped(<<>>) \/ Stepped(<<Call("Close")>>) \/ todo' = todo
           /\ TransportGone => Stepped(<<>>)
<1>0. /\ Call("Close") \in Calls /\ Call("DeliverFront") \in Calls /\ Call("PopReceived") \in Calls
      /\ \A m \in Msgs : CallWith("OnMessage", m) \in Calls /\ CallWith("Send", m) \in Calls
    BY CallTypes DEF CallNames
<1>1. ASSUME Deliver
      PROVE  \/ everWritable /\ observer /\ Stepped(<<Call("DeliverFront")>>)
             \/ ~(everWritable /\ observer) /\ Stepped(<<>>)
    <2>1. todo # <<>>
        BY <1>1, Runs DEF Deliver
    <2>2. \/ everWritable /\ observer /\ ReturnTo(<<Call("DeliverFront")>>)
          \/ ~(everWritable /\ observer) /\ ReturnTo(<<>>)
        BY <1>1 DEF Deliver
    <2> QED
        BY <1>0, <2>1, <2>2, Stepping, CallTypes
<1>2. ASSUME DeliverFront
      PROVE  \/ recvq = <<>> /\ Stepped(<<>>)
             \/ /\ recvq # <<>> /\ Head(recvq) \in Msgs
                /\ Stepped(<<CallWith("OnMessage", Head(recvq)), Call("PopReceived"), Call("DeliverFront")>>)
    <2>1. todo # <<>>
        BY <1>2, Runs DEF DeliverFront
    <2>2. \/ recvq = <<>> /\ ReturnTo(<<>>)
          \/ /\ recvq # <<>>
             /\ ReturnTo(<<CallWith("OnMessage", Head(recvq)), Call("PopReceived"), Call("DeliverFront")>>)
        BY <1>2 DEF DeliverFront
    <2>3. recvq # <<>> => Head(recvq) \in Msgs
        BY DEF Types, DataTypes
    <2>4. recvq # <<>> =>
             <<CallWith("OnMessage", Head(recvq)), Call("PopReceived"), Call("DeliverFront")>> \in Seq(Calls)
        BY <1>0, <2>3, CallTypes
    <2> QED
        BY <2>1, <2>2, <2>3, <2>4, Stepping, CallTypes
<1>3. PopReceived => Stepped(<<>>)
    BY Runs, Stepping DEF PopReceived
<1>4. ASSUME todo # <<>>, React
      PROVE  \/ Stepped(<<>>) \/ Stepped(<<Call("Close")>>)
             \/ \E z \in Nat : z \in Sizes /\ accepted < MaxSends /\ Stepped(<<CallWith("Send", Msg(0, z))>>)
    <2>1. CASE Return
        BY <1>4, <2>1, Stepping
    <2>2. CASE ReturnTo(<<Call("Close")>>)
        BY <1>0, <1>4, <2>2, Stepping, CallTypes
    <2>3. ASSUME NEW z \in Sizes, accepted < MaxSends, ReturnTo(<<CallWith("Send", Msg(0, z))>>)
          PROVE  \E y \in Nat : y \in Sizes /\ accepted < MaxSends /\ Stepped(<<CallWith("Send", Msg(0, y))>>)
        <3>1. z \in Nat
            BY DEF Sizes, Types, DataTypes
        <3>2. <<CallWith("Send", Msg(0, z))>> \in Seq(Calls)
            BY <1>0, <3>1, CallTypes
        <3> QED
            BY <1>4, <2>3, <3>1, <3>2, Stepping
    <2> QED
        BY <1>4, <2>1, <2>2, <2>3 DEF React
<1>5. ASSUME NEW r, Send(r) PROVE Stepped(<<>>) \/ Stepped(<<Call("Close")>>)
    <2>1. todo # <<>>
        BY <1>5, Runs DEF Send
    <2>2. Return \/ ReturnTo(<<Call("Close")>>)
        BY <1>5 DEF Send, QueueOrClose
    <2> QED
        BY <1>0, <2>1, <2>2, Stepping, CallTypes
<1>6. ASSUME NEW r, FlushData(r) PROVE Stepped(<<>>) \/ Stepped(<<Call("Close")>>) \/ todo' = todo
    <2>1. todo # <<>>
        BY <1>6, Runs DEF FlushData
    <2>2. Return \/ ReturnTo(<<>>) \/ ReturnTo(<<Call("Close")>>) \/ todo' = todo
        BY <1>6 DEF FlushData, sending
    <2> QED
        BY <1>0, <2>1, <2>2, Stepping, CallTypes
<1>7. TransportGone => Stepped(<<>>)
    BY Runs, Stepping DEF TransportGone
<1> QED
    BY <1>1, <1>2, <1>3, <1>4, <1>5, <1>6, <1>7

\* What each event puts on the stack.
LEMMA Arrives ==
    ASSUME Types
    PROVE  /\ \A z : AppSends(z) => todo = <<>> /\ todo' = <<CallWith("Send", Msg(0, z))>>
           /\ AppCloses => todo = <<>> /\ todo' = <<Call("Close")>>
           /\ RegisterObserver => todo = <<>> /\ todo' = <<Call("Deliver")>>
           /\ UnregisterObserver \/ SetSctpSid \/ OnTransportChannelCreated \/ OnAckReceived =>
                 todo = <<>> /\ todo' = <<>>
           /\ RemotePeerRequestClose =>
                 state # "closed" /\ todo = <<>> /\ todo' = <<Call("SetClosing"), Call("UpdateState")>>
           /\ OnDataEngineClose =>
                 /\ todo = <<>>
                 /\ \/ state = "closed" /\ todo' = <<Call("TransportGone")>>
                    \/ /\ state # "closed"
                       /\ todo' = <<Call("SetClosing"), Call("UpdateState"), Call("TransportGone")>>
           /\ SetSsrc => todo = <<>> /\ todo' = <<Call("UpdateState")>>
           /\ OnChannelReady =>
                 /\ todo = <<>>
                 /\ \/ everWritable /\ state = "open" /\ todo' = <<Call("FlushControl"), Call("FlushData")>>
                    \/ everWritable /\ state # "open" /\ todo' = <<>>
                    \/ /\ ~everWritable /\ Type = "SCTP" /\ Role # "none"
                       /\ todo' = <<Call("SendControl"), Call("UpdateState")>>
                    \/ ~everWritable /\ (Type # "SCTP" \/ Role = "none") /\ todo' = <<Call("UpdateState")>>
<1>1. BeginClosing = <<Call("SetClosing"), Call("UpdateState")>>
    BY DEF BeginClosing
<1>2. BeginClosing \o <<>> = <<Call("SetClosing"), Call("UpdateState")>>
    BY <1>1
<1>0. /\ Call("SetClosing") \in Calls /\ Call("UpdateState") \in Calls
      /\ Call("TransportGone") \in Calls /\ Call("SendControl") \in Calls
    BY CallTypes DEF CallNames
<1>3. BeginClosing \o <<Call("TransportGone")>> =
         <<Call("SetClosing"), Call("UpdateState"), Call("TransportGone")>>
    BY <1>0, <1>1, CallLists
<1>4. <<Call("SendControl")>> \o <<Call("UpdateState")>> = <<Call("SendControl"), Call("UpdateState")>>
      /\ <<>> \o <<Call("UpdateState")>> = <<Call("UpdateState")>>
    <2>1. <<Call("UpdateState")>> \in Seq(Calls)
        BY <1>0
    <2> QED
        BY <1>0, <2>1, CallLists
<1>5. RemotePeerRequestClose =>
         state # "closed" /\ todo = <<>> /\ todo' = <<Call("SetClosing"), Call("UpdateState")>>
    BY <1>2 DEF RemotePeerRequestClose, DoClose, Idle
<1>6. OnDataEngineClose =>
         /\ todo = <<>>
         /\ \/ state = "closed" /\ todo' = <<Call("TransportGone")>>
            \/ /\ state # "closed"
               /\ todo' = <<Call("SetClosing"), Call("UpdateState"), Call("TransportGone")>>
    BY <1>3 DEF OnDataEngineClose, DoClose, Idle
<1>7. OnChannelReady =>
         /\ todo = <<>>
         /\ \/ everWritable /\ state = "open" /\ todo' = <<Call("FlushControl"), Call("FlushData")>>
            \/ everWritable /\ state # "open" /\ todo' = <<>>
            \/ /\ ~everWritable /\ Type = "SCTP" /\ Role # "none"
               /\ todo' = <<Call("SendControl"), Call("UpdateState")>>
            \/ ~everWritable /\ (Type # "SCTP" \/ Role = "none") /\ todo' = <<Call("UpdateState")>>
    BY <1>4 DEF OnChannelReady, Idle, ReadyAgain, FirstReady
<1> QED
    BY <1>5, <1>6, <1>7
    DEF AppSends, AppCloses, RegisterObserver, UnregisterObserver, SetSctpSid, OnTransportChannelCreated,
        OnAckReceived, SetSsrc, Idle

\* Data that arrive.
LEMMA DataArrive ==
    ASSUME Types, NEW z, OnDataReceived(z)
    PROVE  /\ todo = <<>>
           /\ \/ everWritable /\ observer /\ todo' = <<CallWith("OnMessage", Msg(arrived + 1, z))>>
                 /\ recvq' = recvq
              \/ ~(everWritable /\ observer) /\ todo' = <<>> /\ recvq' = Append(recvq, Msg(arrived + 1, z))
              \/ /\ ~(everWritable /\ observer) /\ recvq' = <<>>
                 /\ (Type = "RTP" /\ todo' = <<>>) \/ (Type # "RTP" /\ todo' = <<Call("Close")>>)
BY DEF OnDataReceived, Idle, receiving

-----------------------------------------------------------------------------
(***************************************************************************)
(* Types.                                                                   *)
(***************************************************************************)
\* Every step leaves a stack of calls.
LEMMA StackTyped == Types /\ [Next]_vars => todo' \in Seq(Calls)
<1> SUFFICES ASSUME Types, [Next]_vars PROVE todo' \in Seq(Calls)
    OBVIOUS
<1>0. /\ Call("Close") \in Calls /\ Call("SetClosing") \in Calls /\ Call("UpdateState") \in Calls
      /\ Call("FlushControl") \in Calls /\ Call("FlushData") \in Calls /\ Call("TransportGone") \in Calls
      /\ Call("Deliver") \in Calls /\ Call("SendControl") \in Calls
      /\ \A m \in Msgs : CallWith("OnMessage", m) \in Calls /\ CallWith("Send", m) \in Calls
    BY CallTypes DEF CallNames
<1>1. ASSUME NEW c, Stepped(c) PROVE todo' \in Seq(Calls)
    BY <1>1 DEF Stepped
<1>2. Sizes \subseteq Nat /\ arrived + 1 \in Nat
    BY DEF Sizes, Types, DataTypes
<1>3. CASE Internal
    <2>1. CASE Close \/ UpdateState \/ FlushControl
        BY <1>1, <2>1, Returns
    <2>2. ASSUME NEW f, NEW s, SetState(f, s) PROVE todo' \in Seq(Calls)
        BY <1>1, <2>2, Returns
    <2>3. CASE Deliver \/ DeliverFront \/ PopReceived \/ TransportGone
        BY <1>1, <2>3, ReturnsToo
    <2>4. CASE OnStateChange \/ OnMessage
        <3>1. todo # <<>> /\ React
            BY <2>4, Runs DEF OnStateChange, OnMessage
        <3> QED
            BY <1>1, <3>1, ReturnsToo
    <2>5. ASSUME NEW r, SendControl(r) PROVE todo' \in Seq(Calls)
        BY <1>1, <2>5, Returns
    <2>6. ASSUME NEW r, Send(r) \/ FlushData(r) PROVE todo' \in Seq(Calls)
        BY <1>1, <2>6, ReturnsToo DEF Types
    <2> QED
        BY <1>3, <2>1, <2>2, <2>3, <2>4, <2>5, <2>6 DEF Internal
<1>4. CASE Event
    <2>1. /\ <<>> \in Seq(Calls) /\ <<Call("Close")>> \in Seq(Calls) /\ <<Call("Deliver")>> \in Seq(Calls)
          /\ <<Call("SetClosing"), Call("UpdateState")>> \in Seq(Calls)
          /\ <<Call("SetClosing"), Call("UpdateState"), Call("TransportGone")>> \in Seq(Calls)
          /\ <<Call("TransportGone")>> \in Seq(Calls) /\ <<Call("UpdateState")>> \in Seq(Calls)
          /\ <<Call("FlushControl"), Call("FlushData")>> \in Seq(Calls)
          /\ <<Call("SendControl"), Call("UpdateState")>> \in Seq(Calls)
        BY <1>0
    <2>2. ASSUME NEW z \in Sizes, AppSends(z) PROVE todo' \in Seq(Calls)
        <3>1. Msg(0, z) \in Msgs
            BY <1>2, CallTypes
        <3>2. <<CallWith("Send", Msg(0, z))>> \in Seq(Calls)
            BY <1>0, <3>1
        <3> QED
            BY <2>2, <3>2, Arrives
    <2>3. ASSUME NEW z \in Sizes, OnDataReceived(z) PROVE todo' \in Seq(Calls)
        <3>1. Msg(arrived + 1, z) \in Msgs
            BY <1>2, CallTypes
        <3>2. <<CallWith("OnMessage", Msg(arrived + 1, z))>> \in Seq(Calls)
            BY <1>0, <3>1
        <3> QED
            BY <2>1, <2>3, <3>2, DataArrive
    <2>4. CASE AppCloses \/ RegisterObserver \/ UnregisterObserver \/ SetSctpSid \/ OnTransportChannelCreated
        BY <2>1, <2>4, Arrives
    <2>5. CASE RemotePeerRequestClose \/ OnDataEngineClose \/ SetSsrc \/ OnChannelReady \/ OnAckReceived
        BY <2>1, <2>5, Arrives
    <2> QED
        BY <1>4, <2>2, <2>3, <2>4, <2>5 DEF Event
<1> QED
    BY <1>3, <1>4 DEF Next, Types, vars

\* The flags stay flags.
LEMMA FlagsTyped == FlagTypes /\ [Next]_vars => FlagTypes'
<1> SUFFICES ASSUME FlagTypes, [Next]_vars PROVE FlagTypes'
    OBVIOUS
<1>1. CASE Close \/ FlushControl \/ Deliver \/ DeliverFront \/ PopReceived
    BY <1>1, ZenonT(40) DEF FlagTypes, Close, FlushControl, Deliver, DeliverFront, PopReceived, flags, outside, history
<1>2. CASE OnStateChange \/ OnMessage \/ TransportGone
    BY <1>2 DEF FlagTypes, OnStateChange, OnMessage, TransportGone, flags, outside, history
<1>3. CASE UpdateState
    BY <1>3 DEF FlagTypes, UpdateState, DisconnectFromTransport, history
<1>4. ASSUME NEW f, NEW s, SetState(f, s) PROVE FlagTypes'
    BY <1>4 DEF FlagTypes, SetState, flags, outside, history
<1>5. ASSUME NEW r, SendControl(r) PROVE FlagTypes'
    BY <1>5 DEF FlagTypes, SendControl, outside, history
<1>6. ASSUME NEW r, Send(r) \/ FlushData(r) PROVE FlagTypes'
    BY <1>6 DEF FlagTypes, Send, FlushData, flags, outside, history
<1>7. ASSUME NEW z, AppSends(z) \/ OnDataReceived(z) PROVE FlagTypes'
    BY <1>7, ZenonT(40) DEF FlagTypes, AppSends, OnDataReceived, flags, outside, history
<1>8. CASE AppCloses \/ RegisterObserver \/ UnregisterObserver \/ SetSctpSid
    BY <1>8, ZenonT(40) DEF FlagTypes, AppCloses, RegisterObserver, UnregisterObserver, SetSctpSid, flags, outside, history
<1>9. CASE RemotePeerRequestClose \/ OnDataEngineClose
    BY <1>9 DEF FlagTypes, RemotePeerRequestClose, OnDataEngineClose, DoClose, history
<1>10. CASE OnTransportChannelCreated
    BY <1>10 DEF FlagTypes, OnTransportChannelCreated, history
<1>11. CASE SetSsrc \/ OnChannelReady \/ OnAckReceived
    BY <1>11, ZenonT(40) DEF FlagTypes, SetSsrc, OnChannelReady, OnAckReceived, outside, history
<1>12. CASE UNCHANGED vars
    BY <1>12 DEF FlagTypes, vars, flags, outside, history
<1> QED
    BY <1>1, <1>2, <1>3, <1>4, <1>5, <1>6, <1>7, <1>8, <1>9, <1>10, <1>11, <1>12 DEF Next, Internal, Event

\* The types of sequences.
LEMMA SeqTypes ==
    ASSUME NEW S, NEW s \in Seq(S)
    PROVE  (\A e \in S : Append(s, e) \in Seq(S)) /\ (s # <<>> => Head(s) \in S /\ Tail(s) \in Seq(S))
OBVIOUS

\* The data keep their types, if nothing is popped from an empty queue.
LEMMA DataTyped ==
    ASSUME Types, [Next]_vars, Top = "PopReceived" => recvq # <<>>
    PROVE  DataTypes'
<1>0. DataTypes
    BY DEF Types
<1>18. sendq \in Seq(Msgs) /\ recvq \in Seq(Msgs) /\ wire \in Seq(Packets) /\ <<>> \in Seq(Msgs)
    BY <1>0 DEF DataTypes
<1>1. CASE Close \/ FlushControl \/ Deliver \/ DeliverFront
    BY <1>0, <1>1 DEF DataTypes, Close, FlushControl, Deliver, DeliverFront, sending, receiving, outside, history
<1>2. CASE OnStateChange \/ TransportGone
    BY <1>0, <1>2 DEF DataTypes, OnStateChange, TransportGone, sending, receiving, outside, history
<1>3. CASE UpdateState
    BY <1>0, <1>3 DEF DataTypes, UpdateState, sending, receiving, history
<1>4. ASSUME NEW f, NEW s \in {"open", "closing", "closed"}, SetState(f, s) PROVE DataTypes'
    BY <1>0, <1>4 DEF DataTypes, SetState, sending, receiving, outside, history
<1>5. CASE OnMessage
    <2>1. Head(todo).m.id \in Nat
        BY <1>5, Runs DEF OnMessage, Calls, Msgs
    <2>2. shown' \in Seq(Nat)
        BY <1>0, <1>5, <2>1 DEF DataTypes, OnMessage
    <2> QED
        BY <1>0, <1>5, <2>2 DEF DataTypes, OnMessage, sending, receiving, outside
<1>6. CASE PopReceived
    <2>1. recvq # <<>>
        BY <1>6, Runs DEF PopReceived
    <2>2. recvq' \in Seq(Msgs)
        BY <1>0, <1>6, <2>1 DEF DataTypes, PopReceived
    <2> QED
        BY <1>0, <1>6, <2>2 DEF DataTypes, PopReceived, sending, outside, history
<1>7. /\ heard \in BOOLEAN /\ waitingAck \in BOOLEAN /\ config.ordered \in BOOLEAN
      /\ ctrlq \in Nat /\ refused \in BOOLEAN
    BY <1>0 DEF Types, FlagTypes, DataTypes
<1>8. ASSUME NEW r, SendControl(r) PROVE DataTypes'
    <2>1. wire' \in Seq(Packets)
        <3>1. Packet("control", 0, Ordered \/ Role = "opener") \in Packets
            BY <1>7 DEF Packet, Packets
        <3> QED
            BY <1>0, <1>8, <3>1 DEF SendControl, DataTypes
    <2>2. ctrlq' \in Nat
        BY <1>0, <1>8 DEF SendControl, DataTypes
    <2> QED
        BY <1>0, <1>8, <2>1, <2>2 DEF DataTypes, SendControl, sending, receiving, outside, history
<1>9. \A i \in Nat : DataPacket(i) \in Packets
    BY <1>7 DEF DataPacket, Packet, Packets, Ordered
<1>10. ASSUME NEW r, Send(r) PROVE DataTypes'
    <2> DEFINE m == Msg(accepted + 1, Head(todo).m.size)
    <2>1. Head(todo) \in Calls
        BY <1>10, Runs DEF Send
    <2>2. m \in Msgs /\ m.id \in Nat
        BY <1>0, <2>1 DEF Calls, Msgs, DataTypes, Msg
    <2>3. accepted' \in Nat
        BY <1>0, <1>10 DEF Send, DataTypes
    <2>4. sendq' = sendq \/ sendq' = Append(sendq, m)
        BY <1>10 DEF Send, QueueOrClose
    <2>5. wire' = wire \/ wire' = Append(wire, DataPacket(m.id))
        BY <1>10 DEF Send
    <2> HIDE DEF m
    <2>6. sendq' \in Seq(Msgs)
        <3>1. Append(sendq, m) \in Seq(Msgs)
            BY <1>18, <2>2, SeqTypes
        <3> QED
            BY <1>18, <2>4, <3>1, Zenon
    <2>7. DataPacket(m.id) \in Packets
        BY <1>9, <2>2
    <2>8. wire' \in Seq(Packets)
        BY <1>18, <2>5, <2>7, SeqTypes, SMTT(40)
    <2> QED
        BY <1>0, <1>10, <2>3, <2>6, <2>8 DEF DataTypes, Send, receiving, outside
<1>11. ASSUME NEW r, FlushData(r) PROVE DataTypes'
    <2>1. sendq' = sendq \/ (sendq # <<>> /\ sendq' = Tail(sendq))
        BY <1>11 DEF FlushData, sending
    <2>2. sendq # <<>> => Head(sendq).id \in Nat
        <3>1. sendq # <<>> => Head(sendq) \in Msgs
            BY <1>0 DEF DataTypes
        <3> QED
            BY <3>1 DEF Msgs
    <2>3. wire' = wire \/ \E i \in Nat : wire' = Append(wire, DataPacket(i))
        BY <1>11, <2>2 DEF FlushData
    <2>4. sendq' \in Seq(Msgs)
        <3>1. sendq # <<>> => Tail(sendq) \in Seq(Msgs)
            BY <1>18, SeqTypes
        <3> QED
            BY <1>18, <2>1, <3>1, Zenon
    <2>5. wire' \in Seq(Packets)
        <3>1. \A i \in Nat : Append(wire, DataPacket(i)) \in Seq(Packets)
            BY <1>9, <1>18, SeqTypes
        <3> QED
            BY <1>18, <2>3, <3>1, Zenon
    <2>6. heap' \in {"ok", "dangling", "corrupt", "crashed"}
        BY <1>0, <1>11 DEF FlushData, DataTypes, sending
    <2> QED
        BY <1>0, <1>11, <2>4, <2>5, <2>6 DEF DataTypes, FlushData, receiving, outside, history
<1>12. ASSUME NEW z, AppSends(z) PROVE DataTypes'
    BY <1>0, <1>12 DEF DataTypes, AppSends, sending, receiving, outside, history
<1>13. CASE AppCloses \/ RegisterObserver \/ UnregisterObserver \/ SetSctpSid
    BY <1>0, <1>13 DEF DataTypes, AppCloses, RegisterObserver, UnregisterObserver, SetSctpSid,
                       sending, receiving, outside, history
<1>14. CASE RemotePeerRequestClose \/ OnDataEngineClose
    BY <1>0, <1>14 DEF DataTypes, RemotePeerRequestClose, OnDataEngineClose, DoClose, sending, receiving, history
<1>15. CASE OnTransportChannelCreated \/ SetSsrc \/ OnChannelReady \/ OnAckReceived
    BY <1>0, <1>15 DEF DataTypes, OnTransportChannelCreated, SetSsrc, OnChannelReady, OnAckReceived,
                       sending, receiving, outside, history
<1>16. ASSUME NEW z \in Sizes, OnDataReceived(z) PROVE DataTypes'
    <2>1. Msg(arrived + 1, z) \in Msgs
        BY <1>0 DEF Msg, Msgs, DataTypes, Sizes
    <2>2. recvq' = recvq \/ recvq' = <<>> \/ recvq' = Append(recvq, Msg(arrived + 1, z))
        BY <1>16, DataArrive
    <2>3. recvq' \in Seq(Msgs)
        <3>1. Append(recvq, Msg(arrived + 1, z)) \in Seq(Msgs)
            BY <1>18, <2>1, SeqTypes
        <3> QED
            BY <1>18, <2>2, <3>1, Zenon
    <2> QED
        BY <1>0, <1>16, <2>3 DEF DataTypes, OnDataReceived, sending, outside
<1>17. CASE UNCHANGED vars
    BY <1>0, <1>17 DEF DataTypes, vars, sending, receiving, outside, history
<1> QED
    BY <1>1, <1>2, <1>3, <1>4, <1>5, <1>6, <1>8, <1>10, <1>11, <1>12, <1>13, <1>14, <1>15, <1>16, <1>17
       DEF Next, Internal, Event

-----------------------------------------------------------------------------
(***************************************************************************)
(* The order of the nested calls.                                           *)
(***************************************************************************)
\* The stack with n calls in the place of the running one.
Shifted(n) ==
    /\ Len(todo) \in Nat /\ DOMAIN todo = 1 .. Len(todo)
    /\ Len(todo') \in Nat /\ DOMAIN todo' = 1 .. Len(todo')
    /\ todo # <<>> => Len(todo') = Len(todo) + n - 1
    /\ \A i \in DOMAIN todo' : i > n =>
          \E j \in DOMAIN todo : j > 1 /\ i = j + n - 1 /\ todo'[i] = todo[j]
    /\ \A j \in DOMAIN todo : j > 1 => j + n - 1 \in DOMAIN todo' /\ todo'[j + n - 1] = todo[j]

LEMMA Shift == ASSUME Types, NEW c \in Seq(Calls), Stepped(c) PROVE Shifted(Len(c))
<1>1. todo \in Seq(Calls) /\ Len(todo) \in Nat /\ DOMAIN todo = 1 .. Len(todo) /\ Len(c) \in Nat
    BY DEF Types
<1>2. /\ todo' \in Seq(Calls)
      /\ Len(todo') = Len(c) + (IF todo = <<>> THEN 0 ELSE Len(todo) - 1)
      /\ \A i \in DOMAIN todo' :
            \/ i \in 1 .. Len(c)
            \/ /\ i - Len(c) + 1 \in DOMAIN todo /\ i - Len(c) > 0
               /\ todo'[i] = todo[i - Len(c) + 1]
      /\ \A i \in DOMAIN todo : i > 1 =>
            i + Len(c) - 1 \in DOMAIN todo' /\ todo'[i + Len(c) - 1] = todo[i]
    BY DEF Stepped
<1>3. Len(todo') \in Nat /\ DOMAIN todo' = 1 .. Len(todo')
    BY <1>2
<1>4. todo # <<>> => Len(todo') = Len(todo) + Len(c) - 1
    BY <1>1, <1>2
<1>5. ASSUME NEW i \in DOMAIN todo', i > Len(c)
      PROVE  \E j \in DOMAIN todo : j > 1 /\ i = j + Len(c) - 1 /\ todo'[i] = todo[j]
    <2>1. /\ i - Len(c) + 1 \in DOMAIN todo /\ i - Len(c) > 0 /\ todo'[i] = todo[i - Len(c) + 1]
        BY <1>1, <1>2, <1>3, <1>5
    <2>2. i - Len(c) + 1 > 1 /\ i = (i - Len(c) + 1) + Len(c) - 1
        BY <1>1, <1>3, <2>1
    <2> QED
        BY <2>1, <2>2
<1> QED
    BY <1>1, <1>2, <1>3, <1>4, <1>5 DEF Shifted

\* Where the calls c may be put, whatever the transport answers.
Placed(c) ==
    \A i \in 1 .. Len(c) :
        /\ i > 1 => c[i].f \in Resumed
        /\ c[i].f \in {"Deliver", "DeliverFront"} => i = Len(todo')
        /\ c[i].f = "SetOpen" => i = Len(todo') - 1 /\ todo'[Len(todo')].f = "Deliver"
        /\ c[i].f = "PopReceived" => i = Len(todo') - 1 /\ recvq' # <<>>
        /\ c[i].f = "UpdateState" =>
              i = Len(todo') \/ state' \in {"closing", "closed"} \/ c[1].f = "SetClosing"

\* The channel that an update below the running function waits for stays closing,
\* and only PopReceived takes what is received.
Steady ==
    /\ (\E j \in DOMAIN todo : j > 1 /\ N(j) = "UpdateState") =>
          (state \in {"closing", "closed"} \/ Top = "SetClosing" => state' \in {"closing", "closed"})
    /\ todo # <<>> /\ Top # "PopReceived" => recvq' = recvq

\* The part of the order of the nested calls that holds whatever the transport answers.
LEMMA OrderStep ==
    ASSUME Types, Below, Bottomed, NEW c \in Seq(Calls), Stepped(c), Placed(c), Steady
    PROVE  Below' /\ Bottomed'
<1>0. Shifted(Len(c)) /\ Len(c) \in Nat
    BY Shift
<1>1. /\ Len(todo) \in Nat /\ DOMAIN todo = 1 .. Len(todo)
      /\ Len(todo') \in Nat /\ DOMAIN todo' = 1 .. Len(todo')
      /\ todo # <<>> => Len(todo') = Len(todo) + Len(c) - 1
    BY <1>0 DEF Shifted
<1>2. \A i \in 1 .. Len(c) : i \in DOMAIN todo' /\ todo'[i] = c[i]
    BY DEF Stepped
<1>3. ASSUME NEW i \in DOMAIN todo', i > Len(c)
      PROVE  \E j \in DOMAIN todo : j > 1 /\ i = j + Len(c) - 1 /\ todo'[i] = todo[j]
    BY <1>0, <1>3 DEF Shifted
<1>4. \A i \in DOMAIN todo' : i \in 1 .. Len(c) \/ i > Len(c)
    BY <1>0, <1>1
<1>5. ASSUME NEW j \in DOMAIN todo, j > 1
      PROVE  todo # <<>> /\ N(j) \in Resumed /\ 1 \in DOMAIN todo /\ Top = N(1)
    BY <1>1, <1>5 DEF Below, Top
<1>6. Below'
    <2> SUFFICES ASSUME NEW i \in DOMAIN todo', i > 1 PROVE todo'[i].f \in Resumed
        BY DEF Below, N
    <2>1. CASE i \in 1 .. Len(c)
        BY <1>2, <2>1 DEF Placed
    <2>2. CASE i > Len(c)
        BY <1>3, <1>5, <2>2 DEF N
    <2> QED
        BY <1>4, <2>1, <2>2
<1>7. Bottomed'
    <2> SUFFICES ASSUME NEW i \in DOMAIN todo'
                 PROVE  /\ todo'[i].f \in {"Deliver", "DeliverFront"} => i = Len(todo')
                        /\ todo'[i].f = "SetOpen" => i = Len(todo') - 1 /\ todo'[Len(todo')].f = "Deliver"
                        /\ todo'[i].f = "PopReceived" => i = Len(todo') - 1 /\ recvq' # <<>>
                        /\ todo'[i].f = "UpdateState" =>
                              i = Len(todo') \/ state' \in {"closing", "closed"} \/ Top' = "SetClosing"
        BY DEF Bottomed, N
    <2>1. CASE i \in 1 .. Len(c)
        <3>1. 1 \in 1 .. Len(c) /\ Len(c) > 0
            BY <1>0, <2>1
        <3>2. todo'[1] = c[1] /\ todo' # <<>>
            BY <1>1, <1>2, <3>1
        <3>3. Top' = c[1].f
            BY <3>2 DEF Top, N
        <3> QED
            BY <1>2, <2>1, <3>3 DEF Placed
    <2>2. CASE i > Len(c)
        <3>1. PICK j \in DOMAIN todo : j > 1 /\ i = j + Len(c) - 1 /\ todo'[i] = todo[j]
            BY <1>3, <2>2
        <3>2. /\ N(j) \in {"Deliver", "DeliverFront"} => j = Len(todo)
              /\ N(j) = "SetOpen" => j = Len(todo) - 1 /\ N(Len(todo)) = "Deliver"
              /\ N(j) = "PopReceived" => j = Len(todo) - 1 /\ recvq # <<>>
              /\ N(j) = "UpdateState" => j = Len(todo) \/ state \in {"closing", "closed"} \/ Top = "SetClosing"
            BY DEF Bottomed
        <3>3. todo # <<>> /\ N(1) = Top /\ 1 \in DOMAIN todo
            BY <1>5, <3>1
        <3>4. (j = Len(todo) => i = Len(todo')) /\ (j = Len(todo) - 1 => i = Len(todo') - 1)
            BY <1>0, <1>1, <3>1, <3>3
        <3>5. N(j) = "PopReceived" => Top # "PopReceived"
            <4>1. N(1) = "PopReceived" => 1 = Len(todo) - 1
                BY <3>3 DEF Bottomed
            <4> QED
                BY <1>1, <3>1, <3>2, <3>3, <4>1, SMTT(40)
        <3>6. N(j) = "PopReceived" => recvq' # <<>>
            BY <3>2, <3>3, <3>5 DEF Steady
        <3>7. N(j) = "UpdateState" => i = Len(todo') \/ state' \in {"closing", "closed"}
            BY <3>1, <3>2, <3>3, <3>4 DEF Steady
        <3>8. todo'[i].f = N(j)
            BY <3>1 DEF N
        <3>9. Len(todo) \in DOMAIN todo /\ Len(todo) > 1 /\ Len(todo) + Len(c) - 1 = Len(todo')
            BY <1>0, <1>1, <3>1, <3>3
        <3>10. todo'[Len(todo')] = todo[Len(todo)]
            BY <1>0, <3>9 DEF Shifted
        <3> QED
            BY <3>2, <3>4, <3>6, <3>7, <3>8, <3>10 DEF N
    <2> QED
        BY <1>4, <2>1, <2>2
<1> QED
    BY <1>6, <1>7

\* Where they may be put so that nothing exposed is below them.
Fits(c) ==
    \A i \in 1 .. Len(c) :
        /\ i > 1 => c[i].f \in Resumed
        /\ c[i].f \in {"Deliver", "DeliverFront"} => i = Len(todo')
        /\ c[i].f = "SetOpen" => i = Len(todo') - 1 /\ todo'[Len(todo')].f = "Deliver"
        /\ c[i].f = "PopReceived" => i = Len(todo') - 1 /\ recvq' # <<>>
        /\ c[i].f = "UpdateState" =>
              i = Len(todo') \/ state' \in {"closing", "closed"} \/ c[1].f = "SetClosing"
        /\ c[i].f \in Exposed =>
              /\ state' = IF c[i].f = "SetOpen" THEN "connecting" ELSE "open"
              /\ \A j \in 1 .. Len(c) : j < i => c[j].f = "FlushControl"
        /\ c[i].f \in Exposed \cup Control => everWritable'
        /\ c[i].f = "SetClosing" => state' # "closed"

\* What is below the running function is not disturbed.
Undisturbed(c) ==
    /\ config' = config
    /\ everWritable => everWritable'
    /\ state' = "open" => everWritable'
    /\ todo # <<>> /\ (state \in {"closing", "closed"} \/ Top = "SetClosing") => state' \in {"closing", "closed"}
    /\ todo # <<>> /\ Top # "PopReceived" => recvq' = recvq
    /\ (\E j \in DOMAIN todo : j > 1 /\ N(j) \in Exposed) =>
          /\ state' = state
          /\ \A i \in 1 .. Len(c) : c[i].f = "SendControl"

LEMMA StackStep ==
    ASSUME Types, Nesting, NEW c \in Seq(Calls), Stepped(c), Fits(c), Undisturbed(c)
    PROVE  Nesting'
<1>0. Shifted(Len(c)) /\ Len(c) \in Nat
    BY Shift
<1>1. /\ Len(todo) \in Nat /\ DOMAIN todo = 1 .. Len(todo)
      /\ Len(todo') \in Nat /\ DOMAIN todo' = 1 .. Len(todo')
      /\ todo # <<>> => Len(todo') = Len(todo) + Len(c) - 1
    BY <1>0 DEF Shifted
<1>2. \A i \in 1 .. Len(c) : i \in DOMAIN todo' /\ todo'[i] = c[i]
    BY DEF Stepped
<1>3. ASSUME NEW i \in DOMAIN todo', i > Len(c)
      PROVE  \E j \in DOMAIN todo : j > 1 /\ i = j + Len(c) - 1 /\ todo'[i] = todo[j]
    BY <1>0, <1>3 DEF Shifted
<1>4. \A i \in DOMAIN todo' : i \in 1 .. Len(c) \/ i > Len(c)
    BY <1>0, <1>1
<1>5. ASSUME NEW j \in DOMAIN todo, j > 1
      PROVE  todo # <<>> /\ N(j) \in Resumed /\ 1 \in DOMAIN todo /\ Top = N(1)
    BY <1>1, <1>5 DEF Nesting, Below, Top
<1>6. Below' /\ Bottomed'
    <2>1. Placed(c)
        BY DEF Fits, Placed
    <2>2. Steady
        <3>1. (\E j \in DOMAIN todo : j > 1 /\ N(j) = "UpdateState") => todo # <<>>
            BY <1>5
        <3> QED
            BY <3>1 DEF Undisturbed, Steady
    <2> QED
        BY <2>1, <2>2, OrderStep DEF Nesting
<1>8. ASSUME NEW i \in DOMAIN todo', todo'[i].f \in Exposed
      PROVE  /\ state' = IF todo'[i].f = "SetOpen" THEN "connecting" ELSE "open"
             /\ everWritable'
             /\ \A j \in DOMAIN todo' : j < i => todo'[j].f \in Control
    <2>1. CASE i \in 1 .. Len(c)
        <3>1. \A j \in DOMAIN todo' : j < i => j \in 1 .. Len(c)
            BY <1>0, <1>1, <2>1
        <3>2. c[i].f \in Exposed /\ c[i].f = todo'[i].f
            BY <1>2, <1>8, <2>1
        <3>3. \A j \in DOMAIN todo' : j < i => todo'[j].f = "FlushControl"
            BY <1>2, <2>1, <3>1, <3>2, SMTT(40) DEF Fits
        <3> QED
            BY <2>1, <3>2, <3>3 DEF Fits, Control
    <2>2. CASE i > Len(c)
        <3>1. PICK k \in DOMAIN todo : k > 1 /\ i = k + Len(c) - 1 /\ todo'[i] = todo[k]
            BY <1>3, <2>2
        <3>2. N(k) \in Exposed /\ N(k) = todo'[i].f
            BY <1>8, <3>1 DEF N
        <3>3. /\ state = IF N(k) = "SetOpen" THEN "connecting" ELSE "open"
              /\ \A j \in DOMAIN todo : j < k => N(j) \in Control
              /\ everWritable
            BY <3>2 DEF Nesting, Shielded, Writable
        <3>4. /\ state' = state /\ everWritable' /\ config' = config
              /\ \A j \in 1 .. Len(c) : c[j].f = "SendControl"
            BY <3>1, <3>2, <3>3 DEF Undisturbed
        <3>5. ASSUME NEW j \in DOMAIN todo', j < i
              PROVE  todo'[j].f \in Control
            <4>1. CASE j \in 1 .. Len(c)
                <5>1. c # <<>>
                    BY <1>0, <4>1
                <5> QED
                    BY <1>2, <3>4, <4>1, <5>1 DEF Control
            <4>2. CASE j > Len(c)
                <5>1. PICK h \in DOMAIN todo : h > 1 /\ j = h + Len(c) - 1 /\ todo'[j] = todo[h]
                    BY <1>3, <4>2
                <5>2. h < k
                    BY <1>0, <1>1, <3>1, <3>5, <5>1
                <5>3. N(h) \in Control
                    BY <3>2, <3>3, <5>2
                <5> QED
                    BY <5>1, <5>3 DEF N
            <4> QED
                BY <1>4, <4>1, <4>2
        <3> QED
            BY <3>2, <3>3, <3>4, <3>5
    <2> QED
        BY <1>4, <2>1, <2>2
<1>9. Shielded'
    BY <1>8 DEF Shielded, N
<1>11. Writable'
    <2>1. ASSUME NEW i \in DOMAIN todo', todo'[i].f \in Exposed \cup Control PROVE everWritable'
        <3>1. CASE i \in 1 .. Len(c)
            BY <1>2, <2>1, <3>1 DEF Fits
        <3>2. CASE i > Len(c)
            BY <1>3, <2>1, <3>2 DEF Nesting, Writable, Undisturbed, N
        <3> QED
            BY <1>4, <3>1, <3>2
    <2> QED
        BY <2>1 DEF Writable, N, Undisturbed
<1>12. ClosingBegins'
    <2> SUFFICES ASSUME todo' # <<>>, todo'[1].f = "SetClosing" PROVE state' # "closed"
        BY DEF ClosingBegins, Top, N
    <2>1. 1 \in DOMAIN todo'
        BY DEF Stepped
    <2>2. CASE 1 \in 1 .. Len(c)
        BY <1>2, <2>2 DEF Fits
    <2>3. CASE 1 > Len(c)
        <3>1. todo'[1].f \in Resumed
            BY <1>3, <1>5, <2>1, <2>3 DEF N
        <3> QED
            BY <3>1 DEF Resumed
    <2> QED
        BY <1>4, <2>1, <2>2, <2>3
<1> QED
    BY <1>6, <1>9, <1>11, <1>12 DEF Nesting

\* Nothing below the running function is exposed, unless it sends control messages.
LEMMA Calm ==
    ASSUME Types, Nesting, Top \notin Control
    PROVE  \A i \in DOMAIN todo : i > 1 => N(i) \notin Exposed
<1> SUFFICES ASSUME NEW i \in DOMAIN todo, i > 1 PROVE N(i) \notin Exposed
    OBVIOUS
<1>1. todo # <<>> /\ 1 \in DOMAIN todo /\ Top = N(1)
    BY DEF Types, Top
<1> QED
    BY <1>1 DEF Nesting, Shielded

\* Most functions leave alone what the ones below them depend on.
LEMMA Quiet ==
    ASSUME Types, Nesting, Top \notin Control, config' = config, ctrlq' = ctrlq,
           everWritable' = everWritable, recvq' = recvq,
           \/ state' = state /\ Top # "SetClosing"
           \/ state' \in {"closing", "closed"},
           NEW c
    PROVE  Undisturbed(c)
<1>1. \A i \in DOMAIN todo : i > 1 => N(i) \notin Exposed
    BY Calm
<1> QED
    BY <1>1 DEF Undisturbed, Nesting, Writable

\* When nothing runs there is nothing to disturb.
LEMMA QuietEvent ==
    ASSUME Types, Nesting, todo = <<>>, config' = config, ctrlq' = ctrlq, everWritable => everWritable',
           state' = state, NEW c
    PROVE  Undisturbed(c)
BY DEF Undisturbed, Nesting, Writable

\* Calls that fit anywhere.
Plain == {"Close", "OnStateChange", "Send", "OnMessage", "SetClosed", "TransportGone"}

LEMMA PlainFits ==
    /\ <<>> \in Seq(Calls) /\ Fits(<<>>)
    /\ \A a \in Calls : a.f \in Plain => <<a>> \in Seq(Calls) /\ Fits(<<a>>)
<1>1. Fits(<<>>)
    BY DEF Fits
<1>2. ASSUME NEW a \in Calls, a.f \in Plain PROVE Fits(<<a>>)
    <2>1. Len(<<a>>) = 1 /\ <<a>>[1] = a
        OBVIOUS
    <2> DEFINE c == <<a>>
    <2>2. Len(c) = 1 /\ c[1] = a
        BY <2>1
    <2> HIDE DEF c
    <2>3. \A i \in 1 .. Len(c) : i = 1 /\ c[i].f \in Plain
        BY <1>2, <2>2
    <2>4. Fits(c)
        BY <2>3 DEF Fits, Plain, Exposed, Control
    <2> QED
        BY <2>4 DEF c
<1> QED
    BY <1>1, <1>2

\* Calls that begin a closure.
LEMMA ClosingFits ==
    ASSUME NEW a \in Calls, NEW b \in Calls, NEW d \in Calls, state' # "closed",
           a.f = "SetClosing", b.f = "UpdateState", d.f = "TransportGone"
    PROVE  Fits(<<a, b>>) /\ Fits(<<a, b, d>>)
<1>1. Fits(<<a, b>>)
    <2> DEFINE c == <<a, b>>
    <2>1. Len(c) = 2 /\ c[1].f = "SetClosing" /\ c[2].f = "UpdateState"
        OBVIOUS
    <2> HIDE DEF c
    <2>2. \A i \in 1 .. Len(c) : (i = 1 /\ c[i].f = "SetClosing") \/ (i = 2 /\ c[i].f = "UpdateState")
        BY <2>1
    <2>3. Fits(c)
        BY <2>1, <2>2 DEF Fits, Resumed, Exposed, Control
    <2> QED
        BY <2>3 DEF c
<1>2. Fits(<<a, b, d>>)
    <2> DEFINE c == <<a, b, d>>
    <2>1. Len(c) = 3 /\ c[1].f = "SetClosing" /\ c[2].f = "UpdateState" /\ c[3].f = "TransportGone"
        OBVIOUS
    <2> HIDE DEF c
    <2>2. \A i \in 1 .. Len(c) : \/ i = 1 /\ c[i].f = "SetClosing"
                                 \/ i = 2 /\ c[i].f = "UpdateState"
                                 \/ i = 3 /\ c[i].f = "TransportGone"
        BY <2>1
    <2>3. Fits(c)
        BY <2>1, <2>2 DEF Fits, Resumed, Exposed, Control
    <2> QED
        BY <2>3 DEF c
<1> QED
    BY <1>1, <1>2

\* A refusal closes the channel: nothing that is wrong then waits below, unless
\* the message had blocked before.
LEMMA RefusedAlone ==
    ASSUME ~refused', Types, SendControl("error")
    PROVE  \A j \in DOMAIN todo : j > 1 => N(j) \notin Exposed
<1>1. refused' = (refused \/ Retrying)
    BY DEF SendControl
<1> QED
    BY <1>1 DEF Retrying, N, Exposed

\* The functions of the stack keep the order.
LEMMA NestingInternal == ASSUME ~refused', StackInv, Internal PROVE Nesting'
<1>0. Types /\ Nesting /\ TransportLeft
    BY DEF StackInv
<1>1. /\ Call("Close") \in Calls /\ Call("SetClosing") \in Calls /\ Call("UpdateState") \in Calls
      /\ Call("OnStateChange") \in Calls /\ Call("FlushControl") \in Calls /\ Call("SetOpen") \in Calls
      /\ Call("Deliver") \in Calls /\ Call("SetClosed") \in Calls /\ Call("SendControl") \in Calls
      /\ Call("DeliverFront") \in Calls /\ Call("PopReceived") \in Calls /\ Call("TransportGone") \in Calls
      /\ \A m \in Msgs : CallWith("OnMessage", m) \in Calls /\ CallWith("Send", m) \in Calls
    BY CallTypes DEF CallNames
<1>2. /\ Call("Close").f = "Close" /\ Call("SetClosing").f = "SetClosing" /\ Call("UpdateState").f = "UpdateState"
      /\ Call("OnStateChange").f = "OnStateChange" /\ Call("FlushControl").f = "FlushControl"
      /\ Call("SetOpen").f = "SetOpen" /\ Call("Deliver").f = "Deliver" /\ Call("SetClosed").f = "SetClosed"
      /\ Call("SendControl").f = "SendControl" /\ Call("DeliverFront").f = "DeliverFront"
      /\ Call("PopReceived").f = "PopReceived" /\ Call("TransportGone").f = "TransportGone"
      /\ \A m : CallWith("OnMessage", m).f = "OnMessage" /\ CallWith("Send", m).f = "Send"
    BY DEF Call, CallWith
<1>3. /\ <<>> \in Seq(Calls) /\ Fits(<<>>)
      /\ <<Call("Close")>> \in Seq(Calls) /\ Fits(<<Call("Close")>>)
      /\ <<Call("OnStateChange")>> \in Seq(Calls) /\ Fits(<<Call("OnStateChange")>>)
      /\ <<Call("SetClosed")>> \in Seq(Calls) /\ Fits(<<Call("SetClosed")>>)
      /\ \A m \in Msgs : <<CallWith("Send", m)>> \in Seq(Calls) /\ Fits(<<CallWith("Send", m)>>)
    BY <1>1, <1>2, PlainFits DEF Plain
<1>4. ASSUME NEW f, Running(f) PROVE Top = f /\ N(1) = f /\ 1 \in DOMAIN todo /\ todo # <<>>
    BY <1>0, <1>4, Runs
<1>5. CASE Close
    <2>1. Top = "Close"
        BY <1>4, <1>5 DEF Close
    <2>2. \A c : Undisturbed(c)
        BY <1>0, <1>5, <2>1, Quiet DEF Close, receiving, history, Control
    <2>3. CASE Stepped(<<>>)
        BY <1>0, <1>3, <2>2, <2>3, StackStep
    <2>4. CASE state # "closed" /\ Stepped(<<Call("SetClosing"), Call("UpdateState")>>)
        <3>1. state' # "closed"
            BY <1>5, <2>4 DEF Close
        <3>2. Fits(<<Call("SetClosing"), Call("UpdateState")>>)
            BY <1>1, <1>2, <3>1, ClosingFits
        <3>3. <<Call("SetClosing"), Call("UpdateState")>> \in Seq(Calls)
            BY <1>1
        <3> QED
            BY <1>0, <2>2, <2>4, <3>2, <3>3, StackStep
    <2> QED
        BY <1>0, <1>5, <2>3, <2>4, Returns
<1>6. ASSUME NEW f \in {"SetOpen", "SetClosing", "SetClosed"}, NEW s, SetState(f, s),
             (f = "SetOpen" /\ s = "open") \/ (f = "SetClosing" /\ s = "closing") \/ (f = "SetClosed" /\ s = "closed")
      PROVE  Nesting'
    <2>1. Top = f /\ N(1) = f /\ 1 \in DOMAIN todo
        BY <1>4, <1>6 DEF SetState
    <2>3. config' = config /\ ctrlq' = ctrlq /\ everWritable' = everWritable /\ recvq' = recvq /\ state' = s
        BY <1>6 DEF SetState, flags, receiving, history
    <2>2. \A c : Undisturbed(c)
        <3>1. CASE f = "SetOpen"
            <4>1. everWritable /\ state = "connecting"
                BY <1>0, <2>1, <3>1 DEF Nesting, Writable, Shielded, Exposed
            <4>2. \A i \in DOMAIN todo : i > 1 => N(i) \notin Exposed
                BY <1>0, <2>1, <3>1, Calm DEF Control
            <4> QED
                BY <1>0, <1>6, <2>1, <2>3, <3>1, <4>1, <4>2 DEF Undisturbed, Nesting
        <3>2. CASE f # "SetOpen"
            <4>1. Top \notin Control /\ state' \in {"closing", "closed"}
                BY <1>6, <2>1, <2>3, <3>2 DEF Control
            <4> QED
                BY <1>0, <2>3, <4>1, Quiet
        <3> QED
            BY <3>1, <3>2
    <2>4. Stepped(<<>>) \/ Stepped(<<Call("OnStateChange")>>)
        BY <1>0, <1>6, Returns
    <2> QED
        BY <1>0, <1>3, <2>2, <2>4, StackStep
<1>7. CASE UpdateState
    <2>1. Top = "UpdateState" /\ N(1) = "UpdateState" /\ 1 \in DOMAIN todo /\ todo # <<>>
        BY <1>4, <1>7 DEF UpdateState
    <2>3. config' = config /\ ctrlq' = ctrlq /\ everWritable' = everWritable /\ recvq' = recvq /\ state' = state
        BY <1>7 DEF UpdateState, receiving, history
    <2>2. \A c : Undisturbed(c)
        BY <1>0, <2>1, <2>3, Quiet DEF Control
    <2>4. CASE Stepped(<<>>) \/ Stepped(<<Call("SetClosed")>>)
        BY <1>0, <1>3, <2>2, <2>4, StackStep
    <2>5. CASE /\ state = "connecting" /\ everWritable
               /\ Stepped(<<Call("FlushControl"), Call("SetOpen"), Call("Deliver")>>)
        <3> DEFINE c == <<Call("FlushControl"), Call("SetOpen"), Call("Deliver")>>
        <3>1. c \in Seq(Calls) /\ Len(c) = 3
            BY <1>1
        <3>2. c[1].f = "FlushControl" /\ c[2].f = "SetOpen" /\ c[3].f = "Deliver"
            BY <1>2
        <3>3. Stepped(c)
            BY <2>5
        <3> HIDE DEF c
        <3>4. 1 = Len(todo)
            BY <1>0, <2>1, <2>5 DEF Nesting, Bottomed
        <3>5. Len(todo') = 3
            BY <2>1, <3>1, <3>3, <3>4 DEF Stepped
        <3>6. \A i \in 1 .. Len(c) : \/ i = 1 /\ c[i].f = "FlushControl"
                                     \/ i = 2 /\ c[i].f = "SetOpen"
                                     \/ i = 3 /\ c[i].f = "Deliver"
            BY <3>1, <3>2
        <3>8. todo'[3].f = "Deliver"
            BY <3>1, <3>2, <3>3 DEF Stepped
        <3>7. Fits(c)
            BY <2>3, <2>5, <3>1, <3>5, <3>6, <3>8 DEF Fits, Resumed, Exposed, Control
        <3> QED
            BY <1>0, <2>2, <3>1, <3>3, <3>7, StackStep
    <2> QED
        BY <1>0, <1>7, <2>4, <2>5, Returns
<1>8. ASSUME NEW r \in Outcomes, SendControl(r) PROVE Nesting'
    <2>1. Top = "SendControl" /\ N(1) = "SendControl" /\ 1 \in DOMAIN todo
        BY <1>4, <1>8 DEF SendControl
    <2>2. config' = config /\ everWritable' = everWritable /\ recvq' = recvq /\ state' = state
        BY <1>8 DEF SendControl, receiving, history
    <2>4. /\ state' = "open" => everWritable'
          /\ state \in {"closing", "closed"} \/ Top = "SetClosing" => state' \in {"closing", "closed"}
        BY <1>0, <2>1, <2>2 DEF Nesting, Writable
    <2>5. CASE r = "error" /\ Stepped(<<Call("Close")>>)
        <3>1. \A j \in DOMAIN todo : j > 1 => N(j) \notin Exposed
            BY <1>0, <1>8, <2>5, RefusedAlone
        <3>2. Undisturbed(<<Call("Close")>>)
            BY <2>1, <2>2, <2>4, <3>1 DEF Undisturbed
        <3> QED
            BY <1>0, <1>3, <2>5, <3>2, StackStep
    <2>6. CASE Stepped(<<>>)
        <3>1. Undisturbed(<<>>)
            BY <2>1, <2>2, <2>4 DEF Undisturbed
        <3> QED
            BY <1>0, <1>3, <2>6, <3>1, StackStep
    <2> QED
        BY <1>0, <1>8, <2>5, <2>6, Returns
<1>9. CASE FlushControl
    <2> DEFINE c == [i \in 1 .. ctrlq |-> Call("SendControl")]
    <2>1. Top = "FlushControl" /\ N(1) = "FlushControl" /\ 1 \in DOMAIN todo
        BY <1>4, <1>9 DEF FlushControl
    <2>2. c \in Seq(Calls) /\ Stepped(c)
        BY <1>0, <1>9, Returns
    <2>3. ctrlq \in Nat
        BY <1>0 DEF Types, DataTypes
    <2>4. Len(c) = ctrlq /\ (c # <<>> => ctrlq > 0) /\ \A i \in 1 .. Len(c) : c[i].f = "SendControl"
        BY <1>2, <2>3
    <2> HIDE DEF c
    <2>5. config' = config /\ everWritable' = everWritable /\ recvq' = recvq /\ state' = state /\ ctrlq' = 0
        BY <1>9 DEF FlushControl, flags, receiving, history
    <2>6. everWritable
        BY <1>0, <2>1 DEF Nesting, Writable, Control
    <2>8. Fits(c)
        BY <2>4, <2>5, <2>6 DEF Fits, Resumed, Exposed, Control
    <2>9. Undisturbed(c)
        BY <2>1, <2>4, <2>5, <2>6 DEF Undisturbed
    <2> QED
        BY <1>0, <2>2, <2>8, <2>9, StackStep
<1>10. CASE Deliver
    <2>1. Top = "Deliver" /\ N(1) = "Deliver" /\ 1 \in DOMAIN todo /\ todo # <<>>
        BY <1>4, <1>10 DEF Deliver
    <2>2. \A c : Undisturbed(c)
        BY <1>0, <1>10, <2>1, Quiet DEF Deliver, flags, receiving, history, Control
    <2>3. CASE Stepped(<<>>)
        BY <1>0, <1>3, <2>2, <2>3, StackStep
    <2>4. CASE Stepped(<<Call("DeliverFront")>>)
        <3> DEFINE c == <<Call("DeliverFront")>>
        <3>1. c \in Seq(Calls) /\ Len(c) = 1 /\ c[1].f = "DeliverFront" /\ Stepped(c)
            BY <1>1, <1>2, <2>4
        <3> HIDE DEF c
        <3>2. 1 = Len(todo)
            BY <1>0, <2>1 DEF Nesting, Bottomed
        <3>3. Len(todo') = 1
            BY <2>1, <3>1, <3>2 DEF Stepped
        <3>4. \A i \in 1 .. Len(c) : i = 1 /\ c[i].f = "DeliverFront"
            BY <3>1
        <3>5. Fits(c)
            BY <3>3, <3>4 DEF Fits, Exposed, Control
        <3> QED
            BY <1>0, <2>2, <3>1, <3>5, StackStep
    <2> QED
        BY <1>0, <1>10, <2>3, <2>4, ReturnsToo
<1>11. CASE DeliverFront
    <2>1. Top = "DeliverFront" /\ N(1) = "DeliverFront" /\ 1 \in DOMAIN todo /\ todo # <<>>
        BY <1>4, <1>11 DEF DeliverFront
    <2>2. \A c : Undisturbed(c)
        BY <1>0, <1>11, <2>1, Quiet DEF DeliverFront, flags, receiving, history, Control
    <2>3. CASE Stepped(<<>>)
        BY <1>0, <1>3, <2>2, <2>3, StackStep
    <2>4. CASE /\ recvq # <<>> /\ Head(recvq) \in Msgs
               /\ Stepped(<<CallWith("OnMessage", Head(recvq)), Call("PopReceived"), Call("DeliverFront")>>)
        <3> DEFINE c == <<CallWith("OnMessage", Head(recvq)), Call("PopReceived"), Call("DeliverFront")>>
        <3>1. c \in Seq(Calls) /\ Len(c) = 3 /\ Stepped(c)
            BY <1>1, <2>4
        <3>6. c[1].f = "OnMessage" /\ c[2].f = "PopReceived" /\ c[3].f = "DeliverFront"
            BY <1>2
        <3> HIDE DEF c
        <3>2. 1 = Len(todo)
            BY <1>0, <2>1 DEF Nesting, Bottomed
        <3>3. Len(todo') = 3 /\ recvq' = recvq
            BY <1>11, <2>1, <3>1, <3>2, SMTT(40) DEF Stepped, DeliverFront, receiving
        <3>4. \A i \in 1 .. Len(c) : \/ i = 1 /\ c[i].f = "OnMessage"
                                     \/ i = 2 /\ c[i].f = "PopReceived"
                                     \/ i = 3 /\ c[i].f = "DeliverFront"
            BY <3>1, <3>6
        <3>5. Fits(c)
            BY <2>4, <3>3, <3>4 DEF Fits, Exposed, Control, Resumed
        <3> QED
            BY <1>0, <2>2, <3>1, <3>5, StackStep
    <2> QED
        BY <1>0, <1>11, <2>3, <2>4, ReturnsToo
<1>12. CASE PopReceived
    <2>1. Top = "PopReceived"
        BY <1>4, <1>12 DEF PopReceived
    <2>2. \A i \in DOMAIN todo : i > 1 => N(i) \notin Exposed
        BY <1>0, <2>1, Calm DEF Control
    <2>3. Undisturbed(<<>>)
        BY <1>0, <1>12, <2>1, <2>2 DEF PopReceived, Undisturbed, flags, history, Nesting, Writable
    <2>4. Stepped(<<>>)
        BY <1>0, <1>12, ReturnsToo
    <2> QED
        BY <1>0, <1>3, <2>3, <2>4, StackStep
<1>13. CASE OnStateChange \/ OnMessage
    <2>1. Top \in {"OnStateChange", "OnMessage"} /\ todo # <<>> /\ React
        BY <1>4, <1>13 DEF OnStateChange, OnMessage
    <2>2. \A c : Undisturbed(c)
        BY <1>0, <1>13, <2>1, Quiet DEF OnStateChange, OnMessage, flags, receiving, history, Control
    <2>3. ASSUME NEW z \in Nat, Stepped(<<CallWith("Send", Msg(0, z))>>) PROVE Nesting'
        <3>1. Msg(0, z) \in Msgs
            BY CallTypes
        <3> QED
            BY <1>0, <1>3, <2>2, <2>3, <3>1, StackStep
    <2>4. CASE Stepped(<<>>) \/ Stepped(<<Call("Close")>>)
        BY <1>0, <1>3, <2>2, <2>4, StackStep
    <2> QED
        BY <1>0, <2>1, <2>3, <2>4, ReturnsToo
<1>14. CASE TransportGone
    <2>1. Top = "TransportGone"
        BY <1>4, <1>14 DEF TransportGone
    <2>2. Undisturbed(<<>>)
        BY <1>0, <1>14, <2>1, Quiet DEF TransportGone, flags, receiving, history, Control
    <2>3. Stepped(<<>>)
        BY <1>0, <1>14, ReturnsToo
    <2> QED
        BY <1>0, <1>3, <2>2, <2>3, StackStep
<1>15. ASSUME NEW r, Send(r) PROVE Nesting'
    <2>1. Top = "Send"
        BY <1>4, <1>15 DEF Send
    <2>2. \A c : Undisturbed(c)
        BY <1>0, <1>15, <2>1, Quiet DEF Send, flags, receiving, Control
    <2>3. Stepped(<<>>) \/ Stepped(<<Call("Close")>>)
        BY <1>0, <1>15, ReturnsToo
    <2> QED
        BY <1>0, <1>3, <2>2, <2>3, StackStep
<1>16. ASSUME NEW r, FlushData(r) PROVE Nesting'
    <2>1. Top = "FlushData"
        BY <1>4, <1>16 DEF FlushData
    <2>4. config' = config /\ ctrlq' = ctrlq /\ everWritable' = everWritable /\ recvq' = recvq /\ state' = state
        BY <1>16 DEF FlushData, flags, receiving, history
    <2>2. \A c : Undisturbed(c)
        BY <1>0, <2>1, <2>4, Quiet DEF Control
    <2>3. CASE Stepped(<<>>) \/ Stepped(<<Call("Close")>>)
        BY <1>0, <1>3, <2>2, <2>3, StackStep
    <2>5. CASE todo' = todo
        BY <1>0, <2>4, <2>5 DEF Nesting, Below, Bottomed, Shielded, Writable, ClosingBegins, N, Top
    <2> QED
        BY <1>0, <1>16, <2>3, <2>5, ReturnsToo
<1>17. CASE SetState("SetOpen", "open") \/ SetState("SetClosing", "closing") \/ SetState("SetClosed", "closed")
    BY <1>6, <1>17
<1> QED
    BY <1>5, <1>7, <1>8, <1>9, <1>10, <1>11, <1>12, <1>13, <1>14, <1>15, <1>16, <1>17 DEF Internal

\* And so do the events, which come when the stack is empty.
LEMMA NestingEvent == ASSUME StackInv, Event PROVE Nesting'
<1>0. Types /\ Nesting
    BY DEF StackInv
<1>1. /\ Call("Close") \in Calls /\ Call("SetClosing") \in Calls /\ Call("UpdateState") \in Calls
      /\ Call("FlushControl") \in Calls /\ Call("FlushData") \in Calls /\ Call("Deliver") \in Calls
      /\ Call("SendControl") \in Calls /\ Call("TransportGone") \in Calls
      /\ \A m \in Msgs : CallWith("OnMessage", m) \in Calls /\ CallWith("Send", m) \in Calls
    BY CallTypes DEF CallNames
<1>2. /\ Call("Close").f = "Close" /\ Call("SetClosing").f = "SetClosing" /\ Call("UpdateState").f = "UpdateState"
      /\ Call("FlushControl").f = "FlushControl" /\ Call("FlushData").f = "FlushData"
      /\ Call("Deliver").f = "Deliver" /\ Call("SendControl").f = "SendControl"
      /\ Call("TransportGone").f = "TransportGone"
      /\ \A m : CallWith("OnMessage", m).f = "OnMessage" /\ CallWith("Send", m).f = "Send"
    BY DEF Call, CallWith
<1>3. /\ <<>> \in Seq(Calls) /\ Fits(<<>>)
      /\ <<Call("Close")>> \in Seq(Calls) /\ Fits(<<Call("Close")>>)
      /\ <<Call("TransportGone")>> \in Seq(Calls) /\ Fits(<<Call("TransportGone")>>)
      /\ \A m \in Msgs : /\ <<CallWith("Send", m)>> \in Seq(Calls) /\ Fits(<<CallWith("Send", m)>>)
                         /\ <<CallWith("OnMessage", m)>> \in Seq(Calls) /\ Fits(<<CallWith("OnMessage", m)>>)
    BY <1>1, <1>2, PlainFits DEF Plain
<1>4. \A z \in Sizes : Msg(0, z) \in Msgs /\ Msg(arrived + 1, z) \in Msgs
    BY <1>0 DEF Sizes, Types, DataTypes, Msg, Msgs
\* An event that puts the calls c on the stack.
<1>5. ASSUME NEW c \in Seq(Calls), todo = <<>>, todo' = c, Fits(c), config' = config, ctrlq' = ctrlq,
             everWritable => everWritable', state' = state
      PROVE  Nesting'
    <2>1. Stepped(c)
        BY <1>0, <1>5, Stepping
    <2>2. Undisturbed(c)
        BY <1>0, <1>5, QuietEvent
    <2> QED
        BY <1>0, <1>5, <2>1, <2>2, StackStep
<1>6. ASSUME NEW z \in Sizes, AppSends(z) PROVE Nesting'
    BY <1>0, <1>3, <1>4, <1>5, <1>6, Arrives DEF AppSends, flags, history
<1>7. CASE AppCloses
    BY <1>0, <1>3, <1>5, <1>7, Arrives DEF AppCloses, flags, history
<1>8. CASE UnregisterObserver \/ SetSctpSid \/ OnTransportChannelCreated \/ OnAckReceived
    <2>1. todo = <<>> /\ todo' = <<>>
        BY <1>0, <1>8, Arrives
    <2>2. config' = config /\ ctrlq' = ctrlq /\ everWritable' = everWritable /\ state' = state
        BY <1>8 DEF UnregisterObserver, SetSctpSid, OnTransportChannelCreated, OnAckReceived, flags, history
    <2> QED
        BY <1>3, <1>5, <2>1, <2>2
<1>9. CASE RegisterObserver
    <2> DEFINE c == <<Call("Deliver")>>
    <2>1. c \in Seq(Calls) /\ Len(c) = 1 /\ c[1].f = "Deliver"
        BY <1>1, <1>2
    <2>2. todo = <<>> /\ todo' = c
        BY <1>0, <1>9, Arrives
    <2> HIDE DEF c
    <2>3. Len(todo') = 1 /\ \A i \in 1 .. Len(c) : i = 1 /\ c[i].f = "Deliver"
        BY <2>1, <2>2
    <2>4. Fits(c)
        BY <2>3 DEF Fits, Exposed, Control
    <2>5. config' = config /\ ctrlq' = ctrlq /\ everWritable' = everWritable /\ state' = state
        BY <1>9 DEF RegisterObserver, flags, history
    <2> QED
        BY <1>5, <2>1, <2>2, <2>4, <2>5
<1>10. CASE SetSsrc
    <2> DEFINE c == <<Call("UpdateState")>>
    <2>1. c \in Seq(Calls) /\ Len(c) = 1 /\ c[1].f = "UpdateState"
        BY <1>1, <1>2
    <2>2. todo = <<>> /\ todo' = c
        BY <1>0, <1>10, Arrives
    <2> HIDE DEF c
    <2>3. Len(todo') = 1 /\ \A i \in 1 .. Len(c) : i = 1 /\ c[i].f = "UpdateState"
        BY <2>1, <2>2
    <2>4. Fits(c)
        BY <2>3 DEF Fits, Exposed, Control
    <2>5. config' = config /\ ctrlq' = ctrlq /\ everWritable' = everWritable /\ state' = state
        BY <1>10 DEF SetSsrc, history
    <2> QED
        BY <1>5, <2>1, <2>2, <2>4, <2>5
<1>11. CASE RemotePeerRequestClose \/ OnDataEngineClose
    <2>1. config' = config /\ ctrlq' = ctrlq /\ everWritable' = everWritable /\ state' = state
        BY <1>11 DEF RemotePeerRequestClose, OnDataEngineClose, DoClose, history
    <2>2. state # "closed" => /\ Fits(<<Call("SetClosing"), Call("UpdateState")>>)
                              /\ Fits(<<Call("SetClosing"), Call("UpdateState"), Call("TransportGone")>>)
        BY <1>1, <1>2, <2>1, ClosingFits
    <2>3. /\ <<Call("SetClosing"), Call("UpdateState")>> \in Seq(Calls)
          /\ <<Call("SetClosing"), Call("UpdateState"), Call("TransportGone")>> \in Seq(Calls)
        BY <1>1
    <2>4. CASE RemotePeerRequestClose
        <3>1. state # "closed" /\ todo = <<>> /\ todo' = <<Call("SetClosing"), Call("UpdateState")>>
            BY <1>0, <2>4, Arrives
        <3> QED
            BY <1>5, <2>1, <2>2, <2>3, <3>1
    <2>5. CASE OnDataEngineClose
        <3>1. /\ todo = <<>>
              /\ \/ state = "closed" /\ todo' = <<Call("TransportGone")>>
                 \/ state # "closed" /\ todo' = <<Call("SetClosing"), Call("UpdateState"), Call("TransportGone")>>
            BY <1>0, <2>5, Arrives
        <3> QED
            BY <1>3, <1>5, <2>1, <2>2, <2>3, <3>1
    <2> QED
        BY <1>11, <2>4, <2>5
<1>12. CASE OnChannelReady
    <2>1. config' = config /\ ctrlq' = ctrlq /\ everWritable' /\ state' = state /\ todo = <<>>
        BY <1>12 DEF OnChannelReady, Idle, history
    <2>2. CASE state = "open" /\ todo' = <<Call("FlushControl"), Call("FlushData")>>
        <3> DEFINE c == <<Call("FlushControl"), Call("FlushData")>>
        <3>1. c \in Seq(Calls) /\ Len(c) = 2 /\ c[1].f = "FlushControl" /\ c[2].f = "FlushData" /\ todo' = c
            BY <1>1, <1>2, <2>2
        <3> HIDE DEF c
        <3>2. \A i \in 1 .. Len(c) : \/ i = 1 /\ c[i].f = "FlushControl"
                                     \/ i = 2 /\ c[i].f = "FlushData"
            BY <3>1
        <3>3. Fits(c)
            BY <2>1, <2>2, <3>1, <3>2 DEF Fits, Resumed, Exposed, Control
        <3> QED
            BY <1>5, <2>1, <3>1, <3>3
    <2>3. CASE todo' = <<>>
        BY <1>3, <1>5, <2>1, <2>3
    <2>4. CASE todo' = <<Call("SendControl"), Call("UpdateState")>>
        <3> DEFINE c == <<Call("SendControl"), Call("UpdateState")>>
        <3>1. c \in Seq(Calls) /\ Len(c) = 2 /\ c[1].f = "SendControl" /\ c[2].f = "UpdateState" /\ todo' = c
            BY <1>1, <1>2, <2>4
        <3> HIDE DEF c
        <3>2. \A i \in 1 .. Len(c) : \/ i = 1 /\ c[i].f = "SendControl"
                                     \/ i = 2 /\ c[i].f = "UpdateState" /\ Len(todo') = 2
            BY <3>1
        <3>3. Fits(c)
            BY <2>1, <3>2 DEF Fits, Resumed, Exposed, Control
        <3> QED
            BY <1>5, <2>1, <3>1, <3>3
    <2>5. CASE todo' = <<Call("UpdateState")>>
        <3> DEFINE c == <<Call("UpdateState")>>
        <3>1. c \in Seq(Calls) /\ Len(c) = 1 /\ c[1].f = "UpdateState" /\ todo' = c
            BY <1>1, <1>2, <2>5
        <3> HIDE DEF c
        <3>2. Len(todo') = 1 /\ \A i \in 1 .. Len(c) : i = 1 /\ c[i].f = "UpdateState"
            BY <3>1
        <3>3. Fits(c)
            BY <3>2 DEF Fits, Exposed, Control
        <3> QED
            BY <1>5, <2>1, <3>1, <3>3
    <2> QED
        BY <1>0, <1>12, <2>2, <2>3, <2>4, <2>5, Arrives
<1>13. ASSUME NEW z \in Sizes, OnDataReceived(z) PROVE Nesting'
    <2>1. config' = config /\ ctrlq' = ctrlq /\ everWritable' = everWritable /\ state' = state
        BY <1>13 DEF OnDataReceived
    <2>2. /\ todo = <<>>
          /\ todo' \in {<<>>, <<Call("Close")>>, <<CallWith("OnMessage", Msg(arrived + 1, z))>>}
        BY <1>0, <1>13, DataArrive
    <2> QED
        BY <1>3, <1>4, <1>5, <2>1, <2>2
<1> QED
    BY <1>6, <1>7, <1>8, <1>9, <1>10, <1>11, <1>12, <1>13 DEF Event

-----------------------------------------------------------------------------
(***************************************************************************)
(* The transport goes when the channel is closed.                           *)
(***************************************************************************)
LEMMA LeavingStep ==
    ASSUME Types, Leaving, NEW c \in Seq(Calls), Stepped(c),
           \A i \in 1 .. Len(c) : c[i].f # "TransportGone",
           todo # <<>> =>
              /\ state = "closed" => state' = "closed"
              /\ ~sendSsrcSet /\ ~recvSsrcSet => ~sendSsrcSet' /\ ~recvSsrcSet'
              /\ \/ Top = "SetClosing" /\ state' = "closing"
                 \/ Top = "SetClosed" /\ state' = "closed"
                 \/ /\ Top = "UpdateState" /\ state' = state
                    /\ state = "closing" /\ ~sendSsrcSet /\ ~recvSsrcSet => Len(c) > 0 /\ c[1].f = "SetClosed"
                 \/ /\ Top \notin {"SetClosing", "SetClosed", "UpdateState"}
                    /\ state = "closing" => state' = "closing"
    PROVE  Leaving'
<1>0. Shifted(Len(c)) /\ Len(c) \in Nat
    BY Shift
<1>1. /\ Len(todo) \in Nat /\ DOMAIN todo = 1 .. Len(todo)
      /\ Len(todo') \in Nat /\ DOMAIN todo' = 1 .. Len(todo')
    BY <1>0 DEF Shifted
<1> SUFFICES ASSUME NEW i \in DOMAIN todo', todo'[i].f = "TransportGone", state' # "closed"
             PROVE  /\ ~sendSsrcSet' /\ ~recvSsrcSet' /\ state' = "closing"
                    /\ Top' = "SetClosed" \/ \E j \in DOMAIN todo' : j < i /\ todo'[j].f = "UpdateState"
    BY DEF Leaving, N
<1>2. i > Len(c)
    BY <1>0, <1>1 DEF Stepped
<1>3. PICK k \in DOMAIN todo : k > 1 /\ i = k + Len(c) - 1 /\ todo'[i] = todo[k]
    BY <1>0, <1>2 DEF Shifted
<1>4. todo # <<>> /\ N(k) = "TransportGone" /\ state # "closed" /\ Top = N(1)
    BY <1>1, <1>3 DEF N, Top
<1>5. /\ ~sendSsrcSet /\ ~recvSsrcSet
      /\ \/ Top = "SetClosing" /\ \E j \in DOMAIN todo : 1 < j /\ j < k /\ N(j) = "UpdateState"
         \/ /\ state = "closing"
            /\ Top = "SetClosed" \/ \E j \in DOMAIN todo : j < k /\ N(j) = "UpdateState"
    BY <1>4 DEF Leaving
<1>6. ~sendSsrcSet' /\ ~recvSsrcSet' /\ state' = "closing"
    BY <1>4, <1>5
<1>7. CASE Top = "UpdateState"
    <2>1. Len(c) > 0 /\ c[1].f = "SetClosed"
        BY <1>4, <1>5, <1>7
    <2>2. todo' # <<>> /\ todo'[1] = c[1]
        BY <1>0, <2>1 DEF Stepped
    <2>3. Top' = "SetClosed"
        BY <2>1, <2>2 DEF Top, N
    <2> QED
        BY <1>6, <2>3
<1>8. CASE Top # "UpdateState"
    <2>1. PICK j \in DOMAIN todo : j < k /\ N(j) = "UpdateState"
        BY <1>4, <1>5, <1>6
    <2>2. j # 1
        BY <1>4, <1>8, <2>1
    <2>3. j > 1
        BY <1>1, <2>2
    <2>4. j + Len(c) - 1 \in DOMAIN todo' /\ todo'[j + Len(c) - 1] = todo[j]
        BY <1>0, <2>3 DEF Shifted
    <2>5. j + Len(c) - 1 < i
        BY <1>0, <1>1, <1>3, <2>1
    <2> QED
        BY <1>6, <2>1, <2>4, <2>5 DEF N
<1> QED
    BY <1>7, <1>8

\* No call of the list takes the transport away.
Stays(c) == c \in Seq(Calls) /\ \A i \in 1 .. Len(c) : c[i].f # "TransportGone"

LEMMA ListsStay ==
    /\ Stays(<<>>)
    /\ \A a \in Calls : a.f # "TransportGone" => Stays(<<a>>)
    /\ \A a, b \in Calls : a.f # "TransportGone" /\ b.f # "TransportGone" => Stays(<<a, b>>)
    /\ \A a, b, d \in Calls : a.f # "TransportGone" /\ b.f # "TransportGone" /\ d.f # "TransportGone"
                                 => Stays(<<a, b, d>>)
<1>1. Stays(<<>>)
    BY DEF Stays
<1>2. ASSUME NEW a \in Calls, a.f # "TransportGone" PROVE Stays(<<a>>)
    BY <1>2 DEF Stays
<1>3. ASSUME NEW a \in Calls, NEW b \in Calls, a.f # "TransportGone", b.f # "TransportGone" PROVE Stays(<<a, b>>)
    BY <1>3 DEF Stays
<1>4. ASSUME NEW a \in Calls, NEW b \in Calls, NEW d \in Calls,
             a.f # "TransportGone", b.f # "TransportGone", d.f # "TransportGone"
      PROVE  Stays(<<a, b, d>>)
    <2> DEFINE c == <<a, b, d>>
    <2>1. c \in Seq(Calls) /\ Len(c) = 3 /\ c[1] = a /\ c[2] = b /\ c[3] = d
        OBVIOUS
    <2> HIDE DEF c
    <2>2. \A i \in 1 .. Len(c) : i = 1 \/ i = 2 \/ i = 3
        BY <2>1
    <2>3. Stays(c)
        BY <1>4, <2>1, <2>2 DEF Stays
    <2> QED
        BY <2>3 DEF c
<1> QED
    BY <1>1, <1>2, <1>3, <1>4

\* The steps that leave the state and the SSRCs.
LEMMA LeavingQuiet ==
    ASSUME Types, Leaving, NEW c, Stays(c), Stepped(c),
           todo # <<>> => /\ state' = state /\ Top \notin {"SetClosing", "SetClosed", "UpdateState"}
                          /\ ~sendSsrcSet /\ ~recvSsrcSet => ~sendSsrcSet' /\ ~recvSsrcSet'
    PROVE  Leaving'
BY LeavingStep DEF Stays

LEMMA LeavingInternal == ASSUME StackInv, Internal PROVE Leaving'
<1>0. Types /\ Nesting /\ Leaving
    BY DEF StackInv
<1>1. /\ Call("Close") \in Calls /\ Call("SetClosing") \in Calls /\ Call("UpdateState") \in Calls
      /\ Call("OnStateChange") \in Calls /\ Call("FlushControl") \in Calls /\ Call("SetOpen") \in Calls
      /\ Call("Deliver") \in Calls /\ Call("SetClosed") \in Calls /\ Call("SendControl") \in Calls
      /\ Call("DeliverFront") \in Calls /\ Call("PopReceived") \in Calls
      /\ \A m \in Msgs : CallWith("OnMessage", m) \in Calls /\ CallWith("Send", m) \in Calls
    BY CallTypes DEF CallNames
<1>2. /\ Call("Close").f = "Close" /\ Call("SetClosing").f = "SetClosing" /\ Call("UpdateState").f = "UpdateState"
      /\ Call("OnStateChange").f = "OnStateChange" /\ Call("FlushControl").f = "FlushControl"
      /\ Call("SetOpen").f = "SetOpen" /\ Call("Deliver").f = "Deliver" /\ Call("SetClosed").f = "SetClosed"
      /\ Call("SendControl").f = "SendControl" /\ Call("DeliverFront").f = "DeliverFront"
      /\ Call("PopReceived").f = "PopReceived"
      /\ \A m : CallWith("OnMessage", m).f = "OnMessage" /\ CallWith("Send", m).f = "Send"
    BY DEF Call, CallWith
<1>3. /\ Stays(<<>>) /\ Stays(<<Call("Close")>>) /\ Stays(<<Call("OnStateChange")>>)
      /\ Stays(<<Call("SetClosed")>>) /\ Stays(<<Call("DeliverFront")>>)
      /\ Stays(<<Call("SetClosing"), Call("UpdateState")>>)
      /\ Stays(<<Call("FlushControl"), Call("SetOpen"), Call("Deliver")>>)
      /\ \A m \in Msgs : /\ Stays(<<CallWith("Send", m)>>)
                         /\ Stays(<<CallWith("OnMessage", m), Call("PopReceived"), Call("DeliverFront")>>)
    BY <1>1, <1>2, ListsStay
<1>4. ASSUME NEW f, Running(f) PROVE Top = f /\ N(1) = f /\ 1 \in DOMAIN todo /\ todo # <<>>
    BY <1>0, <1>4, Runs
<1>5. CASE Close
    <2>1. Top = "Close" /\ state' = state /\ (~sendSsrcSet => ~sendSsrcSet') /\ recvSsrcSet' = recvSsrcSet
        BY <1>4, <1>5 DEF Close
    <2> QED
        BY <1>0, <1>3, <1>5, <2>1, LeavingQuiet, Returns
<1>6. ASSUME NEW f \in {"SetOpen", "SetClosing", "SetClosed"}, NEW s, SetState(f, s),
             (f = "SetOpen" /\ s = "open") \/ (f = "SetClosing" /\ s = "closing") \/ (f = "SetClosed" /\ s = "closed")
      PROVE  Leaving'
    <2>1. Top = f /\ N(1) = f /\ 1 \in DOMAIN todo
        BY <1>4, <1>6 DEF SetState
    <2>2. state' = s /\ sendSsrcSet' = sendSsrcSet /\ recvSsrcSet' = recvSsrcSet
        BY <1>6 DEF SetState, flags
    <2>3. /\ f = "SetOpen" => state = "connecting"
          /\ f = "SetClosing" => state # "closed"
        BY <1>0, <2>1 DEF Nesting, Shielded, Exposed, ClosingBegins
    <2>4. Stepped(<<>>) \/ Stepped(<<Call("OnStateChange")>>)
        BY <1>0, <1>6, Returns
    <2>5. PICK c \in {<<>>, <<Call("OnStateChange")>>} : Stepped(c) /\ Stays(c)
        BY <1>3, <2>4
    <2> QED
        BY <1>0, <1>6, <2>1, <2>2, <2>3, <2>5, LeavingStep DEF Stays
<1>7. CASE UpdateState
    <2>1. Top = "UpdateState" /\ N(1) = "UpdateState" /\ 1 \in DOMAIN todo /\ todo # <<>>
        BY <1>4, <1>7 DEF UpdateState
    <2>2. state' = state /\ sendSsrcSet' = sendSsrcSet /\ recvSsrcSet' = recvSsrcSet
        BY <1>7 DEF UpdateState
    <2>3. ASSUME NEW c, Stepped(c), Stays(c), state = "closing" => sendSsrcSet \/ recvSsrcSet PROVE Leaving'
        BY <1>0, <2>1, <2>2, <2>3, LeavingStep DEF Stays
    <2>4. CASE Stepped(<<Call("SetClosed")>>)
        <3> DEFINE c == <<Call("SetClosed")>>
        <3>1. Len(c) = 1 /\ c[1].f = "SetClosed" /\ Stepped(c) /\ Stays(c)
            BY <1>2, <1>3, <2>4
        <3> HIDE DEF c
        <3> QED
            BY <1>0, <2>1, <2>2, <3>1, LeavingStep DEF Stays
    <2> QED
        BY <1>0, <1>3, <1>7, <2>3, <2>4, Returns
<1>8. ASSUME NEW r \in Outcomes, SendControl(r) PROVE Leaving'
    <2>1. Top = "SendControl" /\ state' = state /\ sendSsrcSet' = sendSsrcSet /\ recvSsrcSet' = recvSsrcSet
        BY <1>4, <1>8 DEF SendControl
    <2> QED
        BY <1>0, <1>3, <1>8, <2>1, LeavingQuiet, Returns
<1>9. CASE FlushControl
    <2> DEFINE c == [i \in 1 .. ctrlq |-> Call("SendControl")]
    <2>1. Top = "FlushControl" /\ state' = state /\ sendSsrcSet' = sendSsrcSet /\ recvSsrcSet' = recvSsrcSet
        BY <1>4, <1>9 DEF FlushControl, flags
    <2>2. c \in Seq(Calls) /\ Stepped(c)
        BY <1>0, <1>9, Returns
    <2>3. \A i \in 1 .. Len(c) : c[i].f = "SendControl"
        <3>1. ctrlq \in Nat
            BY <1>0 DEF Types, DataTypes
        <3> QED
            BY <1>2, <3>1
    <2> HIDE DEF c
    <2> QED
        BY <1>0, <2>1, <2>2, <2>3, LeavingQuiet DEF Stays
<1>10. CASE Deliver \/ DeliverFront \/ PopReceived \/ TransportGone
    <2>1. /\ Top \in {"Deliver", "DeliverFront", "PopReceived", "TransportGone"}
          /\ state' = state /\ sendSsrcSet' = sendSsrcSet /\ recvSsrcSet' = recvSsrcSet
        BY <1>4, <1>10 DEF Deliver, DeliverFront, PopReceived, TransportGone, flags
    <2>2. \E c : Stepped(c) /\ Stays(c)
        BY <1>0, <1>3, <1>10, ReturnsToo
    <2> QED
        BY <1>0, <2>1, <2>2, LeavingQuiet
<1>11. CASE OnStateChange \/ OnMessage
    <2>1. Top \in {"OnStateChange", "OnMessage"} /\ todo # <<>> /\ React
        BY <1>4, <1>11 DEF OnStateChange, OnMessage
    <2>2. state' = state /\ sendSsrcSet' = sendSsrcSet /\ recvSsrcSet' = recvSsrcSet
        BY <1>11 DEF OnStateChange, OnMessage, flags
    <2>3. \A z \in Nat : Msg(0, z) \in Msgs
        BY CallTypes
    <2>4. \E c : Stepped(c) /\ Stays(c)
        BY <1>0, <1>3, <2>1, <2>3, ReturnsToo
    <2> QED
        BY <1>0, <2>1, <2>2, <2>4, LeavingQuiet
<1>12. ASSUME NEW r, Send(r) PROVE Leaving'
    <2>1. Top = "Send" /\ state' = state /\ sendSsrcSet' = sendSsrcSet /\ recvSsrcSet' = recvSsrcSet
        BY <1>4, <1>12 DEF Send, flags
    <2> QED
        BY <1>0, <1>3, <1>12, <2>1, LeavingQuiet, ReturnsToo
<1>13. ASSUME NEW r, FlushData(r) PROVE Leaving'
    <2>1. Top = "FlushData" /\ state' = state /\ sendSsrcSet' = sendSsrcSet /\ recvSsrcSet' = recvSsrcSet
        BY <1>4, <1>13 DEF FlushData, flags
    <2>2. CASE todo' = todo
        BY <1>0, <2>1, <2>2 DEF Leaving, N, Top
    <2> QED
        BY <1>0, <1>3, <1>13, <2>1, <2>2, LeavingQuiet, ReturnsToo
<1>14. CASE SetState("SetOpen", "open") \/ SetState("SetClosing", "closing") \/ SetState("SetClosed", "closed")
    BY <1>6, <1>14
<1> QED
    BY <1>5, <1>7, <1>8, <1>9, <1>10, <1>11, <1>12, <1>13, <1>14 DEF Internal

LEMMA LeavingEvent == ASSUME StackInv, Event PROVE Leaving'
<1>0. Types /\ todo = <<>>
    BY DEF StackInv, Event, AppSends, OnDataReceived, AppCloses, RegisterObserver, UnregisterObserver,
           RemotePeerRequestClose, OnDataEngineClose, DoClose, SetSctpSid, OnTransportChannelCreated,
           SetSsrc, OnChannelReady, OnAckReceived, Idle
<1>1. CASE OnDataEngineClose
    <2>1. CASE state = "closed"
        BY <1>1, <2>1 DEF OnDataEngineClose, DoClose, Leaving
    <2>2. CASE state # "closed"
        <3>1. todo' = <<Call("SetClosing"), Call("UpdateState"), Call("TransportGone")>>
            BY <1>0, <1>1, <2>2, Arrives
        <3>2. DOMAIN todo' = 1 .. 3 /\ todo' # <<>>
            BY <3>1
        <3>3. todo'[1].f = "SetClosing" /\ todo'[2].f = "UpdateState" /\ todo'[3].f = "TransportGone"
            BY <3>1 DEF Call
        <3>4. ~sendSsrcSet' /\ ~recvSsrcSet'
            BY <1>1, <2>2 DEF OnDataEngineClose, DoClose
        <3>5. Top' = "SetClosing"
            BY <3>2, <3>3 DEF Top, N
        <3>6. ASSUME NEW i \in DOMAIN todo', todo'[i].f = "TransportGone"
              PROVE  \E j \in DOMAIN todo' : 1 < j /\ j < i /\ todo'[j].f = "UpdateState"
            <4>1. i = 3
                BY <3>2, <3>3, <3>6
            <4> QED
                BY <3>2, <3>3, <4>1
        <3> QED
            BY <3>4, <3>5, <3>6 DEF Leaving, N
    <2> QED
        BY <2>1, <2>2
<1>2. CASE ~OnDataEngineClose
    <2>1. \A i \in DOMAIN todo' : todo'[i].f # "TransportGone"
        <3>1. ASSUME NEW z, AppSends(z) \/ OnDataReceived(z) PROVE \A i \in DOMAIN todo' : todo'[i].f # "TransportGone"
            <4>1. todo' \in {<<>>, <<Call("Close")>>, <<CallWith("OnMessage", Msg(arrived + 1, z))>>,
                             <<CallWith("Send", Msg(0, z))>>}
                BY <1>0, <3>1, DataArrive, Arrives
            <4> QED
                BY <4>1 DEF Call, CallWith
        <3>2. CASE AppCloses \/ RegisterObserver \/ UnregisterObserver \/ SetSctpSid
                   \/ OnTransportChannelCreated \/ OnAckReceived \/ RemotePeerRequestClose
            <4>1. todo' \in {<<>>, <<Call("Close")>>, <<Call("Deliver")>>, <<Call("SetClosing"), Call("UpdateState")>>}
                BY <1>0, <3>2, Arrives
            <4> QED
                BY <4>1 DEF Call
        <3>3. CASE SetSsrc \/ OnChannelReady
            <4>1. todo' \in {<<>>, <<Call("UpdateState")>>, <<Call("FlushControl"), Call("FlushData")>>,
                             <<Call("SendControl"), Call("UpdateState")>>}
                BY <1>0, <3>3, Arrives
            <4> QED
                BY <4>1 DEF Call
        <3> QED
            BY <1>2, <3>1, <3>2, <3>3 DEF Event
    <2> QED
        BY <2>1 DEF Leaving, N
<1> QED
    BY <1>1, <1>2

LEMMA LeftNext == ASSUME StackInv, Next PROVE TransportLeft'
<1>0. Types /\ Nesting /\ TransportLeft /\ Leaving
    BY DEF StackInv
<1>1. CASE Close \/ FlushControl \/ Deliver \/ DeliverFront \/ PopReceived \/ OnStateChange \/ OnMessage
    BY <1>0, <1>1 DEF TransportLeft, Close, FlushControl, Deliver, DeliverFront, PopReceived, OnStateChange,
                      OnMessage, flags, outside
<1>2. CASE UpdateState
    <2>1. connected' => connected \/ transport = "up"
        BY <1>2 DEF UpdateState, DisconnectFromTransport
    <2>2. everWritable' = everWritable /\ posted' = posted /\ transport' = transport /\ state' = state
        BY <1>2 DEF UpdateState
    <2> QED
        BY <1>0, <2>1, <2>2 DEF TransportLeft
<1>3. CASE SetState("SetOpen", "open") \/ SetState("SetClosing", "closing") \/ SetState("SetClosed", "closed")
    <2>1. \/ state = "connecting" /\ state' = "open"
          \/ state # "closed" /\ state' = "closing"
          \/ state' = "closed"
        <3>1. CASE SetState("SetOpen", "open")
            <4>1. N(1) = "SetOpen" /\ 1 \in DOMAIN todo
                BY <1>0, <3>1, Runs DEF SetState
            <4> QED
                BY <1>0, <3>1, <4>1 DEF SetState, Nesting, Shielded, Exposed
        <3>2. CASE SetState("SetClosing", "closing")
            <4>1. Top = "SetClosing"
                BY <1>0, <3>2, Runs DEF SetState
            <4> QED
                BY <1>0, <3>2, <4>1 DEF SetState, Nesting, ClosingBegins
        <3>3. CASE SetState("SetClosed", "closed")
            BY <3>3 DEF SetState
        <3> QED
            BY <1>3, <3>1, <3>2, <3>3
    <2> QED
        BY <1>0, <1>3, <2>1 DEF TransportLeft, SetState, flags, outside
<1>4. ASSUME NEW r, SendControl(r) \/ Send(r) \/ FlushData(r) PROVE TransportLeft'
    BY <1>0, <1>4 DEF TransportLeft, SendControl, Send, FlushData, flags, outside
<1>5. CASE TransportGone
    <2>1. Top = "TransportGone" /\ N(1) = "TransportGone" /\ 1 \in DOMAIN todo /\ DOMAIN todo = 1 .. Len(todo)
        BY <1>0, <1>5, Runs DEF TransportGone
    <2>2. \A j \in DOMAIN todo : ~(j < 1)
        BY <2>1
    <2>3. state = "closed"
        BY <1>0, <2>1, <2>2 DEF Leaving
    <2> QED
        BY <1>5, <2>3 DEF TransportLeft, TransportGone
<1>6. ASSUME NEW z, AppSends(z) \/ OnDataReceived(z) PROVE TransportLeft'
    BY <1>0, <1>6 DEF TransportLeft, AppSends, OnDataReceived, flags, outside
<1>7. CASE AppCloses \/ RegisterObserver \/ UnregisterObserver \/ SetSctpSid \/ SetSsrc \/ OnAckReceived
    BY <1>0, <1>7 DEF TransportLeft, AppCloses, RegisterObserver, UnregisterObserver, SetSctpSid, SetSsrc,
                      OnAckReceived, flags, outside
<1>8. CASE RemotePeerRequestClose \/ OnDataEngineClose
    BY <1>0, <1>8 DEF TransportLeft, RemotePeerRequestClose, OnDataEngineClose, DoClose
<1>9. CASE OnTransportChannelCreated \/ OnChannelReady
    BY <1>0, <1>9 DEF TransportLeft, OnTransportChannelCreated, OnChannelReady
<1> QED
    BY <1>1, <1>2, <1>3, <1>4, <1>5, <1>6, <1>7, <1>8, <1>9 DEF Next, Internal, Event

LEMMA StackInit == Init => StackInv
<1> SUFFICES ASSUME Init PROVE StackInv
    OBVIOUS
<1>1. todo = <<>> /\ todo \in Seq(Calls) /\ DOMAIN todo = {}
    BY DEF Init
<1>2. FlagTypes
    BY DEF Init, FlagTypes, Type
<1>3. DataTypes
    BY DEF Init, DataTypes
<1>4. Nesting
    BY <1>1 DEF Init, Nesting, Below, Bottomed, Shielded, Writable, ClosingBegins, Top
<1>5. TransportLeft
    BY DEF Init, TransportLeft
<1>6. Leaving
    BY <1>1 DEF Leaving
<1> QED
    BY <1>1, <1>2, <1>3, <1>4, <1>5, <1>6 DEF StackInv, Types

LEMMA StackNext == ASSUME ~refused', StackInv, [Next]_vars PROVE StackInv'
<1>0. Types /\ Nesting /\ TransportLeft /\ Leaving
    BY DEF StackInv
<1>1. CASE Next
    <2>1. Top = "PopReceived" => recvq # <<>>
        <3>1. Top # "none" => Top = N(1) /\ 1 \in DOMAIN todo
            BY <1>0 DEF Top, Types
        <3> QED
            BY <1>0, <3>1 DEF Nesting, Bottomed
    <2>2. Types'
        BY <1>0, <2>1, StackTyped, FlagsTyped, DataTyped DEF Types
    <2>3. Nesting'
        BY <1>1, NestingInternal, NestingEvent DEF Next
    <2>4. TransportLeft'
        BY <1>1, LeftNext
    <2>5. Leaving'
        BY <1>1, LeavingInternal, LeavingEvent DEF Next
    <2> QED
        BY <2>2, <2>3, <2>4, <2>5 DEF StackInv
<1>2. CASE UNCHANGED vars
    <2>1. Types'
        BY <1>0, <1>2 DEF Types, FlagTypes, DataTypes, vars, flags, sending, receiving, outside, history
    <2>2. Nesting'
        BY <1>0, <1>2 DEF Nesting, Below, Bottomed, Shielded, Writable, ClosingBegins, N, Top,
                          vars, flags, sending, receiving, outside, history
    <2>3. TransportLeft' /\ Leaving'
        BY <1>0, <1>2 DEF TransportLeft, Leaving, N, Top, vars, flags, sending, receiving, outside, history
    <2> QED
        BY <2>1, <2>2, <2>3 DEF StackInv
<1> QED
    BY <1>1, <1>2

-----------------------------------------------------------------------------
(***************************************************************************)
(* What one step does to the state and to the wire.                         *)
(***************************************************************************)
\* The state changes in SetState only, and only forward.
LEMMA StateStep ==
    ASSUME StackInv, [Next]_vars
    PROVE  \/ state' = state
           \/ Running("SetOpen") /\ state = "connecting" /\ state' = "open" /\ SetState("SetOpen", "open")
           \/ Running("SetClosing") /\ state # "closed" /\ state' = "closing" /\ SetState("SetClosing", "closing")
           \/ Running("SetClosed") /\ state' = "closed" /\ SetState("SetClosed", "closed")
<1>0. Types /\ Nesting
    BY DEF StackInv
<1>1. CASE SetState("SetOpen", "open")
    <2>1. Running("SetOpen") /\ N(1) = "SetOpen" /\ 1 \in DOMAIN todo
        BY <1>0, <1>1, Runs DEF SetState
    <2> QED
        BY <1>0, <1>1, <2>1 DEF SetState, Nesting, Shielded, Exposed
<1>2. CASE SetState("SetClosing", "closing")
    <2>1. Running("SetClosing") /\ Top = "SetClosing"
        BY <1>0, <1>2, Runs DEF SetState
    <2> QED
        BY <1>0, <1>2, <2>1 DEF SetState, Nesting, ClosingBegins
<1>3. CASE SetState("SetClosed", "closed")
    BY <1>3 DEF SetState
<1>4. CASE Close \/ UpdateState \/ FlushControl \/ Deliver \/ DeliverFront \/ PopReceived \/ OnStateChange
           \/ OnMessage \/ TransportGone
    BY <1>4 DEF Close, UpdateState, FlushControl, Deliver, DeliverFront, PopReceived, OnStateChange, OnMessage,
                TransportGone
<1>5. ASSUME NEW r, SendControl(r) \/ Send(r) \/ FlushData(r) PROVE state' = state
    BY <1>5 DEF SendControl, Send, FlushData
<1>6. CASE Event
    BY <1>6 DEF Event, AppSends, OnDataReceived, AppCloses, RegisterObserver, UnregisterObserver,
                RemotePeerRequestClose, OnDataEngineClose, DoClose, SetSctpSid, OnTransportChannelCreated,
                SetSsrc, OnChannelReady, OnAckReceived
<1>7. CASE UNCHANGED vars
    BY <1>7 DEF vars
<1> QED
    BY <1>1, <1>2, <1>3, <1>4, <1>5, <1>6, <1>7 DEF Next, Internal

\* The steps that send nothing.
Silent == wire' = wire

\* A packet added to the wire.
Adds(p) ==
    /\ wire' \in Seq(Packets) /\ Len(wire') = Len(wire) + 1 /\ Len(wire) \in Nat
    /\ DOMAIN wire = 1 .. Len(wire) /\ DOMAIN wire' = 1 .. (Len(wire) + 1)
    /\ wire'[Len(wire) + 1] = p
    /\ \A i \in DOMAIN wire : i \in DOMAIN wire' /\ wire'[i] = wire[i]

LEMMA Adding ==
    ASSUME Types, NEW p \in Packets, wire' = Append(wire, p)
    PROVE  Adds(p)
<1>1. wire \in Seq(Packets) /\ Len(wire) \in Nat /\ DOMAIN wire = 1 .. Len(wire)
    BY DEF Types, DataTypes
<1>2. /\ Append(wire, p) \in Seq(Packets) /\ Len(Append(wire, p)) = Len(wire) + 1
      /\ \A i \in 1 .. Len(wire) : Append(wire, p)[i] = wire[i]
      /\ Append(wire, p)[Len(wire) + 1] = p
    BY <1>1, AppendProperties
<1>3. /\ wire' \in Seq(Packets) /\ Len(wire') = Len(wire) + 1
      /\ \A i \in 1 .. Len(wire) : wire'[i] = wire[i]
      /\ wire'[Len(wire) + 1] = p
    BY <1>2, Zenon
<1>4. DOMAIN wire' = 1 .. (Len(wire) + 1)
    BY <1>1, <1>3
<1> QED
    BY <1>1, <1>3, <1>4 DEF Adds

\* What is sent: a handshake message by SendControl, data by Send of an open
\* channel and by FlushData; nothing else is.
Controls(r) == r = "ok" /\ SendControl(r) /\ Adds(Packet("control", 0, Ordered \/ Role = "opener"))
Direct(r) == Send(r) /\ state = "open" /\ sendq = <<>> /\ Adds(DataPacket(accepted + 1))
Flushed(r) == FlushData(r) /\ sendq # <<>> /\ \E id \in Nat : Adds(DataPacket(id))

LEMMA WireStep ==
    ASSUME Types, [Next]_vars
    PROVE  Silent \/ \E r \in Outcomes : Controls(r) \/ Direct(r) \/ Flushed(r)
<1>0. Types /\ DataTypes
    BY DEF Types
<1>1. /\ heard \in BOOLEAN /\ waitingAck \in BOOLEAN /\ config.ordered \in BOOLEAN
      /\ ctrlq \in Nat /\ refused \in BOOLEAN
    BY <1>0 DEF Types, FlagTypes, DataTypes
<1>2. Packet("control", 0, Ordered \/ Role = "opener") \in Packets
    BY <1>1 DEF Packet, Packets
<1>3. \A i \in Nat : DataPacket(i) \in Packets
    BY <1>1 DEF DataPacket, Packet, Packets, Ordered
<1>4. ASSUME NEW r \in Outcomes, SendControl(r) PROVE Silent \/ Controls(r)
    BY <1>0, <1>2, <1>4, Adding DEF SendControl, Silent, Controls
<1>5. ASSUME NEW r \in Outcomes, Send(r) PROVE Silent \/ Direct(r)
    <2>1. Silent \/ (state = "open" /\ sendq = <<>> /\ wire' = Append(wire, DataPacket(accepted + 1)))
        BY <1>5 DEF Send, Silent, MustQueue, Msg
    <2>2. DataPacket(accepted + 1) \in Packets
        BY <1>0, <1>3 DEF DataTypes
    <2> QED
        BY <1>0, <1>5, <2>1, <2>2, Adding DEF Direct
<1>6. ASSUME NEW r \in Outcomes, FlushData(r) PROVE Silent \/ Flushed(r)
    <2>3. sendq # <<>> => Head(sendq).id \in Nat
        <3>1. sendq # <<>> => Head(sendq) \in Msgs
            BY <1>0 DEF DataTypes
        <3> QED
            BY <3>1 DEF Msgs
    <2>4. wire' = wire \/ (sendq # <<>> /\ \E i \in Nat : wire' = Append(wire, DataPacket(i)))
        BY <1>6, <2>3 DEF FlushData
    <2> QED
        BY <1>0, <1>3, <1>6, <2>4, Adding DEF Silent, Flushed
<1>7. CASE \/ Close \/ UpdateState \/ FlushControl \/ Deliver \/ DeliverFront \/ PopReceived \/ OnStateChange
           \/ OnMessage \/ TransportGone
    BY <1>7 DEF Close, UpdateState, FlushControl, Deliver, DeliverFront, PopReceived, OnStateChange, OnMessage,
                TransportGone, Silent
<1>8. ASSUME NEW f, NEW s, SetState(f, s) PROVE Silent
    BY <1>8 DEF SetState, Silent
<1>9. CASE Event
    BY <1>9 DEF Event, AppSends, OnDataReceived, AppCloses, RegisterObserver, UnregisterObserver,
                RemotePeerRequestClose, OnDataEngineClose, DoClose, SetSctpSid, OnTransportChannelCreated,
                SetSsrc, OnChannelReady, OnAckReceived, Silent
<1>10. CASE UNCHANGED vars
    BY <1>10 DEF vars, Silent
<1> QED
    BY <1>4, <1>5, <1>6, <1>7, <1>8, <1>9, <1>10 DEF Next, Internal

\* FlushData runs while the channel is open.
LEMMA FlushesOpen == ASSUME StackInv, NEW r, FlushData(r) PROVE state = "open"
<1>0. Types /\ Nesting
    BY DEF StackInv
<1>1. N(1) = "FlushData" /\ 1 \in DOMAIN todo
    BY <1>0, Runs DEF FlushData
<1> QED
    BY <1>0, <1>1 DEF Nesting, Shielded, Exposed

\* What the packets of the wire are after a step.
LEMMA SentStep ==
    /\ Silent => Sent' = Sent
    /\ \A p : Adds(p) /\ p.k = "control" => Sent' = Sent
    /\ \A p : Adds(p) /\ p.k = "data" => Sent' = Sent \cup {Len(wire) + 1}
<1>1. Silent => Sent' = Sent
    BY DEF Silent, Sent, IsData
<1>2. ASSUME NEW p, Adds(p) PROVE \A i : i \in DOMAIN wire' <=> i \in DOMAIN wire \/ i = Len(wire) + 1
    BY <1>2 DEF Adds
<1>3. ASSUME NEW p, Adds(p) PROVE Len(wire) + 1 \notin DOMAIN wire
    BY <1>3 DEF Adds
<1>4. ASSUME NEW p, Adds(p), p.k = "control" PROVE Sent' = Sent
    <2>1. \A i : i \in Sent' <=> i \in Sent
        BY <1>2, <1>3, <1>4 DEF Adds, Sent, IsData
    <2> QED
        BY <2>1 DEF Sent
<1>5. ASSUME NEW p, Adds(p), p.k = "data" PROVE Sent' = Sent \cup {Len(wire) + 1}
    <2>1. \A i : i \in Sent' <=> i \in Sent \/ i = Len(wire) + 1
        BY <1>2, <1>3, <1>5 DEF Adds, Sent, IsData
    <2> QED
        BY <2>1 DEF Sent
<1> QED
    BY <1>1, <1>4, <1>5

-----------------------------------------------------------------------------
(***************************************************************************)
(* Closing is for good.                                                     *)
(***************************************************************************)
\* What was refused stays so.
LEMMA RefusedStays == ASSUME refused, [Next]_vars PROVE refused'
    BY DEF Next, Internal, Event, Close, UpdateState, FlushControl, Deliver, DeliverFront, SetState, PopReceived,
           OnStateChange, OnMessage, TransportGone, SendControl, Send, FlushData, AppSends, OnDataReceived,
           AppCloses, RegisterObserver, UnregisterObserver, RemotePeerRequestClose, OnDataEngineClose, DoClose,
           SetSctpSid, OnTransportChannelCreated, SetSsrc, OnChannelReady, OnAckReceived, vars, history

\* The order of the nested calls holds until a message that had blocked is refused.
LEMMA StackHolds == Spec => [](refused \/ StackInv)
<1>1. Init => StackInv
    BY StackInit
<1>2. (refused \/ StackInv) /\ [Next]_vars => (refused \/ StackInv)'
    BY StackNext, RefusedStays
<1> QED
    BY <1>1, <1>2, PTL DEF Spec

LEMMA OnlyForward ==
    ASSUME StackInv, [Next]_vars
    PROVE  Rank[state'] >= Rank[state] /\ (state = "closed" => Sent' = Sent)
<1>0. Types /\ state \in {"connecting", "open", "closing", "closed"}
    BY DEF StackInv, Types, DataTypes
<1>1. /\ Rank["connecting"] = 0 /\ Rank["open"] = 1 /\ Rank["closing"] = 2 /\ Rank["closed"] = 3
    BY DEF Rank
<1>2. Rank[state'] >= Rank[state]
    BY <1>0, <1>1, StateStep
<1>3. ASSUME state = "closed" PROVE Sent' = Sent
    <2>1. Silent \/ \E r \in Outcomes : Controls(r)
        BY <1>0, <1>3, WireStep, FlushesOpen DEF Direct, Flushed
    <2>2. Packet("control", 0, Ordered \/ Role = "opener").k = "control"
        BY DEF Packet
    <2> QED
        BY <2>1, <2>2, SentStep DEF Controls
<1> QED
    BY <1>2, <1>3

\* Closing is for good: whatever callbacks come between the steps of a handler,
\* whatever was posted before and however the transport answers, SetState never
\* takes the channel from closed to anything, nor from closing back to open or
\* connecting, and a closed channel gives no data to its transport, as long as
\* no handshake message that had blocked is refused when it is tried again.
THEOREM ClosingIsFinal == Spec => ClosedForGood
<1>1. (refused \/ StackInv) /\ [Next]_vars =>
          [refused \/ (Rank[state'] >= Rank[state] /\ (state = "closed" => Sent' = Sent))]_vars
    BY OnlyForward
<1>2. Spec => [](refused \/ StackInv)
    BY StackHolds
<1> QED
    BY <1>1, <1>2, PTL DEF Spec, ClosedForGood

-----------------------------------------------------------------------------
(***************************************************************************)
(* The stream that is sent.                                                 *)
(***************************************************************************)
\* A channel about to close goes on to close.
LEMMA LiveBefore ==
    ASSUME StackInv, [Next]_vars, Live' PROVE Live
<1>0. Types
    BY DEF StackInv
<1>1. state \in {"connecting", "open"}
    BY StateStep DEF Live
<1>2. CASE Top \in {"Close", "SetClosing"}
    <2>1. todo # <<>> /\ \A f : Running(f) => f = Top
        BY <1>0, <1>2, Runs DEF Top, N
    <2>2. CASE UNCHANGED vars
        BY <1>2, <2>2 DEF vars, Top, N, Live
    <2>3. ~Event
        BY <2>1 DEF Event, AppSends, OnDataReceived, AppCloses, RegisterObserver, UnregisterObserver,
            RemotePeerRequestClose, OnDataEngineClose, DoClose, SetSctpSid, OnTransportChannelCreated,
            SetSsrc, OnChannelReady, OnAckReceived, Idle
    <2>4. CASE Internal
        <3>1. Close \/ SetState("SetClosing", "closing")
            BY <1>2, <2>1, <2>4
            DEF Internal, UpdateState, FlushControl, Deliver, DeliverFront, SetState, PopReceived,
                OnStateChange, OnMessage, TransportGone, Send, FlushData, SendControl
        <3>2. CASE Close
            <4> DEFINE c == <<Call("SetClosing"), Call("UpdateState")>>
            <4>1. Stepped(c)
                BY <1>0, <1>1, <3>2, Returns
            <4>2. Len(c) = 2 /\ c[1].f = "SetClosing"
                BY DEF Call
            <4> HIDE DEF c
            <4>3. todo' # <<>> /\ todo'[1].f = "SetClosing"
                BY <4>1, <4>2 DEF Stepped
            <4> QED
                BY <4>3 DEF Top, N, Live
        <3>3. CASE SetState("SetClosing", "closing")
            BY <3>3 DEF SetState, Live
        <3> QED
            BY <3>1, <3>2, <3>3
    <2> QED
        BY <2>2, <2>3, <2>4 DEF Next
<1> QED
    BY <1>1, <1>2 DEF Live

\* Close is next.
LEMMA ClosingNext == ASSUME Stepped(<<Call("Close")>>) PROVE ~Live'
<1> DEFINE c == <<Call("Close")>>
<1>1. Len(c) = 1 /\ c[1].f = "Close" /\ Stepped(c)
    BY DEF Call
<1> HIDE DEF c
<1>2. todo' # <<>> /\ todo'[1].f = "Close"
    BY <1>1 DEF Stepped
<1> QED
    BY <1>2 DEF Live, Top, N

\* The queue when a message is added, and when one is taken.
LEMMA QueueStep ==
    ASSUME NEW q \in Seq(Msgs)
    PROVE  /\ Len(q) \in Nat /\ DOMAIN q = 1 .. Len(q) /\ (q = <<>> <=> Len(q) = 0)
           /\ \A m \in Msgs : /\ Len(Append(q, m)) = Len(q) + 1 /\ DOMAIN Append(q, m) = 1 .. (Len(q) + 1)
                              /\ Append(q, m)[Len(q) + 1] = m
                              /\ \A i \in 1 .. Len(q) : Append(q, m)[i] = q[i]
           /\ q # <<>> => /\ Head(q) = q[1] /\ Head(q) \in Msgs /\ Len(Tail(q)) = Len(q) - 1
                          /\ DOMAIN Tail(q) = 1 .. (Len(q) - 1)
                          /\ \A i \in 1 .. (Len(q) - 1) : Tail(q)[i] = q[i + 1]
<1>1. Len(q) \in Nat /\ DOMAIN q = 1 .. Len(q) /\ (q = <<>> <=> Len(q) = 0)
    OBVIOUS
<1>2. ASSUME NEW m \in Msgs
      PROVE  /\ Len(Append(q, m)) = Len(q) + 1 /\ DOMAIN Append(q, m) = 1 .. (Len(q) + 1)
             /\ Append(q, m)[Len(q) + 1] = m
             /\ \A i \in 1 .. Len(q) : Append(q, m)[i] = q[i]
    <2>1. /\ Append(q, m) \in Seq(Msgs) /\ Len(Append(q, m)) = Len(q) + 1
          /\ \A i \in 1 .. Len(q) : Append(q, m)[i] = q[i]
          /\ Append(q, m)[Len(q) + 1] = m
        BY AppendProperties
    <2> QED
        BY <2>1
<1>3. q # <<>> => /\ Head(q) = q[1] /\ Head(q) \in Msgs /\ Len(Tail(q)) = Len(q) - 1
                  /\ DOMAIN Tail(q) = 1 .. (Len(q) - 1)
                  /\ \A i \in 1 .. (Len(q) - 1) : Tail(q)[i] = q[i + 1]
    <2> SUFFICES ASSUME q # <<>>
                 PROVE  /\ Head(q) = q[1] /\ Head(q) \in Msgs /\ Len(Tail(q)) = Len(q) - 1
                        /\ DOMAIN Tail(q) = 1 .. (Len(q) - 1)
                        /\ \A i \in 1 .. (Len(q) - 1) : Tail(q)[i] = q[i + 1]
        OBVIOUS
    <2>1. /\ Tail(q) \in Seq(Msgs) /\ Len(Tail(q)) = Len(q) - 1 /\ Head(q) \in Msgs
          /\ \A i \in 1 .. (Len(q) - 1) : Tail(q)[i] = q[i + 1]
        BY HeadTailProperties
    <2>2. Head(q) = q[1]
        OBVIOUS
    <2> QED
        BY <2>1, <2>2
<1> QED
    BY <1>1, <1>2, <1>3

\* SentUpTo after the step.
SentThen(n, q) ==
    /\ n \in Nat /\ {wire'[i].id : i \in Sent'} = 1 .. n
    /\ \A i, j \in Sent' : i < j => wire'[i].id < wire'[j].id
    /\ \A i \in DOMAIN q : q[i].id = n + i

\* The next message goes out.
LEMMA SendsNext ==
    ASSUME Types, NEW n \in Nat, NEW q, SentUpTo(n, q), NEW p, Adds(p), p.k = "data", p.id = n + 1,
           NEW r, \A i \in DOMAIN r : r[i].id = (n + 1) + i
    PROVE  SentThen(n + 1, r)
<1>1. Sent' = Sent \cup {Len(wire) + 1}
    BY SentStep
<1>2. /\ Sent \subseteq DOMAIN wire /\ Len(wire) \in Nat /\ DOMAIN wire = 1 .. Len(wire)
      /\ wire'[Len(wire) + 1] = p
      /\ \A i \in DOMAIN wire : wire'[i] = wire[i]
    BY DEF Adds, Sent
<1>3. \A i \in Sent : wire'[i].id = wire[i].id /\ i < Len(wire) + 1 /\ i \in Nat
    BY <1>2
<1>4. \A i \in Sent : wire[i].id \in 1 .. n
    BY DEF SentUpTo
<1>5. {wire'[i].id : i \in Sent'} = 1 .. (n + 1)
    <2>1. \A x : x \in {wire'[i].id : i \in Sent'} <=> x \in {wire[i].id : i \in Sent} \/ x = n + 1
        BY <1>1, <1>2, <1>3
    <2>2. \A x : x \in {wire[i].id : i \in Sent} <=> x \in 1 .. n
        BY DEF SentUpTo
    <2>3. \A x : x \in 1 .. (n + 1) <=> x \in 1 .. n \/ x = n + 1
        OBVIOUS
    <2> QED
        BY <2>1, <2>2, <2>3, Zenon
<1>6. \A i, j \in Sent' : i < j => wire'[i].id < wire'[j].id
    <2> SUFFICES ASSUME NEW i \in Sent', NEW j \in Sent', i < j PROVE wire'[i].id < wire'[j].id
        OBVIOUS
    <2>1. i \in Sent
        BY <1>1, <1>2, <1>3
    <2>2. CASE j \in Sent
        BY <1>3, <2>1, <2>2 DEF SentUpTo
    <2>3. CASE j = Len(wire) + 1
        BY <1>2, <1>3, <1>4, <2>1, <2>3
    <2> QED
        BY <1>1, <2>2, <2>3
<1> QED
    BY <1>5, <1>6 DEF SentThen

\* No data go out.
LEMMA SendsNothing ==
    ASSUME NEW n, NEW q, SentUpTo(n, q),
           \/ Silent
           \/ \E p : Adds(p) /\ p.k = "control",
           NEW r, \A i \in DOMAIN r : r[i].id = n + i
    PROVE  SentThen(n, r)
<1>1. Sent' = Sent
    BY SentStep
<1>2. \A i \in Sent : wire'[i] = wire[i]
    BY DEF Silent, Adds, Sent
<1>3. {wire'[i].id : i \in Sent'} = {wire[i].id : i \in Sent}
    BY <1>1, <1>2
<1> QED
    BY <1>1, <1>2, <1>3 DEF SentUpTo, SentThen

\* Only Send and FlushData touch the queue and the count.
LEMMA SendFrame ==
    ASSUME [Next]_vars, \A r \in Outcomes : ~Send(r) /\ ~FlushData(r)
    PROVE  accepted' = accepted /\ sendq' = sendq /\ heap' = heap
BY DEF Next, Internal, Event, Close, UpdateState, FlushControl, Deliver, DeliverFront, SetState, PopReceived,
       OnStateChange, OnMessage, TransportGone, SendControl, AppSends, OnDataReceived,
       AppCloses, RegisterObserver, UnregisterObserver, RemotePeerRequestClose, OnDataEngineClose, DoClose,
       SetSctpSid, OnTransportChannelCreated, SetSsrc, OnChannelReady, OnAckReceived, vars, history, sending

\* What Send of an open channel does.
LEMMA SendOpen ==
    ASSUME Types, NEW r \in Outcomes, Send(r), state = "open", SentUpTo(accepted - Len(sendq), sendq), Live'
    PROVE  SentThen(accepted' - Len(sendq'), sendq')
<1> DEFINE m == Msg(accepted + 1, Head(todo).m.size)
<1>0. todo # <<>> /\ Head(todo) \in Calls
    BY Runs DEF Send
<1>1. m \in Msgs /\ m.id = accepted + 1 /\ accepted \in Nat /\ sendq \in Seq(Msgs)
    BY <1>0, SMTT(40) DEF Calls, Msgs, Types, DataTypes, Msg
<1>2. ~ReturnTo(<<Call("Close")>>)
    <2>1. <<Call("Close")>> \in Seq(Calls)
        BY CallTypes DEF CallNames
    <2> QED
        BY <1>0, <2>1, Stepping, ClosingNext
<1>3. QueueOrClose(m) => sendq' = Append(sendq, m)
    BY <1>2 DEF QueueOrClose
<1>4. \/ accepted' = accepted + 1 /\ wire' = wire /\ QueueOrClose(m)
      \/ accepted' = accepted + 1 /\ sendq = <<>> /\ sendq' = sendq /\ wire' = Append(wire, DataPacket(m.id))
      \/ accepted' = accepted /\ sendq' = sendq /\ wire' = wire
    BY <1>2 DEF Send, MustQueue, Outcomes
<1> HIDE DEF m
<1>5. Len(sendq) \in Nat /\ DOMAIN sendq = 1 .. Len(sendq) /\ accepted - Len(sendq) \in Nat
    BY <1>1 DEF SentUpTo
<1>6. CASE accepted' = accepted + 1 /\ wire' = wire /\ QueueOrClose(m)
    <2>1. /\ Len(sendq') = Len(sendq) + 1 /\ DOMAIN sendq' = 1 .. (Len(sendq) + 1)
          /\ sendq'[Len(sendq) + 1] = m /\ \A i \in 1 .. Len(sendq) : sendq'[i] = sendq[i]
        <3>1. sendq' = Append(sendq, m)
            BY <1>3, <1>6
        <3>2. /\ Len(Append(sendq, m)) = Len(sendq) + 1 /\ DOMAIN Append(sendq, m) = 1 .. (Len(sendq) + 1)
              /\ Append(sendq, m)[Len(sendq) + 1] = m
              /\ \A i \in 1 .. Len(sendq) : Append(sendq, m)[i] = sendq[i]
            BY <1>1, QueueStep
        <3> QED
            BY <3>1, <3>2, Zenon
    <2>2. accepted' - Len(sendq') = accepted - Len(sendq)
        BY <1>1, <1>5, <1>6, <2>1
    <2>3. \A i \in DOMAIN sendq' : sendq'[i].id = (accepted - Len(sendq)) + i
        <3> SUFFICES ASSUME NEW i \in DOMAIN sendq' PROVE sendq'[i].id = (accepted - Len(sendq)) + i
            OBVIOUS
        <3>1. CASE i \in 1 .. Len(sendq)
            BY <1>5, <2>1, <3>1 DEF SentUpTo
        <3>2. CASE i = Len(sendq) + 1
            BY <1>1, <1>5, <2>1, <3>2
        <3> QED
            BY <1>5, <2>1, <3>1, <3>2
    <2>4. Silent
        BY <1>6 DEF Silent
    <2>5. SentThen(accepted - Len(sendq), sendq')
        BY <2>3, <2>4, SendsNothing
    <2> QED
        BY <2>2, <2>5
<1>7. CASE accepted' = accepted + 1 /\ sendq = <<>> /\ sendq' = sendq /\ wire' = Append(wire, DataPacket(m.id))
    <2>1. DataPacket(m.id) \in Packets /\ DataPacket(m.id).k = "data" /\ DataPacket(m.id).id = accepted + 1
        BY <1>1 DEF DataPacket, Packet, Packets, Ordered, Types, FlagTypes, DataTypes
    <2>2. Adds(DataPacket(m.id))
        BY <1>7, <2>1, Adding
    <2>3. Len(sendq) = 0 /\ DOMAIN sendq = {} /\ accepted - Len(sendq) = accepted
        BY <1>1, <1>7
    <2>4. SentUpTo(accepted, sendq)
        BY <2>3
    <2>5. SentThen(accepted + 1, sendq')
        BY <1>1, <1>7, <2>1, <2>2, <2>3, <2>4, SendsNext
    <2>6. accepted' - Len(sendq') = accepted + 1
        BY <1>1, <1>7, <2>3
    <2> QED
        BY <2>5, <2>6
<1>8. CASE accepted' = accepted /\ sendq' = sendq /\ wire' = wire
    <2>1. Silent /\ \A i \in DOMAIN sendq : sendq[i].id = (accepted - Len(sendq)) + i
        BY <1>8 DEF Silent, SentUpTo
    <2>2. SentThen(accepted - Len(sendq), sendq)
        BY <2>1, SendsNothing
    <2> QED
        BY <1>8, <2>2
<1> QED
    BY <1>4, <1>6, <1>7, <1>8

\* What FlushData does with an unharmed queue.
LEMMA FlushOpen ==
    ASSUME Types, NEW r \in Outcomes, FlushData(r), HeapOK', SentUpTo(accepted - Len(sendq), sendq)
    PROVE  SentThen(accepted' - Len(sendq'), sendq')
<1>1. accepted \in Nat /\ sendq \in Seq(Msgs) /\ accepted' = accepted
    BY DEF Types, DataTypes, FlushData, history
<1>2. \/ sendq' = sendq /\ wire' = wire
      \/ sendq # <<>> /\ sendq' = Tail(sendq) /\ wire' = Append(wire, DataPacket(Head(sendq).id))
    BY DEF FlushData, HeapOK, sending
<1>3. CASE sendq' = sendq /\ wire' = wire
    <2>1. Silent /\ \A i \in DOMAIN sendq : sendq[i].id = (accepted - Len(sendq)) + i
        BY <1>3 DEF Silent, SentUpTo
    <2>2. SentThen(accepted - Len(sendq), sendq)
        BY <2>1, SendsNothing
    <2> QED
        BY <1>1, <1>3, <2>2
<1>4. CASE sendq # <<>> /\ sendq' = Tail(sendq) /\ wire' = Append(wire, DataPacket(Head(sendq).id))
    <2> DEFINE n == accepted - Len(sendq)
    <2>1. /\ Len(sendq) \in Nat /\ Len(sendq) > 0 /\ DOMAIN sendq = 1 .. Len(sendq) /\ Head(sendq) = sendq[1]
          /\ Head(sendq) \in Msgs
        BY <1>1, <1>4, QueueStep
    <2>2. /\ Len(sendq') = Len(sendq) - 1 /\ DOMAIN sendq' = 1 .. (Len(sendq) - 1)
          /\ \A i \in 1 .. (Len(sendq) - 1) : sendq'[i] = sendq[i + 1]
        <3>1. /\ Len(Tail(sendq)) = Len(sendq) - 1 /\ DOMAIN Tail(sendq) = 1 .. (Len(sendq) - 1)
              /\ \A i \in 1 .. (Len(sendq) - 1) : Tail(sendq)[i] = sendq[i + 1]
            BY <1>1, <1>4, QueueStep
        <3> QED
            BY <1>4, <3>1, Zenon
    <2>3. n \in Nat /\ \A i \in DOMAIN sendq : sendq[i].id = n + i
        BY DEF SentUpTo
    <2>4. Head(sendq).id = n + 1
        BY <2>1, <2>3
    <2>5. /\ DataPacket(Head(sendq).id) \in Packets /\ DataPacket(Head(sendq).id).k = "data"
          /\ DataPacket(Head(sendq).id).id = n + 1
        <3>1. Head(sendq).id \in Nat
            BY <2>1 DEF Msgs
        <3>2. heard \in BOOLEAN /\ waitingAck \in BOOLEAN /\ config.ordered \in BOOLEAN
            BY DEF Types, FlagTypes, DataTypes
        <3> QED
            BY <2>4, <3>1, <3>2 DEF DataPacket, Packet, Packets, Ordered
    <2>6. Adds(DataPacket(Head(sendq).id))
        BY <1>4, <2>5, Adding
    <2>7. accepted' - Len(sendq') = n + 1
        BY <1>1, <2>1, <2>2
    <2>8. SentUpTo(n, sendq)
        OBVIOUS
    <2> HIDE DEF n
    <2>9. ASSUME NEW i \in DOMAIN sendq' PROVE sendq'[i].id = (n + 1) + i
        <3>1. i \in Nat /\ i + 1 \in DOMAIN sendq /\ sendq'[i] = sendq[i + 1]
            BY <2>1, <2>2
        <3>2. sendq[i + 1].id = n + (i + 1)
            BY <2>3, <3>1
        <3> QED
            BY <2>3, <3>1, <3>2
    <2>10. SentThen(n + 1, sendq')
        BY <2>3, <2>5, <2>6, <2>8, <2>9, SendsNext
    <2> QED
        BY <2>7, <2>10
<1> QED
    BY <1>2, <1>3, <1>4

LEMMA SendNext == ASSUME StackInv, SendInv, [Next]_vars PROVE SendInv'
<1>0. Types /\ Nesting
    BY DEF StackInv
<1>1. ASSUME NEW r \in Outcomes, FlushData(r) PROVE state = "open"
    <2>1. N(1) = "FlushData" /\ 1 \in DOMAIN todo
        BY <1>0, <1>1, Runs DEF FlushData
    <2> QED
        BY <1>0, <2>1 DEF Nesting, Shielded, Exposed
<1>2. ASSUME state' = "connecting" PROVE accepted' = 0 /\ sendq' = <<>> /\ Sent' = {}
    <2>1. state = "connecting" /\ accepted = 0 /\ sendq = <<>> /\ Sent = {}
        BY <1>2, StateStep DEF SendInv
    <2>2. accepted' = accepted /\ sendq' = sendq
        <3>1. ASSUME NEW r \in Outcomes, Send(r) PROVE accepted' = accepted /\ sendq' = sendq
            BY <2>1, <3>1 DEF Send
        <3> QED
            BY <1>1, <2>1, <3>1, SendFrame
    <2>3. Sent' = Sent
        <3>1. Silent \/ \E r \in Outcomes : Controls(r)
            BY <1>0, <1>1, <2>1, WireStep DEF Direct, Flushed
        <3>2. Packet("control", 0, Ordered \/ Role = "opener").k = "control"
            BY DEF Packet
        <3> QED
            BY <3>1, <3>2, SentStep DEF Controls
    <2> QED
        BY <2>1, <2>2, <2>3
<1>3. ASSUME state' = "open", Live', HeapOK' PROVE SentThen(accepted' - Len(sendq'), sendq')
    <2>1. Live
        BY <1>3, LiveBefore
    <2>2. CASE state = "connecting"
        <3>1. SetState("SetOpen", "open") /\ accepted = 0 /\ sendq = <<>> /\ Sent = {}
            BY <1>3, <2>2, StateStep DEF SendInv
        <3>2. accepted' = 0 /\ sendq' = <<>> /\ Silent
            BY <3>1 DEF SetState, sending, history, Silent
        <3>3. Sent' = {}
            BY <3>1, <3>2, SentStep
        <3>4. Len(<<>>) = 0 /\ DOMAIN <<>> = {} /\ 0 - 0 = 0
            OBVIOUS
        <3>5. Len(sendq') = 0 /\ DOMAIN sendq' = {} /\ accepted' - Len(sendq') = 0
            BY <3>2, <3>4, Zenon
        <3> QED
            BY <3>3, <3>5 DEF SentThen
    <2>3. CASE state = "open"
        <3>1. HeapOK
            BY <1>0, <1>3, SendFrame DEF HeapOK, Send, FlushData, sending
        <3>2. SentUpTo(accepted - Len(sendq), sendq)
            BY <2>1, <2>3, <3>1 DEF SendInv
        <3>3. CASE \E r \in Outcomes : Send(r)
            BY <1>0, <1>3, <2>3, <3>2, <3>3, SendOpen
        <3>4. CASE \E r \in Outcomes : FlushData(r)
            BY <1>0, <1>3, <3>2, <3>4, FlushOpen
        <3>5. CASE \A r \in Outcomes : ~Send(r) /\ ~FlushData(r)
            <4>1. accepted' = accepted /\ sendq' = sendq
                BY <3>5, SendFrame
            <4>2. Silent \/ \E p : Adds(p) /\ p.k = "control"
                <5>1. Packet("control", 0, Ordered \/ Role = "opener").k = "control"
                    BY DEF Packet
                <5> QED
                    BY <1>0, <3>5, <5>1, WireStep DEF Direct, Flushed, Controls
            <4>3. \A i \in DOMAIN sendq : sendq[i].id = (accepted - Len(sendq)) + i
                BY <3>2 DEF SentUpTo
            <4>4. SentThen(accepted - Len(sendq), sendq)
                BY <3>2, <4>2, <4>3, SendsNothing
            <4> QED
                BY <4>1, <4>4
        <3> QED
            BY <3>3, <3>4, <3>5
    <2> QED
        BY <2>1, <2>2, <2>3 DEF Live
<1> QED
    BY <1>2, <1>3 DEF SendInv, SentUpTo, SentThen

\* While the channel is open, the transport took the first of the messages that
\* Send accepted, each once and in their order, and the rest is queued in their
\* order: direct sends, the flush after a block, and sends made from callbacks
\* lose, double and reorder nothing, for any number of messages and any limit of
\* the queue, until a handshake message that had blocked is refused. (As long as
\* FlushData has not corrupted the memory of the queue.)
THEOREM SendStreamIntact == Spec => [](refused \/ StreamIntact)
<1>1. Init => SendInv
    <2> SUFFICES ASSUME Init PROVE SendInv
        OBVIOUS
    <2>1. wire = <<>> /\ DOMAIN wire = {} /\ state = "connecting" /\ accepted = 0 /\ sendq = <<>>
        BY DEF Init
    <2>2. Sent = {}
        BY <2>1 DEF Sent
    <2> QED
        BY <2>1, <2>2 DEF SendInv
<1>2. (refused \/ StackInv) /\ (refused \/ SendInv) /\ [Next]_vars => (refused \/ SendInv)'
    BY SendNext, RefusedStays
<1>3. SendInv => StreamIntact
    BY DEF SendInv, StreamIntact, SentUpTo, Live, Idle, Top
<1>4. Spec => [](refused \/ StackInv)
    BY StackHolds
<1> QED
    BY <1>1, <1>2, <1>3, <1>4, PTL DEF Spec

-----------------------------------------------------------------------------
(***************************************************************************)
(* The stream that is received.                                             *)
(***************************************************************************)
\* The bottom of a stack of two or more stays.
LEMMA BottomStays ==
    ASSUME Types, NEW c \in Seq(Calls), Stepped(c), Len(todo) > 1 PROVE Bottom' = Bottom
<1>0. Shifted(Len(c)) /\ Len(c) \in Nat
    BY Shift
<1>1. /\ Len(todo) \in Nat /\ DOMAIN todo = 1 .. Len(todo) /\ todo # <<>>
      /\ Len(todo') \in Nat /\ Len(todo') = Len(todo) + Len(c) - 1
    BY <1>0 DEF Shifted
<1>2. Len(todo) \in DOMAIN todo
    BY <1>1
<1>3. todo'[Len(todo')] = todo[Len(todo)]
    BY <1>0, <1>1, <1>2 DEF Shifted
<1>4. todo' # <<>>
    BY <1>0, <1>1
<1> QED
    BY <1>1, <1>3, <1>4 DEF Bottom, N

\* PopReceived waits as before.
LEMMA PoppingStays ==
    ASSUME Types, NEW c \in Seq(Calls), Stepped(c), Top # "PopReceived",
           \A i \in 1 .. Len(c) : c[i].f # "PopReceived"
    PROVE  Popping' <=> Popping
<1>0. Shifted(Len(c)) /\ Len(c) \in Nat
    BY Shift
<1>1. Len(todo) \in Nat /\ DOMAIN todo = 1 .. Len(todo) /\ Len(todo') \in Nat /\ DOMAIN todo' = 1 .. Len(todo')
    BY <1>0 DEF Shifted
<1>2. ASSUME NEW i \in DOMAIN todo, N(i) = "PopReceived" PROVE Popping'
    <2>1. i # 1
        BY <1>1, <1>2 DEF Top
    <2>2. i > 1
        BY <1>1, <2>1
    <2>3. i + Len(c) - 1 \in DOMAIN todo' /\ todo'[i + Len(c) - 1] = todo[i]
        BY <1>0, <2>2 DEF Shifted
    <2> QED
        BY <1>2, <2>3 DEF Popping, N
<1>3. ASSUME NEW i \in DOMAIN todo', todo'[i].f = "PopReceived" PROVE Popping
    <2>1. i \notin 1 .. Len(c)
        BY <1>3 DEF Stepped
    <2>2. i > Len(c)
        BY <1>0, <1>1, <2>1
    <2>3. \E j \in DOMAIN todo : todo'[i] = todo[j]
        BY <1>0, <2>2 DEF Shifted
    <2> QED
        BY <1>3, <2>3 DEF Popping, N
<1> QED
    BY <1>2, <1>3 DEF Popping, N

\* Which function runs next.
LEMMA TopNext ==
    ASSUME Types, Nesting, NEW c \in Seq(Calls), Stepped(c)
    PROVE  /\ Len(c) > 0 => Top' = c[1].f
           /\ Len(c) = 0 => Top' \in Resumed \cup {"none"}
<1>0. Shifted(Len(c)) /\ Len(c) \in Nat
    BY Shift
<1>1. CASE Len(c) > 0
    <2>1. todo' # <<>> /\ todo'[1] = c[1]
        BY <1>0, <1>1 DEF Stepped
    <2> QED
        BY <1>1, <2>1 DEF Top, N
<1>2. CASE Len(c) = 0
    <2>1. todo' # <<>> => 1 \in DOMAIN todo'
        BY DEF Stepped
    <2>4. \A i \in DOMAIN todo' : i > Len(c) => \E j \in DOMAIN todo : j > 1 /\ todo'[i] = todo[j]
        BY <1>0 DEF Shifted
    <2>5. 1 > Len(c)
        BY <1>2
    <2>2. todo' # <<>> => \E j \in DOMAIN todo : j > 1 /\ todo'[1] = todo[j]
        BY <2>1, <2>4, <2>5, Zenon
    <2>3. todo' # <<>> => todo'[1].f \in Resumed
        BY <2>2 DEF Nesting, Below, N
    <2> QED
        BY <1>2, <2>3 DEF Top, N
<1> QED
    BY <1>0, <1>1, <1>2

\* A function that neither delivers nor updates leaves the stack in order.
LEMMA StackedStep ==
    ASSUME Types, Nesting, Stacked, NEW c \in Seq(Calls), Stepped(c), todo # <<>>,
           \A i \in 1 .. Len(c) : c[i].f \notin {"UpdateState", "PopReceived"},
           Top \notin {"UpdateState", "Deliver", "DeliverFront", "PopReceived"},
           everWritable' = everWritable, observer' = observer, recvq' = recvq,
           state' = state \/ \A j \in DOMAIN todo : N(j) # "UpdateState",
           Popping => Len(c) = 0 \/ (Len(c) = 1 /\ c[1].f = "Send")
    PROVE  Stacked'
<1>0. Shifted(Len(c)) /\ Len(c) \in Nat
    BY Shift
<1>1. /\ Len(todo) \in Nat /\ DOMAIN todo = 1 .. Len(todo) /\ Len(todo) > 0
      /\ Len(todo') \in Nat /\ DOMAIN todo' = 1 .. Len(todo')
    BY <1>0 DEF Shifted, Types
<1>2. Top = N(1)
    BY DEF Top
<1>3. ASSUME NEW i \in DOMAIN todo', todo'[i].f \in {"UpdateState", "PopReceived"}
      PROVE  \E j \in DOMAIN todo : j > 1 /\ i = j + Len(c) - 1 /\ todo'[i] = todo[j]
    <2>1. i \notin 1 .. Len(c)
        BY <1>3 DEF Stepped
    <2>2. i > Len(c)
        BY <1>0, <1>1, <2>1
    <2> QED
        BY <1>0, <2>2 DEF Shifted
<1>4. ASSUME NEW i \in DOMAIN todo', todo'[i].f = "UpdateState" PROVE state' = "connecting"
    BY <1>3, <1>4 DEF Stacked, N
<1>5. ASSUME NEW i \in DOMAIN todo', todo'[i].f = "PopReceived"
      PROVE  i < 3 /\ todo'[1].f \in {"OnMessage", "Send", "PopReceived"}
    <2>1. PICK j \in DOMAIN todo : j > 1 /\ i = j + Len(c) - 1 /\ todo'[i] = todo[j]
        BY <1>3, <1>5
    <2>2. N(j) = "PopReceived" /\ Popping
        BY <1>5, <2>1 DEF N, Popping
    <2>3. j < 3
        BY <2>2 DEF Stacked
    <2>4. j = 2
        BY <1>1, <2>1, <2>3
    <2>5. CASE Len(c) = 0
        BY <1>5, <2>1, <2>4, <2>5
    <2>6. CASE Len(c) = 1 /\ c[1].f = "Send"
        <3>1. todo'[1] = c[1]
            BY <2>6 DEF Stepped
        <3> QED
            BY <2>1, <2>4, <2>6, <3>1
    <2> QED
        BY <2>2, <2>5, <2>6
<1>6. ASSUME everWritable', observer', recvq' # <<>> PROVE Bottom' \in {"UpdateState", "Deliver", "DeliverFront"}
    <2>1. Bottom \in {"UpdateState", "Deliver", "DeliverFront"}
        BY <1>6 DEF Stacked
    <2>2. Len(todo) # 1
        BY <1>2, <2>1 DEF Bottom
    <2>3. Len(todo) > 1
        BY <1>1, <2>2
    <2> QED
        BY <2>1, <2>3, BottomStays
<1> QED
    BY <1>4, <1>5, <1>6 DEF Stacked, N

\* And shows nothing.
LEMMA ShownStep ==
    ASSUME Types, Nesting, Shown, NEW c \in Seq(Calls), Stepped(c), todo # <<>>,
           \A i \in 1 .. Len(c) : c[i].f \notin {"PopReceived", "OnMessage"},
           Top \notin {"PopReceived", "OnMessage"},
           recvq' = recvq, arrived' = arrived, shown' = shown
    PROVE  Shown'
<1>0. Len(c) \in Nat
    OBVIOUS
<1>1. Popping' <=> Popping
    BY PoppingStays
<1>2. Top' # "OnMessage"
    <2>1. CASE Len(c) > 0
        BY <1>0, <2>1, TopNext
    <2>2. CASE Len(c) = 0
        BY <2>2, TopNext DEF Resumed
    <2> QED
        BY <1>0, <2>1, <2>2
<1>3. Continues(IF Popping THEN Tail(recvq) ELSE recvq, arrived)
    BY DEF Shown
<1>4. (IF Popping THEN Tail(recvq) ELSE recvq)' = (IF Popping THEN Tail(recvq) ELSE recvq)
    BY <1>1
<1>5. Continues(IF Popping THEN Tail(recvq) ELSE recvq, arrived)'
    BY <1>3, <1>4 DEF Continues
<1> QED
    BY <1>2, <1>5 DEF Shown

\* Continues after the step.
ContinuesThen(q, n) ==
    /\ n = Len(shown') + Len(q)
    /\ \A i \in DOMAIN shown' : shown'[i] = i
    /\ \A i \in DOMAIN q : q[i].id = Len(shown') + i

\* A message is shown: it is the next one.
LEMMA ShowsNext ==
    ASSUME Types, NEW q \in Seq(Msgs), q # <<>>, NEW n, Continues(q, n), shown' = Append(shown, q[1].id)
    PROVE  ContinuesThen(Tail(q), n)
<1> DEFINE k == q[1].id  r == Tail(q)
<1>1. shown \in Seq(Nat) /\ Len(shown) \in Nat /\ DOMAIN shown = 1 .. Len(shown)
    BY DEF Types, DataTypes
<1>2. /\ Len(q) \in Nat /\ Len(q) > 0 /\ DOMAIN q = 1 .. Len(q)
      /\ Len(r) = Len(q) - 1 /\ DOMAIN r = 1 .. (Len(q) - 1)
      /\ \A i \in 1 .. (Len(q) - 1) : r[i] = q[i + 1]
    <2>1. Len(q) \in Nat /\ Len(q) > 0 /\ DOMAIN q = 1 .. Len(q)
        BY QueueStep
    <2>2. /\ Len(Tail(q)) = Len(q) - 1 /\ DOMAIN Tail(q) = 1 .. (Len(q) - 1)
          /\ \A i \in 1 .. (Len(q) - 1) : Tail(q)[i] = q[i + 1]
        BY QueueStep
    <2> QED
        BY <2>1, <2>2
<1>10. shown' = Append(shown, k)
    OBVIOUS
<1> HIDE DEF r
<1>3. /\ n = Len(shown) + Len(q)
      /\ \A i \in DOMAIN shown : shown[i] = i
      /\ \A i \in DOMAIN q : q[i].id = Len(shown) + i
    BY DEF Continues
<1>4. k = Len(shown) + 1 /\ k \in Nat
    <2>1. 1 \in DOMAIN q
        BY <1>2
    <2>2. q[1].id = Len(shown) + 1
        BY <1>3, <2>1
    <2> QED
        BY <1>1, <2>2
<1> HIDE DEF k
<1>5. /\ Len(shown') = Len(shown) + 1 /\ DOMAIN shown' = 1 .. (Len(shown) + 1)
      /\ \A i \in 1 .. Len(shown) : shown'[i] = shown[i]
      /\ shown'[Len(shown) + 1] = k
    <2>1. /\ Append(shown, k) \in Seq(Nat) /\ Len(Append(shown, k)) = Len(shown) + 1
          /\ \A i \in 1 .. Len(shown) : Append(shown, k)[i] = shown[i]
          /\ Append(shown, k)[Len(shown) + 1] = k
        BY <1>1, <1>4, AppendProperties
    <2>2. DOMAIN Append(shown, k) = 1 .. (Len(shown) + 1)
        BY <1>1, <2>1
    <2> QED
        BY <1>10, <2>1, <2>2, Zenon
<1>6. n = Len(shown') + Len(r)
    BY <1>1, <1>2, <1>3, <1>5
<1>7. \A i \in DOMAIN shown' : shown'[i] = i
    BY <1>1, <1>3, <1>4, <1>5
<1>8. ASSUME NEW i \in DOMAIN r PROVE r[i].id = Len(shown') + i
    <2>1. i \in Nat /\ i + 1 \in DOMAIN q /\ r[i] = q[i + 1]
        BY <1>2
    <2>2. q[i + 1].id = Len(shown) + (i + 1)
        BY <1>3, <2>1
    <2> QED
        BY <1>1, <1>5, <2>1, <2>2
<1>9. ContinuesThen(r, n)
    BY <1>6, <1>7, <1>8 DEF ContinuesThen
<1> QED
    BY <1>9 DEF r

\* The functions of the stack, on a channel that is not about to close.
LEMMA ReceiveInternal ==
    ASSUME StackInv, Type = "SCTP", ~sendSsrcSet, ~recvSsrcSet, Live, Live', Stacked, Shown, Internal
    PROVE  Stacked' /\ Shown'
<1>0. Types /\ Nesting /\ recvq \in Seq(Msgs) /\ state \in {"connecting", "open"}
    BY DEF StackInv, Types, DataTypes, Live
<1>1. /\ Call("OnStateChange") \in Calls /\ Call("FlushControl") \in Calls /\ Call("SetOpen") \in Calls
      /\ Call("Deliver") \in Calls /\ Call("SendControl") \in Calls
      /\ Call("DeliverFront") \in Calls /\ Call("PopReceived") \in Calls
      /\ \A m \in Msgs : CallWith("OnMessage", m) \in Calls /\ CallWith("Send", m) \in Calls
    BY CallTypes DEF CallNames
<1>2. /\ Call("OnStateChange").f = "OnStateChange" /\ Call("FlushControl").f = "FlushControl"
      /\ Call("SetOpen").f = "SetOpen" /\ Call("Deliver").f = "Deliver"
      /\ Call("SendControl").f = "SendControl" /\ Call("DeliverFront").f = "DeliverFront"
      /\ Call("PopReceived").f = "PopReceived"
      /\ \A m : CallWith("OnMessage", m).f = "OnMessage" /\ CallWith("Send", m).f = "Send"
    BY DEF Call, CallWith
<1>3. <<>> \in Seq(Calls) /\ Len(<<>>) = 0
    OBVIOUS
<1>4. ASSUME NEW f, Running(f)
      PROVE  /\ Top = f /\ N(1) = f /\ 1 \in DOMAIN todo /\ todo # <<>> /\ Len(todo) \in Nat
             /\ DOMAIN todo = 1 .. Len(todo) /\ Len(todo) > 0
    BY <1>0, <1>4, Runs
<1>5. ~Stepped(<<Call("Close")>>)
    BY ClosingNext
\* functions that deliver nothing
<1>6. ASSUME NEW c \in Seq(Calls), Stepped(c), todo # <<>>,
             \A i \in 1 .. Len(c) : c[i].f \notin {"UpdateState", "PopReceived", "OnMessage"},
             Top \notin {"UpdateState", "Deliver", "DeliverFront", "PopReceived", "OnMessage"},
             everWritable' = everWritable, observer' = observer, recvq' = recvq, arrived' = arrived, shown' = shown,
             state' = state \/ \A j \in DOMAIN todo : N(j) # "UpdateState",
             Popping => Len(c) = 0
      PROVE  Stacked' /\ Shown'
    <2>1. Stacked'
        BY <1>0, <1>6, StackedStep
    <2>2. Shown'
        BY <1>0, <1>6, ShownStep
    <2> QED
        BY <2>1, <2>2
<1>7. \A i \in DOMAIN todo : N(i) = "PopReceived" => Top \in {"OnMessage", "Send", "PopReceived"}
    BY DEF Stacked, Top
<1>8. Top \notin {"OnMessage", "Send", "PopReceived"} => ~Popping
    BY <1>7 DEF Popping
<1>9. ASSUME NEW a \in Calls, Stepped(<<a>>)
      PROVE  <<a>> \in Seq(Calls) /\ Len(<<a>>) = 1 /\ \A i \in 1 .. Len(<<a>>) : <<a>>[i] = a
    OBVIOUS
<1>10. CASE Close \/ SetState("SetClosing", "closing")
    BY <1>4, <1>10 DEF Close, SetState, Live
<1>11. CASE SetState("SetClosed", "closed")
    BY <1>11 DEF SetState, Live
<1>12. CASE SetState("SetOpen", "open")
    <2>1. Top = "SetOpen" /\ N(1) = "SetOpen" /\ 1 \in DOMAIN todo /\ todo # <<>>
        BY <1>4, <1>12 DEF SetState
    <2>2. /\ everWritable' = everWritable /\ observer' = observer /\ recvq' = recvq /\ arrived' = arrived
          /\ shown' = shown
        BY <1>12 DEF SetState, flags, receiving, outside, history
    <2>3. \A j \in DOMAIN todo : N(j) # "UpdateState"
        <3> SUFFICES ASSUME NEW j \in DOMAIN todo, N(j) = "UpdateState" PROVE FALSE
            OBVIOUS
        <3>1. N(Len(todo)) = "Deliver" /\ state = "connecting"
            BY <1>0, <2>1 DEF Nesting, Bottomed, Shielded, Exposed
        <3>2. j = Len(todo)
            BY <1>0, <2>1, <3>1 DEF Nesting, Bottomed
        <3> QED
            BY <3>1, <3>2
    <2>4. ~Popping
        BY <1>8, <2>1
    <2>5. Stepped(<<>>) \/ Stepped(<<Call("OnStateChange")>>)
        BY <1>0, <1>12, Returns
    <2>6. CASE Stepped(<<>>)
        <3>1. \A i \in 1 .. Len(<<>>) : FALSE
            BY <1>3
        <3> QED
            BY <1>3, <1>6, <2>1, <2>2, <2>3, <2>4, <2>6, <3>1
    <2>7. CASE Stepped(<<Call("OnStateChange")>>)
        <3> DEFINE c == <<Call("OnStateChange")>>
        <3>1. c \in Seq(Calls) /\ Stepped(c) /\ \A i \in 1 .. Len(c) : c[i].f = "OnStateChange"
            BY <1>1, <1>2, <2>7
        <3> HIDE DEF c
        <3> QED
            BY <1>6, <2>1, <2>2, <2>3, <2>4, <3>1
    <2> QED
        BY <2>5, <2>6, <2>7
<1>13. CASE UpdateState
    <2>1. Top = "UpdateState" /\ N(1) = "UpdateState" /\ 1 \in DOMAIN todo /\ todo # <<>>
        BY <1>4, <1>13 DEF UpdateState
    <2>2. /\ everWritable' = everWritable /\ recvq' = recvq /\ arrived' = arrived /\ shown' = shown
          /\ state' = state
        BY <1>13 DEF UpdateState, receiving, history
    <2>3. state = "connecting"
        BY <2>1 DEF Stacked
    <2>4. Len(todo) = 1
        BY <1>0, <2>1, <2>3 DEF Nesting, Bottomed
    <2>5. Continues(recvq, arrived)
        BY <1>8, <2>1 DEF Shown
    <2>6. CASE Stepped(<<>>) /\ ~everWritable
        <3>1. todo' \in Seq(Calls) /\ Len(todo') = 0
            BY <2>1, <2>4, <2>6 DEF Stepped
        <3>2. todo' = <<>> /\ DOMAIN todo' = {}
            BY <3>1
        <3>3. ~Popping' /\ Top' = "none"
            BY <3>2 DEF Popping, Top
        <3>4. Stacked'
            BY <2>2, <2>6, <3>2 DEF Stacked
        <3>5. Shown'
            BY <2>2, <2>5, <3>3 DEF Shown, Continues
        <3> QED
            BY <3>4, <3>5
    <2>7. CASE Stepped(<<Call("FlushControl"), Call("SetOpen"), Call("Deliver")>>)
        <3> DEFINE c == <<Call("FlushControl"), Call("SetOpen"), Call("Deliver")>>
        <3>1. Stepped(c) /\ Len(c) = 3 /\ c[1].f = "FlushControl" /\ c[2].f = "SetOpen" /\ c[3].f = "Deliver"
            BY <1>2, <2>7
        <3> HIDE DEF c
        <3>2. todo' \in Seq(Calls) /\ Len(todo') = 3
            BY <2>1, <2>4, <3>1 DEF Stepped
        <3>3. todo' # <<>> /\ DOMAIN todo' = 1 .. 3
            BY <3>2
        <3>4. todo'[1].f = "FlushControl" /\ todo'[2].f = "SetOpen" /\ todo'[3].f = "Deliver"
            BY <3>1 DEF Stepped
        <3>5. Top' = "FlushControl" /\ Bottom' = "Deliver"
            BY <3>2, <3>3, <3>4 DEF Top, Bottom, N
        <3>6. \A i \in DOMAIN todo' : todo'[i].f \in {"FlushControl", "SetOpen", "Deliver"}
            BY <3>3, <3>4
        <3>7. ~Popping'
            BY <3>6 DEF Popping, N
        <3>8. Stacked'
            BY <3>5, <3>6 DEF Stacked, N
        <3>9. Shown'
            BY <2>2, <2>5, <3>5, <3>7 DEF Shown, Continues
        <3> QED
            BY <3>8, <3>9
    <2> QED
        <3>1. sendSsrcSet = recvSsrcSet
            BY <1>0 DEF Types, FlagTypes
        <3> QED
            BY <1>0, <1>13, <2>3, <2>6, <2>7, <3>1, Returns
<1>14. ASSUME NEW r \in Outcomes, SendControl(r) PROVE Stacked' /\ Shown'
    <2>1. Top = "SendControl" /\ todo # <<>>
        BY <1>4, <1>14 DEF SendControl
    <2>2. /\ everWritable' = everWritable /\ observer' = observer /\ recvq' = recvq /\ arrived' = arrived
          /\ shown' = shown /\ state' = state
        BY <1>14 DEF SendControl, receiving, outside, history
    <2>3. Stepped(<<>>) /\ \A i \in 1 .. Len(<<>>) : FALSE
        BY <1>0, <1>5, <1>14, Returns
    <2> QED
        BY <1>3, <1>6, <2>1, <2>2, <2>3
<1>15. CASE FlushControl
    <2> DEFINE c == [i \in 1 .. ctrlq |-> Call("SendControl")]
    <2>1. Top = "FlushControl" /\ todo # <<>>
        BY <1>4, <1>15 DEF FlushControl
    <2>2. /\ everWritable' = everWritable /\ observer' = observer /\ recvq' = recvq /\ arrived' = arrived
          /\ shown' = shown /\ state' = state
        BY <1>15 DEF FlushControl, flags, receiving, outside, history
    <2>3. c \in Seq(Calls) /\ Stepped(c)
        BY <1>0, <1>15, Returns
    <2>4. \A i \in 1 .. Len(c) : c[i].f = "SendControl"
        <3>1. ctrlq \in Nat
            BY <1>0 DEF Types, DataTypes
        <3> QED
            BY <1>2, <3>1
    <2>5. ~Popping
        BY <1>8, <2>1
    <2> HIDE DEF c
    <2> QED
        BY <1>6, <2>1, <2>2, <2>3, <2>4, <2>5
<1>16. CASE Deliver
    <2>1. Top = "Deliver" /\ N(1) = "Deliver" /\ 1 \in DOMAIN todo /\ todo # <<>>
        BY <1>4, <1>16 DEF Deliver
    <2>2. /\ everWritable' = everWritable /\ observer' = observer /\ recvq' = recvq /\ arrived' = arrived
          /\ shown' = shown /\ state' = state
        BY <1>16 DEF Deliver, flags, receiving, outside, history
    <2>4. Len(todo) = 1
        BY <1>0, <2>1 DEF Nesting, Bottomed
    <2>5. Continues(recvq, arrived)
        BY <1>8, <2>1 DEF Shown
    <2>6. CASE Stepped(<<>>) /\ ~(everWritable /\ observer)
        <3>1. todo' \in Seq(Calls) /\ Len(todo') = 0
            BY <2>1, <2>4, <2>6 DEF Stepped
        <3>2. todo' = <<>> /\ DOMAIN todo' = {}
            BY <3>1
        <3>3. ~Popping' /\ Top' = "none"
            BY <3>2 DEF Popping, Top
        <3>4. Stacked'
            BY <2>2, <2>6, <3>2 DEF Stacked
        <3>5. Shown'
            BY <2>2, <2>5, <3>3 DEF Shown, Continues
        <3> QED
            BY <3>4, <3>5
    <2>7. CASE Stepped(<<Call("DeliverFront")>>)
        <3> DEFINE c == <<Call("DeliverFront")>>
        <3>1. Stepped(c) /\ Len(c) = 1 /\ c[1].f = "DeliverFront"
            BY <1>2, <2>7
        <3> HIDE DEF c
        <3>2. todo' \in Seq(Calls) /\ Len(todo') = 1 /\ todo'[1].f = "DeliverFront"
            BY <2>1, <2>4, <3>1 DEF Stepped
        <3>3. todo' # <<>> /\ DOMAIN todo' = 1 .. 1
            BY <3>2
        <3>5. Top' = "DeliverFront" /\ Bottom' = "DeliverFront"
            BY <3>2, <3>3 DEF Top, Bottom, N
        <3>6. \A i \in DOMAIN todo' : todo'[i].f = "DeliverFront"
            BY <3>2, <3>3
        <3>7. ~Popping'
            BY <3>6 DEF Popping, N
        <3>8. Stacked'
            BY <3>5, <3>6 DEF Stacked, N
        <3>9. Shown'
            BY <2>2, <2>5, <3>5, <3>7 DEF Shown, Continues
        <3> QED
            BY <3>8, <3>9
    <2> QED
        BY <1>0, <1>16, <2>6, <2>7, ReturnsToo
<1>17. CASE DeliverFront
    <2>1. Top = "DeliverFront" /\ N(1) = "DeliverFront" /\ 1 \in DOMAIN todo /\ todo # <<>>
        BY <1>4, <1>17 DEF DeliverFront
    <2>2. /\ everWritable' = everWritable /\ observer' = observer /\ recvq' = recvq /\ arrived' = arrived
          /\ shown' = shown /\ state' = state
        BY <1>17 DEF DeliverFront, flags, receiving, outside, history
    <2>4. Len(todo) = 1
        BY <1>0, <2>1 DEF Nesting, Bottomed
    <2>5. Continues(recvq, arrived)
        BY <1>8, <2>1 DEF Shown
    <2>6. CASE Stepped(<<>>) /\ recvq = <<>>
        <3>1. todo' \in Seq(Calls) /\ Len(todo') = 0
            BY <2>1, <2>4, <2>6 DEF Stepped
        <3>2. todo' = <<>> /\ DOMAIN todo' = {}
            BY <3>1
        <3>3. ~Popping' /\ Top' = "none"
            BY <3>2 DEF Popping, Top
        <3>4. Stacked'
            BY <2>2, <2>6, <3>2 DEF Stacked
        <3>5. Shown'
            BY <2>2, <2>5, <3>3 DEF Shown, Continues
        <3> QED
            BY <3>4, <3>5
    <2>7. CASE /\ recvq # <<>>
               /\ Stepped(<<CallWith("OnMessage", Head(recvq)), Call("PopReceived"), Call("DeliverFront")>>)
        <3> DEFINE c == <<CallWith("OnMessage", Head(recvq)), Call("PopReceived"), Call("DeliverFront")>>
        <3>0. c[1].m = Head(recvq)
            BY DEF CallWith
        <3>1. Stepped(c) /\ Len(c) = 3 /\ c[1].f = "OnMessage" /\ c[2].f = "PopReceived" /\ c[3].f = "DeliverFront"
            BY <1>2, <2>7
        <3> HIDE DEF c
        <3>2. todo' \in Seq(Calls) /\ Len(todo') = 3
            BY <2>1, <2>4, <3>1 DEF Stepped
        <3>3. todo' # <<>> /\ DOMAIN todo' = 1 .. 3
            BY <3>2
        <3>4. /\ todo'[1].f = "OnMessage" /\ todo'[2].f = "PopReceived" /\ todo'[3].f = "DeliverFront"
              /\ todo'[1].m = Head(recvq)
            BY <3>0, <3>1 DEF Stepped
        <3>5. Top' = "OnMessage" /\ Bottom' = "DeliverFront"
            BY <3>2, <3>3, <3>4 DEF Top, Bottom, N
        <3>6. \A i \in DOMAIN todo' : \/ i = 1 /\ todo'[i].f = "OnMessage"
                                      \/ i = 2 /\ todo'[i].f = "PopReceived"
                                      \/ i = 3 /\ todo'[i].f = "DeliverFront"
            BY <3>3, <3>4
        <3>7. Popping'
            BY <3>3, <3>4 DEF Popping, N
        <3>8. Stacked'
            BY <3>4, <3>5, <3>6 DEF Stacked, N
        <3>10. Head(recvq) = recvq[1]
            BY <1>0, <2>7, QueueStep
        <3>9. Shown'
            BY <2>2, <2>5, <3>4, <3>5, <3>7, <3>10 DEF Shown, Continues
        <3> QED
            BY <3>8, <3>9
    <2> QED
        BY <1>0, <1>17, <2>6, <2>7, ReturnsToo
<1>18. CASE PopReceived
    <2>1. Top = "PopReceived" /\ N(1) = "PopReceived" /\ 1 \in DOMAIN todo /\ todo # <<>>
        BY <1>4, <1>18 DEF PopReceived
    <2>2. /\ everWritable' = everWritable /\ observer' = observer /\ recvq' = Tail(recvq) /\ arrived' = arrived
          /\ shown' = shown /\ state' = state
        BY <1>18 DEF PopReceived, flags, outside, history
    <2>3. Len(todo) = 2 /\ recvq # <<>>
        <3>1. 1 = Len(todo) - 1 /\ recvq # <<>>
            BY <1>0, <2>1 DEF Nesting, Bottomed
        <3> QED
            BY <1>4, <1>18, <3>1 DEF PopReceived
    <2>4. Popping
        BY <2>1 DEF Popping
    <2>5. Continues(Tail(recvq), arrived)
        BY <2>1, <2>4 DEF Shown
    <2>6. Stepped(<<>>)
        BY <1>0, <1>18, ReturnsToo
    <2>7. todo' \in Seq(Calls) /\ Len(todo') = 1
        BY <1>3, <2>1, <2>3, <2>6 DEF Stepped
    <2>18. DOMAIN todo' = 1 .. Len(todo') /\ (todo' = <<>> => Len(todo') = 0)
        <3>1. \A t \in Seq(Calls) : DOMAIN t = 1 .. Len(t) /\ (t = <<>> => Len(t) = 0)
            OBVIOUS
        <3> QED
            BY <2>7, <3>1, Zenon
    <2>8. todo' # <<>> /\ DOMAIN todo' = 1 .. 1
        BY <2>7, <2>18
    <2>9. todo'[1] = todo[2] /\ 2 \in DOMAIN todo
        <3>1. \A i \in DOMAIN todo : i > 1 => i + Len(<<>>) - 1 \in DOMAIN todo' /\ todo'[i + Len(<<>>) - 1] = todo[i]
            BY <2>6 DEF Stepped
        <3>2. 2 \in DOMAIN todo /\ 2 + Len(<<>>) - 1 = 1
            BY <1>0, <1>3, <2>3 DEF Types
        <3> QED
            BY <3>1, <3>2
    <2>10. N(2) # "PopReceived" /\ N(2) \in Resumed
        <3>1. N(2) = "PopReceived" => 2 = Len(todo) - 1
            BY <1>0, <2>9 DEF Nesting, Bottomed
        <3> QED
            BY <1>0, <2>3, <2>9, <3>1 DEF Nesting, Below
    <2>11. Top' = N(2) /\ Bottom' = Bottom
        BY <2>3, <2>7, <2>8, <2>9 DEF Top, Bottom, N
    <2>12. \A i \in DOMAIN todo' : i = 1 /\ todo'[i].f = N(2)
        BY <2>8, <2>9 DEF N
    <2>13. ~Popping'
        BY <2>10, <2>12 DEF Popping, N
    <2>14. N(2) = "UpdateState" => state = "connecting"
        BY <2>9 DEF Stacked
    <2>15. Stacked'
        BY <2>2, <2>3, <2>10, <2>11, <2>12, <2>14 DEF Stacked, N
    <2>16. Top' # "OnMessage"
        BY <2>10, <2>11 DEF Resumed
    <2>17. Shown'
        BY <2>2, <2>5, <2>13, <2>16 DEF Shown, Continues
    <2> QED
        BY <2>15, <2>17
<1>19. CASE OnStateChange
    <2>1. Top = "OnStateChange" /\ todo # <<>> /\ React
        BY <1>4, <1>19 DEF OnStateChange
    <2>2. /\ everWritable' = everWritable /\ observer' = observer /\ recvq' = recvq /\ arrived' = arrived
          /\ shown' = shown /\ state' = state
        BY <1>19 DEF OnStateChange, flags, receiving, outside, history
    <2>3. ~Popping
        BY <1>8, <2>1
    <2>4. CASE Stepped(<<>>)
        <3>1. \A i \in 1 .. Len(<<>>) : FALSE
            BY <1>3
        <3> QED
            BY <1>3, <1>6, <2>1, <2>2, <2>3, <2>4, <3>1
    <2>5. ASSUME NEW z \in Nat, Stepped(<<CallWith("Send", Msg(0, z))>>) PROVE Stacked' /\ Shown'
        <3> DEFINE c == <<CallWith("Send", Msg(0, z))>>
        <3>0. Msg(0, z) \in Msgs
            BY CallTypes
        <3>1. c \in Seq(Calls) /\ Stepped(c) /\ \A i \in 1 .. Len(c) : c[i].f = "Send"
            BY <1>1, <1>2, <2>5, <3>0
        <3> HIDE DEF c
        <3> QED
            BY <1>6, <2>1, <2>2, <2>3, <3>1
    <2> QED
        BY <1>0, <1>5, <2>1, <2>4, <2>5, ReturnsToo
<1>20. ASSUME NEW r, Send(r) PROVE Stacked' /\ Shown'
    <2>1. Top = "Send" /\ todo # <<>>
        BY <1>4, <1>20 DEF Send
    <2>2. /\ everWritable' = everWritable /\ observer' = observer /\ recvq' = recvq /\ arrived' = arrived
          /\ shown' = shown /\ state' = state
        BY <1>20 DEF Send, flags, receiving, outside
    <2>3. Stepped(<<>>) /\ \A i \in 1 .. Len(<<>>) : FALSE
        BY <1>0, <1>5, <1>20, ReturnsToo
    <2> QED
        BY <1>3, <1>6, <2>1, <2>2, <2>3
<1>21. ASSUME NEW r, FlushData(r) PROVE Stacked' /\ Shown'
    <2>1. Top = "FlushData" /\ todo # <<>>
        BY <1>4, <1>21 DEF FlushData
    <2>2. /\ everWritable' = everWritable /\ observer' = observer /\ recvq' = recvq /\ arrived' = arrived
          /\ shown' = shown /\ state' = state
        BY <1>21 DEF FlushData, flags, receiving, outside, history
    <2>3. CASE todo' = todo
        BY <2>2, <2>3 DEF Stacked, Shown, Popping, Continues, Top, Bottom, N
    <2>4. CASE Stepped(<<>>)
        <3>1. \A i \in 1 .. Len(<<>>) : FALSE
            BY <1>3
        <3> QED
            BY <1>3, <1>6, <2>1, <2>2, <2>4, <3>1
    <2> QED
        BY <1>0, <1>5, <1>21, <2>3, <2>4, ReturnsToo
<1>22. CASE TransportGone
    <2>1. Top = "TransportGone" /\ todo # <<>>
        BY <1>4, <1>22 DEF TransportGone
    <2>2. /\ everWritable' = everWritable /\ observer' = observer /\ recvq' = recvq /\ arrived' = arrived
          /\ shown' = shown /\ state' = state
        BY <1>22 DEF TransportGone, flags, receiving, history
    <2>3. Stepped(<<>>) /\ \A i \in 1 .. Len(<<>>) : FALSE
        BY <1>0, <1>22, ReturnsToo
    <2> QED
        BY <1>3, <1>6, <2>1, <2>2, <2>3
<1>23. CASE OnMessage
    <2>1. Top = "OnMessage" /\ todo # <<>> /\ React /\ Head(todo) = todo[1]
        BY <1>0, <1>23, Runs DEF OnMessage
    <2>2. /\ everWritable' = everWritable /\ observer' = observer /\ recvq' = recvq /\ arrived' = arrived
          /\ state' = state /\ shown' = Append(shown, todo[1].m.id)
        BY <1>23, <2>1 DEF OnMessage, flags, receiving, outside
    <2>3. PICK c \in Seq(Calls) : /\ Stepped(c)
                                  /\ Len(c) = 0 \/ (Len(c) = 1 /\ c[1].f = "Send")
        <3>1. CASE Stepped(<<>>)
            BY <1>3, <3>1
        <3>2. ASSUME NEW z \in Nat, Stepped(<<CallWith("Send", Msg(0, z))>>)
              PROVE  \E c \in Seq(Calls) : Stepped(c) /\ (Len(c) = 0 \/ (Len(c) = 1 /\ c[1].f = "Send"))
            <4> DEFINE d == <<CallWith("Send", Msg(0, z))>>
            <4>1. Msg(0, z) \in Msgs
                BY CallTypes
            <4>2. d \in Seq(Calls) /\ Stepped(d) /\ Len(d) = 1 /\ d[1].f = "Send"
                BY <1>1, <1>2, <3>2, <4>1
            <4> HIDE DEF d
            <4> QED
                BY <4>2
        <3> QED
            BY <1>0, <1>5, <2>1, <3>1, <3>2, ReturnsToo
    <2>4. \A i \in 1 .. Len(c) : c[i].f = "Send"
        BY <2>3
    <2>5. Stacked'
        BY <1>0, <2>1, <2>2, <2>3, <2>4, StackedStep
    <2>6. Popping' <=> Popping
        BY <1>0, <2>1, <2>3, <2>4, PoppingStays
    <2>7. Top' # "OnMessage"
        BY <1>0, <2>3, TopNext DEF Resumed
    <2>8. CASE Popping /\ todo[1].m = recvq[1] /\ Continues(recvq, arrived)
        <3>1. recvq # <<>>
            BY <1>0, <2>8 DEF Popping, Nesting, Bottomed
        <3>2. ContinuesThen(Tail(recvq), arrived)
            BY <1>0, <2>2, <2>8, <3>1, ShowsNext
        <3> QED
            BY <2>2, <2>5, <2>6, <2>7, <2>8, <3>2 DEF Shown, Continues, ContinuesThen
    <2>9. CASE /\ Len(todo) = 1 /\ recvq = <<>> /\ todo[1].m.id = arrived
               /\ Continues(<<>>, arrived - 1)
        <3>1. ~Popping
            <4>1. DOMAIN todo = 1 .. 1
                BY <1>0, <2>9 DEF Types
            <4> QED
                BY <2>1, <4>1 DEF Popping, Top, N
        <3>2. arrived \in Nat /\ shown \in Seq(Nat) /\ Len(shown) \in Nat
            BY <1>0 DEF Types, DataTypes
        <3> DEFINE q == <<todo[1].m>>
        <3>3. todo[1].m \in Msgs
            <4>1. todo[1] \in Calls
                BY <1>0, <1>23, Runs DEF OnMessage
            <4> QED
                BY <4>1 DEF Calls
        <3>4. q \in Seq(Msgs) /\ q # <<>> /\ Len(q) = 1 /\ DOMAIN q = 1 .. 1 /\ q[1] = todo[1].m /\ Tail(q) = <<>>
            BY <3>3
        <3>5. /\ arrived - 1 = Len(shown) + 0
              /\ \A i \in DOMAIN shown : shown[i] = i
            BY <2>9 DEF Continues
        <3> HIDE DEF q
        <3>6. Continues(q, arrived)
            BY <2>9, <3>2, <3>4, <3>5 DEF Continues
        <3>7. ContinuesThen(Tail(q), arrived)
            BY <1>0, <2>2, <3>4, <3>6, ShowsNext
        <3>8. Tail(q) = recvq'
            BY <2>2, <2>9, <3>4
        <3> QED
            BY <2>2, <2>5, <2>6, <2>7, <3>1, <3>7, <3>8 DEF Shown, Continues, ContinuesThen
    <2> QED
        BY <2>1, <2>8, <2>9 DEF Shown
<1> QED
    BY <1>10, <1>11, <1>12, <1>13, <1>14, <1>15, <1>16, <1>17, <1>18, <1>19, <1>20, <1>21, <1>22, <1>23
       DEF Internal

\* The events. The stack is empty: whoever could be shown something has been.
LEMMA ReceiveEvent ==
    ASSUME StackInv, Type = "SCTP", Live, Live', Stacked, Shown, Event
    PROVE  Stacked' /\ Shown'
<1>0. Types /\ Nesting /\ recvq \in Seq(Msgs) /\ state \in {"connecting", "open"} /\ arrived \in Nat
    BY DEF StackInv, Types, DataTypes, Live
<1>1. /\ Call("Deliver").f = "Deliver" /\ Call("SendControl").f = "SendControl" /\ Call("Close").f = "Close"
      /\ Call("UpdateState").f = "UpdateState" /\ Call("FlushControl").f = "FlushControl"
      /\ Call("FlushData").f = "FlushData" /\ Call("SetClosing").f = "SetClosing"
      /\ \A m : /\ CallWith("OnMessage", m).f = "OnMessage" /\ CallWith("Send", m).f = "Send"
                /\ CallWith("OnMessage", m).m = m
    BY DEF Call, CallWith
<1>2. todo = <<>> /\ Len(<<>>) = 0 /\ DOMAIN <<>> = {}
    BY DEF Event, AppSends, OnDataReceived, AppCloses, RegisterObserver, UnregisterObserver,
           RemotePeerRequestClose, OnDataEngineClose, DoClose, SetSctpSid, OnTransportChannelCreated,
           SetSsrc, OnChannelReady, OnAckReceived, Idle
<1>3. Top = "none" /\ Bottom = "none" /\ ~Popping
    BY <1>2 DEF Top, Bottom, Popping
<1>4. Continues(recvq, arrived) /\ ~(everWritable /\ observer /\ recvq # <<>>)
    BY <1>3 DEF Shown, Stacked
<1>5. /\ arrived = Len(shown) + Len(recvq) /\ \A i \in DOMAIN shown : shown[i] = i
      /\ \A i \in DOMAIN recvq : recvq[i].id = Len(shown) + i
      /\ shown \in Seq(Nat) /\ Len(shown) \in Nat
    BY <1>0, <1>4 DEF Continues, Types, DataTypes
\* an event that shows nothing
<1>6. ASSUME \A i \in DOMAIN todo' : todo'[i].f \notin {"PopReceived", "OnMessage"},
             \A i \in DOMAIN todo' : todo'[i].f = "UpdateState" => state' = "connecting",
             todo' # <<>> => 1 \in DOMAIN todo',
             recvq' = recvq, arrived' = arrived, shown' = shown,
             everWritable' /\ observer' /\ recvq' # <<>> => Bottom' \in {"UpdateState", "Deliver", "DeliverFront"}
      PROVE  Stacked' /\ Shown'
    <2>1. ~Popping' /\ Top' # "OnMessage"
        BY <1>6 DEF Popping, Top, N
    <2>2. Stacked'
        BY <1>6 DEF Stacked, N
    <2>3. Shown'
        BY <1>4, <1>6, <2>1 DEF Shown, Continues
    <2> QED
        BY <2>2, <2>3
<1>7. ASSUME todo' = <<>>, recvq' = recvq, arrived' = arrived, shown' = shown,
             everWritable' => everWritable, observer' => observer
      PROVE  Stacked' /\ Shown'
    <2>1. DOMAIN todo' = {}
        BY <1>2, <1>7
    <2> QED
        BY <1>4, <1>6, <1>7, <2>1
<1>8. ASSUME NEW z, AppSends(z) PROVE Stacked' /\ Shown'
    <2>1. todo' = <<CallWith("Send", Msg(0, z))>>
        BY <1>0, <1>8, Arrives
    <2>2. DOMAIN todo' = {1} /\ todo'[1].f = "Send"
        BY <1>1, <2>1
    <2>3. /\ recvq' = recvq /\ arrived' = arrived /\ shown' = shown
          /\ everWritable' = everWritable /\ observer' = observer
        BY <1>8 DEF AppSends, receiving, history, flags, outside
    <2> QED
        BY <1>4, <1>6, <2>2, <2>3
<1>9. CASE AppCloses
    <2>1. todo' = <<Call("Close")>>
        BY <1>0, <1>9, Arrives
    <2>2. todo' # <<>> /\ todo'[1].f = "Close"
        BY <1>1, <2>1
    <2> QED
        BY <2>2 DEF Live, Top, N
<1>10. CASE RegisterObserver
    <2>1. todo' = <<Call("Deliver")>>
        BY <1>0, <1>10, Arrives
    <2>2. DOMAIN todo' = {1} /\ todo'[1].f = "Deliver" /\ todo' # <<>> /\ Len(todo') = 1
        BY <1>1, <2>1
    <2>3. recvq' = recvq /\ arrived' = arrived /\ shown' = shown
        BY <1>10 DEF RegisterObserver, receiving, history
    <2>4. Bottom' = "Deliver"
        BY <2>2 DEF Bottom, N
    <2> QED
        BY <1>6, <2>2, <2>3, <2>4
<1>11. CASE UnregisterObserver \/ SetSctpSid \/ OnTransportChannelCreated \/ OnAckReceived
    <2>1. todo' = <<>>
        BY <1>0, <1>11, Arrives
    <2>2. /\ recvq' = recvq /\ arrived' = arrived /\ shown' = shown
          /\ (everWritable' => everWritable) /\ (observer' => observer)
        BY <1>11 DEF UnregisterObserver, SetSctpSid, OnTransportChannelCreated, OnAckReceived, receiving,
                     history, flags, outside
    <2> QED
        BY <1>7, <2>1, <2>2
<1>12. CASE RemotePeerRequestClose \/ OnDataEngineClose
    <2>1. \/ todo' = <<Call("SetClosing"), Call("UpdateState")>>
          \/ todo' = <<Call("SetClosing"), Call("UpdateState"), Call("TransportGone")>>
        BY <1>0, <1>12, Arrives
    <2>2. todo' # <<>> /\ todo'[1].f = "SetClosing"
        BY <1>1, <2>1
    <2> QED
        BY <2>2 DEF Live, Top, N
<1>13. CASE SetSsrc
    BY <1>13 DEF SetSsrc
<1>14. CASE OnChannelReady
    <2>1. /\ recvq' = recvq /\ arrived' = arrived /\ shown' = shown /\ observer' = observer /\ state' = state
        BY <1>14 DEF OnChannelReady, receiving, history
    <2>2. CASE everWritable /\ todo' = <<>>
        BY <1>7, <2>1, <2>2
    <2>3. CASE everWritable /\ todo' = <<Call("FlushControl"), Call("FlushData")>>
        <3>1. DOMAIN todo' = {1, 2} /\ todo'[1].f = "FlushControl" /\ todo'[2].f = "FlushData"
            BY <1>1, <2>3
        <3> QED
            BY <1>4, <1>6, <2>1, <2>3, <3>1
    <2>4. CASE ~everWritable /\ todo' = <<Call("SendControl"), Call("UpdateState")>>
        <3>1. /\ DOMAIN todo' = {1, 2} /\ todo'[1].f = "SendControl" /\ todo'[2].f = "UpdateState"
              /\ todo' # <<>> /\ Len(todo') = 2
            BY <1>1, <2>4
        <3>2. state = "connecting"
            BY <1>0, <2>4 DEF Nesting, Writable
        <3>3. Bottom' = "UpdateState"
            BY <3>1 DEF Bottom, N
        <3> QED
            BY <1>6, <2>1, <3>1, <3>2, <3>3
    <2>5. CASE ~everWritable /\ todo' = <<Call("UpdateState")>>
        <3>1. DOMAIN todo' = {1} /\ todo'[1].f = "UpdateState" /\ todo' # <<>> /\ Len(todo') = 1
            BY <1>1, <2>5
        <3>2. state = "connecting"
            BY <1>0, <2>5 DEF Nesting, Writable
        <3>3. Bottom' = "UpdateState"
            BY <3>1 DEF Bottom, N
        <3> QED
            BY <1>6, <2>1, <3>1, <3>2, <3>3
    <2> QED
        BY <1>0, <1>14, <2>2, <2>3, <2>4, <2>5, Arrives
<1>15. ASSUME NEW z \in Sizes, OnDataReceived(z) PROVE Stacked' /\ Shown'
    <2>1. arrived' = arrived + 1 /\ shown' = shown /\ everWritable' = everWritable /\ observer' = observer
        BY <1>15 DEF OnDataReceived, outside
    <2> DEFINE m == Msg(arrived + 1, z)
    <2>2. m.id = arrived + 1 /\ m \in Msgs
        BY <1>0 DEF Msg, Msgs, Sizes, Types, DataTypes
    <2>3. CASE everWritable /\ observer /\ todo' = <<CallWith("OnMessage", m)>> /\ recvq' = recvq
        <3> HIDE DEF m
        <3>1. /\ DOMAIN todo' = {1} /\ todo'[1].f = "OnMessage" /\ todo'[1].m = m /\ todo' # <<>>
              /\ Len(todo') = 1
            BY <1>1, <2>3
        <3>2. Top' = "OnMessage" /\ recvq' = <<>> /\ recvq = <<>>
            BY <1>4, <2>3, <3>1 DEF Top, N
        <3>3. Stacked'
            BY <3>1, <3>2 DEF Stacked, N
        <3>4. arrived' - 1 = Len(shown) + Len(<<>>)
            BY <1>0, <1>2, <1>5, <2>1, <3>2
        <3>5. todo'[1].m.id = arrived'
            BY <2>1, <2>2, <3>1
        <3>6. Continues(<<>>, arrived - 1)'
            BY <1>2, <1>5, <2>1, <3>4 DEF Continues
        <3>7. Shown'
            BY <3>1, <3>2, <3>5, <3>6 DEF Shown
        <3> QED
            BY <3>3, <3>7
    <2>4. CASE ~(everWritable /\ observer) /\ todo' = <<>> /\ recvq' = Append(recvq, m)
        <3> HIDE DEF m
        <3>1. DOMAIN todo' = {}
            BY <1>2, <2>4
        <3>2. Stacked'
            BY <2>1, <2>4, <3>1 DEF Stacked
        <3>3. Top' = "none" /\ ~Popping'
            BY <2>4, <3>1 DEF Top, Popping
        <3>4. /\ Len(recvq) \in Nat /\ DOMAIN recvq = 1 .. Len(recvq)
              /\ Len(recvq') = Len(recvq) + 1 /\ DOMAIN recvq' = 1 .. (Len(recvq) + 1)
              /\ recvq'[Len(recvq) + 1] = m /\ \A i \in 1 .. Len(recvq) : recvq'[i] = recvq[i]
            BY <1>0, <2>2, <2>4, QueueStep
        <3>5. arrived' = Len(shown) + Len(recvq')
            BY <1>0, <1>5, <2>1, <3>4
        <3>6. ASSUME NEW i \in DOMAIN recvq' PROVE recvq'[i].id = Len(shown) + i
            <4>1. CASE i = Len(recvq) + 1
                BY <1>5, <2>2, <3>4, <4>1
            <4>2. CASE i # Len(recvq) + 1
                <5>1. i \in DOMAIN recvq /\ recvq'[i] = recvq[i]
                    BY <3>4, <4>2
                <5> QED
                    BY <1>5, <5>1
            <4> QED
                BY <4>1, <4>2
        <3>7. Continues(recvq, arrived)'
            BY <1>5, <2>1, <3>5, <3>6 DEF Continues
        <3> QED
            BY <3>2, <3>3, <3>7 DEF Shown
    <2>5. CASE todo' = <<Call("Close")>>
        <3>1. todo' # <<>> /\ todo'[1].f = "Close"
            BY <1>1, <2>5
        <3> QED
            BY <3>1 DEF Live, Top, N
    <2> QED
        BY <1>0, <1>15, <2>3, <2>4, <2>5, DataArrive
<1> QED
    BY <1>8, <1>9, <1>10, <1>11, <1>12, <1>13, <1>14, <1>15 DEF Event

LEMMA ReceiveInit == Init => ReceiveInv
<1> SUFFICES ASSUME Init PROVE ReceiveInv
    OBVIOUS
<1>1. /\ todo = <<>> /\ recvq = <<>> /\ shown = <<>> /\ arrived = 0 /\ ~everWritable
      /\ ~sendSsrcSet /\ ~recvSsrcSet
    BY DEF Init
<1>2. Len(<<>>) = 0 /\ DOMAIN <<>> = {}
    OBVIOUS
<1>3. Top = "none" /\ ~Popping
    BY <1>1, <1>2 DEF Top, Popping
<1>4. Continues(recvq, arrived)
    BY <1>1, <1>2 DEF Continues
<1>5. Stacked
    BY <1>1, <1>2 DEF Stacked
<1> QED
    BY <1>1, <1>3, <1>4, <1>5 DEF ReceiveInv, Shown

LEMMA ReceiveNext == ASSUME StackInv, ReceiveInv, [Next]_vars PROVE ReceiveInv'
<1>0. Types
    BY DEF StackInv
<1>1. CASE UNCHANGED vars
    BY <1>1 DEF vars, flags, receiving, outside, history, ReceiveInv, Type, Live, Stacked, Shown, Top, Bottom,
                Popping, Continues, N
<1>2. CASE Next
    <2> SUFFICES ASSUME Type' = "SCTP" PROVE ~sendSsrcSet' /\ ~recvSsrcSet' /\ (Live' => Stacked' /\ Shown')
        BY SMTT(40) DEF ReceiveInv
    <2>1. config' = config
        BY <1>2 DEF Next, Internal, Close, UpdateState, FlushControl, Deliver, DeliverFront, SetState,
            PopReceived, OnStateChange, OnMessage, TransportGone, SendControl, Send, FlushData, Event,
            AppSends, OnDataReceived, AppCloses, RegisterObserver, UnregisterObserver,
            RemotePeerRequestClose, OnDataEngineClose, DoClose, SetSctpSid, OnTransportChannelCreated,
            SetSsrc, OnChannelReady, OnAckReceived, history
    <2>2. Type = "SCTP" /\ ~sendSsrcSet /\ ~recvSsrcSet /\ (Live => Stacked /\ Shown)
        BY <2>1, SMTT(40) DEF Type, ReceiveInv
    <2>3. ~sendSsrcSet' /\ ~recvSsrcSet'
        BY <1>2, <2>2 DEF Next, Internal, Close, UpdateState, FlushControl, Deliver, DeliverFront, SetState,
            PopReceived, OnStateChange, OnMessage, TransportGone, SendControl, Send, FlushData, Event,
            AppSends, OnDataReceived, AppCloses, RegisterObserver, UnregisterObserver,
            RemotePeerRequestClose, OnDataEngineClose, DoClose, SetSctpSid, OnTransportChannelCreated,
            SetSsrc, OnChannelReady, OnAckReceived, flags
    <2>4. ASSUME Live' PROVE Stacked' /\ Shown'
        <3>1. Live
            BY <2>4, LiveBefore
        <3>2. CASE Internal
            BY <2>2, <2>4, <3>1, <3>2, ReceiveInternal
        <3>3. CASE Event
            BY <2>2, <2>4, <3>1, <3>3, ReceiveEvent
        <3> QED
            BY <1>2, <3>2, <3>3 DEF Next
    <2> QED
        BY <2>3, <2>4
<1> QED
    BY <1>1, <1>2

LEMMA ReceiveHolds == ASSUME Types, ReceiveInv PROVE ReceiveIntact
<1> SUFFICES ASSUME todo = <<>>, state = "open", Type = "SCTP" PROVE shown \o Ids(recvq) = UpTo(arrived)
    BY DEF ReceiveIntact, Idle
<1>1. Top = "none" /\ ~Popping /\ Live
    <2>1. DOMAIN todo = {}
        OBVIOUS
    <2> QED
        BY <2>1 DEF Top, Popping, Live
<1>2. Continues(recvq, arrived)
    BY <1>1 DEF ReceiveInv, Shown
<1>3. /\ shown \in Seq(Nat) /\ Len(shown) \in Nat /\ DOMAIN shown = 1 .. Len(shown)
      /\ recvq \in Seq(Msgs) /\ Len(recvq) \in Nat /\ DOMAIN recvq = 1 .. Len(recvq) /\ arrived \in Nat
    BY DEF Types, DataTypes
<1>4. /\ arrived = Len(shown) + Len(recvq) /\ \A i \in 1 .. Len(shown) : shown[i] = i
      /\ \A i \in 1 .. Len(recvq) : recvq[i].id = Len(shown) + i
    BY <1>2, <1>3 DEF Continues
<1> DEFINE s == Ids(recvq)  t == shown \o s  u == UpTo(arrived)
<1>5. \A i \in 1 .. Len(recvq) : recvq[i].id \in Nat
    BY <1>3, <1>4
<1>6. s \in Seq(Nat) /\ Len(s) = Len(recvq) /\ \A i \in 1 .. Len(recvq) : s[i] = recvq[i].id
    BY <1>3, <1>5 DEF Ids
<1>7. u \in Seq(Nat) /\ Len(u) = arrived /\ \A i \in 1 .. arrived : u[i] = i
    BY <1>3 DEF UpTo
<1> HIDE DEF s
<1>8. /\ t \in Seq(Nat) /\ Len(t) = Len(shown) + Len(s)
      /\ \A i \in 1 .. (Len(shown) + Len(s)) :
            t[i] = IF i <= Len(shown) THEN shown[i] ELSE s[i - Len(shown)]
    <2>1. \A a, b \in Seq(Nat) :
             /\ a \o b \in Seq(Nat) /\ Len(a \o b) = Len(a) + Len(b)
             /\ \A i \in 1 .. (Len(a) + Len(b)) : (a \o b)[i] = IF i <= Len(a) THEN a[i] ELSE b[i - Len(a)]
        BY ConcatProperties
    <2> QED
        BY <1>3, <1>6, <2>1, Zenon
<1> HIDE DEF t, u
<1>9. Len(t) = Len(u) /\ Len(t) = arrived
    BY <1>3, <1>4, <1>6, <1>7, <1>8
<1>10. ASSUME NEW i \in 1 .. Len(t) PROVE t[i] = u[i]
    <2>1. i \in 1 .. arrived /\ i \in Nat /\ u[i] = i
        BY <1>7, <1>9
    <2>2. CASE i <= Len(shown)
        <3>1. i \in 1 .. Len(shown) /\ i \in 1 .. (Len(shown) + Len(s))
            BY <1>3, <1>6, <2>1, <2>2
        <3> QED
            BY <1>4, <1>8, <2>1, <2>2, <3>1
    <2>3. CASE ~(i <= Len(shown))
        <3>1. i \in 1 .. (Len(shown) + Len(s)) /\ i - Len(shown) \in 1 .. Len(recvq)
            BY <1>3, <1>4, <1>6, <2>1, <2>3
        <3>2. t[i] = s[i - Len(shown)]
            BY <1>8, <2>3, <3>1
        <3>3. s[i - Len(shown)] = Len(shown) + (i - Len(shown))
            BY <1>4, <1>6, <3>1
        <3> QED
            BY <1>3, <2>1, <3>2, <3>3
    <2> QED
        BY <2>2, <2>3
<1>11. t = u
    BY <1>7, <1>8, <1>9, <1>10, SeqEqual
<1> QED
    BY <1>11 DEF t, u, s

\* While an SCTP channel is open, what arrived is what the observer has been
\* shown followed by what is queued for it, each message once and in order,
\* whenever the observer was registered or taken away, whenever the channel
\* became writable, and whatever the observer called while the queue was being
\* delivered, for any number of messages and any limit of the queue, until a
\* handshake message that had blocked is refused.
THEOREM ReceiveStreamIntact == Spec => [](refused \/ ReceiveIntact)
<1>1. Init => ReceiveInv
    BY ReceiveInit
<1>2. (refused \/ StackInv) /\ (refused \/ ReceiveInv) /\ [Next]_vars => (refused \/ ReceiveInv)'
    BY ReceiveNext, RefusedStays
<1>3. StackInv /\ ReceiveInv => ReceiveIntact
    BY ReceiveHolds DEF StackInv
<1>4. Spec => [](refused \/ StackInv)
    BY StackHolds
<1> QED
    BY <1>1, <1>2, <1>3, <1>4, PTL DEF Spec

-----------------------------------------------------------------------------
(***************************************************************************)
(* The order of the nested calls and their messages, whatever the transport *)
(* answers.                                                                 *)
(***************************************************************************)
\* Calls that may be put on the stack.
Ready(c) ==
    /\ c \in Seq(Calls) /\ Placed(c)
    /\ \A i \in 1 .. Len(c) : c[i].m \in Messages /\ (c[i].f = "Send" => accepted' < MaxSends)

\* The stack with the calls c in the place of the running one.
LEMMA LaidStep ==
    ASSUME Types, Laid, NEW c, Stepped(c), Ready(c), Steady, config' = config
    PROVE  Laid'
<1>0. c \in Seq(Calls) /\ Placed(c)
    BY DEF Ready
<1>1. Below' /\ Bottomed'
    BY <1>0, OrderStep DEF Laid
<1>2. Messages' = Messages
    BY DEF Messages, Sizes
<1>3. Loaded'
    <2> SUFFICES ASSUME NEW i \in DOMAIN todo'
                 PROVE  todo'[i].m \in Messages /\ (todo'[i].f = "Send" => accepted' < MaxSends)
        BY <1>2 DEF Loaded, N
    <2>1. Shifted(Len(c)) /\ Len(c) \in Nat
        BY <1>0, Shift
    <2>2. CASE i \in 1 .. Len(c)
        <3>1. todo'[i] = c[i]
            BY <2>2 DEF Stepped
        <3> QED
            BY <2>2, <3>1 DEF Ready
    <2>3. CASE i > Len(c)
        <3>1. PICK j \in DOMAIN todo : j > 1 /\ todo'[i] = todo[j]
            BY <2>1, <2>3 DEF Shifted
        <3>2. N(j) \in Resumed /\ todo[j].m \in Messages
            BY <3>1 DEF Laid, Below, Loaded
        <3>3. N(j) # "Send"
            BY <3>2 DEF Resumed
        <3> QED
            BY <3>1, <3>2, <3>3 DEF N
    <2>4. i \in 1 .. Len(c) \/ i > Len(c)
        BY <2>1 DEF Shifted
    <2> QED
        BY <2>2, <2>3, <2>4
<1> QED
    BY <1>1, <1>3 DEF Laid

\* The messages, and the one of a call without any.
LEMMA MessageTypes ==
    ASSUME Types
    PROVE  /\ Messages \subseteq Msgs /\ Sizes \subseteq Nat
           /\ \A a \in 0 .. MaxSends + MaxReceives, z \in Sizes : Msg(a, z) \in Messages
           /\ \A f : Call(f).m \in Messages
<1>1. Sizes \subseteq Nat
    BY DEF Sizes, Types, DataTypes
<1> DEFINE B == 0 .. MaxSends + MaxReceives
           Z == Sizes \cup {0}
<1>2. B \subseteq Nat /\ Z \subseteq Nat /\ 0 \in B /\ 0 \in Z
    BY <1>1
<1>3. Messages = [id : B, size : Z]
    BY DEF Messages
<1> HIDE DEF B, Z
<1>4. Messages \subseteq Msgs
    BY <1>2, <1>3 DEF Msgs
<1>5. \A a \in B, z \in Z : Msg(a, z) \in Messages
    BY <1>3 DEF Msg
<1>6. \A f : Call(f).m \in Messages
    BY <1>2, <1>5 DEF Call
<1> QED
    BY <1>1, <1>4, <1>5, <1>6 DEF B, Z

\* Calls that may be put anywhere.
LEMMA PlainReady ==
    /\ Ready(<<>>)
    /\ \A a \in Calls : /\ a.f \in Plain /\ a.m \in Messages
                        /\ a.f = "Send" => accepted' < MaxSends
                        => Ready(<<a>>)
<1>1. Ready(<<>>)
    <2>1. <<>> \in Seq(Calls) /\ Len(<<>>) = 0
        OBVIOUS
    <2> QED
        BY <2>1 DEF Ready, Placed
<1>2. ASSUME NEW a \in Calls, a.f \in Plain, a.m \in Messages, a.f = "Send" => accepted' < MaxSends
      PROVE  Ready(<<a>>)
    <2> DEFINE c == <<a>>
    <2>1. c \in Seq(Calls) /\ Len(c) = 1 /\ c[1] = a
        OBVIOUS
    <2> HIDE DEF c
    <2>2. \A i \in 1 .. Len(c) : i = 1 /\ c[i] = a
        BY <2>1
    <2>3. Placed(c)
        BY <1>2, <2>2 DEF Placed, Plain
    <2>4. Ready(c)
        BY <1>2, <2>1, <2>2, <2>3 DEF Ready
    <2> QED
        BY <2>4 DEF c
<1> QED
    BY <1>1, <1>2

\* Calls that begin a closure.
LEMMA ClosingReady ==
    ASSUME Types
    PROVE  /\ Ready(<<Call("SetClosing"), Call("UpdateState")>>)
           /\ Ready(<<Call("SetClosing"), Call("UpdateState"), Call("TransportGone")>>)
<1>1. /\ Call("SetClosing") \in Calls /\ Call("UpdateState") \in Calls /\ Call("TransportGone") \in Calls
      /\ Call("SetClosing").f = "SetClosing" /\ Call("UpdateState").f = "UpdateState"
      /\ Call("TransportGone").f = "TransportGone"
    BY CallTypes DEF CallNames
<1>2. Ready(<<Call("SetClosing"), Call("UpdateState")>>)
    <2> DEFINE c == <<Call("SetClosing"), Call("UpdateState")>>
    <2>1. c \in Seq(Calls) /\ Len(c) = 2 /\ c[1].f = "SetClosing" /\ c[2].f = "UpdateState"
          /\ c[1].m \in Messages /\ c[2].m \in Messages
        BY <1>1, MessageTypes
    <2> HIDE DEF c
    <2>2. \A i \in 1 .. Len(c) : \/ i = 1 /\ c[i].f = "SetClosing" /\ c[i].m \in Messages
                                 \/ i = 2 /\ c[i].f = "UpdateState" /\ c[i].m \in Messages
        BY <2>1
    <2>3. Placed(c)
        BY <2>1, <2>2 DEF Placed, Resumed
    <2>4. Ready(c)
        BY <2>1, <2>2, <2>3 DEF Ready
    <2> QED
        BY <2>4 DEF c
<1>3. Ready(<<Call("SetClosing"), Call("UpdateState"), Call("TransportGone")>>)
    <2> DEFINE c == <<Call("SetClosing"), Call("UpdateState"), Call("TransportGone")>>
    <2>1. c \in Seq(Calls) /\ Len(c) = 3 /\ c[1].f = "SetClosing" /\ c[2].f = "UpdateState"
          /\ c[3].f = "TransportGone" /\ c[1].m \in Messages /\ c[2].m \in Messages /\ c[3].m \in Messages
        BY <1>1, MessageTypes
    <2> HIDE DEF c
    <2>2. \A i \in 1 .. Len(c) : \/ i = 1 /\ c[i].f = "SetClosing" /\ c[i].m \in Messages
                                 \/ i = 2 /\ c[i].f = "UpdateState" /\ c[i].m \in Messages
                                 \/ i = 3 /\ c[i].f = "TransportGone" /\ c[i].m \in Messages
        BY <2>1
    <2>3. Placed(c)
        BY <2>1, <2>2 DEF Placed, Resumed
    <2>4. Ready(c)
        BY <2>1, <2>2, <2>3 DEF Ready
    <2> QED
        BY <2>4 DEF c
<1> QED
    BY <1>2, <1>3

\* The functions of the stack keep it in order.
LEMMA LaidInternal ==
    ASSUME Types, Laid, recvq \in Seq(Messages), Internal
    PROVE  Laid'
<1>0. Types /\ Laid /\ Bottomed
    BY DEF Laid
<1>1. /\ Call("Close") \in Calls /\ Call("OnStateChange") \in Calls /\ Call("FlushControl") \in Calls
      /\ Call("SetOpen") \in Calls /\ Call("Deliver") \in Calls /\ Call("SetClosed") \in Calls
      /\ Call("SendControl") \in Calls /\ Call("DeliverFront") \in Calls /\ Call("PopReceived") \in Calls
      /\ \A m \in Msgs : CallWith("OnMessage", m) \in Calls /\ CallWith("Send", m) \in Calls
    BY CallTypes DEF CallNames
<1>2. /\ \A f : Call(f).f = f /\ Call(f).m \in Messages
      /\ \A m : CallWith("OnMessage", m).f = "OnMessage" /\ CallWith("Send", m).f = "Send"
      /\ \A m : CallWith("OnMessage", m).m = m /\ CallWith("Send", m).m = m
    BY MessageTypes DEF Call, CallWith
<1>3. /\ Ready(<<>>) /\ Ready(<<Call("Close")>>) /\ Ready(<<Call("OnStateChange")>>) /\ Ready(<<Call("SetClosed")>>)
    BY <1>1, <1>2, PlainReady DEF Plain
<1>4. ASSUME NEW f, Running(f) PROVE Top = f /\ N(1) = f /\ 1 \in DOMAIN todo /\ todo # <<>>
    BY <1>0, <1>4, Runs
<1> DEFINE Same == config' = config /\ state' = state /\ recvq' = recvq
<1>5. ASSUME Same, Top # "SetClosing" PROVE Steady /\ config' = config
    BY <1>5 DEF Steady
<1>6. CASE Close
    <2>1. Steady /\ config' = config
        BY <1>4, <1>5, <1>6 DEF Close, receiving, history
    <2> QED
        BY <1>0, <1>3, <1>6, <2>1, ClosingReady, LaidStep, Returns
<1>7. ASSUME NEW f \in {"SetOpen", "SetClosing", "SetClosed"}, NEW s, SetState(f, s),
             (f = "SetOpen" /\ s = "open") \/ (f = "SetClosing" /\ s = "closing") \/ (f = "SetClosed" /\ s = "closed")
      PROVE  Laid'
    <2>1. Top = f /\ N(1) = f /\ 1 \in DOMAIN todo
        BY <1>4, <1>7 DEF SetState
    <2>2. config' = config /\ recvq' = recvq /\ state' = s
        BY <1>7 DEF SetState, receiving, history
    <2>3. f = "SetOpen" => \A j \in DOMAIN todo : j > 1 => N(j) # "UpdateState"
        <3> SUFFICES ASSUME f = "SetOpen", NEW j \in DOMAIN todo, j > 1 PROVE N(j) # "UpdateState"
            OBVIOUS
        <3>1. 1 = Len(todo) - 1 /\ N(Len(todo)) = "Deliver"
            BY <1>0, <1>7, <2>1 DEF Bottomed
        <3>2. j = Len(todo)
            <4>1. Len(todo) \in Nat /\ DOMAIN todo = 1 .. Len(todo)
                BY DEF Types
            <4> QED
                BY <3>1, <4>1
        <3> QED
            BY <3>1, <3>2
    <2>4. Steady
        BY <1>7, <2>1, <2>2, <2>3 DEF Steady
    <2> QED
        BY <1>0, <1>3, <1>7, <2>2, <2>4, LaidStep, Returns
<1>8. CASE UpdateState
    <2>1. Top = "UpdateState" /\ N(1) = "UpdateState" /\ 1 \in DOMAIN todo /\ todo # <<>>
        BY <1>4, <1>8 DEF UpdateState
    <2>2. Steady /\ config' = config
        BY <1>5, <1>8, <2>1 DEF UpdateState, receiving, history
    <2>3. CASE state = "connecting" /\ Stepped(<<Call("FlushControl"), Call("SetOpen"), Call("Deliver")>>)
        <3> DEFINE c == <<Call("FlushControl"), Call("SetOpen"), Call("Deliver")>>
        <3>1. c \in Seq(Calls) /\ Len(c) = 3
            BY <1>1
        <3>2. /\ c[1].f = "FlushControl" /\ c[2].f = "SetOpen" /\ c[3].f = "Deliver"
              /\ c[1].m \in Messages /\ c[2].m \in Messages /\ c[3].m \in Messages
            BY <1>2
        <3>3. Stepped(c)
            BY <2>3
        <3> HIDE DEF c
        <3>4. 1 = Len(todo)
            BY <1>0, <2>1, <2>3 DEF Bottomed
        <3>5. Len(todo') = 3
            BY <2>1, <3>1, <3>3, <3>4 DEF Stepped
        <3>6. \A i \in 1 .. Len(c) : \/ i = 1 /\ c[i].f = "FlushControl" /\ c[i].m \in Messages
                                     \/ i = 2 /\ c[i].f = "SetOpen" /\ c[i].m \in Messages
                                     \/ i = 3 /\ c[i].f = "Deliver" /\ c[i].m \in Messages
            BY <3>1, <3>2
        <3>7. todo'[3].f = "Deliver"
            BY <3>1, <3>2, <3>3 DEF Stepped
        <3>8. Placed(c)
            BY <3>5, <3>6, <3>7 DEF Placed, Resumed
        <3>9. Ready(c)
            BY <3>1, <3>6, <3>8 DEF Ready
        <3> QED
            BY <1>0, <2>2, <3>3, <3>9, LaidStep
    <2> QED
        BY <1>0, <1>3, <1>8, <2>2, <2>3, LaidStep, Returns
<1>9. ASSUME NEW r \in Outcomes, SendControl(r) PROVE Laid'
    <2>1. Steady /\ config' = config
        BY <1>4, <1>5, <1>9 DEF SendControl, receiving, history
    <2> QED
        BY <1>0, <1>3, <1>9, <2>1, LaidStep, Returns
<1>10. CASE FlushControl
    <2> DEFINE c == [i \in 1 .. ctrlq |-> Call("SendControl")]
    <2>1. Steady /\ config' = config
        BY <1>4, <1>5, <1>10 DEF FlushControl, receiving, history
    <2>2. c \in Seq(Calls) /\ Stepped(c)
        BY <1>0, <1>10, Returns
    <2>3. ctrlq \in Nat
        BY <1>0 DEF Types, DataTypes
    <2>4. Len(c) = ctrlq /\ \A i \in 1 .. Len(c) : c[i] = Call("SendControl")
        BY <2>3
    <2> HIDE DEF c
    <2>5. \A i \in 1 .. Len(c) : c[i].f = "SendControl" /\ c[i].m \in Messages
        BY <1>2, <2>4
    <2>6. Placed(c)
        BY <2>5 DEF Placed, Resumed
    <2>7. Ready(c)
        BY <2>2, <2>5, <2>6 DEF Ready
    <2> QED
        BY <1>0, <2>1, <2>2, <2>7, LaidStep
<1>11. CASE Deliver
    <2>1. Top = "Deliver" /\ N(1) = "Deliver" /\ 1 \in DOMAIN todo /\ todo # <<>>
        BY <1>4, <1>11 DEF Deliver
    <2>2. Steady /\ config' = config
        BY <1>5, <1>11, <2>1 DEF Deliver, receiving, history
    <2>3. CASE Stepped(<<Call("DeliverFront")>>)
        <3> DEFINE c == <<Call("DeliverFront")>>
        <3>1. c \in Seq(Calls) /\ Len(c) = 1 /\ c[1].f = "DeliverFront" /\ c[1].m \in Messages /\ Stepped(c)
            BY <1>1, <1>2, <2>3
        <3> HIDE DEF c
        <3>2. 1 = Len(todo)
            BY <1>0, <2>1 DEF Bottomed
        <3>3. Len(todo') = 1
            BY <2>1, <3>1, <3>2 DEF Stepped
        <3>4. \A i \in 1 .. Len(c) : i = 1 /\ c[i].f = "DeliverFront" /\ c[i].m \in Messages
            BY <3>1
        <3>5. Placed(c)
            BY <3>3, <3>4 DEF Placed
        <3>6. Ready(c)
            BY <3>1, <3>4, <3>5 DEF Ready
        <3> QED
            BY <1>0, <2>2, <3>1, <3>6, LaidStep
    <2> QED
        BY <1>0, <1>3, <1>11, <2>2, <2>3, LaidStep, ReturnsToo
<1>12. CASE DeliverFront
    <2>1. Top = "DeliverFront" /\ N(1) = "DeliverFront" /\ 1 \in DOMAIN todo /\ todo # <<>>
        BY <1>4, <1>12 DEF DeliverFront
    <2>2. Same
        BY <1>12 DEF DeliverFront, receiving, history
    <2>3. Steady /\ config' = config
        BY <1>5, <2>1, <2>2
    <2>4. CASE /\ recvq # <<>> /\ Head(recvq) \in Msgs
               /\ Stepped(<<CallWith("OnMessage", Head(recvq)), Call("PopReceived"), Call("DeliverFront")>>)
        <3> DEFINE c == <<CallWith("OnMessage", Head(recvq)), Call("PopReceived"), Call("DeliverFront")>>
        <3>1. c \in Seq(Calls) /\ Len(c) = 3 /\ Stepped(c)
            BY <1>1, <2>4
        <3>0. Head(recvq) \in Messages
            BY <2>4, SeqTypes
        <3>2. /\ c[1].f = "OnMessage" /\ c[2].f = "PopReceived" /\ c[3].f = "DeliverFront"
              /\ c[1].m \in Messages /\ c[2].m \in Messages /\ c[3].m \in Messages
            BY <1>2, <3>0
        <3> HIDE DEF c
        <3>3. 1 = Len(todo)
            BY <1>0, <2>1 DEF Bottomed
        <3>4. Len(todo') = 3
            BY <2>1, <3>1, <3>3 DEF Stepped
        <3>5. \A i \in 1 .. Len(c) : \/ i = 1 /\ c[i].f = "OnMessage" /\ c[i].m \in Messages
                                     \/ i = 2 /\ c[i].f = "PopReceived" /\ c[i].m \in Messages
                                     \/ i = 3 /\ c[i].f = "DeliverFront" /\ c[i].m \in Messages
            BY <3>1, <3>2
        <3>6. Placed(c)
            BY <2>2, <2>4, <3>4, <3>5 DEF Placed, Resumed
        <3>7. Ready(c)
            BY <3>1, <3>5, <3>6 DEF Ready
        <3> QED
            BY <1>0, <2>3, <3>1, <3>7, LaidStep
    <2> QED
        BY <1>0, <1>3, <1>12, <2>3, <2>4, LaidStep, ReturnsToo
<1>13. CASE PopReceived
    <2>1. Top = "PopReceived"
        BY <1>4, <1>13 DEF PopReceived
    <2>2. Steady /\ config' = config
        BY <1>13, <2>1 DEF PopReceived, Steady, history
    <2> QED
        BY <1>0, <1>3, <1>13, <2>2, LaidStep, ReturnsToo
<1>14. CASE OnStateChange \/ OnMessage
    <2>1. Top \in {"OnStateChange", "OnMessage"} /\ todo # <<>> /\ React
        BY <1>4, <1>14 DEF OnStateChange, OnMessage
    <2>2. Same /\ accepted' = accepted
        BY <1>14 DEF OnStateChange, OnMessage, receiving, history
    <2>3. Steady /\ config' = config
        BY <1>5, <2>1, <2>2
    <2>4. ASSUME NEW z \in Nat, z \in Sizes, accepted < MaxSends, Stepped(<<CallWith("Send", Msg(0, z))>>)
          PROVE  Laid'
        <3>1. Msg(0, z) \in Msgs /\ Msg(0, z) \in Messages
            BY <2>4, MessageTypes
        <3>2. Ready(<<CallWith("Send", Msg(0, z))>>)
            BY <1>1, <1>2, <2>2, <2>4, <3>1, PlainReady DEF Plain
        <3> QED
            BY <1>0, <2>3, <2>4, <3>2, LaidStep
    <2> QED
        BY <1>0, <1>3, <2>1, <2>3, <2>4, LaidStep, ReturnsToo
<1>15. CASE TransportGone
    <2>1. Steady /\ config' = config
        BY <1>4, <1>5, <1>15 DEF TransportGone, receiving, history
    <2> QED
        BY <1>0, <1>3, <1>15, <2>1, LaidStep, ReturnsToo
<1>16. ASSUME NEW r, Send(r) PROVE Laid'
    <2>1. Steady /\ config' = config
        BY <1>4, <1>5, <1>16 DEF Send, receiving
    <2> QED
        BY <1>0, <1>3, <1>16, <2>1, LaidStep, ReturnsToo
<1>17. ASSUME NEW r, FlushData(r) PROVE Laid'
    <2>1. Top = "FlushData"
        BY <1>4, <1>17 DEF FlushData
    <2>2. Same /\ accepted' = accepted
        BY <1>17 DEF FlushData, receiving, history
    <2>3. Steady /\ config' = config
        BY <1>5, <2>1, <2>2
    <2>4. CASE todo' = todo
        BY <1>0, <2>2, <2>4 DEF Laid, Below, Bottomed, Loaded, Messages, Sizes, N, Top
    <2> QED
        BY <1>0, <1>3, <1>17, <2>3, <2>4, LaidStep, ReturnsToo
<1>18. CASE SetState("SetOpen", "open") \/ SetState("SetClosing", "closing") \/ SetState("SetClosed", "closed")
    BY <1>7, <1>18
<1> QED
    BY <1>6, <1>8, <1>9, <1>10, <1>11, <1>12, <1>13, <1>14, <1>15, <1>16, <1>17, <1>18 DEF Internal

\* And so do the events, which come when the stack is empty.
LEMMA LaidEvent ==
    ASSUME Types, Laid, Event
    PROVE  Laid'
<1>1. /\ Call("Close") \in Calls /\ Call("UpdateState") \in Calls
      /\ Call("FlushControl") \in Calls /\ Call("FlushData") \in Calls /\ Call("Deliver") \in Calls
      /\ Call("SendControl") \in Calls /\ Call("TransportGone") \in Calls
      /\ \A m \in Msgs : CallWith("OnMessage", m) \in Calls /\ CallWith("Send", m) \in Calls
    BY CallTypes DEF CallNames
<1>2. /\ \A f : Call(f).f = f /\ Call(f).m \in Messages
      /\ \A m : CallWith("OnMessage", m).f = "OnMessage" /\ CallWith("Send", m).f = "Send"
      /\ \A m : CallWith("OnMessage", m).m = m /\ CallWith("Send", m).m = m
    BY MessageTypes DEF Call, CallWith
<1>3. /\ Ready(<<>>) /\ Ready(<<Call("Close")>>) /\ Ready(<<Call("TransportGone")>>)
    BY <1>1, <1>2, PlainReady DEF Plain
<1>4. todo = <<>> /\ DOMAIN todo = {}
    BY DEF Event, AppSends, OnDataReceived, AppCloses, RegisterObserver, UnregisterObserver,
           RemotePeerRequestClose, OnDataEngineClose, DoClose, SetSctpSid, OnTransportChannelCreated, SetSsrc,
           OnChannelReady, OnAckReceived, Idle
\* An event that puts the calls c on the stack.
<1>5. ASSUME NEW c, todo' = c, Ready(c), config' = config PROVE Laid'
    <2>1. Stepped(c)
        BY <1>4, <1>5, Stepping DEF Ready
    <2>2. Steady
        BY <1>4 DEF Steady
    <2> QED
        BY <1>5, <2>1, <2>2, LaidStep
<1>6. ASSUME NEW z \in Sizes, AppSends(z) PROVE Laid'
    <2>1. Msg(0, z) \in Msgs /\ Msg(0, z) \in Messages
        BY MessageTypes
    <2>2. Ready(<<CallWith("Send", Msg(0, z))>>)
        BY <1>1, <1>2, <1>6, <2>1, PlainReady DEF Plain, AppSends, history
    <2> QED
        BY <1>5, <1>6, <2>2, Arrives DEF AppSends, history
<1>7. CASE AppCloses
    BY <1>3, <1>5, <1>7, Arrives DEF AppCloses, history
<1>8. CASE UnregisterObserver \/ SetSctpSid \/ OnTransportChannelCreated \/ OnAckReceived
    <2>1. todo' = <<>>
        BY <1>8, Arrives
    <2>2. config' = config
        BY <1>8 DEF UnregisterObserver, SetSctpSid, OnTransportChannelCreated, OnAckReceived, history
    <2> QED
        BY <1>3, <1>5, <2>1, <2>2
\* One call that ends the stack.
<1>9. ASSUME NEW a \in Calls, a.f \in {"Deliver", "UpdateState"}, a.m \in Messages, todo' = <<a>>, config' = config
      PROVE  Laid'
    <2> DEFINE c == <<a>>
    <2>1. c \in Seq(Calls) /\ Len(c) = 1 /\ c[1] = a /\ todo' = c
        BY <1>9
    <2> HIDE DEF c
    <2>2. Len(todo') = 1 /\ \A i \in 1 .. Len(c) : i = 1 /\ c[i] = a
        BY <2>1
    <2>3. Placed(c)
        BY <1>9, <2>2 DEF Placed
    <2>4. Ready(c)
        BY <1>9, <2>1, <2>2, <2>3 DEF Ready
    <2> QED
        BY <1>5, <1>9, <2>1, <2>4
<1>10. CASE RegisterObserver \/ SetSsrc
    <2>1. config' = config
        BY <1>10 DEF RegisterObserver, SetSsrc, history
    <2> QED
        BY <1>1, <1>2, <1>9, <1>10, <2>1, Arrives
<1>11. CASE RemotePeerRequestClose \/ OnDataEngineClose
    <2>1. config' = config
        BY <1>11 DEF RemotePeerRequestClose, OnDataEngineClose, DoClose, history
    <2> QED
        BY <1>3, <1>5, <1>11, <2>1, ClosingReady, Arrives
<1>12. CASE OnChannelReady
    <2>1. config' = config
        BY <1>12 DEF OnChannelReady, history
    <2>2. CASE todo' = <<Call("FlushControl"), Call("FlushData")>>
        <3> DEFINE c == <<Call("FlushControl"), Call("FlushData")>>
        <3>1. /\ c \in Seq(Calls) /\ Len(c) = 2 /\ c[1].f = "FlushControl" /\ c[2].f = "FlushData" /\ todo' = c
              /\ c[1].m \in Messages /\ c[2].m \in Messages
            BY <1>1, <1>2, <2>2
        <3> HIDE DEF c
        <3>2. \A i \in 1 .. Len(c) : \/ i = 1 /\ c[i].f = "FlushControl" /\ c[i].m \in Messages
                                     \/ i = 2 /\ c[i].f = "FlushData" /\ c[i].m \in Messages
            BY <3>1
        <3>3. Placed(c)
            BY <3>2 DEF Placed, Resumed
        <3>4. Ready(c)
            BY <3>1, <3>2, <3>3 DEF Ready
        <3> QED
            BY <1>5, <2>1, <3>1, <3>4
    <2>3. CASE todo' = <<Call("SendControl"), Call("UpdateState")>>
        <3> DEFINE c == <<Call("SendControl"), Call("UpdateState")>>
        <3>1. /\ c \in Seq(Calls) /\ Len(c) = 2 /\ c[1].f = "SendControl" /\ c[2].f = "UpdateState" /\ todo' = c
              /\ c[1].m \in Messages /\ c[2].m \in Messages
            BY <1>1, <1>2, <2>3
        <3> HIDE DEF c
        <3>2. \A i \in 1 .. Len(c) : \/ i = 1 /\ c[i].f = "SendControl" /\ c[i].m \in Messages
                                     \/ i = 2 /\ c[i].f = "UpdateState" /\ c[i].m \in Messages /\ i = Len(todo')
            BY <3>1
        <3>3. Placed(c)
            BY <3>2 DEF Placed, Resumed
        <3>4. Ready(c)
            BY <3>1, <3>2, <3>3 DEF Ready
        <3> QED
            BY <1>5, <2>1, <3>1, <3>4
    <2> QED
        BY <1>1, <1>2, <1>3, <1>5, <1>9, <1>12, <2>1, <2>2, <2>3, Arrives
<1>13. ASSUME NEW z \in Sizes, OnDataReceived(z) PROVE Laid'
    <2>1. config' = config
        BY <1>13 DEF OnDataReceived
    <2>2. Msg(arrived + 1, z) \in Msgs /\ Msg(arrived + 1, z) \in Messages
        <3>1. arrived \in Nat /\ arrived < MaxReceives
            BY <1>13 DEF OnDataReceived, Types, DataTypes
        <3>2. arrived + 1 \in 0 .. MaxSends + MaxReceives
            BY <3>1
        <3> QED
            BY <3>2, MessageTypes
    <2>3. Ready(<<CallWith("OnMessage", Msg(arrived + 1, z))>>)
        BY <1>1, <1>2, <2>2, PlainReady DEF Plain
    <2> QED
        BY <1>3, <1>5, <1>13, <2>1, <2>3, DataArrive
<1> QED
    BY <1>6, <1>7, <1>8, <1>10, <1>11, <1>12, <1>13 DEF Event

-----------------------------------------------------------------------------
(***************************************************************************)
(* The buffers.                                                             *)
(***************************************************************************)
\* Adding to a queue that is below its limit.
LEMMA LimitedAppend ==
    ASSUME NEW q \in Seq(Msgs), NEW m \in Msgs, NEW n \in Nat, n = Bytes(q), n < MaxQueuedSendBytes
    PROVE  n + m.size \in Nat /\ Limited(Append(q, m), n + m.size)
<1> DEFINE r == Append(q, m)
<1>1. r # <<>> /\ r[Len(r)] = m
    <2>1. Len(r) = Len(q) + 1 /\ r[Len(q) + 1] = m
        BY AppendProperties
    <2> QED
        BY <2>1
<1>2. Bytes(r) = n + m.size
    BY BytesAppend
<1>3. m.size \in Nat
    BY DEF Msgs
<1> HIDE DEF r
<1>4. (n + m.size) - r[Len(r)].size < MaxQueuedSendBytes
    BY <1>1, <1>3
<1>5. Limited(r, n + m.size)
    BY <1>2, <1>4 DEF Limited
<1> QED
    BY <1>3, <1>5 DEF r

\* Taking a packet from a queue leaves it within its limit.
LEMMA LimitedTail ==
    ASSUME NEW q \in Seq(Msgs), q # <<>>, NEW n \in Nat, Limited(q, n)
    PROVE  n - Head(q).size \in Nat /\ Limited(Tail(q), n - Head(q).size)
<1> DEFINE r == Tail(q)
           h == Head(q).size
           L == Len(r)
           z == q[Len(q)].size
<1>1. h \in Nat /\ r \in Seq(Msgs) /\ Bytes(q) = h + Bytes(r)
    BY BytesTail
<1>2. Bytes(r) \in Nat
    BY <1>1, BytesNat
<1>3. n = Bytes(q) /\ n - z < MaxQueuedSendBytes
    BY DEF Limited
<1>4. z \in Nat
    <2>1. Len(q) \in 1 .. Len(q)
        OBVIOUS
    <2>2. q[Len(q)] \in Msgs
        BY <2>1, ElementOfSeq
    <2> QED
        BY <2>2 DEF Msgs
<1>5. r # <<>> => r[Len(r)].size = z
    <2>1. Len(q) = L + 1 /\ L \in Nat /\ \A i \in 1 .. L : r[i] = q[i + 1]
        BY HeadTailProperties
    <2>2. r # <<>> => L \in 1 .. L
        BY <1>1
    <2> HIDE DEF r, L
    <2>3. r # <<>> => r[L] = q[L + 1]
        BY <2>1, <2>2
    <2> QED
        BY <2>1, <2>3 DEF L
<1> HIDE DEF r, h, z
<1>6. n - h = Bytes(r) /\ n - h \in Nat /\ (n - h) - z < MaxQueuedSendBytes
    BY <1>1, <1>2, <1>3, <1>4
<1>7. Limited(r, n - h)
    BY <1>5, <1>6 DEF Limited
<1> QED
    BY <1>6, <1>7 DEF r, h

\* What changes the queue of received data.
LEMMA IncomingNext == ASSUME BufferInv, [Next]_vars PROVE Incoming'
<1>0. Types /\ Laid /\ Incoming
    BY DEF BufferInv
<1>1. ASSUME config' = config, recvq' = recvq, recvBytes' = recvBytes, arrived' = arrived PROVE Incoming'
    BY <1>0, <1>1 DEF Incoming, Messages, Sizes
<1>2. Messages \subseteq Msgs /\ Sizes \subseteq Nat
    BY <1>0, MessageTypes
<1>3. recvq \in Seq(Messages) /\ recvq \in Seq(Msgs)
    BY <1>0 DEF Incoming, Types, DataTypes
<1>4. CASE PopReceived
    <2>1. recvq # <<>>
        <3>1. N(1) = "PopReceived" /\ 1 \in DOMAIN todo
            BY <1>0, <1>4, Runs DEF PopReceived
        <3> QED
            BY <1>0, <3>1 DEF Laid, Bottomed
    <2>2. Tail(recvq) \in Seq(Messages)
        BY <1>3, <2>1, SeqTypes
    <2>3. Bytes(recvq) = Head(recvq).size + Bytes(Tail(recvq)) /\ Head(recvq).size \in Nat /\ Bytes(Tail(recvq)) \in Nat
        BY <1>3, <2>1, BytesTail, BytesNat
    <2>4. recvBytes = Bytes(recvq) /\ recvBytes <= MaxQueuedReceivedBytes
        BY <1>0 DEF Incoming
    <2>5. recvq' = Tail(recvq) /\ recvBytes' = recvBytes - Head(recvq).size /\ config' = config /\ arrived' = arrived
        BY <1>4 DEF PopReceived, history
    <2>6. recvBytes' = Bytes(Tail(recvq)) /\ recvBytes' <= MaxQueuedReceivedBytes
        BY <2>3, <2>4, <2>5
    <2>7. Messages' = Messages
        BY <2>5 DEF Messages, Sizes
    <2> QED
        BY <1>0, <2>2, <2>5, <2>6, <2>7 DEF Incoming
<1>5. ASSUME NEW z \in Sizes, OnDataReceived(z) PROVE Incoming'
    <2> DEFINE m == Msg(arrived + 1, z)
    <2>1. arrived \in Nat /\ arrived < MaxReceives /\ arrived' = arrived + 1 /\ config' = config
        BY <1>0, <1>5 DEF OnDataReceived, Incoming
    <2>2. arrived + 1 \in 0 .. MaxReceives /\ arrived + 1 \in 0 .. MaxSends + MaxReceives
        BY <2>1
    <2>3. m \in Messages /\ m \in Msgs /\ m.size = z
        BY <1>0, <1>2, <2>2, MessageTypes DEF Msg
    <2>4. \/ recvq' = recvq /\ recvBytes' = recvBytes
          \/ recvBytes + z <= MaxQueuedReceivedBytes /\ recvq' = Append(recvq, m) /\ recvBytes' = recvBytes + z
          \/ recvq' = <<>> /\ recvBytes' = 0
        BY <1>5, Zenon DEF OnDataReceived, receiving
    <2> HIDE DEF m
    <2>5. Append(recvq, m) \in Seq(Messages) /\ <<>> \in Seq(Messages)
        BY <1>3, <2>3, SeqTypes
    <2>6. Bytes(Append(recvq, m)) = Bytes(recvq) + z
        BY <1>3, <2>3, BytesAppend
    <2>7. recvBytes = Bytes(recvq) /\ recvBytes <= MaxQueuedReceivedBytes
        BY <1>0 DEF Incoming
    <2>8. recvq' \in Seq(Messages)
        BY <1>3, <2>4, <2>5, Zenon
    <2>9. recvBytes' = Bytes(recvq') /\ recvBytes' <= MaxQueuedReceivedBytes
        <3>1. Bytes(<<>>) = 0 /\ z \in Nat
            BY <1>2, BytesEmpty
        <3>2. CASE recvq' = recvq /\ recvBytes' = recvBytes
            BY <2>7, <3>2
        <3>3. CASE recvBytes + z <= MaxQueuedReceivedBytes /\ recvq' = Append(recvq, m) /\ recvBytes' = recvBytes + z
            BY <2>6, <2>7, <3>3
        <3>4. CASE recvq' = <<>> /\ recvBytes' = 0
            BY <3>1, <3>4
        <3> QED
            BY <2>4, <3>2, <3>3, <3>4
    <2>10. Messages' = Messages
        BY <2>1 DEF Messages, Sizes
    <2> QED
        BY <2>1, <2>2, <2>8, <2>9, <2>10 DEF Incoming
<1>6. CASE Close \/ UpdateState \/ FlushControl \/ Deliver \/ DeliverFront \/ OnStateChange \/ OnMessage \/ TransportGone
    BY <1>1, <1>6 DEF Close, UpdateState, FlushControl, Deliver, DeliverFront, OnStateChange, OnMessage,
                      TransportGone, receiving, history
<1>7. ASSUME NEW f, NEW s, SetState(f, s) PROVE Incoming'
    BY <1>1, <1>7 DEF SetState, receiving, history
<1>8. ASSUME NEW r, SendControl(r) \/ Send(r) \/ FlushData(r) PROVE Incoming'
    BY <1>1, <1>8 DEF SendControl, Send, FlushData, receiving, history
<1>9. ASSUME NEW z, AppSends(z) PROVE Incoming'
    BY <1>1, <1>9 DEF AppSends, receiving, history
<1>10. CASE AppCloses \/ RegisterObserver \/ UnregisterObserver \/ RemotePeerRequestClose \/ OnDataEngineClose
    BY <1>1, <1>10 DEF AppCloses, RegisterObserver, UnregisterObserver, RemotePeerRequestClose,
                       OnDataEngineClose, DoClose, receiving, history
<1>11. CASE SetSctpSid \/ OnTransportChannelCreated \/ SetSsrc \/ OnChannelReady \/ OnAckReceived
    BY <1>1, <1>11 DEF SetSctpSid, OnTransportChannelCreated, SetSsrc, OnChannelReady, OnAckReceived, receiving, history
<1>12. CASE UNCHANGED vars
    BY <1>1, <1>12 DEF vars, receiving, history
<1> QED
    BY <1>4, <1>5, <1>6, <1>7, <1>8, <1>9, <1>10, <1>11, <1>12 DEF Next, Internal, Event

\* What changes the queue of data to send.
LEMMA OutgoingNext == ASSUME BufferInv, [Next]_vars PROVE Outgoing'
<1>0. Types /\ Laid /\ Outgoing
    BY DEF BufferInv
<1>1. ASSUME config' = config, sendq' = sendq, sendBytes' = sendBytes, heap' = heap, accepted' = accepted PROVE Outgoing'
    BY <1>0, <1>1 DEF Outgoing, Messages, Sizes, HeapOK
<1>2. Messages \subseteq Msgs /\ Sizes \subseteq Nat
    BY <1>0, MessageTypes
<1>3. /\ sendq \in Seq(Messages) /\ sendq \in Seq(Msgs) /\ sendBytes \in Nat
      /\ accepted \in 0 .. MaxSends /\ (HeapOK => Limited(sendq, sendBytes))
    BY <1>0 DEF Outgoing, Types, DataTypes
<1>4. ASSUME NEW r, Send(r) PROVE Outgoing'
    <2> DEFINE m == Msg(accepted + 1, Head(todo).m.size)
    <2>1. N(1) = "Send" /\ 1 \in DOMAIN todo /\ Head(todo) = todo[1]
        BY <1>0, <1>4, Runs DEF Send
    <2>2. accepted < MaxSends /\ Head(todo).m \in Messages
        BY <1>0, <2>1 DEF Laid, Loaded
    <2>3. m \in Messages /\ m \in Msgs
        <3>1. accepted + 1 \in 0 .. MaxSends + MaxReceives
            BY <1>3, <2>2
        <3>2. m \in Messages
            BY <2>2, <3>1 DEF Messages, Msg
        <3> QED
            BY <1>2, <3>2
    <2>4. /\ config' = config /\ heap' = heap /\ (accepted' = accepted \/ accepted' = accepted + 1)
          /\ \/ sendq' = sendq /\ sendBytes' = sendBytes
             \/ sendBytes < MaxQueuedSendBytes /\ sendq' = Append(sendq, m) /\ sendBytes' = sendBytes + m.size
        BY <1>4 DEF Send, QueueOrClose
    <2> HIDE DEF m
    <2>5. accepted' \in 0 .. MaxSends
        BY <1>3, <2>2, <2>4
    <2>6. Append(sendq, m) \in Seq(Messages)
        BY <1>3, <2>3, SeqTypes
    <2>7. sendq' \in Seq(Messages)
        BY <1>3, <2>4, <2>6, Zenon
    <2>8. m.size \in Nat
        BY <2>3 DEF Msgs
    <2>9. sendBytes' \in Nat
        BY <1>3, <2>4, <2>8
    <2>10. HeapOK' => Limited(sendq', sendBytes')
        <3> SUFFICES ASSUME HeapOK PROVE Limited(sendq', sendBytes')
            BY <2>4 DEF HeapOK
        <3>1. Limited(sendq, sendBytes) /\ sendBytes = Bytes(sendq)
            BY <1>3 DEF Limited
        <3>2. sendBytes < MaxQueuedSendBytes => Limited(Append(sendq, m), sendBytes + m.size)
            BY <1>3, <2>3, <3>1, LimitedAppend
        <3> QED
            BY <2>4, <3>1, <3>2, Zenon
    <2>11. Messages' = Messages
        BY <2>4 DEF Messages, Sizes
    <2>12. Limited(sendq, sendBytes)' <=> Limited(sendq', sendBytes')
        BY DEF Limited, Bytes
    <2> QED
        BY <2>5, <2>7, <2>9, <2>10, <2>11, <2>12 DEF Outgoing
<1>5. ASSUME NEW r, FlushData(r) PROVE Outgoing'
    <2>1. config' = config /\ accepted' = accepted
        BY <1>5 DEF FlushData, history
    <2>2. \/ sendq' = sendq /\ sendBytes' = sendBytes /\ (HeapOK' => HeapOK)
          \/ /\ sendq # <<>> /\ heap = "ok" /\ sendq' = Tail(sendq)
             /\ sendBytes' = sendBytes - Head(sendq).size
          \/ /\ sendq # <<>> /\ ~HeapOK' /\ sendq' = Tail(sendq)
             /\ \E z \in Sizes : sendBytes' = IF z <= sendBytes THEN sendBytes - z ELSE 0
        BY <1>5 DEF FlushData, sending, HeapOK
    <2>3. sendq # <<>> => Tail(sendq) \in Seq(Messages)
        BY <1>3, SeqTypes
    <2>4. sendq' \in Seq(Messages)
        BY <1>3, <2>2, <2>3, Zenon
    <2>5. sendq # <<>> /\ heap = "ok" =>
             sendBytes - Head(sendq).size \in Nat /\ Limited(Tail(sendq), sendBytes - Head(sendq).size)
        BY <1>3, LimitedTail DEF HeapOK
    <2>6. \A z \in Sizes : (IF z <= sendBytes THEN sendBytes - z ELSE 0) \in Nat
        BY <1>2, <1>3
    <2>7. sendBytes' \in Nat
        BY <1>3, <2>2, <2>5, <2>6, Zenon
    <2>8. HeapOK' => Limited(sendq', sendBytes')
        BY <1>3, <2>2, <2>5, Zenon
    <2>9. Messages' = Messages
        BY <2>1 DEF Messages, Sizes
    <2> QED
        BY <1>3, <2>1, <2>4, <2>7, <2>8, <2>9 DEF Outgoing
<1>6. CASE Close \/ UpdateState \/ FlushControl \/ Deliver \/ DeliverFront \/ OnStateChange \/ OnMessage \/ TransportGone
    BY <1>1, <1>6 DEF Close, UpdateState, FlushControl, Deliver, DeliverFront, OnStateChange, OnMessage,
                      TransportGone, sending, history
<1>7. ASSUME NEW f, NEW s, SetState(f, s) PROVE Outgoing'
    BY <1>1, <1>7 DEF SetState, sending, history
<1>8. ASSUME NEW r, SendControl(r) PROVE Outgoing'
    BY <1>1, <1>8 DEF SendControl, sending, history
<1>9. ASSUME NEW z, AppSends(z) \/ OnDataReceived(z) PROVE Outgoing'
    BY <1>1, <1>9 DEF AppSends, OnDataReceived, sending, history
<1>10. CASE PopReceived \/ AppCloses \/ RegisterObserver \/ UnregisterObserver \/ RemotePeerRequestClose \/ OnDataEngineClose
    BY <1>1, <1>10 DEF PopReceived, AppCloses, RegisterObserver, UnregisterObserver, RemotePeerRequestClose,
                       OnDataEngineClose, DoClose, sending, history
<1>11. CASE SetSctpSid \/ OnTransportChannelCreated \/ SetSsrc \/ OnChannelReady \/ OnAckReceived
    BY <1>1, <1>11 DEF SetSctpSid, OnTransportChannelCreated, SetSsrc, OnChannelReady, OnAckReceived, sending, history
<1>12. CASE UNCHANGED vars
    BY <1>1, <1>12 DEF vars, sending, history
<1> QED
    BY <1>4, <1>5, <1>6, <1>7, <1>8, <1>9, <1>10, <1>11, <1>12 DEF Next, Internal, Event

\* The flags that only the types speak of.
LEMMA ListedNext ==
    ASSUME sid \in BOOLEAN, listed \in BOOLEAN, [Next]_vars
    PROVE  sid' \in BOOLEAN /\ listed' \in BOOLEAN
<1>1. CASE Close \/ FlushControl \/ Deliver \/ DeliverFront \/ PopReceived \/ OnStateChange \/ OnMessage \/ TransportGone
    BY <1>1, Zenon DEF Close, FlushControl, Deliver, DeliverFront, PopReceived, OnStateChange, OnMessage,
                       TransportGone, flags, outside
<1>2. CASE UpdateState
    BY <1>2, Zenon DEF UpdateState, DisconnectFromTransport
<1>3. ASSUME NEW f, NEW s, SetState(f, s) PROVE sid' \in BOOLEAN /\ listed' \in BOOLEAN
    BY <1>3, Zenon DEF SetState, flags, outside
<1>4. ASSUME NEW r, SendControl(r) \/ Send(r) \/ FlushData(r) PROVE sid' \in BOOLEAN /\ listed' \in BOOLEAN
    BY <1>4, Zenon DEF SendControl, Send, FlushData, flags, outside
<1>5. ASSUME NEW z, AppSends(z) \/ OnDataReceived(z) PROVE sid' \in BOOLEAN /\ listed' \in BOOLEAN
    BY <1>5, Zenon DEF AppSends, OnDataReceived, flags, outside
<1>6. CASE AppCloses \/ RegisterObserver \/ UnregisterObserver \/ RemotePeerRequestClose \/ OnDataEngineClose
    BY <1>6, Zenon DEF AppCloses, RegisterObserver, UnregisterObserver, RemotePeerRequestClose, OnDataEngineClose,
                       DoClose, flags, outside
<1>7. CASE SetSctpSid \/ OnTransportChannelCreated \/ SetSsrc \/ OnChannelReady \/ OnAckReceived
    BY <1>7, Zenon DEF SetSctpSid, OnTransportChannelCreated, SetSsrc, OnChannelReady, OnAckReceived, flags, outside
<1>8. CASE UNCHANGED vars
    BY <1>8, Zenon DEF vars, flags, outside
<1> QED
    BY <1>1, <1>2, <1>3, <1>4, <1>5, <1>6, <1>7, <1>8 DEF Next, Internal, Event

\* A new channel has empty queues.
LEMMA BufferInit == Init => BufferInv
<1> SUFFICES ASSUME Init PROVE BufferInv
    OBVIOUS
<1>1. Types
    BY StackInit DEF StackInv
<1>2. todo = <<>> /\ DOMAIN todo = {}
    BY DEF Init
<1>3. Laid
    BY <1>2 DEF Laid, Below, Bottomed, Loaded
<1>4. <<>> \in Seq(Messages) /\ Bytes(<<>>) = 0
    BY BytesEmpty
<1>5. Incoming
    BY <1>4 DEF Init, Incoming
<1>6. Outgoing
    BY <1>4 DEF Init, Outgoing, Limited
<1>7. sid \in BOOLEAN /\ listed \in BOOLEAN
    BY DEF Init
<1> QED
    BY <1>1, <1>3, <1>5, <1>6, <1>7 DEF BufferInv

\* Every step keeps the buffers and the stack.
LEMMA BufferNext == BufferInv /\ [Next]_vars => BufferInv'
<1> SUFFICES ASSUME BufferInv, [Next]_vars PROVE BufferInv'
    OBVIOUS
<1>0. Types /\ Laid /\ Incoming /\ sid \in BOOLEAN /\ listed \in BOOLEAN
    BY DEF BufferInv
<1>1. Top = "PopReceived" => recvq # <<>>
    <2>1. Top # "none" => Top = N(1) /\ 1 \in DOMAIN todo
        BY <1>0 DEF Top, Types
    <2> QED
        BY <1>0, <2>1 DEF Laid, Bottomed
<1>2. Types'
    BY <1>0, <1>1, StackTyped, FlagsTyped, DataTyped DEF Types
<1>3. Laid'
    <2>1. CASE Next
        BY <1>0, <2>1, LaidInternal, LaidEvent DEF Next, Incoming
    <2>2. CASE UNCHANGED vars
        BY <1>0, <2>2 DEF Laid, Below, Bottomed, Loaded, Messages, Sizes, N, Top, vars, receiving, history
    <2> QED
        BY <2>1, <2>2
<1>4. Incoming' /\ Outgoing'
    BY IncomingNext, OutgoingNext
<1> QED
    BY <1>0, <1>2, <1>3, <1>4, ListedNext DEF BufferInv

\* A sequence is one of any set that its elements are in.
LEMMA Retyped ==
    ASSUME NEW S, NEW T, NEW s \in Seq(S), \A i \in 1 .. Len(s) : s[i] \in T
    PROVE  s \in Seq(T)
OBVIOUS

\* The same for the tuple of the flags.
LEMMA SixOf ==
    ASSUME NEW S, NEW a \in S, NEW b \in S, NEW c \in S, NEW d \in S, NEW e \in S, NEW f \in S
    PROVE  <<a, b, c, d, e, f>> \in [1 .. 6 -> S]
OBVIOUS

\* The inductive invariant of the buffers.
LEMMA BuffersHold == Spec => []BufferInv
BY BufferInit, BufferNext, PTL DEF Spec

\* The type invariant: in particular no count of bytes goes below zero and no
\* message gets a number or a size that was not sent or received, whatever the
\* transport answers and whatever the observer does in its callbacks.
THEOREM TypeCorrect == Spec => []TypeOK
<1>1. BufferInv => TypeOK
    <2> SUFFICES ASSUME BufferInv PROVE TypeOK
        OBVIOUS
    <2>1. Types /\ Laid /\ Incoming /\ Outgoing /\ sid \in BOOLEAN /\ listed \in BOOLEAN
        BY DEF BufferInv
    <2>2. FlagTypes /\ DataTypes /\ todo \in Seq(Calls)
        BY <2>1 DEF Types
    <2>3. flags \in [1 .. 6 -> BOOLEAN]
        <3>1. /\ waitingAck \in BOOLEAN /\ everWritable \in BOOLEAN /\ connected \in BOOLEAN
              /\ sid \in BOOLEAN /\ sendSsrcSet \in BOOLEAN /\ recvSsrcSet \in BOOLEAN
            BY <2>1, <2>2 DEF FlagTypes
        <3> QED
            BY <3>1, SixOf, ZenonT(40) DEF flags
    <2>4. recvBytes \in Nat
        <3>1. recvq \in Seq(Msgs) /\ recvBytes = Bytes(recvq)
            BY <2>1, <2>2 DEF Incoming, DataTypes
        <3> QED
            BY <3>1, BytesNat
    <2>5. todo \in Seq([f : CallNames, m : Messages])
        <3>1. ASSUME NEW i \in 1 .. Len(todo) PROVE todo[i] \in [f : CallNames, m : Messages]
            <4>1. todo[i] \in Calls
                BY <2>2, ElementOfSeq
            <4>2. i \in DOMAIN todo
                BY <2>2
            <4>3. todo[i].m \in Messages
                BY <2>1, <4>2 DEF Laid, Loaded
            <4> QED
                BY <4>1, <4>3 DEF Calls
        <3> QED
            BY <2>2, <3>1, Retyped
    <2>6. state \in DOMAIN Rank
        BY <2>2 DEF DataTypes, Rank
    <2> QED
        BY <2>1, <2>2, <2>3, <2>4, <2>5, <2>6 DEF TypeOK, FlagTypes, DataTypes, Incoming, Outgoing
<1> QED
    BY <1>1, BuffersHold, PTL

\* byte_count_ is the size of the packets in each queue and the queues stay within
\* their limits (unless FlushData has read a deleted packet), for any limits, any
\* sizes and any answers of the transport. BufferInv says it inside the nested
\* calls too.
THEOREM BuffersAccounted == Spec => []BufferAccounting
<1>1. BufferInv => BufferAccounting
    <2> SUFFICES ASSUME BufferInv, HeapOK
                 PROVE  /\ sendBytes = Bytes(sendq) /\ recvBytes = Bytes(recvq)
                        /\ recvBytes <= MaxQueuedReceivedBytes
                        /\ \A m \in Range(sendq) :
                              m = Last(sendq) => sendBytes - m.size < MaxQueuedSendBytes
        BY DEF BufferAccounting
    <2>1. Limited(sendq, sendBytes) /\ sendq \in Seq(Messages)
        BY DEF BufferInv, Outgoing
    <2>2. ASSUME NEW m \in Range(sendq), m = Last(sendq) PROVE sendBytes - m.size < MaxQueuedSendBytes
        <3>1. sendq # <<>>
            BY <2>2 DEF Range
        <3>2. m = sendq[Len(sendq)]
            BY <2>2 DEF Last
        <3> QED
            BY <2>1, <3>1, <3>2 DEF Limited
    <2> QED
        BY <2>1, <2>2 DEF BufferInv, Incoming, Limited
<1> QED
    BY <1>1, BuffersHold, PTL
-----------------------------------------------------------------------------
(***************************************************************************)
(* The handshake comes first.                                               *)
(***************************************************************************)
LEMMA HandshakeInit == Init => OpenerInv /\ HandshakeFirst
<1> SUFFICES ASSUME Init PROVE OpenerInv /\ HandshakeFirst
    OBVIOUS
<1>1. wire = <<>> /\ DOMAIN wire = {} /\ ~everWritable /\ state = "connecting"
    BY DEF Init
<1> QED
    BY <1>1 DEF OpenerInv, HandshakeFirst, HasControl

\* The kind of channel does not change.
LEMMA ConfigStays == ASSUME [Next]_vars PROVE config' = config
    BY DEF Next, Internal, Event, Close, UpdateState, FlushControl, Deliver, DeliverFront, SetState, PopReceived,
           OnStateChange, OnMessage, TransportGone, SendControl, Send, FlushData, AppSends, OnDataReceived,
           AppCloses, RegisterObserver, UnregisterObserver, RemotePeerRequestClose, OnDataEngineClose, DoClose,
           SetSctpSid, OnTransportChannelCreated, SetSsrc, OnChannelReady, OnAckReceived, vars, history

\* What the packets say.
LEMMA PacketFields ==
    /\ Packet("control", 0, Ordered \/ Role = "opener").k = "control"
    /\ Packet("control", 0, Ordered \/ Role = "opener").ordered = (Ordered \/ Role = "opener")
    /\ Packet("control", 0, Ordered \/ Role = "opener").held = (ctrlq > 0 \/ refused)
    /\ \A id : /\ DataPacket(id).k = "data" /\ DataPacket(id).heard = heard
               /\ DataPacket(id).ordered = (Ordered \/ waitingAck)
               /\ DataPacket(id).held = (ctrlq > 0 \/ refused)
BY DEF Packet, DataPacket

\* A handshake message that was sent stays sent, and is waited for.
LEMMA ControlStep ==
    ASSUME Types, [Next]_vars, Role = "opener"
    PROVE  /\ HasControl => HasControl'
           /\ \A r : Controls(r) => HasControl' /\ waitingAck'
           /\ ~HasControl /\ HasControl' => waitingAck'
<1>1. HasControl => HasControl'
    BY WireStep DEF Silent, Controls, Direct, Flushed, Adds, HasControl
<1>2. ASSUME NEW r, Controls(r) PROVE HasControl' /\ waitingAck'
    <2>1. Len(wire) + 1 \in DOMAIN wire' /\ wire'[Len(wire) + 1].k = "control"
        BY <1>2, PacketFields DEF Controls, Adds
    <2>2. waitingAck'
        BY <1>2 DEF Controls, SendControl
    <2> QED
        BY <2>1, <2>2 DEF HasControl
<1>3. ASSUME ~HasControl, HasControl' PROVE waitingAck'
    <2>1. Silent => HasControl' = HasControl
        BY DEF Silent, HasControl
    <2>2. ASSUME NEW p, Adds(p), p.k = "data" PROVE ~HasControl'
        <3>1. \A i \in DOMAIN wire' : i \in DOMAIN wire \/ i = Len(wire) + 1
            BY <2>2 DEF Adds
        <3>2. \A i \in DOMAIN wire' : wire'[i].k # "control"
            BY <1>3, <2>2, <3>1 DEF Adds, HasControl
        <3> QED
            BY <3>2 DEF HasControl
    <2>3. \A r : ~Direct(r) /\ ~Flushed(r)
        BY <1>3, <2>2, PacketFields DEF Direct, Flushed
    <2> QED
        BY <1>2, <1>3, <2>1, <2>3, WireStep
<1> QED
    BY <1>1, <1>2, <1>3

\* Until its OPEN is sent the opener holds it, or is sending it, or closes.
LEMMA OpenerNext ==
    ASSUME StackInv, OpenerInv, [Next]_vars
    PROVE  OpenerInv'
<1>0. Types /\ Nesting
    BY DEF StackInv
<1>1. config' = config
    BY ConfigStays
<1>2. SUFFICES ASSUME Type = "SCTP", Role = "opener"
               PROVE  /\ everWritable' /\ state' \in {"connecting", "open"} =>
                            HasControl' \/ ctrlq' > 0 \/ Top' \in {"SendControl", "Close", "SetClosing"}
                      /\ HasControl' => waitingAck' \/ heard'
    BY <1>1 DEF OpenerInv, Type, Role
<1>3. /\ everWritable /\ state \in {"connecting", "open"} =>
            HasControl \/ ctrlq > 0 \/ Top \in {"SendControl", "Close", "SetClosing"}
      /\ HasControl => waitingAck \/ heard
    BY <1>2 DEF OpenerInv
<1>4. waitingAck \/ heard => waitingAck' \/ heard'
    BY DEF Next, Internal, Event, Close, UpdateState, FlushControl, Deliver, DeliverFront, SetState, PopReceived,
           OnStateChange, OnMessage, TransportGone, SendControl, Send, FlushData, AppSends, OnDataReceived,
           AppCloses, RegisterObserver, UnregisterObserver, RemotePeerRequestClose, OnDataEngineClose, DoClose,
           SetSctpSid, OnTransportChannelCreated, SetSsrc, OnChannelReady, OnAckReceived, vars, history, flags
<1>5. HasControl' => waitingAck' \/ heard'
    BY <1>0, <1>2, <1>3, <1>4, ControlStep
<1>6. ASSUME everWritable', state' \in {"connecting", "open"}
      PROVE  HasControl' \/ ctrlq' > 0 \/ Top' \in {"SendControl", "Close", "SetClosing"}
    <2>1. state \in {"connecting", "open"}
        BY <1>6, StateStep
    <2>2. CASE ~everWritable
        <3>1. OnChannelReady
            BY <1>6, <2>2
            DEF Next, Internal, Event, Close, UpdateState, FlushControl, Deliver, DeliverFront, SetState,
                PopReceived, OnStateChange, OnMessage, TransportGone, SendControl, Send, FlushData, AppSends,
                OnDataReceived, AppCloses, RegisterObserver, UnregisterObserver, RemotePeerRequestClose,
                OnDataEngineClose, DoClose, SetSctpSid, OnTransportChannelCreated, SetSsrc, OnAckReceived,
                vars, flags
        <3>2. todo' = <<Call("SendControl"), Call("UpdateState")>>
            BY <1>0, <1>2, <2>2, <3>1, Arrives
        <3>3. todo' # <<>> /\ todo'[1].f = "SendControl"
            BY <3>2 DEF Call
        <3> QED
            BY <3>3 DEF Top, N
    <2>3. CASE HasControl
        BY <1>0, <1>2, <2>3, ControlStep
    <2>4. CASE Top \in {"SendControl", "Close", "SetClosing"}
        <3>2. todo # <<>> /\ Head(todo).f = Top
            BY <1>0, <2>4 DEF Top, N, Types
        <3>3. \A f : Running(f) => f = Top
            BY <1>0, Runs
        <3>4. ~Event
            BY <3>2 DEF Event, AppSends, OnDataReceived, AppCloses, RegisterObserver, UnregisterObserver,
                RemotePeerRequestClose, OnDataEngineClose, DoClose, SetSctpSid, OnTransportChannelCreated,
                SetSsrc, OnChannelReady, OnAckReceived, Idle
        <3>5. CASE UNCHANGED vars
            BY <2>4, <3>5 DEF vars, Top, N
        <3>6. CASE Internal
            <4>1. Close \/ SetState("SetClosing", "closing") \/ \E r \in Outcomes : SendControl(r)
                BY <2>4, <3>3, <3>6
                DEF Internal, UpdateState, FlushControl, Deliver, DeliverFront, SetState, PopReceived,
                    OnStateChange, OnMessage, TransportGone, Send, FlushData
            <4>2. CASE Close
                <5> DEFINE c == <<Call("SetClosing"), Call("UpdateState")>>
                <5>1. Stepped(c)
                    BY <1>0, <2>1, <4>2, Returns
                <5>2. Len(c) = 2 /\ c[1].f = "SetClosing"
                    BY DEF Call
                <5> HIDE DEF c
                <5>3. todo' # <<>> /\ todo'[1].f = "SetClosing"
                    BY <5>1, <5>2 DEF Stepped
                <5> QED
                    BY <5>3 DEF Top, N
            <4>3. CASE SetState("SetClosing", "closing")
                BY <1>6, <4>3 DEF SetState
            <4>4. ASSUME NEW r \in Outcomes, SendControl(r)
                  PROVE  HasControl' \/ ctrlq' > 0 \/ Top' \in {"SendControl", "Close", "SetClosing"}
                <5>1. CASE r = "block"
                    BY <1>0, <4>4, <5>1 DEF SendControl, Types, DataTypes
                <5>2. CASE r = "ok"
                    <6>1. wire' = Append(wire, Packet("control", 0, Ordered \/ Role = "opener"))
                        BY <4>4, <5>2 DEF SendControl
                    <6>2. Packet("control", 0, Ordered \/ Role = "opener") \in Packets
                        BY <1>0 DEF Packet, Packets, Types, FlagTypes, DataTypes
                    <6>3. Controls(r)
                        BY <1>0, <4>4, <5>2, <6>1, <6>2, Adding DEF Controls
                    <6> QED
                        BY <1>0, <1>2, <6>3, ControlStep
                <5>3. CASE r = "error"
                    <6> DEFINE c == <<Call("Close")>>
                    <6>1. Stepped(c)
                        BY <1>0, <4>4, <5>3, Returns
                    <6>2. Len(c) = 1 /\ c[1].f = "Close"
                        BY DEF Call
                    <6> HIDE DEF c
                    <6>3. todo' # <<>> /\ todo'[1].f = "Close"
                        BY <6>1, <6>2 DEF Stepped
                    <6> QED
                        BY <6>3 DEF Top, N
                <5> QED
                    BY <5>1, <5>2, <5>3 DEF Outcomes
            <4> QED
                BY <4>1, <4>2, <4>3, <4>4
        <3> QED
            BY <3>4, <3>5, <3>6 DEF Next
    <2>5. CASE ctrlq > 0
        <3>1. CASE FlushControl
            <4> DEFINE c == [i \in 1 .. ctrlq |-> Call("SendControl")]
            <4>1. ctrlq \in Nat /\ Stepped(c)
                BY <1>0, <3>1, Returns DEF Types, DataTypes
            <4>2. Len(c) = ctrlq /\ c[1].f = "SendControl" /\ 1 \in 1 .. Len(c)
                BY <2>5, <4>1 DEF Call
            <4> HIDE DEF c
            <4>3. todo' # <<>> /\ todo'[1].f = "SendControl"
                BY <4>1, <4>2 DEF Stepped
            <4> QED
                BY <4>3 DEF Top, N
        <3>2. ASSUME NEW r, SendControl(r) PROVE ctrlq' > 0
            BY <1>0, <2>5, <3>2 DEF SendControl, Types, DataTypes
        <3>3. CASE ctrlq' = ctrlq
            BY <2>5, <3>3
        <3> QED
            BY <3>1, <3>2, <3>3
            DEF Next, Internal, Event, Close, UpdateState, Deliver, DeliverFront, SetState, PopReceived,
                OnStateChange, OnMessage, TransportGone, Send, FlushData, AppSends, OnDataReceived,
                AppCloses, RegisterObserver, UnregisterObserver, RemotePeerRequestClose, OnDataEngineClose,
                DoClose, SetSctpSid, OnTransportChannelCreated, SetSsrc, OnChannelReady, OnAckReceived, vars
    <2> QED
        BY <1>3, <2>1, <2>2, <2>3, <2>4, <2>5
<1> QED
    BY <1>5, <1>6

\* What HandshakeFirst says of the i-th packet, before and after a step.
InTurn(i) == /\ IsData(wire[i]) => \E j \in 1 .. i : wire[j].k = "control"
             /\ wire[i].ordered \/ wire[i].heard
InTurnThen(i) == /\ IsData(wire'[i]) => \E j \in 1 .. i : wire'[j].k = "control"
                 /\ wire'[i].ordered \/ wire'[i].heard

\* An added packet, if it was not held up, comes in its turn.
LEMMA AddedInTurn ==
    ASSUME NEW p, Adds(p), p.held \/ ((p.k = "data" => HasControl) /\ (p.ordered \/ p.heard)),
           \A i \in DOMAIN wire : wire[i].held \/ InTurn(i),
           NEW i \in DOMAIN wire'
    PROVE  wire'[i].held \/ InTurnThen(i)
<1>0. /\ Len(wire) \in Nat /\ DOMAIN wire = 1 .. Len(wire) /\ DOMAIN wire' = 1 .. (Len(wire) + 1)
      /\ wire'[Len(wire) + 1] = p
      /\ \A j \in DOMAIN wire : j \in DOMAIN wire' /\ wire'[j] = wire[j]
    BY DEF Adds
<1>1. CASE i \in DOMAIN wire
    <2>1. wire'[i] = wire[i] /\ \A j \in 1 .. i : wire'[j] = wire[j]
        BY <1>0, <1>1
    <2> QED
        BY <1>1, <2>1 DEF InTurn, InTurnThen
<1>2. CASE i = Len(wire) + 1
    <2>1. wire'[i] = p
        BY <1>0, <1>2
    <2>2. ASSUME HasControl PROVE \E j \in 1 .. i : wire'[j].k = "control"
        <3>1. PICK j \in DOMAIN wire : wire[j].k = "control"
            BY <2>2 DEF HasControl
        <3>2. j \in 1 .. i /\ wire'[j] = wire[j]
            BY <1>0, <1>2
        <3> QED
            BY <3>1, <3>2
    <2> QED
        BY <2>1, <2>2 DEF IsData, InTurnThen
<1> QED
    BY <1>0, <1>1, <1>2

LEMMA HandshakeNext ==
    ASSUME Types, refused \/ (StackInv /\ OpenerInv), HandshakeFirst, [Next]_vars
    PROVE  HandshakeFirst'
<1>1. config' = config
    BY ConfigStays
<1>2. SUFFICES ASSUME Type = "SCTP", Role = "opener"
               PROVE  \A i \in DOMAIN wire' : wire'[i].held \/ InTurnThen(i)
    BY <1>1 DEF HandshakeFirst, Type, Role, InTurnThen, IsData
<1>3. \A i \in DOMAIN wire : wire[i].held \/ InTurn(i)
    BY <1>2 DEF HandshakeFirst, InTurn
<1>4. CASE Silent
    BY <1>3, <1>4 DEF Silent, InTurn, InTurnThen
<1>5. ASSUME NEW r \in Outcomes, Controls(r)
      PROVE  \E p : Adds(p) /\ (p.held \/ ((p.k = "data" => HasControl) /\ (p.ordered \/ p.heard)))
    BY <1>2, <1>5, PacketFields DEF Controls
<1>6. ASSUME NEW r \in Outcomes, Direct(r) \/ Flushed(r)
      PROVE  \E p : Adds(p) /\ (p.held \/ ((p.k = "data" => HasControl) /\ (p.ordered \/ p.heard)))
    <2>1. PICK id : Adds(DataPacket(id))
        BY <1>6 DEF Direct, Flushed
    <2>2. CASE refused \/ ctrlq > 0
        BY <2>1, <2>2, PacketFields
    <2>3. CASE ~refused /\ ~(ctrlq > 0)
        <3>1. state = "open" /\ Top \in {"Send", "FlushData"}
            BY <1>6, <2>3, FlushesOpen, Runs DEF Direct, Flushed, Send, FlushData
        <3>2. everWritable
            BY <2>3, <3>1 DEF StackInv, Nesting, Writable
        <3>3. HasControl /\ (waitingAck \/ heard)
            BY <1>2, <2>3, <3>1, <3>2 DEF OpenerInv
        <3>4. DataPacket(id).ordered \/ DataPacket(id).heard
            BY <3>3, PacketFields
        <3> QED
            BY <2>1, <3>3, <3>4
    <2> QED
        BY <2>2, <2>3
<1> QED
    BY <1>3, <1>4, <1>5, <1>6, WireStep, AddedInTurn

\* The peer of an opener gets no data on a channel that it does not know: on
\* every wire the OPEN comes before any data, and until the peer has answered
\* everything goes out ordered, whichever callbacks send, whatever blocks and
\* whatever is queued. What breaks this was sent while the OPEN, which the
\* transport had blocked, waited in the control queue (UpdateState opens the
\* channel all the same: its TODO), or after it was refused.
THEOREM HandshakeComesFirst == Spec => []HandshakeFirst
<1>1. Init => OpenerInv /\ HandshakeFirst
    BY HandshakeInit
<1>2. /\ BufferInv /\ (refused \/ StackInv) /\ (refused \/ OpenerInv) /\ HandshakeFirst /\ [Next]_vars
      => (refused \/ OpenerInv)' /\ HandshakeFirst'
    <2> SUFFICES ASSUME BufferInv, refused \/ StackInv, refused \/ OpenerInv, HandshakeFirst, [Next]_vars
                 PROVE  (refused' \/ OpenerInv') /\ HandshakeFirst'
        OBVIOUS
    <2>1. refused' \/ OpenerInv'
        BY OpenerNext, RefusedStays
    <2>2. HandshakeFirst'
        BY HandshakeNext DEF BufferInv
    <2> QED
        BY <2>1, <2>2
<1>3. Spec => [](refused \/ StackInv)
    BY StackHolds
<1>4. Spec => []BufferInv
    BY BuffersHold
<1> QED
    BY <1>1, <1>2, <1>3, <1>4, PTL DEF Spec
=============================================================================
