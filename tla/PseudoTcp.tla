----------------------------- MODULE PseudoTcp -----------------------------
(***************************************************************************)
(* cricket::PseudoTcp (webrtc/p2p/base/pseudotcp.cc): a byte stream over a  *)
(* packet transport, driven by its owner PseudoTcpChannel                   *)
(* (talk/session/tunnel/pseudotcpchannel.cc), which calls AdjustClock after *)
(* the operations that may end the connection. Two endpoints exchange       *)
(* packets over a network that loses, repeats and reorders them.            *)
(*                                                                          *)
(* An endpoint is a record of the members of PseudoTcp, an operation a      *)
(* function from the record before to the record after; `out' collects the  *)
(* packets the operation hands to TcpWritePacket. Bytes come in units: the  *)
(* connect message is CtlLen units, the i-th unit a user sends is i.        *)
(*                                                                          *)
(* The clock is abstracted: m_rto_base and m_t_ack are kept as "armed" or   *)
(* not, and an armed timer may fire at any time. So is the congestion       *)
(* window: all it does is bound what attemptSend sends, and it is never     *)
(* below m_mss, so each operation meets an arbitrary one of that kind.      *)
(* Sequence numbers do not wrap (fewer than 2^32 bytes are sent), and the   *)
(* buffers are too small for a window scale.                                *)
(***************************************************************************)
EXTENDS Integers, Sequences, FiniteSets, SequencesExt

CONSTANTS
    A, B,              \* the endpoints
    Connectors,        \* which of them call Connect
    Senders, Closers,  \* which of them may Send and Close
    CtlLen,            \* length of the connect message
    MssTable,          \* PACKET_MAXIMUMS less the overhead, decreasing
    PathMax,           \* the longest payload the path carries
    Advices,           \* what NotifyMTU may report
    RcvCap, SndCap,    \* m_rbuf_len and m_sbuf_len
    UseNagling, DelayAcks,
    CongestionWindows,
    XmitLimit, SynXmitLimit,     \* 15 and 30
    DupAckModulus,     \* 256: m_dup_acks is a uint8
    MaxProbes,         \* bound: window probes without an answer
    MaxUnits, MaxNet,  \* bounds: units sent, packets in flight to an endpoint,
    MaxAdvices, MaxRepeats       \* NotifyMTU calls and packets delivered again

Ends == {A, B}
Peer(x) == IF x = A THEN B ELSE A
LastLevel == Len(MssTable)

\* What m_mss may be: an advice below the connect message is left out.
PacketSizes == {m \in Nat \ {0} : CtlLen <= m}

ASSUME EndsAssumption ==
    A # B /\ Connectors \subseteq Ends /\ Senders \subseteq Ends /\ Closers \subseteq Ends
ASSUME SizeAssumption ==
    /\ {CtlLen, PathMax, RcvCap, SndCap, XmitLimit, SynXmitLimit} \subseteq Nat \ {0}
    /\ {MaxProbes, MaxUnits, MaxNet, MaxAdvices, MaxRepeats} \subseteq Nat
    /\ MssTable \in Seq(Nat \ {0}) /\ MssTable # <<>>
    /\ \A i, j \in DOMAIN MssTable : i < j => MssTable[i] > MssTable[j]
    /\ Advices \subseteq PacketSizes /\ CongestionWindows \subseteq Nat
    /\ \A m \in ToSet(MssTable) \cup Advices : \E c \in CongestionWindows : c >= m
    /\ CtlLen <= SndCap /\ XmitLimit <= SynXmitLimit
    /\ DupAckModulus \in Nat /\ DupAckModulus > 3
\* A connect message of at most 4 bytes fits the receive buffer and any packet.
ASSUME ConnectFits == CtlLen <= RcvCap /\ CtlLen <= MssTable[LastLevel]

VARIABLES
    ep,                \* the endpoints
    net,               \* the packets in flight to each endpoint
    sent, got,         \* history: units handed to Send; what Recv returned
    advices, repeats   \* NotifyMTU calls and repeated packets so far
vars == <<ep, net, sent, got, advices, repeats>>

Ctl == 0
Junk == -1             \* what a buffer holds where nothing was written
Least(a, b) == IF a <= b THEN a ELSE b

\* The members of a PseudoTcp its constructor sets, and the user's view of it.
Fresh ==
    [state |-> "LISTEN", shutdown |-> "none",
     snd_una |-> 0, snd_nxt |-> 0, snd_wnd |-> 1, sbuf |-> <<>>, slist |-> <<>>,
     rcv_nxt |-> 0, rcv_wnd |-> RcvCap, rbuf |-> <<>>,
     rfree |-> [i \in 0 .. RcvCap - 1 |-> Junk], rlist |-> {},
     mss |-> MssTable[LastLevel], msslevel |-> 1, mtu_advise |-> MssTable[1],
     dup_acks |-> 0, recover |-> 0, rto |-> FALSE, t_ack |-> FALSE,
     readEnable |-> TRUE, writeEnable |-> FALSE,
     probes |-> 0, out |-> {}]

-----------------------------------------------------------------------------
(***************************************************************************)
(* The receive buffer (FifoBuffer): rbuf is what can be read, rfree the     *)
(* contents of the free space, by its distance from the write position.     *)
(***************************************************************************)
GetWriteRemaining(e) == RcvCap - Len(e.rbuf)
WriteOffset(e, data, offset) ==
    [e EXCEPT !.rfree = [i \in DOMAIN @ |->
        IF i >= offset /\ i < offset + Len(data) THEN data[i - offset + 1] ELSE @[i]]]
ConsumeWriteBuffer(e, n) ==
    [e EXCEPT !.rbuf = @ \o [i \in 1 .. n |-> e.rfree[i - 1]],
              !.rfree = [i \in DOMAIN @ |-> IF i + n < RcvCap THEN @[i + n] ELSE Junk]]

\* The next n units of the free space are the data that was expected.
Consumed(e, n) == [ConsumeWriteBuffer(e, n) EXCEPT !.rcv_nxt = @ + n, !.rcv_wnd = @ - n]

(***************************************************************************)
(* Sending.                                                                 *)
(***************************************************************************)
InFlight(e) == e.snd_nxt - e.snd_una

\* packet, when the transport takes it (it answers WR_FAIL only past an
\* ASSERT(false) of PseudoTcpChannel, and WR_TOO_LARGE is transmit's).
Packet(e, seq, ctl, data) ==
    [e EXCEPT !.out = @ \cup {[seq |-> seq, ack |-> e.rcv_nxt, wnd |-> e.rcv_wnd,
                               ctl |-> ctl, data |-> data]},
              !.t_ack = FALSE]

Ack(e) == Packet(e, e.snd_nxt, FALSE, <<>>)

\* Mutant: data always starts a segment of its own, at m_snd_nxt, as if nothing
\* waited to be sent.
BugQueue(e, data, ctl) ==
    [e EXCEPT !.sbuf = @ \o data,
              !.slist = Append(@, [seq |-> e.snd_nxt, len |-> Len(data), xmit |-> 0, ctl |-> ctl])]

\* queue: data is added to the last segment when that is of the same kind and
\* has not been sent yet.
Queue(e, data, ctl) ==
    [e EXCEPT !.sbuf = @ \o data,
              !.slist = IF e.slist # <<>> /\ Last(e.slist).ctl = ctl /\ Last(e.slist).xmit = 0
                        THEN [e.slist EXCEPT ![Len(e.slist)].len = @ + Len(data)]
                        ELSE Append(@, [seq |-> e.snd_una + Len(e.sbuf),
                                        len |-> Len(data), xmit |-> 0, ctl |-> ctl])]

\* The first n units of the k-th segment stay in it, the rest becomes a segment.
Split(e, k, n, xmit) ==
    LET s == e.slist[k]
        rest == [s EXCEPT !.seq = @ + n, !.len = @ - n, !.xmit = xmit]
    IN IF s.len <= n THEN e
       ELSE [e EXCEPT !.slist = InsertAt([@ EXCEPT ![k].len = n], k + 1, rest)]

\* The end of transmit: the first m units of the k-th segment go out, and what
\* is left of it becomes a segment.
SendSegment(e, k, m) ==
    LET s == e.slist[k]
        at == s.seq - e.snd_una
        g == Split(Packet(e, s.seq, s.ctl, SubSeq(e.sbuf, at + 1, at + m)), k, m, s.xmit)
    IN [g EXCEPT !.slist[k].xmit = @ + 1,
                 !.snd_nxt = IF s.xmit = 0 THEN @ + m ELSE @,
                 !.rto = TRUE]

\* transmit: on a packet that is too large the next maximum that is shorter
\* and fits is taken.
Transmit(e, k) ==
    LET s == e.slist[k]
        n == Least(s.len, e.mss)
        fits == {l \in e.msslevel + 1 .. LastLevel : MssTable[l] < n /\ MssTable[l] <= PathMax}
        level == IF fits = {} THEN LastLevel ELSE CHOOSE l \in fits : \A m \in fits : l <= m
        reduced == IF e.msslevel = LastLevel THEN e
                   ELSE [e EXCEPT !.msslevel = level, !.mss = MssTable[level]]
        spent == s.xmit >= IF e.state = "ESTABLISHED" THEN XmitLimit ELSE SynXmitLimit
    IN CASE spent                               -> [ok |-> FALSE, e |-> e]
         [] ~spent /\ n <= PathMax              -> [ok |-> TRUE, e |-> SendSegment(e, k, n)]
         [] ~spent /\ n > PathMax /\ fits = {}  -> [ok |-> FALSE, e |-> reduced]
         [] OTHER -> [ok |-> TRUE, e |-> SendSegment(reduced, k, reduced.mss)]

\* How much attemptSend may send now, and the segment it comes from.
Available(e, cwnd) ==
    LET window == Least(e.snd_wnd, cwnd)
        useable == IF InFlight(e) < window THEN window - InFlight(e) ELSE 0
        ready == Least(Len(e.sbuf) - InFlight(e), e.mss)
    IN CASE ready <= useable                         -> ready
         [] ready > useable /\ useable * 4 < window  -> 0
         [] OTHER                                    -> useable
FirstUnsent(e) ==
    LET unsent == {k \in DOMAIN e.slist : e.slist[k].xmit = 0}
    IN CHOOSE k \in unsent : \A j \in unsent : k <= j

\* One round of attemptSend's loop; a.go is FALSE once it has returned.
SendRound(a, cwnd) ==
    LET e == a.e
        available == Available(e, cwnd)
        next == FirstUnsent(e)
        t == Transmit(Split(e, next, available, 0), next)
        Stop(f) == [a EXCEPT !.e = f, !.go = FALSE]
    IN CASE ~a.go -> a
         [] a.go /\ available = 0 ->
              Stop(CASE a.flags = "none" -> e
                     [] a.flags # "none" /\ (a.flags = "immediate" \/ e.t_ack) -> Ack(e)
                     [] OTHER -> [e EXCEPT !.t_ack = TRUE])
         [] a.go /\ available > 0 /\ UseNagling /\ InFlight(e) > 0 /\ available < e.mss ->
              Stop(e)
         [] OTHER -> IF t.ok THEN [a EXCEPT !.e = t.e, !.flags = "none"] ELSE Stop(t.e)

AttemptSend(e, flags, cwnd) ==
    LET Rounds == Len(e.sbuf) + 1
        run[n \in 0 .. Rounds] == IF n = 0 THEN [e |-> e, flags |-> flags, go |-> TRUE]
                                  ELSE SendRound(run[n - 1], cwnd)
    IN run[Rounds].e

QueueConnectMessage(e) ==
    Queue([e EXCEPT !.snd_wnd = CtlLen], [i \in 1 .. CtlLen |-> Ctl], TRUE)

\* The first maximum that the advice has room for, or the last one.
LevelOf(advice) ==
    LET room == {l \in DOMAIN MssTable : MssTable[l] <= advice}
    IN IF room = {} THEN LastLevel ELSE CHOOSE l \in room : \A m \in room : l <= m
AdjustMTU(e) == [e EXCEPT !.mss = e.mtu_advise, !.msslevel = LevelOf(e.mtu_advise)]

\* closedown; nothing of a closed PseudoTcp but `out' and m_shutdown is used again.
Closedown(e) == [Fresh EXCEPT !.state = "CLOSED", !.shutdown = e.shutdown, !.out = e.out]

-----------------------------------------------------------------------------
(***************************************************************************)
(* process, in its four parts: the control code, the acknowledgment, the    *)
(* notifications and the data.                                              *)
(***************************************************************************)
ProcessConnect(e, p) ==
    CASE p.ctl /\ e.state = "LISTEN"   -> QueueConnectMessage([e EXCEPT !.state = "SYN_RECEIVED"])
      [] p.ctl /\ e.state = "SYN_SENT" -> AdjustMTU([e EXCEPT !.state = "ESTABLISHED"])
      [] OTHER                         -> e

\* What an acknowledgment of n units frees of m_slist, unit by unit.
FreeUnit(s) == IF Head(s).len = 1 THEN Tail(s) ELSE [s EXCEPT ![1].len = @ - 1]
Free(slist, n) ==
    LET f[k \in 0 .. n] == IF k = 0 THEN slist ELSE FreeUnit(f[k - 1])
    IN f[n]

\* The first segment is sent again; failing that the connection is closed.
Retransmit(e) ==
    LET t == Transmit(e, 1) IN IF t.ok THEN t.e ELSE Closedown(t.e)

ProcessAck(e, p) ==
    LET acked == p.ack - e.snd_una
        freed == [e EXCEPT !.snd_wnd = p.wnd, !.snd_una = p.ack,
                           !.rto = (p.ack # e.snd_nxt),
                           !.sbuf = SubSeq(@, acked + 1, Len(@)),
                           !.slist = Free(@, acked)]
        seen == [e EXCEPT !.snd_wnd = p.wnd]
        resent == Retransmit(seen)
    IN CASE p.ack > e.snd_una /\ p.ack <= e.snd_nxt ->
              IF e.dup_acks >= 3 /\ p.ack < e.recover THEN Retransmit(freed)
              ELSE [freed EXCEPT !.dup_acks = 0]
         [] p.ack = e.snd_una /\ p.data # <<>> -> seen
         [] p.ack = e.snd_una /\ p.data = <<>> ->
              CASE InFlight(e) = 0 -> [seen EXCEPT !.dup_acks = 0]
                [] InFlight(e) > 0 /\ e.dup_acks = 2 ->
                     [resent EXCEPT !.dup_acks = 3, !.recover = resent.snd_nxt]
                [] OTHER -> [seen EXCEPT !.dup_acks = (@ + 1) % DupAckModulus]
         [] OTHER -> e

\* "A bit hacky": anything but a connect message opens a SYN_RECEIVED end.
\* Then the writer is told of room in the send buffer.
ProcessNotify(e, p) ==
    LET f == IF e.state = "SYN_RECEIVED" /\ ~p.ctl
             THEN AdjustMTU([e EXCEPT !.state = "ESTABLISHED"]) ELSE e
    IN [f EXCEPT !.writeEnable = @ /\ Len(f.sbuf) >= (SndCap + RcvCap) \div 2]

\* Mutant: the window is not lowered for the data taken over.
BugRecover(e) ==
    LET due == {r \in e.rlist : r.seq <= e.rcv_nxt /\ r.seq + r.len > e.rcv_nxt}
        r == CHOOSE q \in due : TRUE
        m == r.seq + r.len - e.rcv_nxt
    IN IF due = {} THEN e
       ELSE [ConsumeWriteBuffer(e, m) EXCEPT !.rcv_nxt = @ + m, !.rlist = @ \ {r}]

\* The saved segments that data up to rcv_nxt has reached are taken over, the
\* one that begins first before the others.
Due(e) == {r \in e.rlist : r.seq <= e.rcv_nxt}
FirstDue(e) == CHOOSE r \in Due(e) : \A o \in Due(e) : r.seq <= o.seq
RecoverOne(e) ==
    LET r == FirstDue(e)
        m == r.seq + r.len - e.rcv_nxt
        g == IF m > 0 THEN Consumed(e, m) ELSE e
    IN IF Due(e) = {} THEN e ELSE [g EXCEPT !.rlist = @ \ {r}]
Recover(e) ==
    LET run[n \in 0 .. Cardinality(e.rlist)] == IF n = 0 THEN e ELSE RecoverOne(run[n - 1])
    IN run[Cardinality(e.rlist)]

\* Mutant: a segment that was partly received before keeps its first units
\* instead of its last.
BugTrim(e, p) ==
    LET old == IF p.seq < e.rcv_nxt THEN Least(e.rcv_nxt - p.seq, Len(p.data)) ELSE 0
        over == p.seq + Len(p.data) - e.rcv_nxt - GetWriteRemaining(e)
        keep == IF over <= 0 THEN Len(p.data)
                ELSE IF over < Len(p.data) - old THEN Len(p.data) - over ELSE old
    IN [seq |-> p.seq + old, data |-> SubSeq(p.data, 1, keep - old)]

\* The part of a packet's data that is new and fits, as [seq, data].
Trim(e, p) ==
    LET old == IF p.seq < e.rcv_nxt THEN Least(e.rcv_nxt - p.seq, Len(p.data)) ELSE 0
        seq == p.seq + old
        over == seq + Len(p.data) - old - e.rcv_nxt - GetWriteRemaining(e)
        keep == IF over <= 0 THEN Len(p.data)
                ELSE IF over < Len(p.data) - old THEN Len(p.data) - over ELSE old
    IN [seq |-> seq, data |-> SubSeq(p.data, old + 1, keep)]

\* Data of a control packet, or that comes after Close, is counted and dropped.
ProcessData(e, p) ==
    LET seg == Trim(e, p)
        n == Len(seg.data)
        inOrder == seg.seq = e.rcv_nxt
        written == WriteOffset(e, seg.data, seg.seq - e.rcv_nxt)
    IN CASE n = 0 -> e
         [] n > 0 /\ (p.ctl \/ e.shutdown # "none") ->
              IF inOrder THEN [e EXCEPT !.rcv_nxt = @ + n] ELSE e
         [] n > 0 /\ ~p.ctl /\ e.shutdown = "none" /\ inOrder ->
              Recover(Consumed(written, n))
         [] OTHER -> [written EXCEPT !.rlist = @ \cup {[seq |-> seg.seq, len |-> n]}]

\* Acknowledge at once what is out of order or fills a gap, other data soon.
AckFlags(e, f, p) ==
    IF p.seq # e.rcv_nxt \/ f.rcv_nxt > e.rcv_nxt + Len(Trim(e, p).data) THEN "immediate"
    ELSE IF p.data # <<>> THEN IF DelayAcks THEN "delayed" ELSE "immediate"
    ELSE "none"

Process(e, p, cwnd) ==
    LET acked == ProcessAck(ProcessConnect([e EXCEPT !.probes = 0], p), p)
        told == ProcessNotify(acked, p)
        taken == ProcessData(told, p)
        done == AttemptSend(taken, AckFlags(told, taken, p), cwnd)
    IN IF acked.state = "CLOSED" THEN acked
       ELSE [done EXCEPT !.readEnable = @ /\ Len(taken.rbuf) = Len(told.rbuf)]

-----------------------------------------------------------------------------
(***************************************************************************)
(* PseudoTcpChannel.                                                        *)
(***************************************************************************)
\* AdjustClock deletes the PseudoTcp when GetNextClock says it is finished.
AdjustClock(e) ==
    IF \/ e.shutdown = "forceful"
       \/ e.shutdown = "graceful" /\ (e.state # "ESTABLISHED" \/ (e.sbuf = <<>> /\ ~e.t_ack))
    THEN [Fresh EXCEPT !.state = "GONE", !.out = e.out]
    ELSE e

Deaf(e) == e.state \in {"CLOSED", "GONE"}

\* What an operation leaves: the endpoint, and its packets that are not lost.
\* A packet to an endpoint that is closed or deleted changes nothing.
Leaves(x, e, left) ==
    /\ ep' = [ep EXCEPT ![x] = [e EXCEPT !.out = {}]]
    /\ \E kept \in SUBSET e.out :
         /\ Cardinality(left[Peer(x)] \cup kept) <= MaxNet
         /\ Deaf(ep[Peer(x)]) => kept = {}
         /\ net' = [left EXCEPT ![Peer(x)] = @ \cup kept, ![x] = IF Deaf(e) THEN {} ELSE @]

Windows(e) == {c \in CongestionWindows : c >= e.mss}

\* OnChannelWritableState
Connect(x) ==
    /\ x \in Connectors /\ ep[x].state = "LISTEN"
    /\ \E cwnd \in Windows(ep[x]) :
         Leaves(x, AdjustClock(AttemptSend(
                     QueueConnectMessage([ep[x] EXCEPT !.state = "SYN_SENT"]), "none", cwnd)), net)
    /\ UNCHANGED <<sent, got, advices, repeats>>

\* OnChannelRead: a packet arrives, and may arrive again.
NotifyPacket(x) ==
    /\ ~Deaf(ep[x])
    /\ \E p \in net[x], again \in BOOLEAN, cwnd \in Windows(ep[x]) :
         /\ again => repeats < MaxRepeats
         /\ repeats' = IF again THEN repeats + 1 ELSE repeats
         /\ Leaves(x, AdjustClock(Process(ep[x], p, cwnd)),
                   IF again THEN net ELSE [net EXCEPT ![x] = @ \ {p}])
    /\ UNCHANGED <<sent, got, advices>>

Timers(e) ==
    (IF e.rto THEN {"rto"} ELSE {}) \cup (IF e.snd_wnd = 0 THEN {"probe"} ELSE {})
        \cup (IF e.t_ack THEN {"ack"} ELSE {})

\* Mutant: nothing probes a closed window.
BugClockNoProbe(e, fired, silent) ==
    LET resent == IF "rto" \in fired THEN Retransmit(e) ELSE e
    IN IF resent.state # "CLOSED" /\ "ack" \in fired /\ resent.t_ack THEN Ack(resent) ELSE resent

\* Mutant: the delayed acknowledgment is never sent by itself.
BugClockNoAck(e, fired, silent) ==
    LET resent == IF "rto" \in fired THEN Retransmit(e) ELSE e
    IN CASE resent.state = "CLOSED" \/ "probe" \notin fired -> resent
         [] resent.state # "CLOSED" /\ "probe" \in fired /\ silent -> Closedown(resent)
         [] OTHER -> [Packet(resent, resent.snd_nxt - 1, FALSE, <<>>) EXCEPT !.probes = @ + 1]

\* NotifyClock: the timers of `fired' have run out; the peer is silent when
\* nothing has come from it for 15 seconds.
Clock(e, fired, silent) ==
    LET resent == IF "rto" \in fired THEN Retransmit(e) ELSE e
        probed == CASE "probe" \notin fired -> resent
                    [] "probe" \in fired /\ silent -> Closedown(resent)
                    [] OTHER -> [Packet(resent, resent.snd_nxt - 1, FALSE, <<>>)
                                   EXCEPT !.probes = @ + 1]
    IN CASE resent.state = "CLOSED" -> resent
         [] resent.state # "CLOSED" /\ probed.state = "CLOSED" -> probed
         [] OTHER -> IF "ack" \in fired /\ probed.t_ack THEN Ack(probed) ELSE probed

NotifyClock(x) ==
    /\ ~Deaf(ep[x])
    /\ \E fired \in SUBSET Timers(ep[x]) \ {{}}, silent \in BOOLEAN :
         /\ ep[x].probes = MaxProbes => silent
         /\ Leaves(x, AdjustClock(Clock(ep[x], fired, silent)), net)
    /\ UNCHANGED <<sent, got, advices, repeats>>

\* OnChannelConnectionChanged
NotifyMTU(x) ==
    /\ ep[x].state # "GONE" /\ advices < MaxAdvices
    /\ advices' = advices + 1
    /\ \E m \in Advices :
         LET e == [ep[x] EXCEPT !.mtu_advise = m]
         IN Leaves(x, IF e.state = "ESTABLISHED" THEN AdjustMTU(e) ELSE e, net)
    /\ UNCHANGED <<sent, got, repeats>>

\* Write: Send queues what fits, or asks to be told of room.
Send(x) ==
    /\ x \in Senders /\ ep[x].state = "ESTABLISHED" /\ ep[x].shutdown = "none"
    /\ \E n \in 1 .. MaxUnits - sent[x], cwnd \in Windows(ep[x]) :
         LET e == ep[x]
             m == Least(n, SndCap - Len(e.sbuf))
         IN IF m = 0
            THEN Leaves(x, [e EXCEPT !.writeEnable = TRUE], net) /\ UNCHANGED sent
            ELSE /\ Leaves(x, AttemptSend(Queue(e, [i \in 1 .. m |-> sent[x] + i], FALSE),
                                          "none", cwnd), net)
                 /\ sent' = [sent EXCEPT ![x] = @ + m]
    /\ UNCHANGED <<got, advices, repeats>>

\* Mutant: every Recv asks to be told of data.
BugRecv(x) ==
    /\ ep[x].state = "ESTABLISHED" /\ ep[x].shutdown = "none"
    /\ \E n \in 1 .. RcvCap, cwnd \in Windows(ep[x]) :
         LET e == [ep[x] EXCEPT !.readEnable = TRUE]
             m == Least(n, Len(e.rbuf))
             read == [e EXCEPT !.rbuf = SubSeq(@, m + 1, Len(@))]
         IN /\ got' = [got EXCEPT ![x] = @ \o SubSeq(e.rbuf, 1, m)]
            /\ Leaves(x, AttemptSend([read EXCEPT !.rcv_wnd = GetWriteRemaining(read)],
                                     "immediate", cwnd), net)
    /\ UNCHANGED <<sent, advices, repeats>>

\* Read: Recv empties the buffer, or asks to be told of data. A window that
\* was closed is announced when it opens.
Recv(x) ==
    /\ ep[x].state = "ESTABLISHED" /\ ep[x].shutdown = "none"
    /\ \E n \in 1 .. RcvCap, cwnd \in Windows(ep[x]) :
         LET e == ep[x]
             m == Least(n, Len(e.rbuf))
             read == [e EXCEPT !.rbuf = SubSeq(@, m + 1, Len(@))]
             space == GetWriteRemaining(read)
             opened == [read EXCEPT !.rcv_wnd = space]
         IN IF e.rbuf = <<>>
            THEN Leaves(x, [e EXCEPT !.readEnable = TRUE], net) /\ UNCHANGED got
            ELSE /\ got' = [got EXCEPT ![x] = @ \o SubSeq(e.rbuf, 1, m)]
                 /\ Leaves(x, CASE space - e.rcv_wnd < Least(RcvCap \div 2, e.mss) -> read
                                [] OTHER -> IF e.rcv_wnd = 0
                                            THEN AttemptSend(opened, "immediate", cwnd)
                                            ELSE opened, net)
    /\ UNCHANGED <<sent, advices, repeats>>

\* Close by the user, or forcefully when the channel is destroyed.
Close(x) ==
    /\ x \in Closers /\ ep[x].state # "GONE"
    /\ \E how \in {"graceful", "forceful"} :
         /\ how = "graceful" => ep[x].shutdown = "none"
         /\ Leaves(x, AdjustClock([ep[x] EXCEPT !.shutdown = how]), net)
    /\ UNCHANGED <<sent, got, advices, repeats>>

Init ==
    /\ ep = [x \in Ends |-> Fresh]
    /\ net = [x \in Ends |-> {}]
    /\ sent = [x \in Ends |-> 0] /\ got = [x \in Ends |-> <<>>]
    /\ advices = 0 /\ repeats = 0

Next == \E x \in Ends :
    \/ Connect(x) \/ NotifyPacket(x) \/ NotifyClock(x)
    \/ NotifyMTU(x) \/ Send(x) \/ Recv(x) \/ Close(x)

Spec == Init /\ [][Next]_vars

\* The worker thread's clock message always is pending, at most 4 seconds
\* away, and a user that is told of data reads it.
Fairness == \A x \in Ends : WF_vars(NotifyClock(x)) /\ WF_vars(Recv(x))
FairSpec == Spec /\ Fairness

-----------------------------------------------------------------------------
(***************************************************************************)
(* Properties.                                                              *)
(***************************************************************************)
Alive(x) == ~Deaf(ep[x])

\* Whatever the network loses, repeats or reorders, and however segments are
\* split, trimmed and saved for later, what a user reads and will read next is
\* what its peer sent, from the first unit on and in order (the buffer
\* offsets of process, against rcv_nxt and m_rlist).
Intact(x) ==
    LET all == got[x] \o ep[x].rbuf
    IN Len(all) <= sent[Peer(x)] /\ \A i \in DOMAIN all : all[i] = i
StreamIntact == \A x \in Ends : Intact(x)

\* That is so of the user of an endpoint that does not connect, although the
\* other user may send and read at the same time. (Of the connecting one it is
\* not: data may overtake the answer to its connect message.)
ListenerIntact == \A x \in Ends \ Connectors : Intact(x)

\* m_slist always cuts the send buffer into consecutive segments that start at
\* m_snd_una, those sent before those not sent, with m_snd_nxt between them:
\* transmit may subtract m_snd_una from a segment's number, and an
\* acknowledgment never ends inside a segment (which would leave the rest of
\* the segment with a number below m_snd_una). And the retransmission timer runs
\* exactly while something is in flight, so it never finds m_slist empty.
SegmentsTile ==
    \A x \in Ends :
        LET e == ep[x]
            End(i) == IF i = 0 THEN e.snd_una ELSE e.slist[i].seq + e.slist[i].len
        IN Alive(x) =>
             /\ \A i \in DOMAIN e.slist :
                  /\ e.slist[i].seq = End(i - 1)
                  /\ e.slist[i].xmit > 0 <=> e.slist[i].seq < e.snd_nxt
             /\ End(Len(e.slist)) = e.snd_una + Len(e.sbuf)
             /\ e.snd_nxt \in {End(i) : i \in 0 .. Len(e.slist)}
             /\ e.rto <=> InFlight(e) > 0

\* The window an endpoint announces never exceeds the room in its buffer, and
\* no peer ever has more in flight than fits: no unit is trimmed for lack of
\* room and then acknowledged (m_rcv_wnd in process and Recv).
WindowFits ==
    \A x \in Ends : Alive(x) =>
        LET e == ep[x]
            p == ep[Peer(x)]
        IN /\ e.rcv_wnd <= GetWriteRemaining(e)
           /\ Alive(Peer(x)) /\ e.state = "ESTABLISHED" => p.snd_nxt <= e.rcv_nxt + GetWriteRemaining(e)

\* Data waits in the buffer only when the user has been told of it and has
\* not yet read until Recv would block (m_bReadEnable).
ReaderTold ==
    \A x \in Ends : ep[x].rbuf # <<>> => ~ep[x].readEnable

\* What is sent is read by the peer in the end, unless one of the two has
\* given up or closed (retransmission, window probes, the limits on both).
Delivered ==
    \A x \in Senders :
        (sent[x] > Len(got[Peer(x)])) ~>
            (sent[x] = Len(got[Peer(x)]) \/ \E y \in Ends : ~Alive(y) \/ ep[y].shutdown # "none")

\* A graceful close comes to an end: the PseudoTcp is deleted, its data
\* acknowledged or given up.
CloseCompletes ==
    \A x \in Closers : (ep[x].shutdown # "none") ~> (ep[x].state = "GONE")
=============================================================================
