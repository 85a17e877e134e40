------------------------- MODULE PseudoTcpProofs -------------------------
(***************************************************************************)
(* Proofs of the safety of PseudoTcp, for every number and size of the      *)
(* constants.                                                               *)
(*                                                                          *)
(* The inductive invariant BaseInv says of each endpoint that its segments  *)
(* tile its part of the stream and that its buffers and windows agree       *)
(* (EndOK), and of each direction that every number the receiver knows, in  *)
(* its state or in a packet, is the end of a segment the sender has sent    *)
(* (Link, Reached): an acknowledgment never ends inside a segment. It holds *)
(* whoever connects, sends and closes. Sound (what was read and will be     *)
(* read is what was sent) and Opening (data comes after the connect         *)
(* message) are preserved on top of it when one end connects.               *)
(*                                                                          *)
(* The order: sequences and segment lists; sending; what an acknowledgment  *)
(* frees; the receive buffer; process; the other operations; the steps of   *)
(* the system; the theorems.                                                *)
(***************************************************************************)
EXTENDS PseudoTcp, FiniteSetTheorems, SequenceTheorems, TLAPS

(***************************************************************************)
(* Induction over the natural numbers, for a set instead of a predicate: it *)
(* follows from the finite sets being well founded.                         *)
(***************************************************************************)
LEMMA Induction ==
    ASSUME NEW S, 0 \in S, \A n \in Nat : n \in S => n + 1 \in S
    PROVE  Nat \subseteq S
<1> SUFFICES ASSUME NEW b \in Nat, b \notin S PROVE FALSE
    OBVIOUS
<1> DEFINE T == {0 .. n : n \in Nat \ S}
<1>1. T \subseteq FiniteSubsetsOf(Nat)
    <2> SUFFICES ASSUME NEW n \in Nat PROVE 0 .. n \in FiniteSubsetsOf(Nat)
        OBVIOUS
    <2>1. IsFiniteSet(0 .. n)
        BY FS_Interval
    <2> QED
        BY <2>1 DEF FiniteSubsetsOf
<1>2. T # {}
    OBVIOUS
<1>3. IsWellFoundedOn(StrictSubsetOrdering(Nat), FiniteSubsetsOf(Nat))
    BY FS_StrictSubsetOrderingWellFounded
<1> HIDE DEF T
<1>4. PICK x \in T : \A y \in T : ~(<<y, x>> \in StrictSubsetOrdering(Nat))
    BY <1>1, <1>2, <1>3, WFMin
<1>5. PICK n \in Nat \ S : x = 0 .. n
    BY DEF T
<1>6. n - 1 \in Nat \ S
    <2>1. n # 0
        OBVIOUS
    <2>2. n - 1 \in Nat /\ (n - 1) + 1 = n
        BY <2>1
    <2> QED
        BY <2>2
<1>7. 0 .. (n - 1) \in T
    BY <1>6 DEF T
<1>8. <<0 .. (n - 1), 0 .. n>> \in StrictSubsetOrdering(Nat)
    BY SMTT(40) DEF StrictSubsetOrdering
<1> QED
    BY <1>4, <1>5, <1>7, <1>8

\* A set of natural numbers that is not empty has a least member.
LEMMA LeastMember ==
    ASSUME NEW T, T \subseteq Nat, T # {}
    PROVE  \E m \in T : \A n \in T : m <= n
<1> SUFFICES ASSUME \A m \in T : \E n \in T : n < m PROVE FALSE
    OBVIOUS
<1> DEFINE S == {k \in Nat : \A n \in T : n >= k}
<1>1. 0 \in S
    OBVIOUS
<1>2. ASSUME NEW k \in Nat, k \in S PROVE k + 1 \in S
    <2>1. k \notin T
        BY <1>2
    <2> QED
        BY <1>2, <2>1
<1> HIDE DEF S
<1>3. Nat \subseteq S
    BY <1>1, <1>2, Induction
<1>4. PICK m \in T : TRUE
    OBVIOUS
<1>5. m + 1 \in S
    BY <1>3, <1>4
<1> QED
    BY <1>4, <1>5 DEF S

\* The length of a sequence, under a name of its own: the solvers then leave
\* sequences out of the arithmetic.
Size(s) == Len(s)

\* The unit at place n of the stream an endpoint sends, its connect message first.
Unit(n) == IF n < CtlLen THEN Ctl ELSE n - CtlLen + 1

\* Where a segment, sent or saved, ends, and where the announced window does.
EndOf(s) == s.seq + s.len
Edge(e) == e.rcv_nxt + e.rcv_wnd

Segments == [seq : Nat, len : Nat \ {0}, xmit : Nat, ctl : BOOLEAN]
Saved == [seq : Nat, len : Nat \ {0}]
Packets == [seq : Int, ack : Nat, wnd : Nat, ctl : BOOLEAN, data : Seq(Int)]
Endpoint ==
    [state : {"LISTEN", "SYN_SENT", "SYN_RECEIVED", "ESTABLISHED", "CLOSED", "GONE"},
     shutdown : {"none", "graceful", "forceful"},
     snd_una : Nat, snd_nxt : Nat, snd_wnd : Nat, sbuf : Seq(Int), slist : Seq(Segments),
     rcv_nxt : Nat, rcv_wnd : Nat, rbuf : Seq(Int), rfree : [0 .. RcvCap - 1 -> Int],
     rlist : SUBSET Saved,
     mss : PacketSizes, msslevel : DOMAIN MssTable, mtu_advise : PacketSizes,
     dup_acks : Nat, recover : Nat, rto : BOOLEAN, t_ack : BOOLEAN,
     readEnable : BOOLEAN, writeEnable : BOOLEAN, probes : Nat, out : SUBSET Packets]

\* n is acknowledged, or is the end of a segment that has been sent.
Reach(slist, una, nxt, n) ==
    /\ n \in Int
    /\ \/ n <= una
       \/ n <= nxt /\ \E i \in DOMAIN slist : n = EndOf(slist[i])
Reached(e, n) == Reach(e.slist, e.snd_una, e.snd_nxt, n)

\* The segments tile what there is of the stream from `una' to `total'.
Chain(slist, una, total) ==
    /\ \A i \in DOMAIN slist :
          /\ una <= slist[i].seq /\ EndOf(slist[i]) <= total
          /\ \A j \in DOMAIN slist : i < j => EndOf(slist[i]) <= slist[j].seq
          /\ i + 1 \in DOMAIN slist => slist[i + 1].seq = EndOf(slist[i])
    /\ slist = <<>> => una = total
    /\ slist # <<>> => slist[1].seq = una /\ EndOf(slist[Len(slist)]) = total

\* The segments below `nxt' are the ones that were sent.
Marked(slist, nxt) == \A i \in DOMAIN slist : slist[i].xmit > 0 <=> slist[i].seq < nxt

\* A segment is the connect message, all of it, or comes after it.
Kind(s) == IF s.ctl THEN s.seq = 0 /\ EndOf(s) = CtlLen ELSE s.seq >= CtlLen
Kinds(slist) == \A i \in DOMAIN slist : Kind(slist[i])

Total(e) == e.snd_una + Size(e.sbuf)
Tile(e) ==
    /\ Chain(e.slist, e.snd_una, Total(e)) /\ Marked(e.slist, e.snd_nxt)
    /\ e.snd_una <= e.snd_nxt /\ Reached(e, e.snd_nxt)

\* The send buffer holds its part of the stream.
Content(e) == \A i \in DOMAIN e.sbuf : e.sbuf[i] = Unit(e.snd_una + i - 1)

SendOK(e) ==
    /\ Tile(e) /\ Kinds(e.slist) /\ Content(e)
    /\ e.rto <=> e.snd_una < e.snd_nxt
    /\ e.recover <= e.snd_nxt /\ Size(e.sbuf) <= SndCap

\* The window has room for the connect message while that is not acknowledged.
Roomy(e) == Total(e) = 0 \/ CtlLen <= e.snd_una + e.snd_wnd

\* The congestion windows that have it.
Wide == {c \in Nat : CtlLen <= c}

RecvOK(e) ==
    /\ IsFiniteSet(e.rlist)
    /\ Size(e.rbuf) + e.rcv_wnd <= RcvCap /\ RcvCap <= Edge(e)
    /\ \A q \in e.rlist : EndOf(q) <= Edge(e)

\* The data of a packet is that of the stream, up to `total'.
DataOK(p, total) ==
    /\ \A i \in DOMAIN p.data : p.data[i] = Unit(p.seq + i - 1)
    /\ p.data # <<>> => p.seq >= 0 /\ p.seq + Size(p.data) <= total
    /\ p.ctl => p.data # <<>> /\ p.seq = 0 /\ Size(p.data) = CtlLen
    /\ p.data # <<>> /\ ~p.ctl => p.seq >= CtlLen

Blank(e) == e.rcv_nxt = 0 /\ e.rbuf = <<>> /\ e.rlist = {}

\* What has been queued is the connect message and the n units handed to Send.
Counts(e, n) == IF e.state = "LISTEN" THEN Total(e) = 0 /\ n = 0 ELSE Total(e) = CtlLen + n

ReaderOK(e) == e.rbuf # <<>> => ~e.readEnable

\* An endpoint, what is in flight to it, and how much was handed to its Send.
EndOK(e, in, n) ==
    /\ e.out = {} /\ ReaderOK(e)
    /\ ~Deaf(e) => SendOK(e) /\ Roomy(e) /\ RecvOK(e) /\ Counts(e, n)
    /\ Deaf(e) => Blank(e) /\ in = {}
EndsOK ==
    /\ ep \in [Ends -> Endpoint] /\ net \in [Ends -> SUBSET Packets]
    /\ sent \in [Ends -> Nat] /\ got \in [Ends -> Seq(Int)]
    /\ \A x \in Ends : EndOK(ep[x], net[x], sent[x])

\* A sender that was handed n units, its receiver, and what is in flight to the
\* one and to the other.
Link(s, r, inS, inR, n) ==
    /\ \A p \in inR : DataOK(p, CtlLen + n)
    /\ ~Deaf(r) => \A p \in inR : p.data # <<>> => p.seq + Size(p.data) <= Edge(r)
    /\ ~Deaf(s) =>
         /\ Reached(s, r.rcv_nxt) /\ \A q \in r.rlist : Reached(s, EndOf(q))
         /\ \A p \in inS : Reached(s, p.ack)
         /\ \A p \in inR : /\ p.data # <<>> => Reached(s, p.seq + Size(p.data))
                           /\ p.ack + p.wnd <= Edge(s)
    /\ \A p \in inR : RcvCap <= p.ack + p.wnd
    /\ ~Deaf(s) /\ ~Deaf(r) => s.snd_nxt <= Edge(r) /\ s.snd_una + s.snd_wnd <= Edge(r)
Linked(x) == Link(ep[x], ep[Peer(x)], net[x], net[Peer(x)], sent[x])

BaseInv == EndsOK /\ \A x \in Ends : Linked(x)

-----------------------------------------------------------------------------
\* The free space of the receive buffer holds what was saved of q.
Stored(e, q) ==
    \A j \in q.seq .. EndOf(q) - 1 : j >= e.rcv_nxt => e.rfree[j - e.rcv_nxt] = Unit(j)

\* Where an endpoint is in the stream it receives, when its user has received
\* k units: past the connect message, or still in it.
Aligned(e, k, total) ==
    /\ \/ e.rcv_nxt = CtlLen + k
       \/ e.rcv_nxt <= CtlLen /\ k = 0 /\ e.rlist = {}
    /\ \A q \in e.rlist : CtlLen <= q.seq /\ EndOf(q) <= total /\ Stored(e, q)

\* What can be read comes after the n units that were read.
Stream(e, n, total) ==
    /\ \A i \in DOMAIN e.rbuf : e.rbuf[i] = n + i
    /\ CtlLen + n + Size(e.rbuf) <= total
    /\ e.shutdown = "none" => Aligned(e, n + Size(e.rbuf), total)

\* What x has read and will read is what its peer sent.
Sound(x) ==
    /\ \A i \in DOMAIN got[x] : got[x][i] = i
    /\ Size(got[x]) <= sent[Peer(x)]
    /\ Alive(x) => Stream(ep[x], Size(got[x]), CtlLen + sent[Peer(x)])

\* Endpoint c connects, its peer d waits for that: data of c's user comes to d
\* after the connect message.
Opening(c, d) ==
    /\ ep[c].state # "SYN_RECEIVED" /\ ep[d].state # "SYN_SENT"
    /\ ep[c].state = "LISTEN" => /\ \A p \in net[c] : ~p.ctl
                                 /\ ep[d].state = "LISTEN" \/ ~Alive(d)
    /\ Alive(d) /\ ep[d].state # "LISTEN" => CtlLen <= ep[d].rcv_nxt
    /\ (\E p \in net[c] : p.ctl) \/ ep[c].state = "ESTABLISHED" \/ sent[c] > 0 => ep[d].state # "LISTEN"

-----------------------------------------------------------------------------
(***************************************************************************)
(* Segments.                                                                *)
(***************************************************************************)
\* What SizeAssumption says of the table of packet sizes.
LEMMA Sizes ==
    /\ CtlLen \in Nat \ {0} /\ PathMax \in Nat \ {0} /\ RcvCap \in Nat \ {0} /\ SndCap \in Nat \ {0}
    /\ XmitLimit \in Nat \ {0} /\ SynXmitLimit \in Nat \ {0}
    /\ LastLevel \in DOMAIN MssTable /\ DOMAIN MssTable = 1 .. LastLevel /\ LastLevel \in Nat
    /\ \A l \in DOMAIN MssTable : MssTable[l] \in PacketSizes
    /\ PacketSizes \subseteq Nat \ {0}
    /\ \A m \in PacketSizes : CtlLen <= m
<1>1. /\ CtlLen \in Nat \ {0} /\ PathMax \in Nat \ {0} /\ RcvCap \in Nat \ {0} /\ SndCap \in Nat \ {0}
      /\ XmitLimit \in Nat \ {0} /\ SynXmitLimit \in Nat \ {0}
    BY SizeAssumption
<1>2. MssTable \in Seq(Nat \ {0}) /\ MssTable # <<>>
    BY SizeAssumption
<1>3. LastLevel \in DOMAIN MssTable /\ DOMAIN MssTable = 1 .. LastLevel /\ LastLevel \in Nat
    BY <1>2 DEF LastLevel
<1>5. \A l \in DOMAIN MssTable : MssTable[l] \in Nat \ {0}
    BY <1>2
<1>6. PacketSizes \subseteq Nat \ {0} /\ \A m \in PacketSizes : CtlLen <= m
    BY DEF PacketSizes
<1>7. ASSUME NEW l \in DOMAIN MssTable PROVE MssTable[LastLevel] <= MssTable[l]
    <2>1. CASE l = LastLevel
        BY <2>1, <1>5
    <2>2. CASE l < LastLevel
        BY <2>2, <1>3, <1>5, SizeAssumption, SMTT(40)
    <2> QED
        BY <1>3, <2>1, <2>2
<1>8. ASSUME NEW l \in DOMAIN MssTable PROVE MssTable[l] \in PacketSizes
    BY <1>1, <1>3, <1>5, <1>7, ConnectFits DEF PacketSizes
<1> QED
    BY <1>1, <1>3, <1>6, <1>8

\* A sequence with one more member after the k-th.
IsInserted(t, S, r, k, b) ==
    /\ t \in Seq(S) /\ Len(t) = Len(r) + 1
    /\ \A i \in 1 .. k : t[i] = r[i]
    /\ t[k + 1] = b
    /\ \A i \in k + 2 .. Len(r) + 1 : t[i] = r[i - 1]
\* InsertAt puts one element at place k + 1 and moves the later ones.
LEMMA Inserted ==
    ASSUME NEW S, NEW r \in Seq(S), NEW k \in Nat, k <= Len(r), NEW b \in S
    PROVE  IsInserted(InsertAt(r, k + 1, b), S, r, k, b)
<1> DEFINE u == SubSeq(r, 1, k)
           v == SubSeq(r, k + 1, Len(r))
           w == u \o <<b>>
           t == w \o v
<1>0. Len(r) \in Nat
    OBVIOUS
<1>1. /\ u \in Seq(S) /\ Len(u) = k
      /\ \A i \in 1 .. k : u[i] = r[i]
    BY <1>0, SubSeqProperties
<1>2. /\ v \in Seq(S) /\ Len(v) = Len(r) - k
      /\ \A i \in 1 .. Len(r) - k : v[i] = r[k + i]
    BY <1>0, SubSeqProperties
<1>3. InsertAt(r, k + 1, b) = t
    <2>1. (k + 1) - 1 = k
        OBVIOUS
    <2> QED
        BY <2>1 DEF InsertAt
<1> HIDE DEF u, v
<1>4. w \in Seq(S) /\ Len(w) = k + 1 /\ (\A i \in 1 .. k : w[i] = u[i]) /\ w[k + 1] = b
    BY <1>1, ConcatProperties
<1> HIDE DEF w
<1>5. /\ t \in Seq(S) /\ Len(t) = Len(w) + Len(v)
      /\ \A i \in 1 .. Len(w) + Len(v) : t[i] = IF i <= Len(w) THEN w[i] ELSE v[i - Len(w)]
    BY <1>2, <1>4, ConcatProperties
<1> HIDE DEF t
<1>6. Len(w) + Len(v) = Len(r) + 1 /\ Len(w) = k + 1
    BY <1>0, <1>2, <1>4
<1>7. ASSUME NEW i \in 1 .. k PROVE t[i] = r[i]
    BY <1>0, <1>1, <1>4, <1>5, <1>6
<1>8. t[k + 1] = b
    BY <1>0, <1>4, <1>5, <1>6
<1>9. ASSUME NEW i \in k + 2 .. Len(r) + 1 PROVE t[i] = r[i - 1]
    <2>1. i - (k + 1) \in 1 .. Len(r) - k /\ k + (i - (k + 1)) = i - 1
        BY <1>0
    <2>2. t[i] = v[i - (k + 1)]
        BY <1>0, <1>5, <1>6
    <2> QED
        BY <1>2, <2>1, <2>2
<1> QED
    BY <1>3, <1>5, <1>6, <1>7, <1>8, <1>9 DEF IsInserted

\* t is s with its k-th member replaced by a, or by a and b.
IsPut(t, S, s, k, a) ==
    /\ t \in Seq(S) /\ Len(t) = Len(s) /\ t[k] = a
    /\ \A i \in DOMAIN s : i # k => t[i] = s[i]
IsCut(t, S, s, k, a, b) ==
    /\ t \in Seq(S) /\ Len(t) = Len(s) + 1
    /\ \A i \in 1 .. k - 1 : t[i] = s[i]
    /\ t[k] = a /\ t[k + 1] = b
    /\ \A i \in k + 2 .. Len(s) + 1 : t[i] = s[i - 1]

\* A segment list in which the k-th segment is cut in two.
CutList(s, k, a, b) == InsertAt([s EXCEPT ![k] = a], k + 1, b)
\* CutList replaces the k-th segment by two.
LEMMA CutInTwo ==
    ASSUME NEW S, NEW s \in Seq(S), NEW k \in DOMAIN s, NEW a \in S, NEW b \in S
    PROVE  IsCut(CutList(s, k, a, b), S, s, k, a, b)
<1> DEFINE r == [s EXCEPT ![k] = a]
           t == InsertAt(r, k + 1, b)
<1>1. /\ r \in Seq(S) /\ Len(r) = Len(s) /\ k \in Nat /\ k >= 1 /\ k <= Len(s) /\ Len(s) \in Nat
      /\ r[k] = a /\ \A i \in 1 .. Len(s) : i # k => r[i] = s[i]
    BY ExceptSeq
<1>2. CutList(s, k, a, b) = t
    BY DEF CutList
<1> HIDE DEF r
<1>3. /\ t \in Seq(S) /\ Len(t) = Len(r) + 1
      /\ \A i \in 1 .. k : t[i] = r[i]
      /\ t[k + 1] = b
      /\ \A i \in k + 2 .. Len(r) + 1 : t[i] = r[i - 1]
    <2>1. r \in Seq(S) /\ k \in Nat /\ k <= Len(r)
        BY <1>1
    <2>2. IsInserted(InsertAt(r, k + 1, b), S, r, k, b)
        BY <2>1, Inserted
    <2> QED
        BY <2>2 DEF IsInserted
<1> HIDE DEF t
<1>4. ASSUME NEW i \in 1 .. k - 1 PROVE t[i] = s[i]
    <2>1. i \in 1 .. k /\ i \in 1 .. Len(s) /\ i # k
        BY <1>1
    <2> QED
        BY <1>1, <1>3, <2>1, Zenon
<1>5. ASSUME NEW i \in k + 2 .. Len(s) + 1 PROVE t[i] = s[i - 1]
    <2>1. i - 1 \in 1 .. Len(s) /\ i - 1 # k
        BY <1>1
    <2> QED
        BY <1>1, <1>3, <2>1
<1> QED
    BY <1>1, <1>2, <1>3, <1>4, <1>5 DEF IsCut


\* The k-th member replaced.
LEMMA PutMember ==
    ASSUME NEW S, NEW s \in Seq(S), NEW k \in DOMAIN s, NEW a \in S
    PROVE  IsPut([s EXCEPT ![k] = a], S, s, k, a)
<1>1. [s EXCEPT ![k] = a] \in Seq(S) /\ Len([s EXCEPT ![k] = a]) = Len(s)
    BY ExceptSeq
<1> QED
    BY <1>1 DEF IsPut

\* The same, of the list as Split writes it.
LEMMA CutMember ==
    ASSUME NEW S, NEW s \in Seq(S), NEW k \in DOMAIN s, NEW a \in S, NEW b \in S
    PROVE  IsCut(InsertAt([s EXCEPT ![k] = a], k + 1, b), S, s, k, a, b)
<1>1. InsertAt([s EXCEPT ![k] = a], k + 1, b) = CutList(s, k, a, b)
    BY DEF CutList
<1>2. IsCut(CutList(s, k, a, b), S, s, k, a, b)
    BY CutInTwo
<1> QED
    BY <1>1, <1>2

\* Replacing the first of the two afterwards.
LEMMA CutThenPut ==
    ASSUME NEW S, NEW s \in Seq(S), NEW k \in DOMAIN s, NEW a, NEW b, NEW c \in S,
           NEW t, IsCut(t, S, s, k, a, b)
    PROVE  IsCut([t EXCEPT ![k] = c], S, s, k, c, b)
<1>1. /\ t \in Seq(S) /\ Len(t) = Len(s) + 1 /\ k \in 1 .. Len(s) /\ Len(s) \in Nat
      /\ DOMAIN t = 1 .. Len(s) + 1
    BY DEF IsCut
<1>2. [t EXCEPT ![k] = c] \in Seq(S) /\ Len([t EXCEPT ![k] = c]) = Len(t)
    BY <1>1, ExceptSeq
<1>3. \A i \in 1 .. Len(s) + 1 : i # k => [t EXCEPT ![k] = c][i] = t[i]
    BY <1>1
<1>4. [t EXCEPT ![k] = c][k] = c
    BY <1>1
<1> HIDE DEF IsCut
<1> DEFINE u == [t EXCEPT ![k] = c]
<1> HIDE DEF u
<1>5. \A i \in 1 .. k - 1 : u[i] = s[i]
    BY <1>1, <1>3 DEF IsCut, u
<1>6. u[k + 1] = b
    BY <1>1, <1>3 DEF IsCut, u
<1>7. \A i \in k + 2 .. Len(s) + 1 : u[i] = s[i - 1]
    BY <1>1, <1>3 DEF IsCut, u
<1> QED
    BY <1>1, <1>2, <1>4, <1>5, <1>6, <1>7 DEF IsCut, u

\* What the members of a list of segments are.
LEMMA SegmentFields ==
    ASSUME NEW s \in Segments
    PROVE  /\ s.seq \in Nat /\ s.len \in Nat /\ s.len > 0 /\ s.xmit \in Nat /\ s.ctl \in BOOLEAN
           /\ EndOf(s) \in Nat /\ EndOf(s) = s.seq + s.len /\ s.seq < EndOf(s)
BY DEF Segments, EndOf

\* The members of a segment list, and its length.
LEMMA ListFields ==
    ASSUME NEW s \in Seq(Segments)
    PROVE  /\ DOMAIN s = 1 .. Len(s) /\ Len(s) \in Nat /\ (s = <<>> <=> Len(s) = 0)
           /\ \A i \in DOMAIN s :
                 /\ s[i] \in Segments
                 /\ s[i].seq \in Nat /\ s[i].len \in Nat /\ s[i].len > 0 /\ s[i].xmit \in Nat
                 /\ s[i].ctl \in BOOLEAN
                 /\ EndOf(s[i]) \in Nat /\ EndOf(s[i]) = s[i].seq + s[i].len /\ s[i].seq < EndOf(s[i])
<1>1. DOMAIN s = 1 .. Len(s) /\ Len(s) \in Nat /\ (s = <<>> <=> Len(s) = 0)
    BY EmptySeq
<1>2. \A i \in DOMAIN s : s[i] \in Segments
    OBVIOUS
<1> QED
    BY <1>1, <1>2, SegmentFields

\* A segment that was sent ends at snd_nxt or before.
LEMMA SentWhole ==
    ASSUME NEW s \in Seq(Segments), NEW una \in Nat, NEW total \in Nat, NEW nxt \in Nat,
           Chain(s, una, total), Marked(s, nxt), Reach(s, una, nxt, nxt),
           NEW k \in DOMAIN s, s[k].seq < nxt
    PROVE  EndOf(s[k]) <= nxt
<1>1. \A i \in DOMAIN s : s[i].seq \in Nat /\ EndOf(s[i]) \in Nat /\ s[i].seq < EndOf(s[i])
    BY ListFields
<1>2. una <= s[k].seq
    BY DEF Chain
<1>3. PICK i \in DOMAIN s : nxt = EndOf(s[i])
    BY <1>1, <1>2 DEF Reach
<1>4. i \in Int /\ k \in Int
    BY ListFields
<1>5. CASE i < k
    BY <1>1, <1>3, <1>5 DEF Chain
<1>6. CASE i = k
    BY <1>1, <1>3, <1>6
<1>7. CASE k < i
    BY <1>1, <1>3, <1>7, SMTT(40) DEF Chain
<1> QED
    BY <1>4, <1>5, <1>6, <1>7

\* Cutting a segment in two, and replacing one by another of the same extent.
Same(a, s) == a.seq = s.seq /\ EndOf(a) = EndOf(s) /\ a.ctl = s.ctl
Halves(a, b, s) ==
    /\ a.seq = s.seq /\ b.seq = EndOf(a) /\ EndOf(b) = EndOf(s)
    /\ a.ctl = s.ctl /\ b.ctl = s.ctl

\* A segment replaced by one of the same extent leaves the tiling as it was.
LEMMA PutTiles ==
    ASSUME NEW s \in Seq(Segments), NEW k \in DOMAIN s, NEW a \in Segments, NEW t,
           IsPut(t, Segments, s, k, a), Same(a, s[k]),
           NEW una \in Nat, NEW total \in Nat
    PROVE  /\ Chain(s, una, total) => Chain(t, una, total)
           /\ Kinds(s) => Kinds(t)
           /\ \A nxt, n : Reach(s, una, nxt, n) => Reach(t, una, nxt, n)
           /\ t \in Seq(Segments) /\ Len(t) = Len(s) /\ t[k] = a /\ DOMAIN t = DOMAIN s
           /\ \A i \in DOMAIN s : i # k => t[i] = s[i]
<1>1. /\ t \in Seq(Segments) /\ Len(t) = Len(s) /\ t[k] = a
      /\ \A i \in DOMAIN s : i # k => t[i] = s[i]
    BY DEF IsPut
<1>2. DOMAIN t = DOMAIN s /\ (s = <<>> <=> t = <<>>) /\ Len(s) \in Nat /\ DOMAIN s = 1 .. Len(s)
    BY <1>1, ListFields
<1>3. \A i \in DOMAIN s : t[i].seq = s[i].seq /\ EndOf(t[i]) = EndOf(s[i]) /\ t[i].ctl = s[i].ctl
    BY <1>1 DEF Same
<1>4. Chain(s, una, total) => Chain(t, una, total)
    <2> SUFFICES ASSUME Chain(s, una, total) PROVE Chain(t, una, total)
        OBVIOUS
    <2>1. 1 \in DOMAIN s /\ Len(s) \in DOMAIN s
        BY <1>2
    <2> QED
        BY <1>1, <1>2, <1>3, <2>1 DEF Chain
<1>5. Kinds(s) => Kinds(t)
    BY <1>2, <1>3 DEF Kinds, Kind
<1>6. \A nxt, n : Reach(s, una, nxt, n) => Reach(t, una, nxt, n)
    BY <1>2, <1>3 DEF Reach
<1> QED
    BY <1>1, <1>2, <1>4, <1>5, <1>6

\* So does a segment cut in two; only the connect message must not be cut.
LEMMA CutTiles ==
    ASSUME NEW s \in Seq(Segments), NEW k \in DOMAIN s, NEW a \in Segments, NEW b \in Segments,
           NEW t, IsCut(t, Segments, s, k, a, b), Halves(a, b, s[k]),
           NEW una \in Nat, NEW total \in Nat
    PROVE  /\ Chain(s, una, total) => Chain(t, una, total)
           /\ Kinds(s) /\ ~s[k].ctl => Kinds(t)
           /\ \A nxt, n : Reach(s, una, nxt, n) => Reach(t, una, nxt, n)
           /\ t \in Seq(Segments) /\ Len(t) = Len(s) + 1 /\ DOMAIN t = 1 .. Len(s) + 1
           /\ t[k] = a /\ t[k + 1] = b
           /\ \A i \in 1 .. Len(s) + 1 : i < k => t[i] = s[i]
           /\ \A i \in 1 .. Len(s) + 1 : i > k + 1 => t[i] = s[i - 1]
<1> DEFINE Origin(i) == IF i <= k THEN i ELSE i - 1
<1>1. /\ t \in Seq(Segments) /\ Len(t) = Len(s) + 1 /\ t[k] = a /\ t[k + 1] = b
      /\ DOMAIN t = 1 .. Len(s) + 1 /\ DOMAIN s = 1 .. Len(s) /\ Len(s) \in Nat /\ k \in 1 .. Len(s)
      /\ s # <<>> /\ t # <<>>
    BY ListFields DEF IsCut
<1>2. \A i \in 1 .. Len(s) + 1 : i < k => t[i] = s[i]
    BY <1>1 DEF IsCut
<1>3. \A i \in 1 .. Len(s) + 1 : i > k + 1 => t[i] = s[i - 1]
    BY <1>1, SMTT(40) DEF IsCut
<1>4. /\ \A i \in 1 .. Len(s) : s[i].seq \in Nat /\ EndOf(s[i]) \in Nat /\ s[i].seq < EndOf(s[i])
      /\ a.seq \in Nat /\ EndOf(a) \in Nat /\ a.seq < EndOf(a)
      /\ b.seq \in Nat /\ EndOf(b) \in Nat /\ b.seq < EndOf(b)
    <2>1. \A x \in Segments : x.seq \in Nat /\ EndOf(x) \in Nat /\ x.seq < EndOf(x)
        BY SegmentFields
    <2>2. \A i \in 1 .. Len(s) : s[i] \in Segments
        BY <1>1
    <2> QED
        BY <2>1, <2>2
<1>5. ASSUME NEW i \in 1 .. Len(s) + 1
      PROVE  /\ Origin(i) \in 1 .. Len(s)
             /\ s[Origin(i)].seq <= t[i].seq /\ EndOf(t[i]) <= EndOf(s[Origin(i)])
             /\ t[i].ctl = s[Origin(i)].ctl
    <2>1. CASE i < k
        BY <1>1, <1>2, <1>4, <2>1, SMTT(40)
    <2>2. CASE i = k
        BY <1>1, <1>4, <2>2 DEF Halves
    <2>3. CASE i = k + 1
        BY <1>1, <1>4, <2>3 DEF Halves
    <2>4. CASE i > k + 1
        <3>1. t[i] = s[i - 1] /\ Origin(i) = i - 1 /\ i - 1 \in 1 .. Len(s)
            BY <1>1, <1>3, <2>4
        <3> QED
            BY <1>4, <3>1, SMTT(40)
    <2> QED
        BY <1>1, <2>1, <2>2, <2>3, <2>4
<1>6. \A i \in 1 .. Len(s) + 1 : t[i].seq \in Nat /\ EndOf(t[i]) \in Nat
    BY <1>1, ListFields
<1>7. ASSUME Chain(s, una, total) PROVE Chain(t, una, total)
    <2>1. ASSUME NEW i \in 1 .. Len(s) + 1 PROVE una <= t[i].seq /\ EndOf(t[i]) <= total
        <3>1. una <= s[Origin(i)].seq /\ EndOf(s[Origin(i)]) <= total
            BY <1>1, <1>5, <1>7 DEF Chain
        <3> HIDE DEF Origin
        <3> QED
            BY <1>4, <1>5, <1>6, <3>1, SMTT(40)
    <2>2. ASSUME NEW i \in 1 .. Len(s) + 1, NEW j \in 1 .. Len(s) + 1, i < j
          PROVE  EndOf(t[i]) <= t[j].seq
        <3>1. CASE Origin(i) < Origin(j)
            <4>1. EndOf(s[Origin(i)]) <= s[Origin(j)].seq
                BY <1>1, <1>5, <1>7, <3>1 DEF Chain
            <4>2. EndOf(t[i]) <= EndOf(s[Origin(i)]) /\ Origin(i) \in 1 .. Len(s)
                BY <1>5
            <4>3. s[Origin(j)].seq <= t[j].seq /\ Origin(j) \in 1 .. Len(s)
                BY <1>5
            <4>4. EndOf(s[Origin(i)]) \in Nat /\ s[Origin(j)].seq \in Nat
                BY <1>4, <4>2, <4>3
            <4> HIDE DEF Origin
            <4> QED
                BY <1>6, <4>1, <4>2, <4>3, <4>4, SMTT(40)
        <3>2. CASE i = k /\ j = k + 1
            BY <1>1, <1>4, <3>2 DEF Halves
        <3> QED
            BY <1>1, <2>2, <3>1, <3>2
    <2>3. ASSUME NEW i \in 1 .. Len(s) + 1, i + 1 \in 1 .. Len(s) + 1
          PROVE  t[i + 1].seq = EndOf(t[i])
        <3>1. CASE i + 1 < k
            <4>1. t[i] = s[i] /\ t[i + 1] = s[i + 1]
                BY <1>1, <1>2, <2>3, <3>1
            <4>2. s[i + 1].seq = EndOf(s[i])
                BY <1>1, <1>7, <3>1, SMTT(40) DEF Chain
            <4> QED
                BY <4>1, <4>2
        <3>2. CASE i + 1 = k
            <4>1. t[i] = s[i] /\ s[i + 1].seq = EndOf(s[i])
                BY <1>1, <1>2, <1>7, <3>2, SMTT(40) DEF Chain
            <4> QED
                BY <1>1, <3>2, <4>1 DEF Halves
        <3>3. CASE i = k
            BY <1>1, <1>4, <3>3 DEF Halves
        <3>4. CASE i = k + 1
            <4>1. t[i + 1] = s[k + 1] /\ s[k + 1].seq = EndOf(s[k])
                BY <1>1, <1>3, <1>7, <2>3, <3>4 DEF Chain
            <4> QED
                BY <1>1, <3>4, <4>1 DEF Halves
        <3>5. CASE i > k + 1
            <4>1. t[i + 1] = s[i] /\ t[i] = s[i - 1]
                BY <1>1, <1>3, <2>3, <3>5
            <4>2. i - 1 \in 1 .. Len(s) /\ (i - 1) + 1 \in 1 .. Len(s) /\ (i - 1) + 1 = i
                BY <1>1, <2>3, <3>5
            <4>3. s[(i - 1) + 1].seq = EndOf(s[i - 1])
                BY <1>1, <1>7, <4>2 DEF Chain
            <4> QED
                BY <4>1, <4>2, <4>3
        <3> QED
            BY <1>1, <3>1, <3>2, <3>3, <3>4, <3>5
    <2>4. t[1].seq = una
        <3>1. s[1].seq = una
            BY <1>1, <1>7 DEF Chain
        <3>2. CASE k = 1
            BY <1>1, <3>1, <3>2 DEF Halves
        <3>3. CASE k > 1
            BY <1>1, <1>2, <3>1, <3>3
        <3> QED
            BY <1>1, <3>2, <3>3
    <2>5. EndOf(t[Len(t)]) = total
        <3>1. EndOf(s[Len(s)]) = total
            BY <1>1, <1>7 DEF Chain
        <3>2. CASE k = Len(s)
            BY <1>1, <3>1, <3>2 DEF Halves
        <3>3. CASE k < Len(s)
            BY <1>1, <1>3, <3>1, <3>3
        <3> QED
            BY <1>1, <3>2, <3>3
    <2> QED
        BY <1>1, <2>1, <2>2, <2>3, <2>4, <2>5 DEF Chain
<1>8. ASSUME Kinds(s), ~s[k].ctl PROVE Kinds(t)
    <2> SUFFICES ASSUME NEW i \in 1 .. Len(s) + 1 PROVE Kind(t[i])
        BY <1>1 DEF Kinds
    <2>1. CASE i < k
        BY <1>1, <1>2, <1>8, <2>1 DEF Kinds
    <2>2. CASE i = k \/ i = k + 1
        <3>1. s[k].seq >= CtlLen /\ s[k].seq \in Nat /\ CtlLen \in Nat
            BY <1>1, <1>4, <1>8, Sizes DEF Kinds, Kind
        <3>2. ~t[i].ctl /\ t[i].seq >= s[k].seq
            BY <1>1, <1>4, <1>8, <2>2 DEF Halves
        <3>3. t[i].seq >= CtlLen
            BY <1>6, <3>1, <3>2
        <3> QED
            BY <3>2, <3>3 DEF Kind
    <2>3. CASE i > k + 1
        <3>1. t[i] = s[i - 1] /\ i - 1 \in DOMAIN s
            BY <1>1, <1>3, <2>3
        <3> QED
            BY <1>8, <3>1 DEF Kinds
    <2> QED
        BY <1>1, <2>1, <2>2, <2>3
<1>9. ASSUME NEW i \in DOMAIN s PROVE \E j \in DOMAIN t : EndOf(t[j]) = EndOf(s[i])
    <2>1. CASE i < k
        BY <1>1, <1>2, <2>1
    <2>2. CASE i = k
        <3>1. EndOf(t[k + 1]) = EndOf(s[i]) /\ k + 1 \in DOMAIN t
            BY <1>1, <2>2 DEF Halves
        <3> QED
            BY <3>1
    <2>3. CASE i > k
        <3>1. t[i + 1] = s[i] /\ i + 1 \in DOMAIN t
            BY <1>1, <1>3, <2>3
        <3> QED
            BY <3>1
    <2> QED
        BY <1>1, <2>1, <2>2, <2>3
<1>10. \A nxt, n : Reach(s, una, nxt, n) => Reach(t, una, nxt, n)
    BY <1>9 DEF Reach
<1> QED
    BY <1>1, <1>2, <1>3, <1>7, <1>8, <1>10

-----------------------------------------------------------------------------
(***************************************************************************)
(* Sending a segment.                                                       *)
(***************************************************************************)
\* The list of segments after the first m units of the k-th were sent, and
\* after the k-th was cut at m.
CutAt(slist, k, m, xmit) ==
    InsertAt([slist EXCEPT ![k].len = m], k + 1,
             [slist[k] EXCEPT !.seq = @ + m, !.len = @ - m, !.xmit = xmit])
SentList(slist, k, m) ==
    [(IF slist[k].len <= m THEN slist ELSE CutAt(slist, k, m, slist[k].xmit)) EXCEPT ![k].xmit = @ + 1]
SentNxt(slist, k, m, nxt) == IF slist[k].xmit = 0 THEN nxt + m ELSE nxt

\* The two halves of a segment.
FirstHalf(s, m) == [s EXCEPT !.len = m]
SecondHalf(s, m, xmit) == [s EXCEPT !.seq = @ + m, !.len = @ - m, !.xmit = xmit]
\* The parts Split makes of a segment meet where the first one ends.
LEMMA TwoHalves ==
    ASSUME NEW s \in Segments, NEW m \in Nat, m > 0, m < s.len, NEW xmit \in Nat
    PROVE  /\ FirstHalf(s, m) \in Segments /\ SecondHalf(s, m, xmit) \in Segments
           /\ Halves(FirstHalf(s, m), SecondHalf(s, m, xmit), s)
           /\ FirstHalf(s, m).xmit = s.xmit /\ SecondHalf(s, m, xmit).xmit = xmit
           /\ EndOf(FirstHalf(s, m)) = s.seq + m
<1>1. s.seq \in Nat /\ s.len \in Nat /\ s.xmit \in Nat /\ s.ctl \in BOOLEAN
    BY DEF Segments
<1> DEFINE a == FirstHalf(s, m)
           b == SecondHalf(s, m, xmit)
<1>2. /\ a \in Segments /\ a.seq = s.seq /\ a.len = m /\ a.xmit = s.xmit /\ a.ctl = s.ctl
    BY DEF Segments, FirstHalf
<1>3. s.seq + m \in Nat /\ s.len - m \in Nat \ {0}
    BY <1>1
<1>4. /\ b \in Segments /\ b.seq = s.seq + m /\ b.len = s.len - m /\ b.xmit = xmit /\ b.ctl = s.ctl
    BY <1>3 DEF Segments, SecondHalf
<1> HIDE DEF a, b
<1>5. EndOf(a) = s.seq + m /\ EndOf(b) = (s.seq + m) + (s.len - m) /\ EndOf(s) = s.seq + s.len
    BY <1>2, <1>4 DEF EndOf
<1>6. (s.seq + m) + (s.len - m) = s.seq + s.len
    BY <1>1
<1>7. Halves(a, b, s)
    BY <1>2, <1>4, <1>5, <1>6 DEF Halves
<1> QED
    BY <1>2, <1>4, <1>5, <1>7 DEF a, b

\* CutAt cuts, and the halves are what they should be.
LEMMA CutAtCuts ==
    ASSUME NEW s \in Seq(Segments), NEW k \in DOMAIN s, NEW m \in Nat, m > 0, m < s[k].len,
           NEW xmit \in Nat
    PROVE  \E a, b \in Segments :
              /\ IsCut(CutAt(s, k, m, xmit), Segments, s, k, a, b) /\ Halves(a, b, s[k])
              /\ a.xmit = s[k].xmit /\ b.xmit = xmit /\ EndOf(a) = s[k].seq + m
<1> DEFINE a == FirstHalf(s[k], m)
           b == SecondHalf(s[k], m, xmit)
<1>1. s[k] \in Segments
    OBVIOUS
<1>2. /\ a \in Segments /\ b \in Segments /\ Halves(a, b, s[k])
      /\ a.xmit = s[k].xmit /\ b.xmit = xmit /\ EndOf(a) = s[k].seq + m
    BY <1>1, TwoHalves
<1>4. CutAt(s, k, m, xmit) = InsertAt([s EXCEPT ![k] = a], k + 1, b)
    BY DEF CutAt, FirstHalf, SecondHalf
<1> HIDE DEF a, b
<1>5. IsCut(CutAt(s, k, m, xmit), Segments, s, k, a, b)
    BY <1>2, <1>4, CutMember
<1> QED
    BY <1>2, <1>5

\* Cutting an unsent segment changes nothing but the tiling.
LEMMA CutAtTiles ==
    ASSUME NEW s \in Seq(Segments), NEW k \in DOMAIN s, NEW m \in Nat, m > 0, m < s[k].len,
           NEW una \in Nat, NEW total \in Nat, NEW nxt \in Nat,
           Chain(s, una, total), Kinds(s), Marked(s, nxt), Reach(s, una, nxt, nxt),
           s[k].xmit = 0, ~s[k].ctl
    PROVE  LET t == CutAt(s, k, m, 0) IN
           /\ t \in Seq(Segments) /\ Chain(t, una, total) /\ Kinds(t) /\ Marked(t, nxt)
           /\ \A n : Reach(s, una, nxt, n) => Reach(t, una, nxt, n)
           /\ k \in DOMAIN t /\ t[k].seq = s[k].seq /\ t[k].len = m /\ t[k].xmit = 0
           /\ t[k].ctl = s[k].ctl
<1> DEFINE t == CutAt(s, k, m, 0)
<1>1. PICK a, b \in Segments :
              /\ IsCut(t, Segments, s, k, a, b) /\ Halves(a, b, s[k])
              /\ a.xmit = s[k].xmit /\ b.xmit = 0 /\ EndOf(a) = s[k].seq + m
    BY CutAtCuts
<1> HIDE DEF t
<1>2. /\ Chain(t, una, total) /\ Kinds(t)
      /\ \A n : Reach(s, una, nxt, n) => Reach(t, una, nxt, n)
      /\ t \in Seq(Segments) /\ Len(t) = Len(s) + 1 /\ DOMAIN t = 1 .. Len(s) + 1
      /\ t[k] = a /\ t[k + 1] = b
      /\ \A i \in 1 .. Len(s) + 1 : i < k => t[i] = s[i]
      /\ \A i \in 1 .. Len(s) + 1 : i > k + 1 => t[i] = s[i - 1]
    BY <1>1, CutTiles, SMTT(40)
<1>3. DOMAIN s = 1 .. Len(s) /\ Len(s) \in Nat /\ k \in 1 .. Len(s)
    BY ListFields
<1>4. /\ a.seq = s[k].seq /\ a.len = m /\ b.seq = s[k].seq + m /\ s[k].seq >= nxt /\ s[k].seq \in Nat
      /\ a.ctl = s[k].ctl
    <2>1. s[k].seq \in Nat /\ s[k].xmit \in Nat /\ a.seq \in Nat /\ a.len \in Nat /\ EndOf(a) = a.seq + a.len
        BY ListFields, SegmentFields
    <2> QED
        BY <1>1, <2>1, SMTT(40) DEF Halves, Marked
<1>5. ASSUME NEW i \in DOMAIN t PROVE t[i].xmit > 0 <=> t[i].seq < nxt
    <2>1. CASE i < k
        <3>1. t[i] = s[i] /\ i \in DOMAIN s
            BY <1>2, <1>3, <2>1
        <3> QED
            BY <3>1 DEF Marked
    <2>2. CASE i = k
        BY <1>1, <1>2, <1>4, <2>2, SMTT(40)
    <2>3. CASE i = k + 1
        BY <1>1, <1>2, <1>4, <2>3, SMTT(40)
    <2>4. CASE i > k + 1
        <3>1. t[i] = s[i - 1] /\ i - 1 \in DOMAIN s
            BY <1>2, <1>3, <2>4
        <3> QED
            BY <3>1 DEF Marked
    <2> QED
        BY <1>2, <1>3, <2>1, <2>2, <2>3, <2>4
<1>6. Marked(t, nxt)
    BY <1>5 DEF Marked
<1> QED
    BY <1>1, <1>2, <1>3, <1>4, <1>6, SMTT(40) DEF t

\* A segment sent once more.
More(s) == [s EXCEPT !.xmit = @ + 1]
\* Counting a transmission changes nothing else of a segment.
LEMMA SentOnceMore ==
    ASSUME NEW s \in Segments
    PROVE  /\ More(s) \in Segments /\ More(s).seq = s.seq /\ EndOf(More(s)) = EndOf(s)
           /\ More(s).ctl = s.ctl /\ More(s).xmit = s.xmit + 1
<1>1. s.xmit + 1 \in Nat
    BY DEF Segments
<1>2. /\ More(s) \in Segments /\ More(s).seq = s.seq /\ More(s).len = s.len
      /\ More(s).ctl = s.ctl /\ More(s).xmit = s.xmit + 1
    BY <1>1 DEF Segments, More
<1>3. EndOf(More(s)) = EndOf(s)
    BY <1>2 DEF EndOf
<1> QED
    BY <1>2, <1>3

\* Sending (the start of) a segment: the next to be sent, or one sent before.
LEMMA SentListTiles ==
    ASSUME NEW s \in Seq(Segments), NEW k \in DOMAIN s, NEW m \in Nat, m > 0, m <= s[k].len,
           NEW una \in Nat, NEW total \in Nat, NEW nxt \in Nat, una <= nxt,
           Chain(s, una, total), Kinds(s), Marked(s, nxt), Reach(s, una, nxt, nxt),
           s[k].xmit = 0 => s[k].seq = nxt, s[k].ctl => m = s[k].len
    PROVE  LET t == SentList(s, k, m)
               next == SentNxt(s, k, m, nxt)
           IN
           /\ t \in Seq(Segments) /\ Chain(t, una, total) /\ Kinds(t) /\ Marked(t, next)
           /\ \A n : Reach(s, una, nxt, n) => Reach(t, una, next, n)
           /\ Reach(t, una, next, next) /\ Reach(t, una, next, s[k].seq + m)
           /\ next \in Nat /\ nxt <= next /\ una < next
<1> DEFINE next == SentNxt(s, k, m, nxt)
           t == SentList(s, k, m)
           q == s[k]
<1>1. /\ q \in Segments /\ q.seq \in Nat /\ q.len \in Nat /\ q.xmit \in Nat
      /\ EndOf(q) = q.seq + q.len /\ una <= q.seq
    BY ListFields DEF Chain
<1>2. q.xmit # 0 => q.seq < nxt /\ EndOf(q) <= nxt
    BY <1>1, SentWhole, SMTT(40) DEF Marked
<1>3. /\ next \in Nat /\ nxt <= next /\ una < next /\ q.seq + m <= next
      /\ q.xmit = 0 => next = q.seq + m
      /\ q.xmit # 0 => next = nxt
    <2>1. CASE q.xmit = 0
        BY <1>1, <2>1 DEF SentNxt
    <2>2. CASE q.xmit # 0
        BY <1>1, <1>2, <2>2, SMTT(40) DEF SentNxt
    <2> QED
        BY <2>1, <2>2
<1> DEFINE Fine(i) == t[i].xmit > 0 <=> t[i].seq < next
<1>4. ASSUME NEW x \in Segments
      PROVE  /\ More(x) \in Segments /\ More(x).seq = x.seq /\ EndOf(More(x)) = EndOf(x)
             /\ More(x).ctl = x.ctl /\ More(x).xmit = x.xmit + 1
    BY SentOnceMore
<1>5. DOMAIN s = 1 .. Len(s) /\ Len(s) \in Nat /\ k \in 1 .. Len(s)
    BY ListFields
<1>6. ASSUME NEW i \in DOMAIN s, i < k PROVE s[i].xmit > 0 <=> s[i].seq < next
    <2>1. s[i].seq \in Nat /\ s[i].xmit \in Nat /\ EndOf(s[i]) \in Nat /\ s[i].seq < EndOf(s[i])
        BY ListFields
    <2>2. EndOf(s[i]) <= q.seq
        BY <1>6 DEF Chain
    <2>3. s[i].xmit > 0 <=> s[i].seq < nxt
        BY DEF Marked
    <2> QED
        BY <1>1, <1>3, <2>1, <2>2, <2>3, SMTT(40)
<1>7. ASSUME NEW i \in DOMAIN s, k < i PROVE s[i].xmit > 0 <=> s[i].seq < next
    <2>1. s[i].seq \in Nat /\ s[i].xmit \in Nat
        BY ListFields
    <2>2. EndOf(q) <= s[i].seq
        BY <1>7 DEF Chain
    <2>3. s[i].xmit > 0 <=> s[i].seq < nxt
        BY DEF Marked
    <2> QED
        BY <1>1, <1>3, <2>1, <2>2, <2>3, SMTT(40)
<1>8. CASE q.len <= m
    <2>1. t = [s EXCEPT ![k] = More(q)]
        BY <1>8 DEF SentList, More
    <2>2. More(q) \in Segments /\ Same(More(q), q) /\ More(q).xmit = q.xmit + 1 /\ EndOf(q) = q.seq + m
        BY <1>1, <1>4, <1>8 DEF Same
    <2>3. IsPut(t, Segments, s, k, More(q))
        <3>1. IsPut([s EXCEPT ![k] = More(q)], Segments, s, k, More(q))
            BY <2>2, PutMember
        <3> QED
            BY <2>1, <3>1
    <2> HIDE DEF t
    <2>4. /\ Chain(t, una, total) /\ Kinds(t)
          /\ \A n1, n : Reach(s, una, n1, n) => Reach(t, una, n1, n)
          /\ t \in Seq(Segments) /\ Len(t) = Len(s) /\ t[k] = More(q) /\ DOMAIN t = DOMAIN s
          /\ \A i \in DOMAIN s : i # k => t[i] = s[i]
        BY <2>2, <2>3, PutTiles
    <2>5. ASSUME NEW i \in DOMAIN t PROVE Fine(i)
        <3>1. CASE i = k
            <4>1. t[i].xmit = q.xmit + 1 /\ t[i].seq = q.seq
                BY <2>2, <2>4, <3>1 DEF Same
            <4> QED
                BY <1>1, <1>3, <4>1, SMTT(40)
        <3>2. CASE i # k
            BY <1>5, <1>6, <1>7, <2>4, <3>2
        <3> QED
            BY <3>1, <3>2
    <2>6. Marked(t, next)
        BY <2>5 DEF Marked
    <2>7. EndOf(t[k]) = q.seq + m /\ k \in DOMAIN t
        BY <2>2, <2>4 DEF Same
    <2>8. \A n : Reach(s, una, nxt, n) => Reach(t, una, next, n)
        <3> SUFFICES ASSUME NEW n, Reach(t, una, nxt, n) PROVE Reach(t, una, next, n)
            BY <2>4
        <3>1. ASSUME NEW i \in DOMAIN t, n = EndOf(t[i]), n <= nxt PROVE n <= next
            <4>1. EndOf(t[i]) \in Nat
                BY <2>4, ListFields
            <4> QED
                BY <1>3, <3>1, <4>1
        <3> QED
            BY <3>1 DEF Reach
    <2>9. Reach(t, una, next, q.seq + m)
        BY <1>1, <1>3, <2>7 DEF Reach
    <2>10. Reach(t, una, next, next)
        BY <1>3, <2>8, <2>9
    <2> QED
        BY <1>3, <2>4, <2>6, <2>8, <2>9, <2>10 DEF t
<1>9. CASE q.len > m
    <2>1. t = [CutAt(s, k, m, q.xmit) EXCEPT ![k] = More(@)]
        BY <1>1, <1>9, SMTT(40) DEF SentList, More
    <2>2. PICK a, b \in Segments :
              /\ IsCut(CutAt(s, k, m, q.xmit), Segments, s, k, a, b) /\ Halves(a, b, q)
              /\ a.xmit = q.xmit /\ b.xmit = q.xmit /\ EndOf(a) = q.seq + m
        <3>1. m < s[k].len /\ q.xmit \in Nat
            BY <1>1, <1>9
        <3> QED
            BY <3>1, CutAtCuts, SMTT(40)
    <2>3. CutAt(s, k, m, q.xmit)[k] = a
        BY <2>2 DEF IsCut
    <2>4. t = [CutAt(s, k, m, q.xmit) EXCEPT ![k] = More(a)]
        BY <2>1, <2>3
    <2>5. More(a) \in Segments /\ More(a).xmit = q.xmit + 1 /\ Halves(More(a), b, q) /\ EndOf(More(a)) = q.seq + m
        BY <1>4, <2>2 DEF Halves
    <2>6. IsCut(t, Segments, s, k, More(a), b)
        BY <2>2, <2>4, <2>5, CutThenPut
    <2> HIDE DEF t
    <2>7. /\ Chain(t, una, total) /\ Kinds(t)
          /\ \A n1, n : Reach(s, una, n1, n) => Reach(t, una, n1, n)
          /\ t \in Seq(Segments) /\ Len(t) = Len(s) + 1 /\ DOMAIN t = 1 .. Len(s) + 1
          /\ t[k] = More(a) /\ t[k + 1] = b
          /\ \A i \in 1 .. Len(s) + 1 : i < k => t[i] = s[i]
          /\ \A i \in 1 .. Len(s) + 1 : i > k + 1 => t[i] = s[i - 1]
        <3>1. ~s[k].ctl
            BY <1>1, <1>9
        <3> QED
            BY <2>5, <2>6, <3>1, CutTiles, SMTT(40)
    <2>8. b.seq = q.seq + m /\ More(a).seq = q.seq
        BY <2>5 DEF Halves
    <2>9. ASSUME NEW i \in DOMAIN t PROVE Fine(i)
        <3>1. CASE i = k
            <4>1. t[i].xmit = q.xmit + 1 /\ t[i].seq = q.seq
                BY <2>5, <2>7, <2>8, <3>1
            <4> QED
                BY <1>1, <1>3, <4>1, SMTT(40)
        <3>2. CASE i = k + 1
            <4>1. t[i].xmit = q.xmit /\ t[i].seq = q.seq + m
                BY <2>2, <2>7, <2>8, <3>2
            <4> QED
                BY <1>1, <1>2, <1>3, <1>9, <4>1, SMTT(40)
        <3>3. CASE i < k
            BY <1>5, <1>6, <2>7, <3>3
        <3>4. CASE i > k + 1
            <4>1. i - 1 \in DOMAIN s /\ k < i - 1 /\ t[i] = s[i - 1]
                BY <1>5, <2>7, <3>4
            <4> QED
                BY <1>7, <4>1
        <3> QED
            BY <1>5, <2>7, <3>1, <3>2, <3>3, <3>4
    <2>10. Marked(t, next)
        BY <2>9 DEF Marked
    <2>11. EndOf(t[k]) = q.seq + m /\ k \in DOMAIN t
        BY <1>5, <2>5, <2>7
    <2>12. \A n : Reach(s, una, nxt, n) => Reach(t, una, next, n)
        <3> SUFFICES ASSUME NEW n, Reach(t, una, nxt, n) PROVE Reach(t, una, next, n)
            BY <2>7
        <3>1. ASSUME NEW i \in DOMAIN t, n = EndOf(t[i]), n <= nxt PROVE n <= next
            <4>1. EndOf(t[i]) \in Nat
                BY <2>7, ListFields
            <4> QED
                BY <1>3, <3>1, <4>1
        <3> QED
            BY <3>1 DEF Reach
    <2>13. Reach(t, una, next, q.seq + m)
        BY <1>1, <1>3, <2>11 DEF Reach
    <2>14. Reach(t, una, next, next)
        BY <1>3, <2>12, <2>13
    <2> QED
        BY <1>3, <2>7, <2>10, <2>12, <2>13, <2>14 DEF t
<1> QED
    BY <1>1, <1>8, <1>9

-----------------------------------------------------------------------------
(***************************************************************************)
(* What the operations do to an endpoint. In the lemmas that follow, K is   *)
(* the set of the numbers the peer has reached and W a bound on what may be *)
(* in flight to it.                                                         *)
(***************************************************************************)
\* A packet handed to the transport by e.
PacketOK(p, e, K) ==
    /\ DataOK(p, Total(e))
    /\ p.data # <<>> => Reached(e, p.seq + Size(p.data))
    /\ p.ack + p.wnd <= Edge(e) /\ RcvCap <= p.ack + p.wnd /\ p.ack \in K
OutOK(e, K) == \A p \in e.out : PacketOK(p, e, K)
Good(e, K, W) ==
    /\ e \in Endpoint /\ SendOK(e) /\ Roomy(e) /\ RecvOK(e) /\ OutOK(e, K)
    /\ e.rcv_nxt \in K /\ \A q \in e.rlist : EndOf(q) \in K
    /\ e.snd_nxt <= W /\ e.snd_una + e.snd_wnd <= W

\* What sending leaves alone.
SendFrame(e, f) ==
    /\ f.state = e.state /\ f.shutdown = e.shutdown /\ f.snd_una = e.snd_una
    /\ f.snd_wnd = e.snd_wnd /\ f.sbuf = e.sbuf /\ f.rcv_nxt = e.rcv_nxt /\ f.rcv_wnd = e.rcv_wnd
    /\ f.rbuf = e.rbuf /\ f.rfree = e.rfree /\ f.rlist = e.rlist /\ f.mtu_advise = e.mtu_advise
    /\ f.dup_acks = e.dup_acks /\ f.recover = e.recover /\ f.readEnable = e.readEnable
    /\ f.writeEnable = e.writeEnable /\ f.probes = e.probes

Keeps(e, f) == \A n : Reached(e, n) => Reached(f, n)

\* Sending, from e to f.
Sends(e, f, K, W) ==
    /\ f \in Endpoint /\ SendFrame(e, f) /\ SendOK(f) /\ OutOK(f, K)
    /\ e.snd_nxt <= f.snd_nxt /\ f.snd_nxt <= W /\ Keeps(e, f)

\* The members of an endpoint that the proofs reason about.
LEMMA EndpointFields ==
    ASSUME NEW e \in Endpoint
    PROVE  /\ e.snd_una \in Nat /\ e.snd_nxt \in Nat /\ e.snd_wnd \in Nat /\ e.sbuf \in Seq(Int)
           /\ e.slist \in Seq(Segments) /\ e.rcv_nxt \in Nat /\ e.rcv_wnd \in Nat
           /\ e.rbuf \in Seq(Int) /\ e.rfree \in [0 .. RcvCap - 1 -> Int] /\ e.rlist \subseteq Saved
           /\ e.mss \in PacketSizes /\ e.msslevel \in DOMAIN MssTable
           /\ e.mtu_advise \in PacketSizes /\ e.dup_acks \in Nat /\ e.recover \in Nat
           /\ e.rto \in BOOLEAN /\ e.t_ack \in BOOLEAN /\ e.out \subseteq Packets
           /\ Size(e.sbuf) \in Nat /\ Size(e.rbuf) \in Nat
           /\ Total(e) \in Nat /\ Total(e) = e.snd_una + Size(e.sbuf)
           /\ Edge(e) \in Nat /\ Edge(e) = e.rcv_nxt + e.rcv_wnd
BY SMTT(40) DEF Endpoint, Total, Edge, Size

\* A packet size has room for the connect message.
LEMMA PacketSizeFits ==
    ASSUME NEW m \in PacketSizes
    PROVE  m \in Nat /\ m \in Nat \ {0} /\ m > 0 /\ CtlLen <= m
BY DEF PacketSizes

\* The numbers among them.
LEMMA EndpointNumbers ==
    ASSUME NEW e \in Endpoint
    PROVE  /\ e.snd_una \in Nat /\ e.snd_nxt \in Nat /\ e.snd_wnd \in Nat
           /\ e.rcv_nxt \in Nat /\ e.rcv_wnd \in Nat /\ e.recover \in Nat
           /\ Size(e.sbuf) \in Nat /\ Size(e.rbuf) \in Nat
           /\ Total(e) \in Nat /\ Total(e) = e.snd_una + Size(e.sbuf)
           /\ Edge(e) \in Nat /\ Edge(e) = e.rcv_nxt + e.rcv_wnd
BY EndpointFields

SegmentPacket(e, k, m) ==
    [seq |-> e.slist[k].seq, ack |-> e.rcv_nxt, wnd |-> e.rcv_wnd, ctl |-> e.slist[k].ctl,
     data |-> SubSeq(e.sbuf, e.slist[k].seq - e.snd_una + 1, e.slist[k].seq - e.snd_una + m)]

\* SendSegment, in one piece.
LEMMA SegmentSent ==
    ASSUME NEW e \in Endpoint, NEW k \in DOMAIN e.slist, NEW m \in Nat
    PROVE  SendSegment(e, k, m) =
               [e EXCEPT !.out = e.out \cup {SegmentPacket(e, k, m)}, !.t_ack = FALSE,
                         !.slist = SentList(e.slist, k, m),
                         !.snd_nxt = SentNxt(e.slist, k, m, e.snd_nxt), !.rto = TRUE]
<1> DEFINE s == e.slist[k]
           h == [e EXCEPT !.out = e.out \cup {SegmentPacket(e, k, m)}, !.t_ack = FALSE]
           g == Split(h, k, m, s.xmit)
<1>1. Packet(e, s.seq, s.ctl, SubSeq(e.sbuf, (s.seq - e.snd_una) + 1, (s.seq - e.snd_una) + m)) = h
    BY DEF Packet, SegmentPacket
<1>2. SendSegment(e, k, m) = [g EXCEPT !.slist[k].xmit = @ + 1,
                                       !.snd_nxt = IF s.xmit = 0 THEN @ + m ELSE @,
                                       !.rto = TRUE]
    BY <1>1 DEF SendSegment
<1>3. h.slist = e.slist /\ h.snd_nxt = e.snd_nxt
    BY DEF Endpoint
<1>4. g = [h EXCEPT !.slist = IF s.len <= m THEN e.slist ELSE CutAt(e.slist, k, m, s.xmit)]
    <2>1. CASE s.len <= m
        <3>1. g = h
            BY <1>3, <2>1 DEF Split
        <3> QED
            BY <1>3, <2>1, <3>1 DEF Endpoint
    <2>2. CASE ~(s.len <= m)
        BY <1>3, <2>2 DEF Split, CutAt
    <2> QED
        BY <2>1, <2>2
<1>5. g.slist = (IF s.len <= m THEN e.slist ELSE CutAt(e.slist, k, m, s.xmit)) /\ g.snd_nxt = e.snd_nxt
    BY <1>3, <1>4, ZenonT(40) DEF Endpoint
<1> HIDE DEF g
<1>6. SendSegment(e, k, m) = [g EXCEPT !.slist = SentList(e.slist, k, m),
                                       !.snd_nxt = SentNxt(e.slist, k, m, e.snd_nxt),
                                       !.rto = TRUE]
    BY <1>2, <1>5 DEF SentList, SentNxt
<1> QED
    BY <1>4, <1>6 DEF Endpoint

\* A part of a sequence.
LEMMA Part ==
    ASSUME NEW S, NEW s \in Seq(S), NEW a \in Nat, NEW m \in Nat, a + m <= Size(s)
    PROVE  /\ SubSeq(s, a + 1, a + m) \in Seq(S) /\ Size(SubSeq(s, a + 1, a + m)) = m
           /\ \A i \in 1 .. m : SubSeq(s, a + 1, a + m)[i] = s[a + i]
<1>1. Len(s) \in Nat /\ a + m <= Len(s)
    BY DEF Size
<1>2. \A i \in (a + 1) .. (a + m) : i \in 1 .. Len(s)
    BY <1>1
<1> DEFINE t == SubSeq(s, a + 1, a + m)
<1>3. t = [i \in 1 .. m |-> s[a + i]]
    <2>1. t = [i \in 1 .. (1 + (a + m) - (a + 1)) |-> s[i + (a + 1) - 1]]
        OBVIOUS
    <2>2. 1 + (a + m) - (a + 1) = m /\ \A i \in 1 .. m : i + (a + 1) - 1 = a + i
        OBVIOUS
    <2> QED
        BY <2>1, <2>2
<1> HIDE DEF t
<1>4. \A i \in 1 .. m : a + i \in 1 .. Len(s) /\ s[a + i] \in S
    BY <1>1
<1> QED
    BY <1>3, <1>4 DEF t, Size

\* The packet of a segment carries the segment's part of the stream.
LEMMA SegmentData ==
    ASSUME NEW e \in Endpoint, NEW k \in DOMAIN e.slist, NEW m \in Nat, m > 0, m <= e.slist[k].len,
           e.slist[k].ctl => m = e.slist[k].len,
           Chain(e.slist, e.snd_una, Total(e)), Kinds(e.slist), Content(e)
    PROVE  LET p == SegmentPacket(e, k, m) IN
           /\ p \in Packets /\ DataOK(p, Total(e)) /\ Size(p.data) = m /\ p.seq = e.slist[k].seq
           /\ p.ack = e.rcv_nxt /\ p.wnd = e.rcv_wnd /\ p.ctl = e.slist[k].ctl
<1> DEFINE p == SegmentPacket(e, k, m)
           q == e.slist[k]
           at == q.seq - e.snd_una
<1>0. e.slist \in Seq(Segments) /\ e.sbuf \in Seq(Int)
    BY EndpointFields
<1>1. /\ Size(e.sbuf) \in Nat /\ e.snd_una \in Nat /\ e.rcv_nxt \in Nat /\ e.rcv_wnd \in Nat
      /\ Total(e) \in Nat /\ Total(e) = e.snd_una + Size(e.sbuf)
    BY EndpointNumbers
<1>2. /\ q.seq \in Nat /\ q.len \in Nat /\ q.ctl \in BOOLEAN
      /\ EndOf(q) \in Nat /\ EndOf(q) = q.seq + q.len /\ m <= q.len
    BY <1>0, ListFields
<1>3. e.snd_una <= q.seq /\ EndOf(q) <= Total(e)
    BY DEF Chain
<1>c. /\ IF q.ctl THEN q.seq = 0 /\ EndOf(q) = CtlLen ELSE q.seq >= CtlLen
      /\ q.ctl => m = q.len
    BY DEF Kinds, Kind
<1>5. /\ p.seq = q.seq /\ p.ack = e.rcv_nxt /\ p.wnd = e.rcv_wnd /\ p.ctl = q.ctl
      /\ p.data = SubSeq(e.sbuf, at + 1, at + m)
    BY DEF SegmentPacket
<1> HIDE DEF q
<1>4. at \in Nat /\ at + m <= Size(e.sbuf)
    BY <1>1, <1>2, <1>3
<1> HIDE DEF at
<1>6. /\ p.data \in Seq(Int) /\ Size(p.data) = m
      /\ \A i \in 1 .. m : p.data[i] = e.sbuf[at + i]
    <2>1. /\ SubSeq(e.sbuf, at + 1, at + m) \in Seq(Int) /\ Size(SubSeq(e.sbuf, at + 1, at + m)) = m
          /\ \A i \in 1 .. m : SubSeq(e.sbuf, at + 1, at + m)[i] = e.sbuf[at + i]
        BY <1>0, <1>4, Part, ZenonT(40)
    <2> QED
        BY <1>5, <2>1
<1>7. p \in Packets
    BY <1>1, <1>2, <1>5, <1>6, SMTT(40) DEF Packets, SegmentPacket, q
<1> HIDE DEF p
<1>8. DOMAIN p.data = 1 .. m /\ p.data # <<>> /\ Size(p.data) = m /\ DOMAIN e.sbuf = 1 .. Size(e.sbuf)
    BY <1>0, <1>6, EmptySeq DEF Size
<1>9. ASSUME NEW i \in DOMAIN p.data PROVE p.data[i] = Unit(p.seq + i - 1)
    <2>1. p.data[i] = e.sbuf[at + i] /\ i \in 1 .. m
        BY <1>6, <1>8
    <2>2. at + i \in DOMAIN e.sbuf
        BY <1>1, <1>4, <1>8, <2>1, SMTT(40)
    <2>3. e.sbuf[at + i] = Unit(e.snd_una + (at + i) - 1)
        BY <2>2 DEF Content
    <2>4. e.snd_una + (at + i) - 1 = p.seq + i - 1
        BY <1>1, <1>2, <1>5, <2>1, SMTT(40) DEF at
    <2> QED
        BY <2>1, <2>3, <2>4
<1>10. p.seq >= 0 /\ p.seq + Size(p.data) <= Total(e)
    BY <1>1, <1>2, <1>3, <1>5, <1>8
<1>11. p.ctl => p.seq = 0 /\ Size(p.data) = CtlLen
    BY <1>2, <1>5, <1>8, <1>c, Sizes
<1>12. ~p.ctl => p.seq >= CtlLen
    BY <1>5, <1>c
<1>13. DataOK(p, Total(e))
    BY <1>8, <1>9, <1>10, <1>11, <1>12 DEF DataOK
<1> QED
    BY <1>5, <1>6, <1>7, <1>13 DEF p, q

\* An end that reached n has sent up to n.
LEMMA ReachedBound ==
    ASSUME NEW e \in Endpoint, Tile(e), NEW n, Reached(e, n), n \in Int
    PROVE  n <= e.snd_nxt
BY EndpointFields DEF Reached, Reach, Tile

\* Sending a segment, or the start of one.
LEMMA SendSegmentSends ==
    ASSUME NEW K, NEW W \in Int, NEW e, Good(e, K, W), NEW k \in DOMAIN e.slist,
           NEW m \in Nat, m > 0, m <= e.slist[k].len,
           e.slist[k].xmit = 0 => e.slist[k].seq = e.snd_nxt /\ e.snd_nxt + m <= W,
           e.slist[k].ctl => m = e.slist[k].len
    PROVE  Sends(e, SendSegment(e, k, m), K, W)
<1> DEFINE f == SendSegment(e, k, m)
           t == SentList(e.slist, k, m)
           next == SentNxt(e.slist, k, m, e.snd_nxt)
           p == SegmentPacket(e, k, m)
<1>1. /\ e \in Endpoint /\ Chain(e.slist, e.snd_una, Total(e)) /\ Kinds(e.slist) /\ Content(e)
      /\ Marked(e.slist, e.snd_nxt) /\ Reach(e.slist, e.snd_una, e.snd_nxt, e.snd_nxt)
      /\ e.snd_una <= e.snd_nxt /\ e.recover <= e.snd_nxt
    BY DEF Good, SendOK, Tile, Reached
<1>2. /\ e.slist \in Seq(Segments) /\ e.snd_una \in Nat /\ e.snd_nxt \in Nat /\ Total(e) \in Nat
      /\ e.recover \in Nat /\ e.out \subseteq Packets /\ Edge(e) = e.rcv_nxt + e.rcv_wnd
      /\ e.slist[k].xmit \in Nat /\ e.slist[k].seq \in Nat
    BY <1>1, EndpointFields, ListFields
<1>3. /\ t \in Seq(Segments) /\ Chain(t, e.snd_una, Total(e)) /\ Kinds(t) /\ Marked(t, next)
      /\ \A n : Reach(e.slist, e.snd_una, e.snd_nxt, n) => Reach(t, e.snd_una, next, n)
      /\ Reach(t, e.snd_una, next, next) /\ Reach(t, e.snd_una, next, e.slist[k].seq + m)
      /\ next \in Nat /\ e.snd_nxt <= next /\ e.snd_una < next
    BY <1>1, <1>2, SentListTiles
<1>4. /\ p \in Packets /\ DataOK(p, Total(e)) /\ Size(p.data) = m /\ p.seq = e.slist[k].seq
      /\ p.ack = e.rcv_nxt /\ p.wnd = e.rcv_wnd
    BY <1>1, SegmentData
<1>5. next <= W
    BY <1>2 DEF SentNxt, Good
<1>6. f = [e EXCEPT !.out = e.out \cup {p}, !.t_ack = FALSE, !.slist = t, !.snd_nxt = next, !.rto = TRUE]
    BY <1>1, SegmentSent
<1> HIDE DEF f, t, next, p
<1>7. f \in Endpoint
    BY <1>1, <1>2, <1>3, <1>4, <1>6, ZenonT(40) DEF Endpoint
<1>8. SendFrame(e, f)
    BY <1>1, <1>6 DEF Endpoint, SendFrame
<1>9. f.out = e.out \cup {p} /\ f.slist = t /\ f.snd_nxt = next /\ f.rto = TRUE
    BY <1>1, <1>6 DEF Endpoint
<1>10. Total(f) = Total(e) /\ Edge(f) = Edge(e) /\ f.snd_una = e.snd_una /\ f.recover = e.recover /\ f.sbuf = e.sbuf
    BY <1>8 DEF SendFrame, Total, Edge
<1>11. Keeps(e, f)
    BY <1>3, <1>9, <1>10 DEF Keeps, Reached
<1>12. SendOK(f)
    <2>1. Tile(f)
        BY <1>1, <1>2, <1>3, <1>9, <1>10 DEF Tile, Reached
    <2>2. Content(f)
        BY <1>1, <1>10 DEF Content
    <2>3. f.rto <=> f.snd_una < f.snd_nxt
        BY <1>3, <1>9, <1>10
    <2>4. f.recover <= f.snd_nxt
        BY <1>1, <1>2, <1>3, <1>9, <1>10, SMTT(40)
    <2>5. Size(f.sbuf) <= SndCap
        BY <1>10 DEF Good, SendOK
    <2> QED
        BY <1>3, <1>9, <2>1, <2>2, <2>3, <2>4, <2>5 DEF SendOK
<1>13. ASSUME NEW x \in f.out PROVE PacketOK(x, f, K)
    <2>1. CASE x \in e.out
        <3>1. PacketOK(x, e, K)
            BY <2>1 DEF Good, OutOK
        <3> QED
            BY <1>10, <1>11, <3>1 DEF PacketOK, Keeps
    <2>2. CASE x = p
        <3>1. Reached(f, p.seq + Size(p.data))
            BY <1>3, <1>4, <1>9, <1>10 DEF Reached
        <3>2. p.ack + p.wnd <= Edge(f) /\ RcvCap <= p.ack + p.wnd /\ p.ack \in K
            <4>1. e.rcv_nxt + e.rcv_wnd \in Nat
                BY <1>1, EndpointFields
            <4> QED
                BY <1>2, <1>4, <1>10, <4>1 DEF Good, RecvOK
        <3> QED
            BY <1>4, <1>10, <2>2, <3>1, <3>2 DEF PacketOK
    <2> QED
        BY <1>9, <2>1, <2>2
<1> QED
    BY <1>3, <1>5, <1>7, <1>8, <1>9, <1>11, <1>12, <1>13 DEF Sends, OutOK, f

\* Sending leaves a good endpoint, and sending twice is sending.
LEMMA SendsGood ==
    ASSUME NEW K, NEW W \in Int, NEW e, NEW f, Good(e, K, W), Sends(e, f, K, W)
    PROVE  Good(f, K, W) /\ Total(f) = Total(e) /\ Edge(f) = Edge(e)
<1>1. Total(f) = Total(e) /\ Edge(f) = Edge(e)
    BY DEF Sends, SendFrame, Total, Edge
<1>2. RecvOK(f)
    BY <1>1 DEF Good, RecvOK, Sends, SendFrame
<1>3. Roomy(f)
    BY <1>1 DEF Good, Roomy, Sends, SendFrame
<1> QED
    BY <1>1, <1>2, <1>3 DEF Good, Sends, SendFrame

\* Sending nothing is a way of sending.
LEMMA SendsSelf ==
    ASSUME NEW K, NEW W \in Int, NEW e, Good(e, K, W)
    PROVE  Sends(e, e, K, W)
<1>1. e.snd_nxt \in Nat
    BY EndpointNumbers DEF Good
<1> QED
    BY <1>1 DEF Good, Sends, SendFrame, Keeps

\* So is sending twice.
LEMMA SendsTrans ==
    ASSUME NEW K, NEW W \in Int, NEW e \in Endpoint, NEW f, NEW g, Sends(e, f, K, W), Sends(f, g, K, W)
    PROVE  Sends(e, g, K, W)
<1>1. e.snd_nxt \in Nat /\ f.snd_nxt \in Nat /\ g.snd_nxt \in Nat
    BY EndpointNumbers DEF Sends
<1>2. SendFrame(e, g)
    BY DEF Sends, SendFrame
<1>3. Keeps(e, g)
    BY DEF Sends, Keeps
<1>4. e.snd_nxt <= g.snd_nxt
    BY <1>1 DEF Sends
<1> QED
    BY <1>2, <1>3, <1>4 DEF Sends

\* A packet without data.
LEMMA EmptyPacket ==
    ASSUME NEW K, NEW W \in Int, NEW e, Good(e, K, W), NEW seq \in Int
    PROVE  Sends(e, Packet(e, seq, FALSE, <<>>), K, W)
<1> DEFINE p == [seq |-> seq, ack |-> e.rcv_nxt, wnd |-> e.rcv_wnd, ctl |-> FALSE, data |-> <<>>]
           f == Packet(e, seq, FALSE, <<>>)
<1>1. e \in Endpoint /\ e.rcv_nxt \in Nat /\ e.rcv_wnd \in Nat /\ e.snd_nxt \in Nat /\ e.out \subseteq Packets
    BY EndpointFields DEF Good
<1>2. f = [e EXCEPT !.out = e.out \cup {p}, !.t_ack = FALSE]
    BY DEF Packet
<1>3. <<>> \in Seq(Int) /\ DOMAIN <<>> = {}
    BY EmptySeq
<1>4. p \in Packets /\ p.data = <<>> /\ p.ctl = FALSE /\ p.ack = e.rcv_nxt /\ p.wnd = e.rcv_wnd
    BY <1>1, <1>3 DEF Packets
<1> HIDE DEF p, f
<1>5. f \in Endpoint
    BY <1>1, <1>2, <1>4, ZenonT(40) DEF Endpoint
<1>6. /\ SendFrame(e, f) /\ f.slist = e.slist /\ f.snd_nxt = e.snd_nxt /\ f.rto = e.rto
      /\ f.out = e.out \cup {p}
    BY <1>1, <1>2 DEF Endpoint, SendFrame
<1>7. Total(f) = Total(e) /\ Edge(f) = Edge(e) /\ \A n : Reached(e, n) <=> Reached(f, n)
    BY <1>6 DEF SendFrame, Total, Edge, Reached
<1>8. SendOK(f)
    BY <1>6, <1>7 DEF Good, SendOK, SendFrame, Tile, Content
<1>9. PacketOK(p, f, K)
    <2>1. DataOK(p, Total(f))
        BY <1>3, <1>4 DEF DataOK
    <2>2. p.ack + p.wnd <= Edge(f) /\ RcvCap <= p.ack + p.wnd /\ p.ack \in K
        <3>1. Edge(e) = e.rcv_nxt + e.rcv_wnd
            BY DEF Edge
        <3> QED
            BY <1>1, <1>4, <1>7, <3>1 DEF Good, RecvOK
    <2> QED
        BY <1>4, <2>1, <2>2 DEF PacketOK
<1>10. OutOK(f, K)
    <2>1. ASSUME NEW x \in e.out PROVE PacketOK(x, f, K)
        BY <1>7 DEF Good, OutOK, PacketOK
    <2> QED
        BY <1>6, <1>9, <2>1 DEF OutOK
<1>11. Sends(e, f, K, W)
    BY <1>1, <1>5, <1>6, <1>7, <1>8, <1>10 DEF Sends, Keeps, Good
<1> QED
    BY <1>11 DEF f

\* An acknowledgment that carries no data may be sent at any time.
LEMMA AckSends ==
    ASSUME NEW K, NEW W \in Int, NEW e, Good(e, K, W)
    PROVE  Sends(e, Ack(e), K, W)
<1>1. e.snd_nxt \in Int
    BY EndpointNumbers DEF Good
<1> QED
    BY <1>1, EmptyPacket DEF Ack

\* A change of what the invariants do not speak of.
Core(e, f) ==
    /\ f.snd_una = e.snd_una /\ f.snd_nxt = e.snd_nxt /\ f.snd_wnd = e.snd_wnd /\ f.sbuf = e.sbuf
    /\ f.slist = e.slist /\ f.rcv_nxt = e.rcv_nxt /\ f.rcv_wnd = e.rcv_wnd /\ f.rbuf = e.rbuf
    /\ f.rfree = e.rfree /\ f.rlist = e.rlist /\ f.rto = e.rto /\ f.out = e.out
\* The invariant of an endpoint depends on the members of Core alone.
LEMMA SameCore ==
    ASSUME NEW K, NEW W \in Int, NEW e, Good(e, K, W), NEW f \in Endpoint, Core(e, f),
           f.recover <= f.snd_nxt
    PROVE  Good(f, K, W) /\ Keeps(e, f) /\ Total(f) = Total(e) /\ Edge(f) = Edge(e)
<1>1. Total(f) = Total(e) /\ Edge(f) = Edge(e) /\ \A n : Reached(e, n) <=> Reached(f, n)
    BY DEF Core, Total, Edge, Reached
<1>2. SendOK(f)
    <2>1. Tile(f)
        BY <1>1 DEF Good, SendOK, Core, Tile
    <2>2. Content(f)
        BY DEF Good, SendOK, Core, Content
    <2>3. Kinds(f.slist) /\ (f.rto <=> f.snd_una < f.snd_nxt) /\ Size(f.sbuf) <= SndCap
        BY DEF Good, SendOK, Core
    <2> QED
        BY <2>1, <2>2, <2>3 DEF SendOK
<1>3. RecvOK(f)
    BY <1>1 DEF Good, RecvOK, Core
<1>4. OutOK(f, K)
    BY <1>1 DEF Good, OutOK, PacketOK, Core
<1>5. Roomy(f)
    BY <1>1 DEF Good, Roomy, Core
<1> QED
    BY <1>1, <1>2, <1>3, <1>4, <1>5 DEF Good, Core, Keeps

\* The least size that fits, when there is one.
LEMMA LevelChosen ==
    ASSUME NEW T, T \subseteq DOMAIN MssTable, T # {}
    PROVE  (CHOOSE l \in T : \A m \in T : l <= m) \in T
<1>1. T \subseteq Nat
    BY Sizes
<1>2. \E l \in T : \A m \in T : l <= m
    BY <1>1, LeastMember
<1> QED
    BY <1>2

\* adjustMTU finds an entry of the table for any advice.
LEMMA LevelInTable == ASSUME NEW m PROVE LevelOf(m) \in DOMAIN MssTable
<1> DEFINE room == {l \in DOMAIN MssTable : MssTable[l] <= m}
<1>1. CASE room = {}
    BY <1>1, Sizes DEF LevelOf
<1>2. CASE room # {}
    BY <1>2, LevelChosen DEF LevelOf
<1> QED
    BY <1>1, <1>2

\* A smaller maximum is taken.
Reduced(e, l) == [e EXCEPT !.msslevel = l, !.mss = MssTable[l]]
\* A smaller maximum leaves the segments as they are.
LEMMA ReducedSends ==
    ASSUME NEW K, NEW W \in Int, NEW e, Good(e, K, W), NEW l \in DOMAIN MssTable
    PROVE  /\ Sends(e, Reduced(e, l), K, W) /\ Reduced(e, l).mss = MssTable[l]
           /\ Reduced(e, l).slist = e.slist /\ Reduced(e, l).snd_nxt = e.snd_nxt
<1> DEFINE f == Reduced(e, l)
<1>1. e \in Endpoint /\ MssTable[l] \in PacketSizes
    BY Sizes DEF Good
<1>2. f \in Endpoint
    BY <1>1 DEF Endpoint, Reduced
<1>3. /\ SendFrame(e, f) /\ f.slist = e.slist /\ f.snd_nxt = e.snd_nxt /\ f.rto = e.rto
      /\ f.out = e.out /\ f.mss = MssTable[l] /\ Core(e, f) /\ f.recover = e.recover
    BY <1>1 DEF Endpoint, SendFrame, Core, Reduced
<1> HIDE DEF f
<1>4. e.recover <= e.snd_nxt
    BY DEF Good, SendOK
<1>5. Good(f, K, W) /\ Keeps(e, f)
    BY <1>2, <1>3, <1>4, SameCore
<1>6. e.snd_nxt \in Nat
    BY <1>1, EndpointNumbers
<1> QED
    BY <1>2, <1>3, <1>5, <1>6 DEF Sends, Good, f

\* A segment that may be sent: one that was sent, or the next with room for it.
Sendable(e, k, W) ==
    /\ k \in DOMAIN e.slist
    /\ e.slist[k].xmit = 0 => e.slist[k].seq = e.snd_nxt /\ e.snd_nxt + e.slist[k].len <= W

\* The connect message fits every packet.
LEMMA ConnectFitsPackets == \A m \in PacketSizes : m \in Nat /\ CtlLen <= m
BY Sizes

\* Transmit sends a segment, or the start of one that is not the connect message.
LEMMA TransmitSends ==
    ASSUME NEW K, NEW W \in Int, NEW e, Good(e, K, W), NEW k, Sendable(e, k, W)
    PROVE  Sends(e, Transmit(e, k).e, K, W) /\ Transmit(e, k).ok \in BOOLEAN
<1> DEFINE s == e.slist[k]
           n == Least(s.len, e.mss)
           fits == {l \in e.msslevel + 1 .. LastLevel : MssTable[l] < n /\ MssTable[l] <= PathMax}
           level == IF fits = {} THEN LastLevel ELSE CHOOSE l \in fits : \A m \in fits : l <= m
           reduced == IF e.msslevel = LastLevel THEN e ELSE Reduced(e, level)
<1>1. e \in Endpoint /\ e.mss \in Nat \ {0} /\ e.msslevel \in Nat /\ e.snd_nxt \in Nat /\ k \in DOMAIN e.slist
    <2>1. e \in Endpoint /\ k \in DOMAIN e.slist
        BY DEF Good, Sendable
    <2>2. e.mss \in PacketSizes /\ e.msslevel \in DOMAIN MssTable /\ e.snd_nxt \in Nat
        BY <2>1, EndpointFields
    <2>3. e.msslevel \in Nat
        BY <2>2, Sizes
    <2> QED
        BY <2>1, <2>2, <2>3, PacketSizeFits
<1>2. s.len \in Nat /\ s.len > 0 /\ s.xmit \in Nat
    BY <1>1, EndpointFields, ListFields
<1>3. n \in Nat /\ n > 0 /\ n <= s.len
    BY <1>1, <1>2 DEF Least
<1>4. fits \subseteq DOMAIN MssTable
    BY <1>1, Sizes
<1>5. level \in DOMAIN MssTable /\ (fits # {} => level \in fits)
    BY <1>4, LevelChosen, Sizes
<1>k. s.ctl => n = s.len /\ fits = {}
    <2> SUFFICES ASSUME s.ctl PROVE n = s.len /\ fits = {}
        OBVIOUS
    <2>1. s.seq = 0 /\ EndOf(s) = CtlLen /\ EndOf(s) = s.seq + s.len
        BY <1>1 DEF Good, SendOK, Kinds, Kind, EndOf
    <2>2. s.len = CtlLen /\ CtlLen \in Nat
        BY <1>2, <2>1, Sizes
    <2>3. e.mss \in Nat /\ CtlLen <= e.mss
        BY <1>1, EndpointFields, ConnectFitsPackets
    <2>4. n = s.len
        BY <2>2, <2>3 DEF Least
    <2>5. ASSUME NEW l \in fits PROVE FALSE
        <3>1. MssTable[l] < n /\ MssTable[l] \in PacketSizes
            BY <1>4, Sizes
        <3>2. MssTable[l] \in Nat /\ CtlLen <= MssTable[l]
            BY <3>1, ConnectFitsPackets
        <3> QED
            BY <2>2, <2>4, <3>1, <3>2
    <2> QED
        BY <2>4, <2>5
<1>6. ASSUME NEW m \in Nat, m > 0, m <= s.len PROVE s.xmit = 0 => s.seq = e.snd_nxt /\ e.snd_nxt + m <= W
    BY <1>1, <1>2, <1>6 DEF Sendable
<1>7. Transmit(e, k) =
         CASE s.xmit >= (IF e.state = "ESTABLISHED" THEN XmitLimit ELSE SynXmitLimit)
              -> [ok |-> FALSE, e |-> e]
           [] n <= PathMax     -> [ok |-> TRUE, e |-> SendSegment(e, k, n)]
           [] fits = {}        -> [ok |-> FALSE, e |-> reduced]
           [] OTHER            -> [ok |-> TRUE, e |-> SendSegment(reduced, k, reduced.mss)]
    BY DEF Transmit, Reduced
<1> HIDE DEF level, fits, n
<1>8. /\ Sends(e, reduced, K, W) /\ reduced.slist = e.slist /\ reduced.snd_nxt = e.snd_nxt
      /\ fits # {} => reduced.mss = MssTable[level]
    <2>1. CASE e.msslevel = LastLevel
        <3>1. fits = {}
            BY <1>1, <2>1, Sizes DEF fits
        <3> QED
            BY <2>1, <3>1, SendsSelf
    <2>2. CASE e.msslevel # LastLevel
        BY <1>5, <2>2, ReducedSends
    <2> QED
        BY <2>1, <2>2
<1> HIDE DEF reduced
<1>9. Sends(e, e, K, W)
    BY SendsSelf
<1>10. Sends(e, SendSegment(e, k, n), K, W)
    BY <1>1, <1>3, <1>6, <1>k, SendSegmentSends
<1>11. ASSUME fits # {} PROVE Sends(e, SendSegment(reduced, k, reduced.mss), K, W)
    <2>1. MssTable[level] \in Nat /\ MssTable[level] > 0
        BY <1>5, Sizes, PacketSizeFits
    <2>2. MssTable[level] < n
        BY <1>5, <1>11 DEF fits
    <2>3. Good(reduced, K, W)
        BY <1>8, SendsGood
    <2>4. reduced.mss \in Nat /\ reduced.mss > 0 /\ reduced.mss <= s.len
        BY <1>2, <1>3, <1>8, <1>11, <2>1, <2>2
    <2>5. s.xmit = 0 => s.seq = e.snd_nxt /\ e.snd_nxt + reduced.mss <= W
        BY <1>6, <2>4
    <2>6. Sends(reduced, SendSegment(reduced, k, reduced.mss), K, W)
        BY <1>1, <1>8, <1>11, <1>k, <2>3, <2>4, <2>5, SendSegmentSends
    <2> QED
        BY <1>1, <1>8, <2>6, SendsTrans
<1> QED
    BY <1>7, <1>8, <1>9, <1>10, <1>11

\* Cutting a segment that waits to be sent.
LEMMA SplitSends ==
    ASSUME NEW K, NEW W \in Int, NEW e, Good(e, K, W), NEW k \in DOMAIN e.slist,
           e.slist[k].xmit = 0, NEW m \in Nat, m > 0, e.slist[k].ctl => e.slist[k].len <= m
    PROVE  /\ Sends(e, Split(e, k, m, 0), K, W) /\ Split(e, k, m, 0).snd_nxt = e.snd_nxt
           /\ k \in DOMAIN Split(e, k, m, 0).slist
           /\ Split(e, k, m, 0).slist[k].seq = e.slist[k].seq
           /\ Split(e, k, m, 0).slist[k].xmit = 0
           /\ Split(e, k, m, 0).slist[k].len <= m
           /\ Split(e, k, m, 0).out = e.out /\ Split(e, k, m, 0).t_ack = e.t_ack
<1> DEFINE f == Split(e, k, m, 0)
           t == CutAt(e.slist, k, m, 0)
<1>1. e \in Endpoint /\ e.slist \in Seq(Segments) /\ e.snd_nxt \in Nat /\ e.snd_una \in Nat /\ Total(e) \in Nat
    BY EndpointFields DEF Good
<1>2. e.slist[k].len \in Nat
    BY <1>1, ListFields
<1>3. CASE e.slist[k].len <= m
    <2>1. f = e
        BY <1>3 DEF Split
    <2>2. Sends(e, e, K, W)
        BY SendsSelf
    <2> QED
        BY <1>3, <2>1, <2>2
<1>4. CASE m < e.slist[k].len
    <2>1. f = [e EXCEPT !.slist = t]
        BY <1>2, <1>4 DEF Split, CutAt
    <2>2. /\ Chain(e.slist, e.snd_una, Total(e)) /\ Kinds(e.slist) /\ Marked(e.slist, e.snd_nxt)
          /\ Reach(e.slist, e.snd_una, e.snd_nxt, e.snd_nxt)
        BY DEF Good, SendOK, Tile, Reached
    <2>3. /\ t \in Seq(Segments) /\ Chain(t, e.snd_una, Total(e)) /\ Kinds(t) /\ Marked(t, e.snd_nxt)
          /\ \A n : Reach(e.slist, e.snd_una, e.snd_nxt, n) => Reach(t, e.snd_una, e.snd_nxt, n)
          /\ k \in DOMAIN t /\ t[k].seq = e.slist[k].seq /\ t[k].len = m /\ t[k].xmit = 0
        <3>1. ~e.slist[k].ctl
            BY <1>2, <1>4
        <3> QED
            BY <1>1, <1>4, <2>2, <3>1, CutAtTiles, SMTT(40)
    <2> HIDE DEF f, t
    <2>4. f \in Endpoint
        BY <1>1, <2>1, <2>3, ZenonT(40) DEF Endpoint
    <2>5. /\ SendFrame(e, f) /\ f.slist = t /\ f.snd_nxt = e.snd_nxt /\ f.rto = e.rto
          /\ f.out = e.out /\ f.t_ack = e.t_ack
        BY <1>1, <2>1 DEF Endpoint, SendFrame
    <2>6. Total(f) = Total(e) /\ Edge(f) = Edge(e) /\ \A n : Reached(e, n) => Reached(f, n)
        BY <2>3, <2>5 DEF SendFrame, Total, Edge, Reached
    <2>7. SendOK(f)
        <3>1. Tile(f)
            BY <2>3, <2>5, <2>6 DEF Good, SendOK, SendFrame, Tile
        <3>2. Content(f)
            BY <2>5 DEF Good, SendOK, SendFrame, Content
        <3> QED
            BY <2>3, <2>5, <3>1, <3>2 DEF Good, SendOK, SendFrame
    <2>8. OutOK(f, K)
        BY <2>5, <2>6 DEF Good, OutOK, PacketOK
    <2>9. Sends(e, f, K, W)
        BY <1>1, <2>4, <2>5, <2>6, <2>7, <2>8 DEF Sends, Keeps, Good
    <2> QED
        BY <1>1, <2>3, <2>5, <2>9 DEF f
<1> QED
    BY <1>2, <1>3, <1>4

\* What has been sent is within the buffer.
LEMMA NxtInBuffer ==
    ASSUME NEW e \in Endpoint, Tile(e)
    PROVE  e.snd_una <= e.snd_nxt /\ e.snd_nxt <= Total(e)
<1>1. e.snd_una \in Nat /\ e.snd_nxt \in Nat /\ Total(e) \in Nat /\ Size(e.sbuf) \in Nat
      /\ Total(e) = e.snd_una + Size(e.sbuf)
    BY EndpointNumbers
<1>2. e.snd_una <= e.snd_nxt
    BY DEF Tile
<1>3. CASE e.snd_nxt <= e.snd_una
    BY <1>1, <1>2, <1>3
<1>4. CASE \E i \in DOMAIN e.slist : e.snd_nxt = EndOf(e.slist[i])
    BY <1>2, <1>4 DEF Tile, Chain
<1> QED
    BY <1>2, <1>3, <1>4 DEF Tile, Reached, Reach

\* The first segment that was not sent starts at snd_nxt.
LEMMA FirstUnsentIsNext ==
    ASSUME NEW e \in Endpoint, Tile(e), e.snd_nxt < Total(e)
    PROVE  /\ FirstUnsent(e) \in DOMAIN e.slist
           /\ e.slist[FirstUnsent(e)].xmit = 0 /\ e.slist[FirstUnsent(e)].seq = e.snd_nxt
<1> DEFINE L == e.slist
           unsent == {k \in DOMAIN L : L[k].xmit = 0}
           F == FirstUnsent(e)
           last == Len(L)
<1>1. L \in Seq(Segments) /\ e.snd_una \in Nat /\ e.snd_nxt \in Nat /\ Total(e) \in Nat
    BY EndpointFields
<1>2. /\ Chain(L, e.snd_una, Total(e)) /\ Marked(L, e.snd_nxt)
      /\ e.snd_una <= e.snd_nxt /\ Reach(L, e.snd_una, e.snd_nxt, e.snd_nxt)
    BY DEF Tile, Reached
<1>3. /\ DOMAIN L = 1 .. Len(L) /\ Len(L) \in Nat /\ (L = <<>> <=> Len(L) = 0)
      /\ \A i \in DOMAIN L : L[i].seq \in Nat /\ L[i].xmit \in Nat /\ EndOf(L[i]) \in Nat
    BY <1>1, ListFields
<1>4. ASSUME NEW k \in DOMAIN L, L[k].xmit # 0 PROVE EndOf(L[k]) <= e.snd_nxt
    <2>1. L[k].seq < e.snd_nxt
        BY <1>2, <1>3, <1>4 DEF Marked
    <2> QED
        BY <1>1, <1>2, <2>1, SentWhole
<1>5. unsent # {}
    <2>1. L # <<>>
        BY <1>1, <1>2 DEF Chain
    <2>2. last \in DOMAIN L /\ EndOf(L[last]) = Total(e)
        BY <1>2, <1>3, <2>1 DEF Chain
    <2>3. L[last].xmit = 0
        BY <1>1, <1>4, <2>2
    <2> QED
        BY <2>2, <2>3
<1>6. F \in unsent /\ \A j \in unsent : F <= j
    <2>1. unsent \subseteq Nat
        BY <1>3
    <2>2. \E k \in unsent : \A j \in unsent : k <= j
        BY <1>5, <2>1, LeastMember
    <2> QED
        BY <2>2 DEF FirstUnsent
<1> HIDE DEF F
<1>7. F \in DOMAIN L /\ L[F].xmit = 0 /\ L[F].seq >= e.snd_nxt
    BY <1>1, <1>2, <1>3, <1>6 DEF Marked
<1>8. L[F].seq <= e.snd_nxt
    <2>1. CASE F = 1
        BY <1>2, <1>3, <1>7, <2>1 DEF Chain
    <2>2. CASE F # 1
        <3>1. F - 1 \in DOMAIN L /\ (F - 1) + 1 = F
            BY <1>3, <1>7, <2>2
        <3>2. L[F - 1].xmit # 0
            BY <1>3, <1>6, <3>1
        <3>3. EndOf(L[F - 1]) <= e.snd_nxt
            BY <1>4, <3>1, <3>2
        <3>4. L[(F - 1) + 1].seq = EndOf(L[F - 1])
            BY <1>2, <1>7, <3>1 DEF Chain
        <3> QED
            BY <3>1, <3>3, <3>4
    <2> QED
        BY <2>1, <2>2
<1> QED
    BY <1>1, <1>3, <1>7, <1>8 DEF F

\* What attemptSend may send is waiting, and fits the window.
LEMMA AvailableFits ==
    ASSUME NEW e \in Endpoint, Tile(e), NEW cwnd \in Nat
    PROVE  /\ Available(e, cwnd) \in Nat
           /\ Available(e, cwnd) > 0 => /\ e.snd_nxt + Available(e, cwnd) <= Total(e)
                                        /\ e.snd_nxt + Available(e, cwnd) <= e.snd_una + e.snd_wnd
                                        /\ Available(e, cwnd) <= e.mss
<1>1. /\ e.snd_una \in Nat /\ e.snd_nxt \in Nat /\ e.snd_wnd \in Nat /\ Size(e.sbuf) \in Nat
      /\ Total(e) = e.snd_una + Size(e.sbuf) /\ e.snd_una <= e.snd_nxt /\ e.snd_nxt <= Total(e)
    BY EndpointNumbers, NxtInBuffer
<1>2. e.mss \in Nat /\ e.mss > 0
    <2>1. e.mss \in PacketSizes
        BY EndpointFields
    <2> QED
        BY <2>1, PacketSizeFits
<1> DEFINE inFlight == e.snd_nxt - e.snd_una
           window == Least(e.snd_wnd, cwnd)
           useable == IF inFlight < window THEN window - inFlight ELSE 0
           ready == Least(Size(e.sbuf) - inFlight, e.mss)
<1>3. Available(e, cwnd) = CASE ready <= useable -> ready
                             [] ready > useable /\ useable * 4 < window  -> 0
                             [] OTHER -> useable
    BY DEF Available, InFlight, Size
<1>4. inFlight \in Nat /\ inFlight <= Size(e.sbuf) /\ e.snd_nxt = e.snd_una + inFlight
    BY <1>1
<1> HIDE DEF inFlight
<1>5. window \in Nat /\ window <= e.snd_wnd
    BY <1>1 DEF Least
<1> HIDE DEF window
<1>6. ready \in Nat /\ ready <= Size(e.sbuf) - inFlight /\ ready <= e.mss
    BY <1>1, <1>2, <1>4 DEF Least
<1> HIDE DEF ready
<1>7. useable \in Nat /\ (useable > 0 => useable = window - inFlight)
    BY <1>4, <1>5
<1> HIDE DEF useable
<1>8. /\ Available(e, cwnd) \in Nat
      /\ Available(e, cwnd) <= ready /\ Available(e, cwnd) <= useable
    BY <1>3, <1>6, <1>7
<1> QED
    BY <1>1, <1>2, <1>4, <1>5, <1>6, <1>7, <1>8

\* The connect message may be sent as a whole.
LEMMA AvailableWhole ==
    ASSUME NEW e \in Endpoint, NEW cwnd \in Wide, e.snd_una = 0, e.snd_nxt = 0,
           CtlLen <= e.snd_wnd, CtlLen <= Size(e.sbuf)
    PROVE  Available(e, cwnd) >= CtlLen
<1>1. e.snd_wnd \in Nat /\ Size(e.sbuf) \in Nat /\ cwnd \in Nat /\ CtlLen <= cwnd
    BY EndpointNumbers DEF Wide
<1>2. e.mss \in Nat /\ CtlLen <= e.mss /\ CtlLen \in Nat /\ CtlLen > 0
    <2>1. e.mss \in PacketSizes
        BY EndpointFields
    <2>2. CtlLen \in Nat \ {0}
        BY Sizes
    <2> QED
        BY <2>1, <2>2, PacketSizeFits
<1> DEFINE window == Least(e.snd_wnd, cwnd)
           ready == Least(Size(e.sbuf), e.mss)
<1>3. window \in Nat /\ CtlLen <= window /\ ready \in Nat /\ CtlLen <= ready
    BY <1>1, <1>2 DEF Least
<1>4. Size(e.sbuf) - 0 = Size(e.sbuf) /\ InFlight(e) = 0
    BY <1>1 DEF InFlight
<1>5. 0 < window /\ window - 0 = window
    BY <1>2, <1>3
<1> HIDE DEF window, ready
<1>6. Available(e, cwnd) = CASE ready <= window -> ready
                             [] ready > window /\ window * 4 < window  -> 0
                             [] OTHER -> window
    BY <1>4, <1>5 DEF Available, Size, window, ready
<1> QED
    BY <1>2, <1>3, <1>6

\* attemptSend's rounds, as a function of their number.
Rounds == [e : Endpoint, flags : {"none", "immediate", "delayed"}, go : BOOLEAN]
FirstRound(e, flags) == [e |-> e, flags |-> flags, go |-> TRUE]
IsRun(f, a, cwnd, N) == f = [n \in 0 .. N |-> IF n = 0 THEN a ELSE SendRound(f[n - 1], cwnd)]

\* The recursive function of AttemptSend exists.
LEMMA RunDefined ==
    ASSUME NEW a, NEW cwnd
    PROVE  \A N \in Nat : \E f : IsRun(f, a, cwnd, N)
<1> DEFINE S == {k \in Nat : \E f : IsRun(f, a, cwnd, k)}
<1>1. 0 \in S
    <2> DEFINE f == [n \in 0 .. 0 |-> a]
    <2>1. IsRun(f, a, cwnd, 0)
        BY DEF IsRun
    <2> QED
        BY <2>1
<1>2. ASSUME NEW k \in Nat, k \in S PROVE k + 1 \in S
    <2>1. PICK f : IsRun(f, a, cwnd, k)
        BY <1>2
    <2> DEFINE g == [n \in 0 .. k + 1 |-> IF n <= k THEN f[n] ELSE SendRound(f[k], cwnd)]
    <2>2. IsRun(g, a, cwnd, k + 1)
        <3> HIDE DEF S
        <3> SUFFICES ASSUME NEW n \in 0 .. k + 1
                     PROVE  g[n] = IF n = 0 THEN a ELSE SendRound(g[n - 1], cwnd)
            BY DEF IsRun
        <3>1. CASE n <= k
            <4>1. g[n] = f[n]
                BY <3>1
            <4>2. n # 0 => g[n - 1] = f[n - 1]
                BY <3>1
            <4>3. f[n] = IF n = 0 THEN a ELSE SendRound(f[n - 1], cwnd)
                BY <2>1, <3>1 DEF IsRun
            <4> QED
                BY <4>1, <4>2, <4>3
        <3>2. CASE n = k + 1
            BY <3>2
        <3> QED
            BY <3>1, <3>2
    <2> HIDE DEF g
    <2> QED
        BY <2>2
<1> HIDE DEF S
<1>3. Nat \subseteq S
    BY <1>1, <1>2, Induction
<1> QED
    BY <1>3 DEF S

\* What holds before the first round and is kept by every round holds of attemptSend.
LEMMA AttemptSendIn ==
    ASSUME NEW e \in Endpoint, NEW flags, NEW cwnd, NEW P,
           FirstRound(e, flags) \in P, \A a \in P : SendRound(a, cwnd) \in P
    PROVE  \E a \in P : AttemptSend(e, flags, cwnd) = a.e
<1> DEFINE N == Len(e.sbuf) + 1
           a0 == FirstRound(e, flags)
           F == CHOOSE f : IsRun(f, a0, cwnd, N)
<1>1. N \in Nat
    BY DEF Endpoint
<1>2. AttemptSend(e, flags, cwnd) = F[N].e
    BY DEF AttemptSend, IsRun, FirstRound
<1> HIDE DEF N, a0
<1>3. IsRun(F, a0, cwnd, N)
    BY <1>1, RunDefined
<1> HIDE DEF F
<1> DEFINE S == {n \in Nat : n <= N => F[n] \in P}
<1>4. 0 \in S
    BY <1>1, <1>3 DEF IsRun, a0
<1>5. ASSUME NEW n \in Nat, n \in S PROVE n + 1 \in S
    <2> SUFFICES ASSUME n + 1 <= N PROVE F[n + 1] \in P
        OBVIOUS
    <2>1. n + 1 \in 0 .. N /\ n + 1 # 0 /\ (n + 1) - 1 = n /\ n <= N
        BY <1>1
    <2>2. F[n + 1] = SendRound(F[(n + 1) - 1], cwnd)
        BY <1>3, <2>1 DEF IsRun
    <2>3. F[n] \in P
        BY <1>5, <2>1
    <2> QED
        BY <2>1, <2>2, <2>3
<1> HIDE DEF S
<1>6. N \in S
    BY <1>1, <1>4, <1>5, Induction
<1>7. F[N] \in P
    BY <1>1, <1>6 DEF S
<1> QED
    BY <1>2, <1>7

\* One round sends.
LEMMA RoundSends ==
    ASSUME NEW K, NEW W \in Int, NEW a \in Rounds, Good(a.e, K, W), NEW cwnd \in Wide
    PROVE  SendRound(a, cwnd) \in Rounds /\ Sends(a.e, SendRound(a, cwnd).e, K, W)
<1> DEFINE e == a.e
           available == Available(e, cwnd)
           next == FirstUnsent(e)
           g == Split(e, next, available, 0)
           t == Transmit(g, next)
           f == SendRound(a, cwnd)
           Stop(x) == [a EXCEPT !.e = x, !.go = FALSE]
           acked == CASE a.flags = "none" -> e
                      [] a.flags = "immediate" \/ e.t_ack -> Ack(e)
                      [] OTHER -> [e EXCEPT !.t_ack = TRUE]
<1>1. /\ e \in Endpoint /\ a.flags \in {"none", "immediate", "delayed"} /\ a.go \in BOOLEAN
      /\ e.t_ack \in BOOLEAN /\ Tile(e)
    BY EndpointFields DEF Rounds, Good, SendOK
<1>2. /\ Sends(e, e, K, W) /\ Sends(e, Ack(e), K, W)
    BY SendsSelf, AckSends
<1>3. Sends(e, [e EXCEPT !.t_ack = TRUE], K, W)
    <2> DEFINE h == [e EXCEPT !.t_ack = TRUE]
    <2>1. h \in Endpoint
        BY <1>1 DEF Endpoint
    <2>2. Core(e, h) /\ SendFrame(e, h)
        BY <1>1 DEF Endpoint, Core, SendFrame
    <2> HIDE DEF h
    <2>3. h.recover <= h.snd_nxt
        BY <2>2 DEF Core, SendFrame, Good, SendOK
    <2>4. Good(h, K, W) /\ Keeps(e, h)
        BY <2>1, <2>2, <2>3, SameCore
    <2>5. e.snd_nxt \in Nat
        BY <1>1, EndpointNumbers
    <2>6. Sends(e, h, K, W)
        BY <2>2, <2>4, <2>5 DEF Sends, Good, Core
    <2> QED
        BY <2>6 DEF h
<1>4. ASSUME available # 0 PROVE Sends(e, t.e, K, W) /\ t.ok \in BOOLEAN
    <2>1. /\ available \in Nat /\ available > 0 /\ e.snd_nxt + available <= Total(e)
          /\ e.snd_nxt + available <= e.snd_una + e.snd_wnd
        BY <1>1, <1>4, AvailableFits DEF Wide
    <2>2. /\ e.snd_nxt \in Nat /\ Total(e) \in Nat /\ e.snd_una \in Nat /\ e.snd_wnd \in Nat
        BY <1>1, EndpointNumbers
    <2>3. e.snd_nxt < Total(e)
        BY <2>1, <2>2
    <2>4. next \in DOMAIN e.slist /\ e.slist[next].xmit = 0 /\ e.slist[next].seq = e.snd_nxt
        BY <1>1, <2>3, FirstUnsentIsNext
    <2>w. e.slist[next].ctl => e.slist[next].len <= available
        <3> SUFFICES ASSUME e.slist[next].ctl PROVE e.slist[next].len <= available
            OBVIOUS
        <3> DEFINE q == e.slist[next]
        <3>1. q.seq = 0 /\ EndOf(q) = CtlLen /\ EndOf(q) <= Total(e)
            BY <2>4 DEF Good, SendOK, Kinds, Kind, Tile, Chain
        <3>2. q.seq \in Nat /\ q.len \in Nat /\ EndOf(q) = q.seq + q.len
            BY <1>1, <2>4, EndpointFields, ListFields
        <3>3. e.snd_una <= e.snd_nxt /\ Total(e) = e.snd_una + Size(e.sbuf) /\ Size(e.sbuf) \in Nat
            BY <1>1, EndpointNumbers DEF Tile
        <3>4. Total(e) = 0 \/ CtlLen <= e.snd_una + e.snd_wnd
            BY DEF Good, Roomy
        <3> HIDE DEF q
        <3>5. e.snd_nxt = 0
            BY <2>4, <3>1 DEF q
        <3>6. /\ e.snd_una = 0 /\ q.len = CtlLen
              /\ CtlLen <= e.snd_wnd /\ CtlLen <= Size(e.sbuf)
            BY <2>2, <2>3, <3>1, <3>2, <3>3, <3>4, <3>5
        <3>7. available >= CtlLen
            BY <1>1, <3>5, <3>6, AvailableWhole
        <3>8. CtlLen \in Nat
            BY Sizes
        <3> QED
            BY <2>1, <3>6, <3>7, <3>8 DEF q
    <2> HIDE DEF available, next
    <2>5. /\ Sends(e, g, K, W) /\ g.snd_nxt = e.snd_nxt /\ next \in DOMAIN g.slist
          /\ g.slist[next].seq = e.slist[next].seq
          /\ g.slist[next].xmit = 0 /\ g.slist[next].len <= available
        BY <2>1, <2>4, <2>w, SplitSends
    <2>6. Good(g, K, W)
        BY <2>5, SendsGood
    <2> HIDE DEF g
    <2>7. g.slist[next].len \in Nat
        BY <2>5, <2>6, EndpointFields, ListFields DEF Good
    <2>8. e.snd_una + e.snd_wnd <= W
        BY DEF Good
    <2>9. Sendable(g, next, W)
        BY <2>1, <2>2, <2>4, <2>5, <2>7, <2>8 DEF Sendable
    <2>10. Sends(g, t.e, K, W) /\ t.ok \in BOOLEAN
        BY <2>6, <2>9, TransmitSends
    <2> QED
        BY <1>1, <2>5, <2>10, SendsTrans
<1>5. \A x : x \in Endpoint => Stop(x) \in Rounds /\ Stop(x).e = x
    BY DEF Rounds
<1>6. \A x : x \in Endpoint => LET b == [a EXCEPT !.e = x, !.flags = "none"] IN b \in Rounds /\ b.e = x
    BY DEF Rounds
<1>7. f = CASE ~a.go -> a
         [] a.go /\ available = 0 -> Stop(acked)
         [] a.go /\ available > 0 /\ UseNagling /\ InFlight(e) > 0 /\ available < e.mss ->
              Stop(e)
         [] OTHER -> IF t.ok THEN [a EXCEPT !.e = t.e, !.flags = "none"] ELSE Stop(t.e)
    BY DEF SendRound
<1> HIDE DEF f, t, g, next, available
<1>8. CASE ~a.go
    BY <1>2, <1>7, <1>8 DEF f
<1>9. CASE a.go /\ available = 0
    <2>1. \/ f = Stop(e) \/ f = Stop(Ack(e)) \/ f = Stop([e EXCEPT !.t_ack = TRUE])
        <3>1. acked = e \/ acked = Ack(e) \/ acked = [e EXCEPT !.t_ack = TRUE]
            OBVIOUS
        <3> HIDE DEF acked, Stop
        <3>2. f = Stop(acked)
            BY <1>7, <1>9
        <3> QED
            BY <3>1, <3>2
    <2>2. e \in Endpoint /\ Ack(e) \in Endpoint /\ [e EXCEPT !.t_ack = TRUE] \in Endpoint
        BY <1>1, <1>2, <1>3 DEF Sends
    <2> HIDE DEF Stop
    <2>3. CASE f = Stop(e)
        BY <1>2, <1>5, <2>2, <2>3 DEF f
    <2>4. CASE f = Stop(Ack(e))
        BY <1>2, <1>5, <2>2, <2>4 DEF f
    <2>5. CASE f = Stop([e EXCEPT !.t_ack = TRUE])
        BY <1>3, <1>5, <2>2, <2>5 DEF f
    <2> QED
        BY <2>1, <2>3, <2>4, <2>5
<1>10. CASE a.go /\ available # 0
    <2>1. \/ f = Stop(e) \/ f = Stop(t.e) \/ f = [a EXCEPT !.e = t.e, !.flags = "none"]
        BY <1>7, <1>10
    <2>2. e \in Endpoint /\ t.e \in Endpoint
        BY <1>1, <1>4, <1>10 DEF Sends
    <2>3. Sends(e, t.e, K, W)
        BY <1>4, <1>10
    <2> HIDE DEF Stop
    <2>4. CASE f = Stop(e)
        BY <1>2, <1>5, <2>2, <2>4 DEF f
    <2>5. CASE f = Stop(t.e)
        BY <2>3, <1>5, <2>2, <2>5 DEF f
    <2>6. CASE f = [a EXCEPT !.e = t.e, !.flags = "none"]
        BY <2>3, <1>6, <2>2, <2>6, ZenonT(40) DEF f
    <2> QED
        BY <2>1, <2>4, <2>5, <2>6
<1> QED
    BY <1>1, <1>8, <1>9, <1>10

\* attemptSend sends.
LEMMA AttemptSendSends ==
    ASSUME NEW K, NEW W \in Int, NEW e, Good(e, K, W), NEW cwnd \in Wide,
           NEW flags \in {"none", "immediate", "delayed"}
    PROVE  Sends(e, AttemptSend(e, flags, cwnd), K, W)
<1> DEFINE P == {a \in Rounds : Sends(e, a.e, K, W)}
           a0 == FirstRound(e, flags)
<1>1. e \in Endpoint
    BY DEF Good
<1>2. a0 \in Rounds /\ a0.e = e
    BY <1>1 DEF Rounds, FirstRound
<1>3. a0 \in P
    BY <1>2, SendsSelf
<1>4. ASSUME NEW a \in P PROVE SendRound(a, cwnd) \in P
    <2>1. Good(a.e, K, W)
        BY SendsGood
    <2>2. SendRound(a, cwnd) \in Rounds /\ Sends(a.e, SendRound(a, cwnd).e, K, W)
        BY <2>1, RoundSends
    <2> QED
        BY <1>1, <2>2, SendsTrans
<1> HIDE DEF P
<1>5. \E a \in P : AttemptSend(e, flags, cwnd) = a.e
    BY <1>1, <1>3, <1>4, AttemptSendIn
<1> QED
    BY <1>5 DEF P

-----------------------------------------------------------------------------
(***************************************************************************)
(* Queueing data.                                                           *)
(***************************************************************************)
\* The list of segments after n units were queued.
QueueList(slist, total, n, ctl) ==
    IF slist # <<>> /\ Last(slist).ctl = ctl /\ Last(slist).xmit = 0
    THEN [slist EXCEPT ![Len(slist)].len = @ + n]
    ELSE Append(slist, [seq |-> total, len |-> n, xmit |-> 0, ctl |-> ctl])

\* A segment that grows at its end.
Longer(s, n) == [s EXCEPT !.len = @ + n]
\* A segment that grows still begins where it did.
LEMMA LongerSegment ==
    ASSUME NEW s \in Segments, NEW n \in Nat
    PROVE  /\ Longer(s, n) \in Segments /\ Longer(s, n).seq = s.seq /\ EndOf(Longer(s, n)) = EndOf(s) + n
           /\ Longer(s, n).ctl = s.ctl /\ Longer(s, n).xmit = s.xmit
<1>1. s.seq \in Nat /\ s.len \in Nat /\ s.len > 0
    BY DEF Segments
<1>2. s.len + n \in Nat \ {0}
    BY <1>1
<1>3. /\ Longer(s, n) \in Segments /\ Longer(s, n).seq = s.seq /\ Longer(s, n).len = s.len + n
      /\ Longer(s, n).ctl = s.ctl /\ Longer(s, n).xmit = s.xmit
    BY <1>2 DEF Segments, Longer
<1>4. EndOf(Longer(s, n)) = EndOf(s) + n
    BY <1>1, <1>3 DEF EndOf
<1> QED
    BY <1>3, <1>4

\* Queued data makes the tiling longer at its end, whether the last segment grows or
\* another one is added.
LEMMA QueueListTiles ==
    ASSUME NEW s \in Seq(Segments), NEW una \in Nat, NEW total \in Nat, NEW nxt \in Nat,
           una <= total, nxt <= total, NEW n \in Nat, n > 0, NEW ctl \in BOOLEAN,
           Chain(s, una, total), Kinds(s), Marked(s, nxt),
           ctl => total = 0 /\ n = CtlLen, ~ctl => total >= CtlLen
    PROVE  LET t == QueueList(s, total, n, ctl) IN
           /\ t \in Seq(Segments) /\ Chain(t, una, total + n) /\ Kinds(t) /\ Marked(t, nxt)
           /\ \A m : Reach(s, una, nxt, m) => Reach(t, una, nxt, m)
<1> DEFINE t == QueueList(s, total, n, ctl)
           L == Len(s)
<1>1. /\ DOMAIN s = 1 .. L /\ L \in Nat /\ (s = <<>> <=> L = 0)
      /\ \A i \in 1 .. L : s[i] \in Segments /\ s[i].seq \in Nat /\ EndOf(s[i]) \in Nat /\ s[i].seq < EndOf(s[i])
      /\ \A i \in 1 .. L : s[i].ctl \in BOOLEAN /\ s[i].xmit \in Nat
    BY ListFields
<1>2. CtlLen \in Nat
    BY Sizes
<1>3. CASE s # <<>> /\ s[L].ctl = ctl /\ s[L].xmit = 0
    <2> DEFINE a == Longer(s[L], n)
    <2>1. L \in 1 .. L /\ L > 0
        BY <1>1, <1>3
    <2>2. t = [s EXCEPT ![L] = a]
        BY <1>3 DEF QueueList, Longer, Last
    <2>3. a \in Segments /\ a.seq = s[L].seq /\ EndOf(a) = EndOf(s[L]) + n /\ a.ctl = ctl /\ a.xmit = 0
        BY <1>1, <1>3, <2>1, LongerSegment
    <2>4. EndOf(s[L]) = total /\ nxt <= s[L].seq
        BY <1>1, <1>3, <2>1, SMTT(40) DEF Chain, Marked
    <2> HIDE DEF a
    <2>5. IsPut([s EXCEPT ![L] = a], Segments, s, L, a)
        BY <1>1, <2>1, <2>3, PutMember
    <2>6. /\ t \in Seq(Segments) /\ Len(t) = L /\ t[L] = a
          /\ \A i \in 1 .. L : i # L => t[i] = s[i]
        BY <1>1, <2>2, <2>5 DEF IsPut
    <2>7. DOMAIN t = 1 .. L /\ t # <<>>
        BY <2>1, <2>6, ListFields
    <2> HIDE DEF t, L
    <2>8. Chain(t, una, total + n)
        <3>1. ASSUME NEW i \in 1 .. L PROVE una <= t[i].seq /\ EndOf(t[i]) <= total + n
            <4>1. una <= s[i].seq /\ EndOf(s[i]) <= total
                BY <1>1 DEF Chain
            <4> QED
                BY <1>1, <2>3, <2>4, <2>6, <4>1, SMTT(40)
        <3>2. ASSUME NEW i \in 1 .. L, NEW j \in 1 .. L, i < j PROVE EndOf(t[i]) <= t[j].seq
            <4>1. EndOf(s[i]) <= s[j].seq
                BY <1>1, <3>2 DEF Chain
            <4>2. i # L
                BY <1>1, <3>2
            <4> QED
                BY <2>3, <2>6, <4>1, <4>2
        <3>3. ASSUME NEW i \in 1 .. L, i + 1 \in 1 .. L PROVE t[i + 1].seq = EndOf(t[i])
            <4>1. s[i + 1].seq = EndOf(s[i])
                BY <1>1, <3>3 DEF Chain
            <4>2. i # L
                BY <1>1, <3>3
            <4> QED
                BY <2>3, <2>6, <3>3, <4>1, <4>2
        <3>4. t[1].seq = una
            <4>1. s[1].seq = una /\ 1 \in 1 .. L
                BY <1>3, <2>1 DEF Chain
            <4> QED
                BY <2>3, <2>6, <4>1
        <3>5. EndOf(t[Len(t)]) = total + n
            BY <2>3, <2>4, <2>6
        <3> QED
            BY <2>7, <3>1, <3>2, <3>3, <3>4, <3>5 DEF Chain
    <2>9. Kinds(t)
        <3> SUFFICES ASSUME NEW i \in 1 .. L
                     PROVE  Kind(t[i])
            BY <2>7 DEF Kinds
        <3>1. Kind(s[i])
            BY <1>1 DEF Kinds
        <3>2. CASE i = L
            <4>1. ~ctl
                BY <1>1, <2>1, <2>4
            <4> QED
                BY <1>3, <2>3, <2>6, <3>1, <3>2, <4>1 DEF Kind
        <3>3. CASE i # L
            BY <2>6, <3>1, <3>3
        <3> QED
            BY <3>2, <3>3
    <2>10. Marked(t, nxt)
        <3> SUFFICES ASSUME NEW i \in 1 .. L PROVE t[i].xmit > 0 <=> t[i].seq < nxt
            BY <2>7 DEF Marked
        <3>1. s[i].xmit > 0 <=> s[i].seq < nxt
            BY <1>1 DEF Marked
        <3>2. CASE i = L
            BY <1>3, <2>3, <2>6, <3>1, <3>2
        <3>3. CASE i # L
            BY <2>6, <3>1, <3>3
        <3> QED
            BY <3>2, <3>3
    <2>11. ASSUME NEW m, Reach(s, una, nxt, m) PROVE Reach(t, una, nxt, m)
        <3>1. CASE m <= una
            BY <2>11, <3>1 DEF Reach
        <3>2. CASE m <= nxt /\ \E i \in 1 .. L : m = EndOf(s[i])
            <4>1. PICK i \in 1 .. L : m = EndOf(s[i])
                BY <3>2
            <4>2. i # L
                BY <1>1, <2>1, <2>4, <3>2, <4>1
            <4> QED
                BY <2>6, <2>7, <2>11, <3>2, <4>1, <4>2 DEF Reach
        <3> QED
            BY <1>1, <2>11, <3>1, <3>2 DEF Reach
    <2> QED
        BY <2>6, <2>8, <2>9, <2>10, <2>11 DEF t
<1>4. CASE ~(s # <<>> /\ s[L].ctl = ctl /\ s[L].xmit = 0)
    <2> DEFINE a == [seq |-> total, len |-> n, xmit |-> 0, ctl |-> ctl]
    <2>1. t = Append(s, a)
        BY <1>4 DEF QueueList, Last
    <2>2. a \in Segments /\ a.seq = total /\ EndOf(a) = total + n /\ a.ctl = ctl /\ a.xmit = 0
        BY DEF Segments, EndOf
    <2> HIDE DEF a
    <2>3. /\ t \in Seq(Segments) /\ Len(t) = L + 1 /\ t[L + 1] = a
          /\ \A i \in 1 .. L : t[i] = s[i]
        BY <2>1, <2>2, AppendProperties
    <2>4. DOMAIN t = 1 .. L + 1 /\ t # <<>>
        BY <1>1, <2>3, ListFields
    <2> HIDE DEF t, L
    <2>5. ASSUME NEW i \in 1 .. L + 1 PROVE i \in 1 .. L \/ i = L + 1
        BY <1>1
    <2>6. Chain(t, una, total + n)
        <3>1. ASSUME NEW i \in 1 .. L + 1 PROVE una <= t[i].seq /\ EndOf(t[i]) <= total + n
            <4>1. CASE i \in 1 .. L
                <5>1. una <= s[i].seq /\ EndOf(s[i]) <= total
                    BY <1>1, <4>1 DEF Chain
                <5> QED
                    BY <1>1, <2>3, <4>1, <5>1, SMTT(40)
            <4>2. CASE i = L + 1
                BY <2>2, <2>3, <4>2
            <4> QED
                BY <2>5, <4>1, <4>2
        <3>2. ASSUME NEW i \in 1 .. L + 1, NEW j \in 1 .. L + 1, i < j PROVE EndOf(t[i]) <= t[j].seq
            <4>1. i \in 1 .. L
                BY <1>1, <3>2
            <4>2. CASE j \in 1 .. L
                <5>1. EndOf(s[i]) <= s[j].seq
                    BY <1>1, <3>2, <4>1, <4>2 DEF Chain
                <5> QED
                    BY <2>3, <4>1, <4>2, <5>1
            <4>3. CASE j = L + 1
                <5>1. EndOf(s[i]) <= total
                    BY <1>1, <4>1 DEF Chain
                <5> QED
                    BY <2>2, <2>3, <4>1, <4>3, <5>1
            <4> QED
                BY <2>5, <4>2, <4>3
        <3>3. ASSUME NEW i \in 1 .. L + 1, i + 1 \in 1 .. L + 1 PROVE t[i + 1].seq = EndOf(t[i])
            <4>1. i \in 1 .. L
                BY <1>1, <3>3
            <4>2. CASE i + 1 \in 1 .. L
                <5>1. s[i + 1].seq = EndOf(s[i])
                    BY <1>1, <4>1, <4>2 DEF Chain
                <5> QED
                    BY <2>3, <4>1, <4>2, <5>1
            <4>3. CASE i + 1 = L + 1
                <5>1. i = L /\ L # 0 /\ L \in 1 .. L
                    BY <1>1, <4>1, <4>3
                <5>2. EndOf(s[L]) = total
                    BY <1>1, <5>1 DEF Chain, L
                <5> QED
                    BY <2>2, <2>3, <4>3, <5>1, <5>2
            <4> QED
                BY <2>5, <3>3, <4>2, <4>3
        <3>4. t[1].seq = una
            <4>1. CASE L = 0
                <5>1. una = total
                    BY <1>1, <4>1 DEF Chain
                <5> QED
                    BY <2>2, <2>3, <4>1, <5>1
            <4>2. CASE L # 0
                <5>1. s[1].seq = una /\ 1 \in 1 .. L
                    BY <1>1, <4>2 DEF Chain
                <5> QED
                    BY <2>3, <5>1
            <4> QED
                BY <4>1, <4>2
        <3>5. EndOf(t[Len(t)]) = total + n
            BY <2>2, <2>3
        <3> QED
            BY <2>4, <3>1, <3>2, <3>3, <3>4, <3>5 DEF Chain
    <2>7. Kinds(t)
        <3> SUFFICES ASSUME NEW i \in 1 .. L + 1
                     PROVE  Kind(t[i])
            BY <2>4 DEF Kinds
        <3>1. CASE i \in 1 .. L
            <4>1. Kind(s[i])
                BY <1>1, <3>1 DEF Kinds
            <4> QED
                BY <2>3, <3>1, <4>1
        <3>2. CASE i = L + 1
            BY <1>2, <2>2, <2>3, <3>2 DEF Kind
        <3> QED
            BY <2>5, <3>1, <3>2
    <2>8. Marked(t, nxt)
        <3> SUFFICES ASSUME NEW i \in 1 .. L + 1 PROVE t[i].xmit > 0 <=> t[i].seq < nxt
            BY <2>4 DEF Marked
        <3>1. CASE i \in 1 .. L
            <4>1. s[i].xmit > 0 <=> s[i].seq < nxt
                BY <1>1, <3>1 DEF Marked
            <4> QED
                BY <2>3, <3>1, <4>1
        <3>2. CASE i = L + 1
            BY <2>2, <2>3, <3>2
        <3> QED
            BY <2>5, <3>1, <3>2
    <2>9. ASSUME NEW m, Reach(s, una, nxt, m) PROVE Reach(t, una, nxt, m)
        <3>1. \A i \in 1 .. L : i \in DOMAIN t
            BY <1>1, <2>4
        <3> QED
            BY <1>1, <2>3, <2>9, <3>1 DEF Reach
    <2> QED
        BY <2>3, <2>6, <2>7, <2>8, <2>9 DEF t
<1> QED
    BY <1>3, <1>4

\* Queueing what comes next in the stream.
Queued(e, f, n) ==
    /\ Keeps(e, f) /\ Edge(f) = Edge(e) /\ Total(f) = Total(e) + n
    /\ f.state = e.state /\ f.shutdown = e.shutdown /\ f.snd_una = e.snd_una /\ f.snd_nxt = e.snd_nxt
    /\ f.snd_wnd = e.snd_wnd /\ f.rcv_nxt = e.rcv_nxt /\ f.rcv_wnd = e.rcv_wnd
    /\ f.rbuf = e.rbuf /\ f.rfree = e.rfree /\ f.rlist = e.rlist /\ f.readEnable = e.readEnable
    /\ f.out = e.out /\ f.t_ack = e.t_ack

\* Queue preserves the invariant of an endpoint when the data is the next of the stream.
LEMMA QueueGood ==
    ASSUME NEW K, NEW W \in Int, NEW e, Good(e, K, W), NEW ctl \in BOOLEAN,
           NEW data \in Seq(Int), NEW n \in Nat, n > 0, Size(data) = n,
           Size(e.sbuf) + n <= SndCap,
           \A i \in 1 .. n : data[i] = Unit(Total(e) + i - 1),
           ctl => Total(e) = 0 /\ n = CtlLen, ~ctl => Total(e) >= CtlLen,
           CtlLen <= e.snd_una + e.snd_wnd
    PROVE  Good(Queue(e, data, ctl), K, W) /\ Queued(e, Queue(e, data, ctl), n)
<1> DEFINE f == Queue(e, data, ctl)
           t == QueueList(e.slist, Total(e), n, ctl)
           buf == e.sbuf \o data
<1>1. e \in Endpoint /\ Tile(e)
    BY DEF Good, SendOK
<1>2. e.slist \in Seq(Segments) /\ e.sbuf \in Seq(Int)
    BY <1>1, EndpointFields
<1>3. /\ e.snd_una \in Nat /\ e.snd_nxt \in Nat /\ Total(e) \in Nat /\ Size(e.sbuf) \in Nat
      /\ Total(e) = e.snd_una + Size(e.sbuf) /\ e.snd_una <= e.snd_nxt /\ e.snd_nxt <= Total(e)
      /\ e.snd_una <= Total(e)
    BY <1>1, EndpointNumbers, NxtInBuffer, SMTT(40)
<1>4. /\ Chain(e.slist, e.snd_una, Total(e)) /\ Kinds(e.slist) /\ Marked(e.slist, e.snd_nxt)
      /\ Reach(e.slist, e.snd_una, e.snd_nxt, e.snd_nxt) /\ Content(e)
    BY DEF Good, SendOK, Tile, Reached
<1>5. /\ t \in Seq(Segments) /\ Chain(t, e.snd_una, Total(e) + n) /\ Kinds(t) /\ Marked(t, e.snd_nxt)
      /\ \A m : Reach(e.slist, e.snd_una, e.snd_nxt, m) => Reach(t, e.snd_una, e.snd_nxt, m)
    BY <1>2, <1>3, <1>4, QueueListTiles
<1>c. buf \in Seq(Int)
    BY <1>2
<1>6. /\ Size(buf) = Size(e.sbuf) + n
      /\ \A i \in 1 .. Size(e.sbuf) + n : buf[i] = IF i <= Size(e.sbuf) THEN e.sbuf[i] ELSE data[i - Size(e.sbuf)]
    BY <1>2, ConcatProperties, ZenonT(40) DEF Size
<1>d. DOMAIN buf = 1 .. Size(e.sbuf) + n /\ DOMAIN e.sbuf = 1 .. Size(e.sbuf)
    BY <1>2, <1>6, <1>c DEF Size
<1>7. f = [e EXCEPT !.sbuf = buf, !.slist = t]
    <2>1. f = [e EXCEPT !.sbuf = buf, !.slist = QueueList(e.slist, Total(e), Size(data), ctl)]
        BY DEF Queue, QueueList, Total, Size
    <2> QED
        BY <2>1
<1> HIDE DEF f, t, buf
<1>8. f \in Endpoint
    BY <1>1, <1>5, <1>c, <1>7, ZenonT(40) DEF Endpoint
<1>9. /\ f.sbuf = buf /\ f.slist = t
      /\ f.state = e.state /\ f.shutdown = e.shutdown /\ f.snd_una = e.snd_una /\ f.snd_nxt = e.snd_nxt
      /\ f.snd_wnd = e.snd_wnd /\ f.rcv_nxt = e.rcv_nxt /\ f.rcv_wnd = e.rcv_wnd
      /\ f.rbuf = e.rbuf /\ f.rfree = e.rfree /\ f.rlist = e.rlist /\ f.readEnable = e.readEnable
      /\ f.out = e.out /\ f.t_ack = e.t_ack /\ f.rto = e.rto /\ f.recover = e.recover
    BY <1>1, <1>7 DEF Endpoint
<1>10. Size(buf) = Size(e.sbuf) + n
    BY <1>6
<1>11. Total(f) = Total(e) + n /\ Edge(f) = Edge(e)
    BY <1>3, <1>9, <1>10 DEF Total, Edge
<1>12. \A m : Reached(e, m) => Reached(f, m)
    BY <1>5, <1>9 DEF Reached
<1>13. Queued(e, f, n)
    BY <1>9, <1>11, <1>12 DEF Queued, Keeps
<1>14. Tile(f)
    BY <1>1, <1>5, <1>9, <1>11, <1>12 DEF Tile
<1>15. Content(f)
    <2> SUFFICES ASSUME NEW i \in DOMAIN buf PROVE buf[i] = Unit(e.snd_una + i - 1)
        BY <1>9 DEF Content
    <2>1. i \in 1 .. Size(e.sbuf) + n
        BY <1>d
    <2>2. CASE i <= Size(e.sbuf)
        <3>1. buf[i] = e.sbuf[i] /\ i \in DOMAIN e.sbuf
            BY <1>3, <1>6, <1>d, <2>1, <2>2, SMTT(40)
        <3> QED
            BY <1>4, <3>1 DEF Content
    <2>3. CASE ~(i <= Size(e.sbuf))
        <3>1. buf[i] = data[i - Size(e.sbuf)]
            BY <1>6, <2>1, <2>3
        <3>2. i - Size(e.sbuf) \in 1 .. n /\ Total(e) + (i - Size(e.sbuf)) - 1 = e.snd_una + i - 1
            <4> DEFINE h == Size(e.sbuf)
                       una == e.snd_una
            <4>1. h \in Nat /\ una \in Nat /\ Total(e) = una + h /\ i \in Int /\ i <= h + n /\ i > h
                BY <1>3, <2>1, <2>3
            <4> HIDE DEF h, una
            <4>2. i - h \in 1 .. n
                BY <4>1
            <4>3. (una + h) + (i - h) - 1 = una + i - 1
                BY <4>1
            <4> QED
                BY <4>1, <4>2, <4>3 DEF h, una
        <3>3. data[i - Size(e.sbuf)] = Unit(Total(e) + (i - Size(e.sbuf)) - 1)
            BY <3>2
        <3> QED
            BY <3>1, <3>2, <3>3
    <2> QED
        BY <2>2, <2>3
<1>16. SendOK(f)
    <2>1. Size(f.sbuf) <= SndCap
        BY <1>9, <1>10
    <2> QED
        BY <1>5, <1>9, <1>14, <1>15, <2>1 DEF Good, SendOK
<1>17. RecvOK(f)
    BY <1>9, <1>11 DEF Good, RecvOK
<1>18. OutOK(f, K)
    <2> SUFFICES ASSUME NEW p \in e.out PROVE PacketOK(p, f, K)
        BY <1>9 DEF OutOK
    <2>1. PacketOK(p, e, K) /\ p \in Packets
        BY <1>1, EndpointFields DEF Good, OutOK
    <2>2. DataOK(p, Total(f))
        <3>1. p.seq \in Int /\ Size(p.data) \in Nat
            BY <2>1 DEF Packets, Size
        <3> QED
            BY <1>3, <1>11, <2>1, <3>1, Sizes, SMTT(40) DEF PacketOK, DataOK
    <2> QED
        BY <1>11, <1>12, <2>1, <2>2 DEF PacketOK
<1>19. Roomy(f)
    BY <1>9 DEF Roomy
<1>20. Good(f, K, W)
    BY <1>8, <1>9, <1>16, <1>17, <1>18, <1>19 DEF Good
<1> QED
    BY <1>13, <1>20 DEF f

\* The connect message, queued by an endpoint that has sent nothing yet.
LEMMA ConnectGood ==
    ASSUME NEW K, NEW W \in Int, NEW e, Good(e, K, W), e.snd_una = 0, e.sbuf = <<>>, CtlLen <= W
    PROVE  LET f == QueueConnectMessage(e) IN
           /\ Good(f, K, W) /\ Keeps(e, f) /\ Edge(f) = Edge(e) /\ Total(f) = CtlLen
           /\ f.state = e.state /\ f.shutdown = e.shutdown /\ f.rbuf = e.rbuf
           /\ f.readEnable = e.readEnable /\ f.snd_una = 0 /\ f.snd_nxt = e.snd_nxt
           /\ f.snd_wnd = CtlLen /\ f.rfree = e.rfree /\ f.rlist = e.rlist /\ f.rcv_nxt = e.rcv_nxt
           /\ f.out = e.out /\ f.t_ack = e.t_ack /\ f.rcv_wnd = e.rcv_wnd
<1> DEFINE g == [e EXCEPT !.snd_wnd = CtlLen]
           data == [i \in 1 .. CtlLen |-> Ctl]
           f == QueueConnectMessage(e)
<1>1. e \in Endpoint /\ CtlLen \in Nat /\ CtlLen > 0
    BY Sizes DEF Good
<1>2. g \in Endpoint
    BY <1>1, ZenonT(40) DEF Endpoint
<1>3. /\ g.snd_una = 0 /\ g.snd_nxt = e.snd_nxt /\ g.snd_wnd = CtlLen /\ g.sbuf = <<>>
      /\ g.slist = e.slist /\ g.rcv_nxt = e.rcv_nxt /\ g.rcv_wnd = e.rcv_wnd /\ g.rbuf = e.rbuf
      /\ g.rfree = e.rfree /\ g.rlist = e.rlist /\ g.rto = e.rto /\ g.out = e.out
      /\ g.recover = e.recover /\ g.state = e.state /\ g.shutdown = e.shutdown
      /\ g.readEnable = e.readEnable /\ g.t_ack = e.t_ack
    BY <1>1 DEF Endpoint
<1> HIDE DEF g
<1>4. Total(g) = Total(e) /\ Edge(g) = Edge(e) /\ \A n : Reached(e, n) <=> Reached(g, n)
    BY <1>3 DEF Total, Edge, Reached
<1>5. Good(g, K, W)
    <2>1. Tile(g)
        BY <1>3, <1>4 DEF Good, SendOK, Tile
    <2>2. Content(g)
        BY <1>3 DEF Good, SendOK, Content
    <2>3. SendOK(g)
        BY <1>3, <2>1, <2>2 DEF Good, SendOK
    <2>4. RecvOK(g)
        BY <1>3, <1>4 DEF Good, RecvOK
    <2>5. OutOK(g, K)
        BY <1>3, <1>4 DEF Good, OutOK, PacketOK
    <2>6. Roomy(g)
        BY <1>1, <1>3 DEF Roomy
    <2> QED
        BY <1>1, <1>2, <1>3, <2>3, <2>4, <2>5, <2>6 DEF Good
<1>6. Total(g) = 0
    <2>1. Size(<<>>) = 0
        BY DEF Size
    <2> QED
        BY <1>3, <2>1 DEF Total
<1>7. data \in Seq(Int) /\ Size(data) = CtlLen
    BY <1>1 DEF Ctl, Size
<1>8. ASSUME NEW i \in 1 .. CtlLen PROVE data[i] = Unit(Total(g) + i - 1)
    BY <1>1, <1>6 DEF Unit, Ctl
<1>9. f = Queue(g, data, TRUE)
    BY DEF QueueConnectMessage, g
<1> HIDE DEF data
<1>10. Good(f, K, W) /\ Queued(g, f, CtlLen)
    <2>1. Total(g) = 0 /\ CtlLen <= g.snd_una + g.snd_wnd
        BY <1>1, <1>3, <1>6
    <2>2. Size(g.sbuf) + CtlLen <= SndCap
        <3>1. Size(<<>>) = 0
            BY DEF Size
        <3> QED
            BY <1>1, <1>3, <3>1, SizeAssumption
    <2> QED
        BY <1>1, <1>5, <1>7, <1>8, <1>9, <2>1, <2>2, QueueGood
<1> HIDE DEF f
<1>11. Total(f) = CtlLen
    BY <1>1, <1>6, <1>10 DEF Queued
<1>12. Keeps(e, f)
    BY <1>4, <1>10 DEF Queued, Keeps
<1> QED
    BY <1>3, <1>4, <1>10, <1>11, <1>12 DEF Queued, f

-----------------------------------------------------------------------------
(***************************************************************************)
(* Acknowledged segments.                                                   *)
(***************************************************************************)
IsFreeing(f, s, N) == f = [n \in 0 .. N |-> IF n = 0 THEN s ELSE FreeUnit(f[n - 1])]

\* The recursive function of Free exists.
LEMMA FreeingDefined ==
    ASSUME NEW a
    PROVE  \A N \in Nat : \E f : IsFreeing(f, a, N)
<1> DEFINE S == {k \in Nat : \E f : IsFreeing(f, a, k)}
<1>1. 0 \in S
    <2> DEFINE f == [n \in 0 .. 0 |-> a]
    <2>1. IsFreeing(f, a, 0)
        BY DEF IsFreeing
    <2> QED
        BY <2>1
<1>2. ASSUME NEW k \in Nat, k \in S PROVE k + 1 \in S
    <2>1. PICK f : IsFreeing(f, a, k)
        BY <1>2
    <2> DEFINE g == [n \in 0 .. k + 1 |-> IF n <= k THEN f[n] ELSE FreeUnit(f[k])]
    <2>2. IsFreeing(g, a, k + 1)
        <3> HIDE DEF S
        <3> SUFFICES ASSUME NEW n \in 0 .. k + 1
                     PROVE  g[n] = IF n = 0 THEN a ELSE FreeUnit(g[n - 1])
            BY DEF IsFreeing
        <3>1. CASE n <= k
            <4>1. g[n] = f[n]
                BY <3>1
            <4>2. n # 0 => g[n - 1] = f[n - 1]
                BY <3>1
            <4>3. f[n] = IF n = 0 THEN a ELSE FreeUnit(f[n - 1])
                BY <2>1, <3>1 DEF IsFreeing
            <4> QED
                BY <4>1, <4>2, <4>3
        <3>2. CASE n = k + 1
            BY <3>2
        <3> QED
            BY <3>1, <3>2
    <2> HIDE DEF g
    <2> QED
        BY <2>2
<1> HIDE DEF S
<1>3. Nat \subseteq S
    BY <1>1, <1>2, Induction
<1> QED
    BY <1>3 DEF S

\* t is s without its first d segments and without what its first segment
\* then has below `at'.
Rest(s, q, at) == q.seq = s.seq /\ q.xmit = s.xmit /\ q.ctl = s.ctl /\ q.len = EndOf(s) - at
Freed(t, s, d, at) ==
    /\ t \in Seq(Segments) /\ Len(t) = Len(s) - d
    /\ \A i \in 2 .. Len(t) : t[i] = s[d + i]
    /\ Len(t) > 0 => /\ s[d + 1].seq <= at /\ at < EndOf(s[d + 1])
                     /\ Rest(s[d + 1], t[1], at)

\* One unit more is freed: the first segment gets shorter, or goes.
LEMMA FreeOneUnit ==
    ASSUME NEW s \in Seq(Segments), NEW una \in Nat, NEW total \in Nat, Chain(s, una, total),
           NEW at \in Nat, at < total, NEW t, NEW d \in Nat, d <= Len(s), Freed(t, s, d, at),
           Len(s) - d = 0 => at = total
    PROVE  \E c \in Nat : /\ c <= Len(s) /\ Freed(FreeUnit(t), s, c, at + 1)
                          /\ Len(s) - c = 0 => at + 1 = total
<1> DEFINE L == Len(s)
           M == Len(t)
<1>1. /\ DOMAIN s = 1 .. L /\ L \in Nat
      /\ \A i \in 1 .. L : s[i] \in Segments /\ s[i].seq \in Nat /\ s[i].len \in Nat /\ s[i].len > 0
      /\ \A i \in 1 .. L : EndOf(s[i]) \in Nat /\ s[i].seq < EndOf(s[i]) /\ EndOf(s[i]) = s[i].seq + s[i].len
    BY ListFields
<1>2. /\ t \in Seq(Segments) /\ M = L - d /\ (\A i \in 2 .. M : t[i] = s[d + i])
      /\ M \in Nat /\ DOMAIN t = 1 .. M
      /\ M > 0 => /\ s[d + 1].seq <= at /\ at < EndOf(s[d + 1])
                  /\ Rest(s[d + 1], t[1], at)
    BY ListFields DEF Freed
<1>3. M > 0 /\ d + 1 \in 1 .. L
    <2> HIDE DEF L, M
    <2>1. M # 0
        BY <1>2 DEF L
    <2>2. L \in Nat /\ M \in Nat /\ M = L - d
        BY <1>1, <1>2
    <2> QED
        BY <2>1, <2>2
<1>e. \A i \in 2 .. M : t[i] = s[d + i]
    BY <1>2, SMTT(40)
<1>n. M \in Nat /\ M = L - d /\ L \in Nat
    BY <1>1, <1>2
<1>p. s[d + 1].seq <= at /\ at < EndOf(s[d + 1]) /\ s[d + 1].seq \in Nat /\ EndOf(s[d + 1]) \in Nat
    BY <1>1, <1>2, <1>3
<1>4. /\ t[1] \in Segments /\ t[1].len \in Nat /\ t[1].len > 0 /\ t[1].len = EndOf(s[d + 1]) - at
      /\ Head(t) = t[1]
    BY <1>2, <1>3, ListFields DEF Rest
<1>5. CASE t[1].len = 1
    <2>1. FreeUnit(t) = Tail(t)
        BY <1>4, <1>5 DEF FreeUnit
    <2> DEFINE u == Tail(t)
    <2>2. /\ u \in Seq(Segments) /\ Len(u) = M - 1
          /\ \A i \in 1 .. M - 1 : u[i] = t[i + 1]
        <3>1. t # <<>>
            BY <1>3
        <3> QED
            BY <1>2, <3>1, HeadTailProperties
    <2> HIDE DEF u, L, M
    <2>e. \A i \in 1 .. M - 1 : u[i] = t[i + 1]
        BY <2>2
    <2>3. \A i \in 1 .. M - 1 : u[i] = s[(d + 1) + i]
        <3> SUFFICES ASSUME NEW i \in 1 .. M - 1 PROVE u[i] = s[(d + 1) + i]
            OBVIOUS
        <3>1. i + 1 \in 2 .. M /\ d + (i + 1) = (d + 1) + i
            BY <1>n
        <3>2. u[i] = t[i + 1] /\ t[i + 1] = s[d + (i + 1)]
            BY <1>e, <2>e, <3>1
        <3> QED
            BY <3>1, <3>2
    <2>4. EndOf(s[d + 1]) = at + 1
        BY <1>1, <1>3, <1>4, <1>5, SMTT(40)
    <2>5. Freed(u, s, d + 1, at + 1)
        <3>1. Len(u) = L - (d + 1)
            BY <1>1, <1>2, <2>2
        <3>2. \A i \in 2 .. Len(u) : u[i] = s[(d + 1) + i]
            BY <1>2, <2>2, <2>3, SMTT(40)
        <3>3. ASSUME Len(u) > 0
              PROVE  /\ s[(d + 1) + 1].seq <= at + 1 /\ at + 1 < EndOf(s[(d + 1) + 1])
                     /\ Rest(s[(d + 1) + 1], u[1], at + 1)
            <4>1. 1 \in 1 .. M - 1 /\ (d + 1) + 1 \in 1 .. L
                BY <1>1, <1>2, <2>2, <3>3
            <4>2. s[(d + 1) + 1].seq = EndOf(s[d + 1])
                BY <1>1, <1>3, <4>1 DEF Chain
            <4>3. u[1] = s[(d + 1) + 1]
                BY <2>3, <4>1
            <4> DEFINE q == s[(d + 1) + 1]
            <4>4. q.seq \in Nat /\ q.len \in Nat /\ q.len > 0 /\ EndOf(q) = q.seq + q.len /\ q.seq = at + 1
                BY <1>1, <2>4, <4>1, <4>2
            <4> HIDE DEF q
            <4>5. q.seq <= at + 1 /\ at + 1 < EndOf(q) /\ q.len = EndOf(q) - (at + 1)
                BY <4>4
            <4>6. Rest(q, q, at + 1)
                BY <4>5 DEF Rest
            <4> QED
                BY <4>3, <4>5, <4>6 DEF q
        <3> QED
            BY <2>2, <3>1, <3>2, <3>3 DEF Freed, L
    <2>6. L - (d + 1) = 0 => at + 1 = total
        <3> SUFFICES ASSUME L - (d + 1) = 0 PROVE at + 1 = total
            OBVIOUS
        <3>1. d + 1 = L /\ L > 0
            BY <1>1, <1>3
        <3>2. EndOf(s[L]) = total
            BY <1>1, <3>1 DEF Chain, L
        <3> QED
            BY <2>4, <3>1, <3>2
    <2>7. d + 1 \in Nat /\ d + 1 <= L
        BY <1>1, <1>3
    <2> QED
        BY <2>1, <2>5, <2>6, <2>7 DEF u, L
<1>6. CASE t[1].len # 1
    <2> DEFINE a == [t[1] EXCEPT !.len = @ - 1]
               u == [t EXCEPT ![1] = a]
    <2>1. FreeUnit(t) = u
        BY <1>4, <1>6 DEF FreeUnit
    <2>2. /\ a \in Segments /\ a.seq = t[1].seq /\ a.xmit = t[1].xmit /\ a.ctl = t[1].ctl
          /\ a.len = t[1].len - 1
        <3>1. t[1].len - 1 \in Nat \ {0}
            BY <1>4, <1>6
        <3> QED
            BY <1>4, <3>1 DEF Segments
    <2> HIDE DEF a
    <2>3. IsPut(u, Segments, t, 1, a)
        <3>1. 1 \in DOMAIN t
            BY <1>2, <1>3
        <3> QED
            BY <1>2, <2>2, <3>1, PutMember
    <2>4. /\ u \in Seq(Segments) /\ Len(u) = M /\ u[1] = a
          /\ \A i \in 1 .. M : i # 1 => u[i] = t[i]
        BY <1>2, <2>3 DEF IsPut
    <2> HIDE DEF u, M, L
    <2>5. \A i \in 2 .. M : u[i] = s[d + i]
        <3> SUFFICES ASSUME NEW i \in 2 .. M PROVE u[i] = s[d + i]
            OBVIOUS
        <3>1. i \in 1 .. M /\ i # 1
            BY <1>2
        <3> QED
            BY <1>2, <2>4, <3>1
    <2>6. at + 1 < EndOf(s[d + 1]) /\ s[d + 1].seq <= at + 1 /\ a.len = EndOf(s[d + 1]) - (at + 1)
        <3> DEFINE end == EndOf(s[d + 1])
                   len == t[1].len
        <3>1. end \in Nat /\ at < end /\ len \in Nat /\ len > 0 /\ len # 1 /\ len = end - at /\ a.len = len - 1
            BY <1>4, <1>6, <1>p, <2>2
        <3> HIDE DEF end, len
        <3>2. at + 1 < end /\ a.len = end - (at + 1)
            BY <3>1
        <3> QED
            BY <1>p, <3>2 DEF end
    <2>7. Rest(s[d + 1], a, at + 1)
        BY <1>2, <1>3, <2>2, <2>6 DEF Rest
    <2>8. Freed(u, s, d, at + 1)
        BY <1>2, <2>4, <2>5, <2>6, <2>7 DEF Freed, L
    <2>9. L - d # 0
        BY <1>2, <1>3
    <2> QED
        BY <2>1, <2>8, <2>9 DEF L
<1> QED
    BY <1>5, <1>6

\* Two segments with the same members are the same.
LEMMA SameSegment ==
    ASSUME NEW a \in Segments, NEW b \in Segments,
           a.seq = b.seq, a.len = b.len, a.xmit = b.xmit, a.ctl = b.ctl
    PROVE  a = b
BY DEF Segments

\* t is what is left of the segments s when n units have been acknowledged.
Remains(t, s, una, nxt, n, total) ==
    /\ t \in Seq(Segments) /\ Chain(t, una + n, total) /\ Kinds(t) /\ Marked(t, nxt)
    /\ \A m : Reach(s, una, nxt, m) => Reach(t, una + n, nxt, m)
    /\ una + n <= nxt /\ una + n <= total
    /\ \A i \in DOMAIN t : \E j \in DOMAIN s : t[i] = s[j]

\* Free drops whole segments when it is asked for as much as ends a segment.
LEMMA FreeTiles ==
    ASSUME NEW s \in Seq(Segments), NEW una \in Nat, NEW total \in Nat, NEW nxt \in Nat,
           Chain(s, una, total), Kinds(s), Marked(s, nxt), una <= nxt, Reach(s, una, nxt, nxt),
           NEW n \in Nat, n > 0, Reach(s, una, nxt, una + n)
    PROVE  Remains(Free(s, n), s, una, nxt, n, total)
<1> DEFINE L == Len(s)
           F == CHOOSE f : IsFreeing(f, s, n)
           OK(k) == \E d \in Nat : /\ d <= Len(s) /\ Freed(F[k], s, d, una + k)
                                   /\ Len(s) - d = 0 => una + k = total
           S == {k \in Nat : k <= n => OK(k)}
<1>1. Free(s, n) = F[n]
    BY DEF Free, IsFreeing
<1>2. IsFreeing(F, s, n)
    BY FreeingDefined
<1>3. /\ DOMAIN s = 1 .. L /\ L \in Nat /\ (s = <<>> <=> L = 0)
      /\ \A i \in 1 .. L : s[i] \in Segments /\ s[i].seq \in Nat /\ s[i].len \in Nat /\ s[i].len > 0
      /\ \A i \in 1 .. L : EndOf(s[i]) \in Nat /\ s[i].seq < EndOf(s[i]) /\ EndOf(s[i]) = s[i].seq + s[i].len
    BY ListFields
<1>4. PICK j \in 1 .. L : una + n = EndOf(s[j])
    BY <1>3 DEF Reach
<1>5. una + n <= nxt /\ una + n <= total
    <2>1. EndOf(s[j]) <= total
        BY <1>3 DEF Chain
    <2> QED
        BY <1>4, <2>1 DEF Reach
<1> HIDE DEF F, L
<1>6. 0 \in S
    <2>1. F[0] = s
        BY <1>2 DEF IsFreeing
    <2>2. Freed(s, s, 0, una + 0)
        <3>1. Len(s) = Len(s) - 0 /\ una + 0 = una
            BY <1>3 DEF L
        <3>2. \A i \in 2 .. Len(s) : s[i] = s[0 + i]
            BY <1>3
        <3>3. 1 \in 1 .. L /\ L > 0 /\ s # <<>>
            BY <1>3, <1>4
        <3> DEFINE q == s[1]
        <3>4. q.seq = una /\ q.seq \in Nat /\ q.len \in Nat /\ q.len > 0 /\ EndOf(q) = q.seq + q.len
            BY <1>3, <3>3 DEF Chain
        <3> HIDE DEF q
        <3>5. q.seq <= una /\ una < EndOf(q) /\ q.len = EndOf(q) - una
            BY <3>4
        <3>6. Rest(q, q, una)
            BY <3>5 DEF Rest
        <3> QED
            BY <3>1, <3>2, <3>5, <3>6 DEF Freed, q
    <2>3. Len(s) - 0 # 0
        BY <1>3, <1>4 DEF L
    <2>4. OK(0)
        <3>1. 0 \in Nat /\ 0 <= Len(s)
            BY <1>3 DEF L
        <3> QED
            BY <2>1, <2>2, <2>3, <3>1
    <2> HIDE DEF OK
    <2> QED
        BY <2>4
<1>7. ASSUME NEW k \in Nat, k \in S PROVE k + 1 \in S
    <2> SUFFICES ASSUME k + 1 <= n PROVE OK(k + 1)
        OBVIOUS
    <2>1. k <= n /\ k + 1 \in 0 .. n /\ (k + 1) - 1 = k /\ k + 1 # 0
        OBVIOUS
    <2>2. F[k + 1] = FreeUnit(F[k])
        BY <1>2, <2>1 DEF IsFreeing
    <2>3. PICK d \in Nat : /\ d <= Len(s) /\ Freed(F[k], s, d, una + k)
                           /\ Len(s) - d = 0 => una + k = total
        BY <1>7, <2>1
    <2>4. una + k \in Nat /\ una + k < total /\ (una + k) + 1 = una + (k + 1)
        BY <1>5, <2>1
    <2>5. \E c \in Nat : /\ c <= Len(s) /\ Freed(FreeUnit(F[k]), s, c, (una + k) + 1)
                         /\ Len(s) - c = 0 => (una + k) + 1 = total
        BY <2>3, <2>4, FreeOneUnit
    <2> QED
        BY <2>2, <2>4, <2>5
<1>8. OK(n)
    <2> HIDE DEF OK
    <2>1. Nat \subseteq S
        <3> HIDE DEF S
        <3> QED
            BY <1>6, <1>7, Induction
    <2> QED
        BY <2>1
<1> DEFINE t == F[n]
           at == una + n
           M == Len(t)
<1>9. PICK d \in Nat : /\ d <= L /\ Freed(t, s, d, at) /\ (L - d = 0 => at = total)
    BY <1>8 DEF L
<1> HIDE DEF OK, S, t
<1>10. t \in Seq(Segments) /\ M = L - d /\ M \in Nat /\ DOMAIN t = 1 .. M /\ (t = <<>> <=> M = 0)
    BY <1>9, ListFields DEF Freed, L
<1> HIDE DEF M
<1>11. ASSUME M > 0 PROVE s[d + 1].seq = at /\ t[1] = s[d + 1] /\ d + 1 \in 1 .. L
    <2> DEFINE q == s[d + 1]
    <2>1. d + 1 \in 1 .. L
        BY <1>3, <1>10, <1>11
    <2>2. q.seq <= at /\ at < EndOf(q) /\ Rest(q, t[1], at)
        BY <1>9, <1>11 DEF Freed, M
    <2>3. q \in Segments /\ q.seq \in Nat /\ q.len \in Nat /\ EndOf(q) \in Nat /\ EndOf(q) = q.seq + q.len
        BY <1>3, <2>1
    <2>4. s[j].seq \in Nat /\ EndOf(s[j]) = at /\ s[j].seq < at
        BY <1>3, <1>4
    <2>5. CASE d + 1 < j
        <3>1. EndOf(q) <= s[j].seq
            BY <1>3, <2>1, <2>5 DEF Chain
        <3> QED
            BY <2>2, <2>3, <2>4, <3>1, SMTT(40)
    <2>6. CASE d + 1 = j
        BY <2>2, <2>3, <2>4, <2>6
    <2>7. CASE j < d + 1
        <3>1. EndOf(s[j]) <= q.seq
            BY <1>3, <2>1, <2>7 DEF Chain
        <3>2. q.seq = at
            <4>1. q.seq <= at /\ at <= q.seq /\ at \in Int
                BY <2>2, <2>4, <3>1
            <4> HIDE DEF at, q
            <4> QED
                BY <2>3, <4>1
        <3>3. t[1] \in Segments
            <4>1. 1 \in 1 .. M
                BY <1>10, <1>11
            <4> QED
                BY <1>10, <4>1, ListFields
        <3> HIDE DEF q
        <3>4. t[1].len = q.len
            BY <2>2, <2>3, <3>2 DEF Rest
        <3>5. t[1] = q
            BY <2>2, <2>3, <3>3, <3>4, SameSegment DEF Rest
        <3> QED
            BY <2>1, <3>2, <3>5 DEF q
    <2>8. j \in Int
        OBVIOUS
    <2> QED
        BY <2>5, <2>6, <2>7, <2>8
<1>12. ASSUME NEW i \in 1 .. M PROVE t[i] = s[d + i] /\ d + i \in 1 .. L
    <2>1. d + i \in 1 .. L
        BY <1>3, <1>10
    <2>2. CASE i = 1
        BY <1>10, <1>11, <2>1, <2>2
    <2>3. CASE i # 1
        <3>1. i \in 2 .. M
            BY <1>10, <2>3
        <3> QED
            BY <1>9, <2>1, <3>1 DEF Freed, M
    <2> QED
        BY <2>2, <2>3
<1> HIDE DEF at
<1>a. at \in Nat /\ at = una + n
    BY DEF at
<1>13. ASSUME NEW i \in 1 .. L, ~(i > d) PROVE EndOf(s[i]) <= at
    <2>1. CASE M > 0
        <3>1. d + 1 \in 1 .. L /\ i < d + 1
            BY <1>3, <1>11, <1>13, <2>1
        <3>2. EndOf(s[i]) <= s[d + 1].seq
            BY <1>3, <3>1 DEF Chain
        <3> QED
            BY <1>11, <2>1, <3>2
    <2>2. CASE M = 0
        <3>1. at = total
            BY <1>9, <1>10, <2>2
        <3>2. EndOf(s[i]) <= total
            BY <1>3 DEF Chain
        <3> QED
            BY <3>1, <3>2
    <2> QED
        BY <1>10, <2>1, <2>2
<1>14. Chain(t, at, total)
    <2>1. ASSUME NEW i \in 1 .. M PROVE at <= t[i].seq /\ EndOf(t[i]) <= total
        <3>1. t[i] = s[d + i] /\ d + i \in 1 .. L /\ M > 0
            BY <1>10, <1>12
        <3>2. EndOf(s[d + i]) <= total
            BY <1>3, <3>1 DEF Chain
        <3>3. at <= s[d + i].seq
            <4>1. CASE i = 1
                BY <1>11, <1>a, <3>1, <4>1
            <4>2. CASE i # 1
                <5>1. d + 1 \in 1 .. L /\ d + 1 < d + i
                    BY <1>11, <3>1, <4>2, SMTT(40)
                <5>2. EndOf(s[d + 1]) <= s[d + i].seq
                    BY <1>3, <3>1, <5>1 DEF Chain
                <5>3. s[d + 1].seq = at /\ s[d + 1].seq < EndOf(s[d + 1]) /\ EndOf(s[d + 1]) \in Nat /\ s[d + i].seq \in Nat
                    BY <1>3, <1>11, <3>1, <5>1
                <5> QED
                    BY <1>a, <5>2, <5>3, SMTT(40)
            <4> QED
                BY <4>1, <4>2
        <3> QED
            BY <3>1, <3>2, <3>3
    <2>2. ASSUME NEW i \in 1 .. M, NEW k \in 1 .. M, i < k PROVE EndOf(t[i]) <= t[k].seq
        <3>1. t[i] = s[d + i] /\ d + i \in 1 .. L /\ t[k] = s[d + k] /\ d + k \in 1 .. L /\ d + i < d + k
            BY <1>12, <2>2
        <3> QED
            BY <1>3, <3>1 DEF Chain
    <2>3. ASSUME NEW i \in 1 .. M, i + 1 \in 1 .. M PROVE t[i + 1].seq = EndOf(t[i])
        <3>1. t[i] = s[d + i] /\ d + i \in 1 .. L
            BY <1>12
        <3>2. t[i + 1] = s[d + (i + 1)] /\ d + (i + 1) \in 1 .. L
            BY <1>12, <2>3
        <3>3. d + (i + 1) = (d + i) + 1
            OBVIOUS
        <3>4. s[(d + i) + 1].seq = EndOf(s[d + i])
            BY <1>3, <3>1, <3>2, <3>3 DEF Chain
        <3> QED
            BY <3>1, <3>2, <3>3, <3>4
    <2>4. M = 0 => at = total
        BY <1>9, <1>10
    <2>5. ASSUME M # 0 PROVE t[1].seq = at /\ EndOf(t[M]) = total
        <3>1. M > 0 /\ M \in 1 .. M /\ d + M = L
            BY <1>3, <1>10, <2>5
        <3>2. EndOf(s[L]) = total
            BY <1>3, <1>4 DEF Chain, L
        <3> QED
            BY <1>11, <1>12, <3>1, <3>2
    <2> QED
        BY <1>10, <2>1, <2>2, <2>3, <2>4, <2>5 DEF Chain, M
<1>15. \A i \in DOMAIN t : \E k \in DOMAIN s : t[i] = s[k]
    BY <1>3, <1>10, <1>12
<1>16. Kinds(t) /\ Marked(t, nxt)
    BY <1>15 DEF Kinds, Marked
<1>17. ASSUME NEW m, Reach(s, una, nxt, m) PROVE Reach(t, at, nxt, m)
    <2>1. CASE m <= una
        BY <1>a, <1>17, <2>1 DEF Reach
    <2>2. CASE m <= nxt /\ \E i \in 1 .. L : m = EndOf(s[i])
        <3>1. PICK i \in 1 .. L : m = EndOf(s[i])
            BY <2>2
        <3>2. CASE i > d
            <4>1. i - d \in 1 .. M /\ d + (i - d) = i
                BY <1>3, <1>10, <3>2, SMTT(40)
            <4>2. t[i - d] = s[i]
                BY <1>12, <4>1
            <4> QED
                BY <1>10, <1>17, <2>2, <3>1, <4>1, <4>2 DEF Reach
        <3>3. CASE ~(i > d)
            BY <1>13, <1>17, <3>1, <3>3 DEF Reach
        <3> QED
            BY <3>2, <3>3
    <2> QED
        BY <1>3, <1>17, <2>1, <2>2 DEF Reach
<1>18. /\ F[n] \in Seq(Segments) /\ Chain(F[n], una + n, total) /\ Kinds(F[n]) /\ Marked(F[n], nxt)
       /\ \A m : Reach(s, una, nxt, m) => Reach(F[n], una + n, nxt, m)
       /\ una + n <= nxt /\ una + n <= total
       /\ \A i \in DOMAIN F[n] : \E u \in DOMAIN s : F[n][i] = s[u]
    BY <1>1, <1>5, <1>10, <1>14, <1>15, <1>16, <1>17 DEF t, at
<1> QED
    BY <1>1, <1>18 DEF Remains

-----------------------------------------------------------------------------
(***************************************************************************)
(* An acknowledgment, and what is sent again.                               *)
(***************************************************************************)
RecvSame(e, f) ==
    /\ f.shutdown = e.shutdown /\ f.rcv_nxt = e.rcv_nxt /\ f.rcv_wnd = e.rcv_wnd
    /\ f.rbuf = e.rbuf /\ f.rfree = e.rfree /\ f.rlist = e.rlist /\ f.readEnable = e.readEnable
Onward(e, f, K, W) ==
    Good(f, K, W) /\ Keeps(e, f) /\ Total(f) = Total(e) /\ RecvSame(e, f) /\ f.state = e.state

\* f is closed, and the packets of g are its last ones.
Ended(f, g) ==
    /\ f \in Endpoint /\ f.state = "CLOSED" /\ Blank(f) /\ f.out = g.out /\ f.shutdown = g.shutdown
Outcome(e, f, K, W) ==
    \/ Onward(e, f, K, W)
    \/ \E g : Onward(e, g, K, W) /\ Ended(f, g)

\* Sending is a way of going on.
LEMMA SendsOnward ==
    ASSUME NEW K, NEW W \in Int, NEW e, NEW f, Good(e, K, W), Sends(e, f, K, W)
    PROVE  Onward(e, f, K, W) /\ f.snd_nxt \in Nat /\ e.snd_nxt <= f.snd_nxt
<1>1. Good(f, K, W) /\ Total(f) = Total(e)
    BY SendsGood
<1>2. f.snd_nxt \in Nat
    BY <1>1, EndpointNumbers DEF Good
<1> QED
    BY <1>1, <1>2 DEF Onward, Sends, SendFrame, RecvSame

\* Going on twice is going on.
LEMMA OnwardTrans ==
    ASSUME NEW K, NEW W, NEW e, NEW f, NEW g, Onward(e, f, K, W), Onward(f, g, K, W)
    PROVE  Onward(e, g, K, W)
<1>1. RecvSame(e, g)
    BY DEF Onward, RecvSame
<1>2. Keeps(e, g)
    BY DEF Onward, Keeps
<1> QED
    BY <1>1, <1>2 DEF Onward

\* What comes of an operation after going on.
LEMMA OutcomeAfter ==
    ASSUME NEW K, NEW W, NEW e, NEW f, NEW g, Onward(e, f, K, W), Outcome(f, g, K, W)
    PROVE  Outcome(e, g, K, W)
<1>1. CASE Onward(f, g, K, W)
    BY <1>1, OnwardTrans DEF Outcome
<1>2. CASE \E h : Onward(f, h, K, W) /\ Ended(g, h)
    <2>1. PICK h : Onward(f, h, K, W) /\ Ended(g, h)
        BY <1>2
    <2>2. Onward(e, h, K, W)
        BY <2>1, OnwardTrans
    <2> QED
        BY <2>1, <2>2 DEF Outcome
<1> QED
    BY <1>1, <1>2 DEF Outcome

\* The constructor makes an endpoint.
LEMMA FreshEndpoint == Fresh \in Endpoint
<1>1. <<>> \in Seq(Int) /\ <<>> \in Seq(Segments)
    OBVIOUS
<1>2. [i \in 0 .. RcvCap - 1 |-> Junk] \in [0 .. RcvCap - 1 -> Int]
    BY DEF Junk
<1>3. /\ RcvCap \in Nat /\ MssTable[LastLevel] \in PacketSizes /\ 1 \in DOMAIN MssTable
      /\ MssTable[1] \in PacketSizes
    BY Sizes
<1> QED
    BY <1>1, <1>2, <1>3 DEF Fresh, Endpoint

\* closedown ends an endpoint and loses nothing that was handed to the transport.
LEMMA ClosedownEnds ==
    ASSUME NEW g \in Endpoint
    PROVE  Ended(Closedown(g), g)
<1>1. Fresh.rcv_nxt = 0 /\ Fresh.rbuf = <<>> /\ Fresh.rlist = {}
    BY DEF Fresh
<1>2. g.out \subseteq Packets /\ g.shutdown \in {"none", "graceful", "forceful"}
    BY DEF Endpoint
<1>3. Closedown(g) \in Endpoint
    BY <1>2, FreshEndpoint DEF Closedown, Endpoint
<1>4. /\ Closedown(g).state = "CLOSED" /\ Closedown(g).out = g.out /\ Closedown(g).shutdown = g.shutdown
      /\ Closedown(g).rcv_nxt = Fresh.rcv_nxt /\ Closedown(g).rbuf = Fresh.rbuf
      /\ Closedown(g).rlist = Fresh.rlist
    BY FreshEndpoint DEF Closedown, Endpoint
<1> QED
    BY <1>1, <1>3, <1>4 DEF Ended, Blank

\* While something is in flight the first segment is one that was sent.
LEMMA FirstWasSent ==
    ASSUME NEW e \in Endpoint, Tile(e), e.snd_una < e.snd_nxt, NEW W
    PROVE  Sendable(e, 1, W)
<1>1. e.slist \in Seq(Segments)
    BY EndpointFields
<1>2. e.snd_una \in Nat /\ e.snd_nxt \in Nat /\ e.snd_nxt <= Total(e) /\ Total(e) \in Nat
    BY EndpointNumbers, NxtInBuffer
<1>3. e.slist # <<>>
    BY <1>2 DEF Tile, Chain
<1>4. 1 \in DOMAIN e.slist
    BY <1>1, <1>3
<1>5. e.slist[1].seq = e.snd_una /\ e.slist[1].xmit \in Nat
    BY <1>1, <1>3, <1>4, ListFields DEF Tile, Chain
<1>6. e.slist[1].xmit > 0
    BY <1>4, <1>5 DEF Tile, Marked
<1> QED
    BY <1>4, <1>5, <1>6 DEF Sendable

\* Sending the first segment again, or giving up.
Resent(e, f, K, W) ==
    \/ Sends(e, f, K, W)
    \/ \E g : Sends(e, g, K, W) /\ Ended(f, g)

\* With something in flight there is a segment to send again: it is sent, or the
\* connection ends.
LEMMA RetransmitSends ==
    ASSUME NEW K, NEW W \in Int, NEW e, Good(e, K, W), e.snd_una < e.snd_nxt
    PROVE  Resent(e, Retransmit(e), K, W)
<1> DEFINE t == Transmit(e, 1)
<1>1. e \in Endpoint /\ Tile(e)
    BY DEF Good, SendOK
<1>2. Sendable(e, 1, W)
    BY <1>1, FirstWasSent
<1>3. Sends(e, t.e, K, W)
    BY <1>2, TransmitSends
<1>4. t.e \in Endpoint
    BY <1>3 DEF Sends
<1>5. Ended(Closedown(t.e), t.e)
    BY <1>4, ClosedownEnds
<1> HIDE DEF t
<1>6. CASE Retransmit(e) = t.e
    BY <1>3, <1>6 DEF Resent
<1>7. CASE Retransmit(e) = Closedown(t.e)
    BY <1>3, <1>5, <1>7 DEF Resent
<1> QED
    BY <1>6, <1>7 DEF Retransmit, t

\* Either way is an outcome.
LEMMA ResentOutcome ==
    ASSUME NEW K, NEW W \in Int, NEW e, NEW f, Good(e, K, W), Resent(e, f, K, W)
    PROVE  Outcome(e, f, K, W)
<1>1. CASE Sends(e, f, K, W)
    BY <1>1, SendsOnward DEF Outcome
<1>2. CASE \E g : Sends(e, g, K, W) /\ Ended(f, g)
    BY <1>2, SendsOnward DEF Outcome
<1> QED
    BY <1>1, <1>2 DEF Resent

\* Another window, and other members that the invariants do not speak of.
Windowed(e, f) ==
    /\ f.snd_una = e.snd_una /\ f.snd_nxt = e.snd_nxt /\ f.sbuf = e.sbuf
    /\ f.slist = e.slist /\ f.rto = e.rto /\ f.out = e.out /\ f.state = e.state
\* An endpoint that changes its window and its notes only, goes on.
LEMMA WindowedOnward ==
    ASSUME NEW K, NEW W \in Int, NEW e, Good(e, K, W), NEW f \in Endpoint, Windowed(e, f), RecvSame(e, f),
           f.recover <= f.snd_nxt, f.snd_una + f.snd_wnd <= W, Roomy(f)
    PROVE  Onward(e, f, K, W)
<1>1. Total(f) = Total(e) /\ Edge(f) = Edge(e) /\ \A n : Reached(e, n) <=> Reached(f, n)
    BY DEF Windowed, RecvSame, Total, Edge, Reached
<1>2. SendOK(f)
    <2>1. Tile(f)
        BY <1>1 DEF Good, SendOK, Windowed, Tile
    <2>2. Content(f)
        BY DEF Good, SendOK, Windowed, Content
    <2>3. Kinds(f.slist) /\ (f.rto <=> f.snd_una < f.snd_nxt) /\ Size(f.sbuf) <= SndCap
        BY DEF Good, SendOK, Windowed
    <2> QED
        BY <2>1, <2>2, <2>3 DEF SendOK
<1>3. RecvOK(f)
    BY <1>1 DEF Good, RecvOK, RecvSame
<1>4. OutOK(f, K)
    BY <1>1 DEF Good, OutOK, PacketOK, Windowed
<1>5. Good(f, K, W)
    BY <1>2, <1>3, <1>4 DEF Good, Windowed, RecvSame
<1> QED
    BY <1>1, <1>5 DEF Onward, Keeps, Windowed

\* What an acknowledgment up to the end of a segment leaves.
Acknowledged(e, p) ==
    [e EXCEPT !.snd_wnd = p.wnd, !.snd_una = p.ack, !.rto = (p.ack # e.snd_nxt),
              !.sbuf = SubSeq(e.sbuf, p.ack - e.snd_una + 1, Len(e.sbuf)),
              !.slist = Free(e.slist, p.ack - e.snd_una)]
\* An acknowledgment that ends a segment frees whole segments, so the rest still
\* tiles the stream.
LEMMA AcknowledgedOnward ==
    ASSUME NEW K, NEW W \in Int, NEW e, Good(e, K, W), NEW p \in Packets,
           Reached(e, p.ack), p.ack > e.snd_una, p.ack + p.wnd <= W, CtlLen <= p.ack + p.wnd
    PROVE  LET f == Acknowledged(e, p) IN
           /\ Onward(e, f, K, W) /\ f.snd_nxt = e.snd_nxt /\ f.snd_una = p.ack /\ f.recover = e.recover
           /\ p.ack <= e.snd_nxt /\ \A i \in DOMAIN f.slist : \E j \in DOMAIN e.slist : f.slist[i] = e.slist[j]
<1> DEFINE f == Acknowledged(e, p)
           n == p.ack - e.snd_una
           t == Free(e.slist, n)
           buf == SubSeq(e.sbuf, n + 1, Len(e.sbuf))
<1>1. e \in Endpoint /\ Tile(e) /\ Kinds(e.slist) /\ Content(e)
    BY DEF Good, SendOK
<1>2. e.slist \in Seq(Segments) /\ e.sbuf \in Seq(Int)
    BY <1>1, EndpointFields
<1>3. /\ e.snd_una \in Nat /\ e.snd_nxt \in Nat /\ Total(e) \in Nat /\ Size(e.sbuf) \in Nat
      /\ Total(e) = e.snd_una + Size(e.sbuf) /\ e.snd_una <= e.snd_nxt
    BY <1>1, EndpointNumbers, NxtInBuffer
<1>4. p.ack \in Nat /\ p.wnd \in Nat
    BY DEF Packets
<1>5. n \in Nat /\ n > 0 /\ e.snd_una + n = p.ack
    BY <1>3, <1>4
<1> HIDE DEF n
<1>6. /\ Chain(e.slist, e.snd_una, Total(e)) /\ Marked(e.slist, e.snd_nxt)
      /\ Reach(e.slist, e.snd_una, e.snd_nxt, e.snd_nxt) /\ Reach(e.slist, e.snd_una, e.snd_nxt, e.snd_una + n)
    BY <1>1, <1>5 DEF Tile, Reached
<1>7. /\ t \in Seq(Segments) /\ Chain(t, p.ack, Total(e)) /\ Kinds(t) /\ Marked(t, e.snd_nxt)
      /\ \A m : Reach(e.slist, e.snd_una, e.snd_nxt, m) => Reach(t, p.ack, e.snd_nxt, m)
      /\ p.ack <= e.snd_nxt /\ p.ack <= Total(e)
      /\ \A i \in DOMAIN t : \E j \in DOMAIN e.slist : t[i] = e.slist[j]
    <2>1. /\ t \in Seq(Segments) /\ Chain(t, e.snd_una + n, Total(e)) /\ Kinds(t) /\ Marked(t, e.snd_nxt)
          /\ \A m : Reach(e.slist, e.snd_una, e.snd_nxt, m) => Reach(t, e.snd_una + n, e.snd_nxt, m)
          /\ e.snd_una + n <= e.snd_nxt /\ e.snd_una + n <= Total(e)
          /\ \A i \in DOMAIN t : \E j \in DOMAIN e.slist : t[i] = e.slist[j]
        <3>1. Remains(t, e.slist, e.snd_una, e.snd_nxt, n, Total(e))
            BY <1>1, <1>2, <1>3, <1>5, <1>6, FreeTiles
        <3> HIDE DEF t
        <3> QED
            BY <3>1, Zenon DEF Remains
    <2> HIDE DEF t
    <2> QED
        BY <1>5, <2>1, Zenon
<1>8. n <= Size(e.sbuf)
    BY <1>3, <1>4, <1>5, <1>7
<1>9. /\ buf \in Seq(Int) /\ Size(buf) = Size(e.sbuf) - n /\ DOMAIN buf = 1 .. Size(e.sbuf) - n
      /\ DOMAIN e.sbuf = 1 .. Size(e.sbuf)
      /\ \A i \in 1 .. Size(e.sbuf) - n : buf[i] = e.sbuf[n + i]
    <2> DEFINE h == Len(e.sbuf)
    <2>1. h \in Nat /\ n <= h /\ DOMAIN e.sbuf = 1 .. h
        BY <1>2, <1>8 DEF Size
    <2>2. /\ n + 1 \in 1 .. h + 1 /\ h \in n .. h
        BY <1>5, <2>1
    <2>3. buf \in Seq(Int) /\ Len(buf) = h - n /\ \A i \in 1 .. h - n : buf[i] = e.sbuf[n + i]
        BY <1>2, <1>5, <2>1, <2>2, SubSeqProperties, SMTT(40)
    <2> QED
        BY <2>1, <2>3 DEF Size
<1>10. f = [e EXCEPT !.snd_wnd = p.wnd, !.snd_una = p.ack, !.rto = (p.ack # e.snd_nxt),
                     !.sbuf = buf, !.slist = t]
    BY DEF Acknowledged, n
<1> HIDE DEF f, t, buf
<1>11. f \in Endpoint
    BY <1>1, <1>4, <1>7, <1>9, <1>10, ZenonT(40) DEF Endpoint
<1>12. /\ f.snd_wnd = p.wnd /\ f.snd_una = p.ack /\ f.rto = (p.ack # e.snd_nxt) /\ f.sbuf = buf
       /\ f.slist = t /\ f.snd_nxt = e.snd_nxt /\ f.recover = e.recover /\ f.out = e.out
       /\ f.state = e.state /\ RecvSame(e, f)
    BY <1>1, <1>10 DEF Endpoint, RecvSame
<1>13. Total(f) = Total(e) /\ Edge(f) = Edge(e)
    <2>1. Size(f.sbuf) = Size(e.sbuf) - n
        BY <1>9, <1>12
    <2>2. Total(f) = p.ack + (Size(e.sbuf) - n)
        BY <1>12, <2>1 DEF Total
    <2>3. Edge(f) = Edge(e)
        BY <1>12 DEF Edge, RecvSame
    <2> QED
        BY <1>3, <1>4, <1>5, <2>2, <2>3
<1>14. \A m : Reached(e, m) => Reached(f, m)
    BY <1>7, <1>12 DEF Reached
<1>15. Tile(f)
    BY <1>1, <1>7, <1>12, <1>13, <1>14 DEF Tile
<1>16. Content(f)
    <2> SUFFICES ASSUME NEW i \in DOMAIN buf PROVE buf[i] = Unit(p.ack + i - 1)
        BY <1>12 DEF Content
    <2> DEFINE h == Size(e.sbuf)
               una == e.snd_una
    <2>1. i \in 1 .. h - n /\ h \in Nat
        BY <1>3, <1>9
    <2>2. buf[i] = e.sbuf[n + i]
        BY <1>9, <2>1
    <2>3. n + i \in 1 .. h /\ una + (n + i) - 1 = p.ack + i - 1
        <3> HIDE DEF h
        <3>1. n + i \in 1 .. h
            BY <1>5, <2>1
        <3>2. una \in Nat /\ una + n = p.ack /\ i \in Int
            BY <1>3, <1>5, <2>1
        <3> QED
            BY <1>5, <3>1, <3>2
    <2>4. e.sbuf[n + i] = Unit(e.snd_una + (n + i) - 1)
        BY <1>1, <1>9, <2>3 DEF Content
    <2> QED
        BY <2>2, <2>3, <2>4
<1>17. f.rto <=> f.snd_una < f.snd_nxt
    <2>1. p.ack # e.snd_nxt <=> p.ack < e.snd_nxt
        BY <1>3, <1>4, <1>7
    <2> QED
        BY <1>12, <2>1, Zenon
<1>18. SendOK(f)
    <2>1. Size(f.sbuf) <= SndCap
        <3>1. Size(e.sbuf) <= SndCap
            BY DEF Good, SendOK
        <3>2. Size(f.sbuf) = Size(e.sbuf) - n /\ SndCap \in Nat
            BY <1>9, <1>12, Sizes
        <3> QED
            BY <1>3, <1>5, <3>1, <3>2
    <2> QED
        BY <1>7, <1>12, <1>15, <1>16, <1>17, <2>1 DEF Good, SendOK
<1>19. RecvOK(f)
    BY <1>12, <1>13 DEF Good, RecvOK, RecvSame
<1>20. OutOK(f, K)
    BY <1>12, <1>13, <1>14 DEF Good, OutOK, PacketOK
<1>r. Roomy(f)
    BY <1>12 DEF Roomy
<1>21. Good(f, K, W)
    BY <1>11, <1>12, <1>18, <1>19, <1>20, <1>r DEF Good, RecvSame
<1>22. Onward(e, f, K, W)
    BY <1>12, <1>13, <1>14, <1>21 DEF Onward, Keeps
<1> QED
    BY <1>7, <1>12, <1>22 DEF f

\* A closed endpoint stays one when members that no longer matter change.
LEMMA StillEnded ==
    ASSUME NEW f, NEW g, Ended(f, g), NEW n \in Nat, NEW m \in Nat
    PROVE  Ended([f EXCEPT !.dup_acks = n, !.recover = m], g)
<1> DEFINE h == [f EXCEPT !.dup_acks = n, !.recover = m]
<1>1. f \in Endpoint
    BY DEF Ended
<1>2. h \in Endpoint
    BY <1>1 DEF Endpoint
<1>3. /\ h.state = f.state /\ h.shutdown = f.shutdown /\ h.out = f.out /\ h.rcv_nxt = f.rcv_nxt
      /\ h.rbuf = f.rbuf /\ h.rlist = f.rlist
    BY <1>1 DEF Endpoint
<1> HIDE DEF h
<1>4. Ended(h, g)
    BY <1>2, <1>3 DEF Ended, Blank
<1> QED
    BY <1>4 DEF h

\* The window, the count of duplicates and the point of recovery set anew.
Noted(e, wnd, dups, recover) == [e EXCEPT !.snd_wnd = wnd, !.dup_acks = dups, !.recover = recover]
\* Setting them anew is going on.
LEMMA NotedOnward ==
    ASSUME NEW K, NEW W \in Int, NEW e, Good(e, K, W), NEW wnd \in Nat, NEW dups \in Nat,
           NEW recover \in Nat, recover <= e.snd_nxt, e.snd_una + wnd <= W,
           Total(e) = 0 \/ CtlLen <= e.snd_una + wnd
    PROVE  /\ Onward(e, Noted(e, wnd, dups, recover), K, W)
           /\ Noted(e, wnd, dups, recover).snd_una = e.snd_una
           /\ Noted(e, wnd, dups, recover).snd_nxt = e.snd_nxt
           /\ Noted(e, wnd, dups, recover).slist = e.slist
<1> DEFINE f == Noted(e, wnd, dups, recover)
<1>1. e \in Endpoint
    BY DEF Good
<1>2. f \in Endpoint
    BY <1>1 DEF Endpoint, Noted
<1>3. /\ Windowed(e, f) /\ RecvSame(e, f) /\ f.snd_wnd = wnd /\ f.recover = recover
      /\ f.snd_una = e.snd_una /\ f.snd_nxt = e.snd_nxt /\ f.slist = e.slist
    BY <1>1 DEF Endpoint, Noted, Windowed, RecvSame
<1> HIDE DEF f
<1>4. Roomy(f)
    BY <1>3 DEF Windowed, Roomy, Total
<1>5. Onward(e, f, K, W)
    BY <1>2, <1>3, <1>4, WindowedOnward
<1> QED
    BY <1>3, <1>5 DEF f

\* An acknowledgment keeps an endpoint good, or ends it.
LEMMA ProcessAckOutcome ==
    ASSUME NEW K, NEW W \in Int, NEW e, Good(e, K, W), NEW p \in Packets,
           Reached(e, p.ack), p.ack + p.wnd <= W, CtlLen <= p.ack + p.wnd
    PROVE  Outcome(e, ProcessAck(e, p), K, W)
<1> DEFINE freed == Acknowledged(e, p)
           seen == Noted(e, p.wnd, e.dup_acks, e.recover)
           resent == Retransmit(seen)
           f == ProcessAck(e, p)
<1>1. e \in Endpoint /\ e.recover <= e.snd_nxt /\ e.snd_una <= e.snd_nxt
    BY DEF Good, SendOK, Tile
<1>2. /\ e.snd_una \in Nat /\ e.snd_nxt \in Nat /\ e.recover \in Nat /\ e.dup_acks \in Nat
      /\ p.ack \in Nat /\ p.wnd \in Nat
    BY <1>1, EndpointFields DEF Packets
<1>3. seen = [e EXCEPT !.snd_wnd = p.wnd]
    BY <1>1 DEF Endpoint, Noted
<1>4. /\ f = CASE p.ack > e.snd_una /\ p.ack <= e.snd_nxt ->
                    IF e.dup_acks >= 3 /\ p.ack < e.recover THEN Retransmit(freed)
                    ELSE [freed EXCEPT !.dup_acks = 0]
               [] p.ack = e.snd_una /\ p.data # <<>> -> seen
               [] p.ack = e.snd_una /\ p.data = <<>> ->
                    CASE InFlight(e) = 0 -> [seen EXCEPT !.dup_acks = 0]
                      [] InFlight(e) > 0 /\ e.dup_acks = 2 ->
                           [resent EXCEPT !.dup_acks = 3, !.recover = resent.snd_nxt]
                      [] OTHER -> [seen EXCEPT !.dup_acks = (@ + 1) % DupAckModulus]
               [] OTHER -> e
    BY <1>3 DEF ProcessAck, Acknowledged
<1>5. Onward(e, e, K, W)
    BY DEF Onward, Keeps, RecvSame
<1>6. CASE p.ack > e.snd_una /\ p.ack <= e.snd_nxt
    <2>1. /\ Onward(e, freed, K, W) /\ freed.snd_nxt = e.snd_nxt /\ freed.snd_una = p.ack
          /\ freed.recover = e.recover
        BY <1>6, AcknowledgedOnward
    <2>2. Good(freed, K, W) /\ freed \in Endpoint
        BY <2>1 DEF Onward, Good
    <2> HIDE DEF freed, seen, resent, f
    <2>3. CASE e.dup_acks >= 3 /\ p.ack < e.recover
        <3>1. f = Retransmit(freed)
            BY <1>2, <1>4, <1>6, <2>3
        <3>2. freed.snd_una < freed.snd_nxt
            BY <1>1, <1>2, <2>1, <2>3
        <3>3. Outcome(freed, f, K, W)
            BY <2>2, <3>1, <3>2, RetransmitSends, ResentOutcome
        <3> QED
            BY <2>1, <3>3, OutcomeAfter DEF f
    <2>4. CASE ~(e.dup_acks >= 3 /\ p.ack < e.recover)
        <3>1. f = [freed EXCEPT !.dup_acks = 0]
            BY <1>2, <1>4, <1>6, <2>4
        <3>2. f = Noted(freed, freed.snd_wnd, 0, freed.recover)
            BY <2>2, <3>1 DEF Endpoint, Noted
        <3>3. /\ freed.snd_wnd \in Nat /\ freed.recover \in Nat /\ freed.recover <= freed.snd_nxt
              /\ freed.snd_una + freed.snd_wnd <= W
              /\ Total(freed) = 0 \/ CtlLen <= freed.snd_una + freed.snd_wnd
            BY <2>2, EndpointNumbers DEF Good, SendOK, Roomy
        <3>4. Onward(freed, f, K, W)
            BY <2>2, <3>2, <3>3, NotedOnward
        <3> QED
            BY <2>1, <3>4, OnwardTrans DEF Outcome, f
    <2> QED
        BY <2>3, <2>4
<1>7. CASE p.ack = e.snd_una
    <2>w. e.snd_una + p.wnd <= W /\ (Total(e) = 0 \/ CtlLen <= e.snd_una + p.wnd)
        BY <1>7
    <2>1. /\ Onward(e, seen, K, W) /\ seen.snd_una = e.snd_una /\ seen.snd_nxt = e.snd_nxt
        BY <1>1, <1>2, <2>w, NotedOnward
    <2>2. seen \in Endpoint /\ Good(seen, K, W)
        BY <2>1 DEF Onward, Good
    <2>n. ~(p.ack > e.snd_una)
        BY <1>2, <1>7
    <2>3. CASE p.data # <<>>
        <3>1. f = seen
            BY <1>4, <1>7, <2>n, <2>3
        <3> QED
            BY <2>1, <3>1 DEF Outcome
    <2>4. CASE p.data = <<>> /\ InFlight(e) = 0
        <3>1. f = [seen EXCEPT !.dup_acks = 0]
            BY <1>4, <1>7, <2>n, <2>4
        <3>2. f = Noted(e, p.wnd, 0, e.recover)
            BY <1>1, <3>1 DEF Endpoint, Noted
        <3> QED
            BY <1>1, <1>2, <2>w, <3>2, NotedOnward DEF Outcome
    <2>5. CASE p.data = <<>> /\ InFlight(e) > 0 /\ e.dup_acks = 2
        <3>1. f = [resent EXCEPT !.dup_acks = 3, !.recover = resent.snd_nxt]
            BY <1>4, <1>7, <2>n, <2>5
        <3>2. seen.snd_una < seen.snd_nxt
            BY <1>1, <1>2, <2>1, <2>5 DEF InFlight
        <3>3. Resent(seen, resent, K, W)
            BY <2>2, <3>2, RetransmitSends
        <3> HIDE DEF f, seen, resent
        <3>4. CASE Sends(seen, resent, K, W)
            <4>1. Onward(seen, resent, K, W) /\ Good(resent, K, W) /\ resent \in Endpoint
                BY <2>2, <3>4, SendsOnward DEF Onward, Good
            <4>2. f = Noted(resent, resent.snd_wnd, 3, resent.snd_nxt)
                BY <3>1, <4>1 DEF Endpoint, Noted
            <4>3. /\ resent.snd_wnd \in Nat /\ resent.snd_nxt \in Nat /\ resent.snd_una + resent.snd_wnd <= W
                  /\ Total(resent) = 0 \/ CtlLen <= resent.snd_una + resent.snd_wnd
                BY <4>1, EndpointNumbers DEF Good, Roomy
            <4>4. resent.snd_nxt <= resent.snd_nxt
                BY <4>3
            <4>5. Onward(resent, f, K, W)
                BY <4>1, <4>2, <4>3, <4>4, NotedOnward
            <4> QED
                BY <2>1, <4>1, <4>5, OnwardTrans DEF Outcome, f
        <3>5. CASE \E g : Sends(seen, g, K, W) /\ Ended(resent, g)
            <4>1. PICK g : Sends(seen, g, K, W) /\ Ended(resent, g)
                BY <3>5
            <4>2. resent.snd_nxt \in Nat
                BY <4>1, EndpointNumbers DEF Ended
            <4>3. Ended(f, g)
                BY <3>1, <4>1, <4>2, StillEnded
            <4>4. Onward(e, g, K, W)
                BY <2>1, <2>2, <4>1, SendsOnward, OnwardTrans
            <4> QED
                BY <4>3, <4>4 DEF Outcome, f
        <3> QED
            BY <3>3, <3>4, <3>5 DEF Resent
    <2>6. CASE p.data = <<>> /\ InFlight(e) > 0 /\ e.dup_acks # 2
        <3>1. f = [seen EXCEPT !.dup_acks = (seen.dup_acks + 1) % DupAckModulus]
            BY <1>4, <1>7, <2>n, <2>6
        <3>2. f = Noted(e, p.wnd, (e.dup_acks + 1) % DupAckModulus, e.recover)
            BY <1>1, <3>1 DEF Endpoint, Noted
        <3>3. (e.dup_acks + 1) % DupAckModulus \in Nat
            <4>1. DupAckModulus \in Nat /\ DupAckModulus > 0
                BY SizeAssumption
            <4> QED
                BY <1>2, <4>1
        <3> QED
            BY <1>1, <1>2, <2>w, <3>2, <3>3, NotedOnward DEF Outcome
    <2>7. InFlight(e) = 0 \/ InFlight(e) > 0
        BY <1>1, <1>2 DEF InFlight
    <2> QED
        BY <2>3, <2>4, <2>5, <2>6, <2>7
<1>8. CASE ~(p.ack > e.snd_una /\ p.ack <= e.snd_nxt) /\ p.ack # e.snd_una
    <2>1. f = e
        BY <1>4, <1>8
    <2> QED
        BY <1>5, <2>1 DEF Outcome
<1> QED
    BY <1>6, <1>7, <1>8

-----------------------------------------------------------------------------
(***************************************************************************)
(* The control code and the notifications.                                  *)
(***************************************************************************)
\* From e to f the stream that is sent stays as it is, or the connect message
\* is put into it.
Grown(e, f) ==
    \/ Total(f) = Total(e) /\ (f.state = "LISTEN" <=> e.state = "LISTEN")
    \/ e.state = "LISTEN" /\ f.state # "LISTEN" /\ Total(f) = CtlLen
Opened(e, f, K, W) ==
    Good(f, K, W) /\ Keeps(e, f) /\ Grown(e, f) /\ RecvSame(e, f) /\ (Deaf(f) <=> Deaf(e))

\* Doing so twice.
LEMMA OpenedTrans ==
    ASSUME NEW K, NEW W, NEW e, NEW f, NEW g, Opened(e, f, K, W), Opened(f, g, K, W)
    PROVE  Opened(e, g, K, W)
<1>1. RecvSame(e, g)
    BY DEF Opened, RecvSame
<1>2. Keeps(e, g)
    BY DEF Opened, Keeps
<1>3. Grown(e, g)
    BY DEF Opened, Grown
<1> QED
    BY <1>1, <1>2, <1>3 DEF Opened

\* An endpoint that has nothing to send.
LEMMA NothingSent ==
    ASSUME NEW e \in Endpoint, Total(e) = 0
    PROVE  e.snd_una = 0 /\ e.sbuf = <<>>
<1>1. e.snd_una \in Nat /\ Size(e.sbuf) \in Nat /\ e.snd_una + Size(e.sbuf) = 0
    BY EndpointNumbers
<1>2. e.snd_una = 0 /\ Size(e.sbuf) = 0
    BY <1>1
<1>3. e.sbuf \in Seq(Int)
    BY EndpointFields
<1>4. e.sbuf = <<>>
    BY <1>2, <1>3, EmptySeq DEF Size
<1> QED
    BY <1>2, <1>4

\* Members that the invariants do not speak of, changed with the state.
LEMMA CoreOpened ==
    ASSUME NEW K, NEW W \in Int, NEW e, Good(e, K, W), NEW f \in Endpoint, Core(e, f),
           f.recover = e.recover, f.shutdown = e.shutdown, f.readEnable = e.readEnable,
           f.state = "LISTEN" <=> e.state = "LISTEN", Deaf(f) <=> Deaf(e)
    PROVE  Opened(e, f, K, W)
<1>1. f.recover <= f.snd_nxt
    BY DEF Good, SendOK, Core
<1>2. Good(f, K, W) /\ Keeps(e, f) /\ Total(f) = Total(e)
    BY <1>1, SameCore
<1>3. RecvSame(e, f)
    BY DEF Core, RecvSame
<1> QED
    BY <1>2, <1>3 DEF Opened, Grown

\* adjustMTU when the connection opens, or when it is open.
LEMMA AdjustMTUOpened ==
    ASSUME NEW K, NEW W \in Int, NEW e, Good(e, K, W), ~Deaf(e), e.state # "LISTEN"
    PROVE  Opened(e, AdjustMTU([e EXCEPT !.state = "ESTABLISHED"]), K, W)
<1> DEFINE l == LevelOf(e.mtu_advise)
           f == AdjustMTU([e EXCEPT !.state = "ESTABLISHED"])
<1>1. e \in Endpoint /\ e.mtu_advise \in PacketSizes
    BY EndpointFields DEF Good
<1>2. l \in DOMAIN MssTable
    BY LevelInTable
<1>3. f = [e EXCEPT !.state = "ESTABLISHED", !.mss = e.mtu_advise, !.msslevel = l]
    BY <1>1 DEF Endpoint, AdjustMTU
<1> HIDE DEF f, l
<1>4. f \in Endpoint
    BY <1>1, <1>2, <1>3, ZenonT(40) DEF Endpoint
<1>5. /\ f.state = "ESTABLISHED" /\ Core(e, f) /\ f.recover = e.recover /\ f.shutdown = e.shutdown
      /\ f.readEnable = e.readEnable
    BY <1>1, <1>3 DEF Endpoint, Core
<1>6. Opened(e, f, K, W)
    BY <1>4, <1>5, CoreOpened DEF Deaf
<1> QED
    BY <1>6 DEF f

\* The connect message is queued when the endpoint leaves LISTEN.
LEMMA ConnectOpened ==
    ASSUME NEW K, NEW W \in Int, NEW e, Good(e, K, W), e.state = "LISTEN", Total(e) = 0, CtlLen <= W,
           NEW state \in {"SYN_SENT", "SYN_RECEIVED"}
    PROVE  LET f == QueueConnectMessage([e EXCEPT !.state = state]) IN
           Opened(e, f, K, W) /\ f.state = state
<1> DEFINE g == [e EXCEPT !.state = state]
           f == QueueConnectMessage(g)
<1>1. e \in Endpoint
    BY DEF Good
<1>2. g \in Endpoint
    BY <1>1, ZenonT(40) DEF Endpoint
<1>3. /\ g.state = state /\ Core(e, g) /\ g.recover = e.recover /\ g.shutdown = e.shutdown
      /\ g.readEnable = e.readEnable
    BY <1>1 DEF Endpoint, Core
<1>4. e.snd_una = 0 /\ e.sbuf = <<>>
    BY <1>1, NothingSent
<1> HIDE DEF g
<1>5. g.recover <= g.snd_nxt
    BY <1>3 DEF Good, SendOK, Core
<1>6. Good(g, K, W) /\ Keeps(e, g) /\ g.snd_una = 0 /\ g.sbuf = <<>>
    BY <1>2, <1>3, <1>4, <1>5, SameCore DEF Core
<1>7. /\ Good(f, K, W) /\ Keeps(g, f) /\ Edge(f) = Edge(g) /\ Total(f) = CtlLen
      /\ f.state = g.state /\ f.shutdown = g.shutdown /\ f.rbuf = g.rbuf
      /\ f.readEnable = g.readEnable /\ f.rfree = g.rfree /\ f.rlist = g.rlist /\ f.rcv_nxt = g.rcv_nxt
      /\ f.rcv_wnd = g.rcv_wnd
    BY <1>6, ConnectGood, SMTT(40)
<1> HIDE DEF f
<1>8. RecvSame(e, f)
    BY <1>3, <1>7 DEF RecvSame, Core
<1>9. Keeps(e, f)
    BY <1>6, <1>7 DEF Keeps
<1>10. Opened(e, f, K, W) /\ f.state = state
    BY <1>3, <1>7, <1>8, <1>9 DEF Opened, Grown, Deaf
<1> QED
    BY <1>10 DEF f, g

\* The control code.
LEMMA ProcessConnectOpened ==
    ASSUME NEW K, NEW W \in Int, NEW e, Good(e, K, W), ~Deaf(e), NEW p,
           e.state = "LISTEN" => Total(e) = 0, CtlLen <= W
    PROVE  Opened(e, ProcessConnect(e, p), K, W)
<1>1. e \in Endpoint
    BY DEF Good
<1>2. CASE p.ctl /\ e.state = "LISTEN"
    <2>1. ProcessConnect(e, p) = QueueConnectMessage([e EXCEPT !.state = "SYN_RECEIVED"])
        BY <1>2 DEF ProcessConnect
    <2>2. Total(e) = 0
        BY <1>2
    <2> DEFINE f == QueueConnectMessage([e EXCEPT !.state = "SYN_RECEIVED"])
    <2>3. Opened(e, f, K, W)
        BY <1>2, <2>2, ConnectOpened
    <2> HIDE DEF f
    <2>4. ProcessConnect(e, p) = f
        BY <2>1 DEF f
    <2> QED
        BY <2>3, <2>4
<1>3. CASE p.ctl /\ e.state = "SYN_SENT"
    <2>1. ProcessConnect(e, p) = AdjustMTU([e EXCEPT !.state = "ESTABLISHED"])
        BY <1>3 DEF ProcessConnect
    <2> QED
        BY <1>3, <2>1, AdjustMTUOpened
<1>4. CASE ~p.ctl \/ e.state \notin {"LISTEN", "SYN_SENT"}
    <2>1. ProcessConnect(e, p) = e
        BY <1>4 DEF ProcessConnect
    <2>2. Opened(e, e, K, W)
        BY DEF Opened, Keeps, Grown, RecvSame
    <2> QED
        BY <2>1, <2>2
<1> QED
    BY <1>2, <1>3, <1>4

\* The notifications.
LEMMA ProcessNotifyOpened ==
    ASSUME NEW K, NEW W \in Int, NEW e, Good(e, K, W), ~Deaf(e), NEW p
    PROVE  Opened(e, ProcessNotify(e, p), K, W)
<1> DEFINE f == IF e.state = "SYN_RECEIVED" /\ ~p.ctl
                THEN AdjustMTU([e EXCEPT !.state = "ESTABLISHED"]) ELSE e
           b == f.writeEnable /\ Len(f.sbuf) >= (SndCap + RcvCap) \div 2
           g == [f EXCEPT !.writeEnable = b]
<1>1. ProcessNotify(e, p) = g
    BY DEF ProcessNotify
<1>2. Opened(e, f, K, W)
    <2>1. Opened(e, e, K, W)
        BY DEF Opened, Keeps, Grown, RecvSame
    <2> QED
        BY <2>1, AdjustMTUOpened
<1>3. b \in BOOLEAN
    OBVIOUS
<1> HIDE DEF f, b
<1>4. f \in Endpoint /\ Good(f, K, W)
    BY <1>2 DEF Opened, Good
<1>5. g \in Endpoint
    BY <1>3, <1>4 DEF Endpoint
<1>6. /\ g.state = f.state /\ Core(f, g) /\ g.recover = f.recover /\ g.shutdown = f.shutdown
      /\ g.readEnable = f.readEnable
    BY <1>4 DEF Endpoint, Core
<1> HIDE DEF g
<1>7. Opened(f, g, K, W)
    BY <1>4, <1>5, <1>6, CoreOpened DEF Deaf
<1> QED
    BY <1>1, <1>2, <1>7, OpenedTrans

-----------------------------------------------------------------------------
(***************************************************************************)
(* The data of a packet.                                                    *)
(***************************************************************************)
\* What process expects of a packet that arrives at e, whose peer has sent
\* `total' units: K holds its end.
Expected(p, e, K, total) ==
    /\ p \in Packets /\ DataOK(p, total)
    /\ p.data # <<>> => p.seq + Size(p.data) \in K /\ p.seq + Size(p.data) <= Edge(e)

\* Nothing is trimmed for lack of room, and what is left is new.
NewPart(seg, p, e) ==
    /\ seg.data \in Seq(Int)
    /\ Size(seg.data) \in Nat
    /\ Size(seg.data) > 0 =>
         /\ p.data # <<>> /\ seg.seq \in Nat /\ e.rcv_nxt <= seg.seq /\ p.seq <= seg.seq
         /\ seg.seq + Size(seg.data) = p.seq + Size(p.data)
         /\ p.seq <= e.rcv_nxt => seg.seq = e.rcv_nxt
         /\ \A i \in 1 .. Size(seg.data) : seg.data[i] = Unit(seg.seq + i - 1)
    /\ Size(seg.data) = 0 /\ p.data # <<>> => p.seq + Size(p.data) <= e.rcv_nxt
\* Trim keeps the new part of a packet, all of it, and it fits.
LEMMA TrimKeepsNew ==
    ASSUME NEW e \in Endpoint, RecvOK(e), NEW K, NEW total, NEW p, Expected(p, e, K, total)
    PROVE  NewPart(Trim(e, p), p, e)
<1> DEFINE len == Len(p.data)
           nxt == e.rcv_nxt
           h == Len(e.rbuf)
           at == p.seq
           old == IF at < nxt THEN Least(nxt - at, len) ELSE 0
           over == at + old + len - old - nxt - (RcvCap - h)
           keep == IF over <= 0 THEN len ELSE IF over < len - old THEN len - over ELSE old
           seg == Trim(e, p)
<1>1. seg.seq = at + old /\ seg.data = SubSeq(p.data, old + 1, keep)
    BY DEF Trim, GetWriteRemaining
<1>2. /\ p.data \in Seq(Int) /\ len \in Nat /\ at \in Int /\ nxt \in Nat /\ h \in Nat /\ RcvCap \in Nat
      /\ e.rcv_wnd \in Nat /\ h + e.rcv_wnd <= RcvCap /\ DOMAIN p.data = 1 .. len
      /\ Size(p.data) = len
    <2>1. p.data \in Seq(Int) /\ p.seq \in Int
        BY DEF Expected, Packets
    <2> QED
        BY <2>1, EndpointFields, Sizes DEF RecvOK, Size
<1>3. CASE p.data = <<>>
    <2>1. len = 0
        BY <1>3
    <2>2. old = 0 /\ keep <= 0 /\ keep \in Int
        BY <1>2, <2>1, SMTT(40) DEF Least
    <2> HIDE DEF old, keep, seg
    <2>3. seg.data = <<>>
        <3>1. SubSeq(p.data, 0 + 1, keep) = <<>>
            BY <1>2, <2>2, SubSeqProperties
        <3> QED
            BY <1>1, <2>2, <3>1
    <2>4. Size(seg.data) = 0 /\ seg.data \in Seq(Int)
        BY <2>3, EmptySeq DEF Size
    <2> QED
        BY <1>3, <2>4 DEF NewPart, seg
<1>4. CASE p.data # <<>>
    <2>1. at + len <= nxt + e.rcv_wnd /\ at \in Nat
        BY <1>2, <1>4 DEF Expected, DataOK, Edge
    <2>d. \A k \in 1 .. len : p.data[k] = Unit(at + k - 1)
        BY <1>2 DEF Expected, DataOK
    <2> HIDE DEF len, h, nxt, at, seg
    <2>2. /\ old \in Nat /\ old <= len /\ (old < len => nxt <= at + old)
          /\ over <= 0 /\ (at <= nxt /\ old < len => at + old = nxt) /\ (old = len /\ len > 0 => at + len <= nxt)
        BY <1>2, <2>1, SMTT(40) DEF Least
    <2>l. len > 0
        BY <1>2, <1>4 DEF len
    <2>3. keep = len
        BY <2>2
    <2> HIDE DEF old, keep
    <2> DEFINE n == len - old
    <2>4. /\ seg.data \in Seq(Int) /\ Size(seg.data) = n
          /\ \A i \in 1 .. n : seg.data[i] = p.data[old + i]
        <3>1. seg.data = SubSeq(p.data, old + 1, len)
            BY <1>1, <2>3
        <3>2. old + 1 \in 1 .. len + 1 /\ len \in old .. len
            BY <1>2, <2>2
        <3>3. /\ SubSeq(p.data, old + 1, len) \in Seq(Int) /\ Len(SubSeq(p.data, old + 1, len)) = n
              /\ \A i \in 1 .. n : SubSeq(p.data, old + 1, len)[i] = p.data[old + i]
            BY <1>2, <2>2, <3>2, SubSeqProperties, SMTT(40) DEF len
        <3> QED
            BY <3>1, <3>3 DEF Size
    <2>5. n \in Nat /\ at + old + n = at + len /\ at + old \in Nat /\ at <= at + old
        BY <1>2, <2>1, <2>2
    <2>6. seg.seq = at + old
        BY <1>1
    <2>7. ASSUME NEW i \in 1 .. n PROVE seg.data[i] = Unit(seg.seq + i - 1)
        <3> DEFINE k == old + i
                   here == at + k - 1
        <3>1. k \in 1 .. len /\ here = at + old + i - 1
            BY <1>2, <2>1, <2>2
        <3>2. p.data[k] = Unit(here)
            BY <2>d, <3>1
        <3>3. seg.data[i] = p.data[k]
            BY <2>4
        <3> HIDE DEF k, here
        <3> QED
            BY <2>6, <3>1, <3>2, <3>3
    <2>8. /\ n > 0 => nxt <= at + old /\ (at <= nxt => at + old = nxt)
          /\ n = 0 => at + len <= nxt
        BY <1>2, <2>2, <2>l
    <2> HIDE DEF n
    <2>9. Size(seg.data) > 0 =>
            /\ seg.seq \in Nat /\ nxt <= seg.seq /\ at <= seg.seq /\ seg.seq + n = at + len
            /\ at <= nxt => seg.seq = nxt
        BY <2>4, <2>5, <2>6, <2>8
    <2>10. Size(seg.data) = 0 => at + len <= nxt
        BY <2>4, <2>8
    <2> QED
        BY <1>2, <1>4, <2>4, <2>5, <2>7, <2>9, <2>10 DEF NewPart, seg, at, nxt
<1> QED
    BY <1>3, <1>4

\* What receiving leaves alone.
SendSame(e, f) ==
    /\ f.state = e.state /\ f.shutdown = e.shutdown /\ f.snd_una = e.snd_una /\ f.snd_nxt = e.snd_nxt
    /\ f.snd_wnd = e.snd_wnd /\ f.sbuf = e.sbuf /\ f.slist = e.slist /\ f.rto = e.rto
    /\ f.recover = e.recover /\ f.readEnable = e.readEnable /\ f.t_ack = e.t_ack /\ f.out = e.out

\* Receiving, from e to f.
Received(e, f, K, W) ==
    /\ Good(f, K, W) /\ SendSame(e, f) /\ Keeps(e, f) /\ Total(f) = Total(e) /\ Edge(e) <= Edge(f)
    /\ f.rbuf = e.rbuf \/ Size(e.rbuf) < Size(f.rbuf)
    /\ e.rcv_nxt <= f.rcv_nxt

\* An endpoint stays good when the edge of its window does not go back and
\* its receiving part is right.
LEMMA RightWindow ==
    ASSUME NEW K, NEW W \in Int, NEW e, Good(e, K, W), NEW f \in Endpoint, SendSame(e, f), RecvOK(f),
           Edge(e) <= Edge(f), f.rcv_nxt \in K, \A q \in f.rlist : EndOf(q) \in K
    PROVE  Good(f, K, W) /\ Keeps(e, f) /\ Total(f) = Total(e)
<1>1. Total(f) = Total(e) /\ \A n : Reached(e, n) <=> Reached(f, n)
    BY DEF SendSame, Total, Reached
<1>2. SendOK(f)
    <2>1. Tile(f)
        BY <1>1 DEF Good, SendOK, SendSame, Tile
    <2>2. Content(f)
        BY DEF Good, SendOK, SendSame, Content
    <2>3. Kinds(f.slist) /\ (f.rto <=> f.snd_una < f.snd_nxt) /\ Size(f.sbuf) <= SndCap /\ f.recover <= f.snd_nxt
        BY DEF Good, SendOK, SendSame
    <2> QED
        BY <2>1, <2>2, <2>3 DEF SendOK
<1>3. OutOK(f, K)
    <2> SUFFICES ASSUME NEW p \in e.out PROVE PacketOK(p, f, K)
        BY DEF OutOK, SendSame
    <2>1. PacketOK(p, e, K) /\ p \in Packets
        BY EndpointFields DEF Good, OutOK
    <2>2. p.ack \in Nat /\ p.wnd \in Nat /\ Edge(e) \in Nat /\ Edge(f) \in Nat
        BY <2>1, EndpointNumbers DEF Packets, Good
    <2>3. p.ack + p.wnd <= Edge(f)
        BY <2>1, <2>2 DEF PacketOK
    <2> QED
        BY <1>1, <2>1, <2>3 DEF PacketOK
<1>r. Roomy(f)
    BY <1>1 DEF Good, Roomy, SendSame
<1>4. Good(f, K, W)
    BY <1>2, <1>3, <1>r DEF Good, SendSame
<1> QED
    BY <1>1, <1>4 DEF Keeps

\* What an operation on the receiving part must keep for the invariant to hold.
LEMMA ReceivedGood ==
    ASSUME NEW K, NEW W \in Int, NEW e, Good(e, K, W), NEW f \in Endpoint, SendSame(e, f), RecvOK(f),
           Edge(e) <= Edge(f), f.rcv_nxt \in K, \A q \in f.rlist : EndOf(q) \in K,
           f.rbuf = e.rbuf \/ Size(e.rbuf) < Size(f.rbuf), e.rcv_nxt <= f.rcv_nxt
    PROVE  Received(e, f, K, W)
<1>1. Good(f, K, W) /\ Keeps(e, f) /\ Total(f) = Total(e)
    BY RightWindow
<1> QED
    BY <1>1 DEF Received

\* Receiving twice.
LEMMA ReceivedTrans ==
    ASSUME NEW K, NEW W, NEW e \in Endpoint, NEW f, NEW g, Received(e, f, K, W), Received(f, g, K, W)
    PROVE  Received(e, g, K, W)
<1>1. f \in Endpoint /\ g \in Endpoint
    BY DEF Received, Good
<1>2. /\ Edge(e) \in Nat /\ Edge(f) \in Nat /\ Edge(g) \in Nat
      /\ Size(e.rbuf) \in Nat /\ Size(f.rbuf) \in Nat /\ Size(g.rbuf) \in Nat
      /\ e.rcv_nxt \in Nat /\ f.rcv_nxt \in Nat /\ g.rcv_nxt \in Nat
    BY <1>1, EndpointNumbers
<1>3. SendSame(e, g)
    BY DEF Received, SendSame
<1>4. Keeps(e, g)
    BY DEF Received, Keeps
<1>5. Edge(e) <= Edge(g) /\ e.rcv_nxt <= g.rcv_nxt
    BY <1>2 DEF Received
<1>6. g.rbuf = e.rbuf \/ Size(e.rbuf) < Size(g.rbuf)
    BY <1>2 DEF Received
<1> QED
    BY <1>3, <1>4, <1>5, <1>6 DEF Received

\* The next m units of the free space are taken over as received.
LEMMA ConsumedFields ==
    ASSUME NEW e \in Endpoint, NEW m \in Nat, m > 0, m <= e.rcv_wnd, e.rcv_wnd <= RcvCap
    PROVE  LET f == Consumed(e, m)
               h == Size(e.rbuf) IN
           /\ f \in Endpoint /\ SendSame(e, f) /\ f.rlist = e.rlist /\ Size(f.rbuf) = h + m
           /\ f.rcv_nxt = e.rcv_nxt + m /\ f.rcv_wnd = e.rcv_wnd - m /\ Edge(f) = Edge(e)
           /\ DOMAIN f.rbuf = 1 .. h + m /\ DOMAIN e.rbuf = 1 .. h
           /\ \A i \in 1 .. h : f.rbuf[i] = e.rbuf[i]
           /\ \A i \in 1 .. m : f.rbuf[h + i] = e.rfree[i - 1]
           /\ \A i \in 0 .. RcvCap - 1 - m : f.rfree[i] = e.rfree[i + m]
<1> DEFINE f == Consumed(e, m)
           h == Size(e.rbuf)
           more == [i \in 1 .. m |-> e.rfree[i - 1]]
           buf == e.rbuf \o more
           free == [i \in 0 .. RcvCap - 1 |-> IF i + m < RcvCap THEN e.rfree[i + m] ELSE Junk]
<1>1. /\ e.rbuf \in Seq(Int) /\ e.rfree \in [0 .. RcvCap - 1 -> Int] /\ e.rcv_nxt \in Nat /\ e.rcv_wnd \in Nat
      /\ RcvCap \in Nat /\ h \in Nat
    BY EndpointFields, Sizes
<1>2. f = [e EXCEPT !.rbuf = buf, !.rfree = free, !.rcv_nxt = e.rcv_nxt + m, !.rcv_wnd = e.rcv_wnd - m]
    BY <1>1 DEF Endpoint, Consumed, ConsumeWriteBuffer
<1>3. more \in Seq(Int) /\ Size(more) = m /\ \A i \in 1 .. m : more[i] = e.rfree[i - 1]
    <2>1. \A i \in 1 .. m : e.rfree[i - 1] \in Int
        BY <1>1
    <2> QED
        BY <2>1 DEF Size
<1>4. free \in [0 .. RcvCap - 1 -> Int]
    <2>1. \A i \in 0 .. RcvCap - 1 : i + m < RcvCap => i + m \in 0 .. RcvCap - 1
        BY <1>1
    <2> QED
        BY <1>1, <2>1, SMTT(40) DEF Junk
<1>5. \A i \in 0 .. RcvCap - 1 - m : free[i] = e.rfree[i + m]
    BY <1>1
<1> HIDE DEF free, more
<1>6. /\ buf \in Seq(Int) /\ Size(buf) = h + m
      /\ \A i \in 1 .. h + m : buf[i] = IF i <= h THEN e.rbuf[i] ELSE more[i - h]
    BY <1>1, <1>3, ConcatProperties, ZenonT(40) DEF Size
<1>7. DOMAIN buf = 1 .. h + m /\ DOMAIN e.rbuf = 1 .. h
    BY <1>1, <1>6 DEF Size
<1> HIDE DEF buf, f, h
<1>8. e.rcv_nxt + m \in Nat /\ e.rcv_wnd - m \in Nat
    BY <1>1, SMTT(40)
<1>9. f \in Endpoint
    BY <1>2, <1>4, <1>6, <1>8, ZenonT(40) DEF Endpoint
<1>10. /\ SendSame(e, f) /\ f.rlist = e.rlist /\ f.rbuf = buf /\ f.rfree = free
       /\ f.rcv_nxt = e.rcv_nxt + m /\ f.rcv_wnd = e.rcv_wnd - m
    BY <1>2 DEF Endpoint, SendSame
<1>11. Edge(f) = Edge(e)
    BY <1>1, <1>10 DEF Edge
<1>12. \A i \in 1 .. h : buf[i] = e.rbuf[i]
    BY <1>1, <1>6
<1>13. \A i \in 1 .. m : buf[h + i] = e.rfree[i - 1]
    <2> SUFFICES ASSUME NEW i \in 1 .. m PROVE buf[h + i] = e.rfree[i - 1]
        OBVIOUS
    <2>1. h + i \in 1 .. h + m /\ ~(h + i <= h) /\ (h + i) - h = i
        BY <1>1
    <2> QED
        BY <1>3, <1>6, <2>1
<1> QED
    BY <1>5, <1>6, <1>7, <1>9, <1>10, <1>11, <1>12, <1>13 DEF f, h

\* Taking over data that fits the window keeps it.
LEMMA ConsumedReceived ==
    ASSUME NEW K, NEW W \in Int, NEW e, Good(e, K, W), NEW m \in Nat, m > 0, m <= e.rcv_wnd,
           e.rcv_nxt + m \in K
    PROVE  Received(e, Consumed(e, m), K, W)
<1> DEFINE f == Consumed(e, m)
           h == Size(e.rbuf)
<1>1. e \in Endpoint /\ RecvOK(e)
    BY DEF Good
<1>2. h \in Nat /\ e.rcv_wnd \in Nat /\ e.rcv_nxt \in Nat /\ RcvCap \in Nat /\ Edge(e) \in Nat
    BY <1>1, EndpointNumbers, Sizes
<1>3. h + e.rcv_wnd <= RcvCap /\ RcvCap <= Edge(e)
    BY <1>1 DEF RecvOK
<1>4. e.rcv_wnd <= RcvCap
    BY <1>2, <1>3
<1>5. /\ f \in Endpoint /\ SendSame(e, f) /\ f.rlist = e.rlist /\ Size(f.rbuf) = h + m
      /\ f.rcv_nxt = e.rcv_nxt + m /\ f.rcv_wnd = e.rcv_wnd - m /\ Edge(f) = Edge(e)
    BY <1>1, <1>4, ConsumedFields
<1> HIDE DEF f, h
<1>6. h < Size(f.rbuf) /\ Size(f.rbuf) + f.rcv_wnd <= RcvCap /\ e.rcv_nxt <= f.rcv_nxt /\ Edge(e) <= Edge(f)
    BY <1>2, <1>3, <1>5
<1>7. RecvOK(f)
    BY <1>1, <1>3, <1>5, <1>6 DEF RecvOK
<1>8. \A q \in f.rlist : EndOf(q) \in K
    BY <1>5 DEF Good
<1>9. Received(e, f, K, W)
    BY <1>5, <1>6, <1>7, <1>8, ReceivedGood DEF h
<1> QED
    BY <1>9 DEF f

\* The endpoint has received the stream as far as rcv_nxt, and its user, who
\* has read n units, will read the rest of it from the buffer.
Caught(e, n) == e.rcv_nxt = CtlLen + n + Size(e.rbuf)

\* The number of a unit of the stream after the connect message.
LEMMA UnitAfter ==
    ASSUME NEW n \in Nat, NEW i \in Nat, i > 0
    PROVE  Unit(CtlLen + n + i - 1) = n + i
<1>1. CtlLen \in Nat
    BY Sizes
<1> DEFINE k == CtlLen + n + i - 1
<1>2. ~(k < CtlLen) /\ k - CtlLen + 1 = n + i
    BY <1>1
<1> HIDE DEF k
<1>3. Unit(k) = n + i
    BY <1>2 DEF Unit
<1> QED
    BY <1>3 DEF k

\* Data that is that of the stream, taken over, makes the stream longer.
LEMMA ConsumedStream ==
    ASSUME NEW e \in Endpoint, RecvOK(e), NEW m \in Nat, m > 0, m <= e.rcv_wnd,
           NEW n \in Nat, NEW total \in Nat, Stream(e, n, total), Caught(e, n), e.shutdown = "none",
           e.rcv_nxt + m <= total, \A i \in 0 .. m - 1 : e.rfree[i] = Unit(e.rcv_nxt + i)
    PROVE  Stream(Consumed(e, m), n, total) /\ Caught(Consumed(e, m), n)
<1> DEFINE f == Consumed(e, m)
           h == Size(e.rbuf)
           nxt == e.rcv_nxt
<1>1. h \in Nat /\ e.rcv_wnd \in Nat /\ nxt \in Nat /\ RcvCap \in Nat /\ Edge(e) \in Nat /\ CtlLen \in Nat
    BY EndpointNumbers, Sizes
<1>2. h + e.rcv_wnd <= RcvCap /\ nxt + e.rcv_wnd = Edge(e)
    BY DEF RecvOK, Edge
<1>3. e.rcv_wnd <= RcvCap
    BY <1>1, <1>2
<1>4. /\ f \in Endpoint /\ SendSame(e, f) /\ f.rlist = e.rlist /\ Size(f.rbuf) = h + m
      /\ f.rcv_nxt = nxt + m
      /\ DOMAIN f.rbuf = 1 .. h + m /\ DOMAIN e.rbuf = 1 .. h
      /\ \A i \in 1 .. h : f.rbuf[i] = e.rbuf[i]
      /\ \A i \in 1 .. m : f.rbuf[h + i] = e.rfree[i - 1]
      /\ \A i \in 0 .. RcvCap - 1 - m : f.rfree[i] = e.rfree[i + m]
    BY <1>3, ConsumedFields
<1>5. nxt = CtlLen + n + h
    BY DEF Caught
<1> HIDE DEF f, h, nxt
<1>6. Caught(f, n)
    <2>1. f.rcv_nxt = CtlLen + n + (h + m)
        BY <1>1, <1>4, <1>5
    <2> QED
        BY <1>4, <2>1 DEF Caught
<1>7. ASSUME NEW i \in DOMAIN f.rbuf PROVE f.rbuf[i] = n + i
    <2>1. CASE i \in 1 .. h
        BY <1>4, <2>1 DEF Stream
    <2>2. CASE i \notin 1 .. h
        <3> DEFINE j == i - h
        <3>1. j \in 1 .. m /\ h + j = i /\ j - 1 \in 0 .. m - 1 /\ j \in Nat
            BY <1>1, <1>4, <1>7, <2>2, SMTT(40)
        <3>2. f.rbuf[i] = e.rfree[j - 1] /\ e.rfree[j - 1] = Unit(nxt + (j - 1))
            BY <1>4, <3>1 DEF nxt
        <3>3. nxt + (j - 1) = CtlLen + n + i - 1 /\ i \in Nat /\ i > 0
            BY <1>1, <1>5, <3>1
        <3>4. Unit(CtlLen + n + i - 1) = n + i
            BY <3>3, UnitAfter
        <3> QED
            BY <3>2, <3>3, <3>4
    <2> QED
        BY <2>1, <2>2
<1>8. CtlLen + n + Size(f.rbuf) <= total
    BY <1>1, <1>4, <1>5 DEF nxt
<1>9. f.shutdown = "none" => Aligned(f, n + Size(f.rbuf), total)
    <2>1. f.rcv_nxt = CtlLen + (n + Size(f.rbuf))
        BY <1>1, <1>4, <1>5
    <2>2. ASSUME NEW q \in f.rlist PROVE CtlLen <= q.seq /\ EndOf(q) <= total /\ Stored(f, q)
        <3>1. q \in e.rlist /\ q \in Saved
            BY <1>4, EndpointFields
        <3>2. CtlLen <= q.seq /\ EndOf(q) <= total /\ Stored(e, q)
            BY <3>1 DEF Stream, Aligned
        <3>3. EndOf(q) <= Edge(e) /\ q.seq \in Nat /\ EndOf(q) \in Nat
            BY <3>1 DEF RecvOK, Saved, EndOf
        <3>4. ASSUME NEW j \in q.seq .. EndOf(q) - 1, j >= f.rcv_nxt PROVE f.rfree[j - f.rcv_nxt] = Unit(j)
            <4> DEFINE i == j - f.rcv_nxt
            <4>1. i \in 0 .. RcvCap - 1 - m /\ i + m = j - nxt /\ j >= nxt
                BY <1>1, <1>2, <1>3, <1>4, <3>3, <3>4, SMTT(40)
            <4>2. f.rfree[i] = e.rfree[j - nxt]
                BY <1>4, <4>1
            <4>3. e.rfree[j - nxt] = Unit(j)
                BY <3>2, <4>1 DEF Stored, nxt
            <4> QED
                BY <4>2, <4>3
        <3>5. Stored(f, q)
            BY <3>4 DEF Stored
        <3> QED
            BY <3>2, <3>5
    <2> QED
        BY <2>1, <2>2 DEF Aligned
<1>10. Stream(f, n, total)
    BY <1>7, <1>8, <1>9 DEF Stream
<1> QED
    BY <1>6, <1>10 DEF f

\* Receiving, from e to f, with the stream at its place before and after.
Taken(e, f, K, W, n, total) ==
    /\ Received(e, f, K, W)
    /\ Stream(e, n, total) /\ Caught(e, n) /\ e.shutdown = "none" => Stream(f, n, total) /\ Caught(f, n)

\* Taking over twice is taking over.
LEMMA TakenTrans ==
    ASSUME NEW K, NEW W, NEW n, NEW total, NEW e \in Endpoint, NEW f, NEW g,
           Taken(e, f, K, W, n, total), Taken(f, g, K, W, n, total)
    PROVE  Taken(e, g, K, W, n, total)
<1>1. Received(e, g, K, W)
    BY ReceivedTrans DEF Taken
<1>2. f.shutdown = e.shutdown
    BY DEF Taken, Received, SendSame
<1> QED
    BY <1>1, <1>2 DEF Taken

\* A saved segment is dropped from the list.
Dropped(e, r) == [e EXCEPT !.rlist = @ \ {r}]
\* Dropping it keeps the invariant and the stream.
LEMMA DropTaken ==
    ASSUME NEW K, NEW W \in Int, NEW n, NEW total, NEW e, Good(e, K, W), NEW r
    PROVE  Taken(e, Dropped(e, r), K, W, n, total)
<1> DEFINE f == Dropped(e, r)
<1>1. e \in Endpoint /\ RecvOK(e) /\ e.rlist \subseteq Saved
    <2>1. e \in Endpoint /\ RecvOK(e)
        BY DEF Good
    <2> QED
        BY <2>1, EndpointFields
<1>2. f \in Endpoint
    BY <1>1 DEF Endpoint, Dropped
<1>3. /\ SendSame(e, f) /\ f.rlist = e.rlist \ {r} /\ f.rbuf = e.rbuf /\ f.rfree = e.rfree
      /\ f.rcv_nxt = e.rcv_nxt /\ f.rcv_wnd = e.rcv_wnd
    BY <1>1 DEF Endpoint, SendSame, Dropped
<1> HIDE DEF f
<1>4. Edge(f) = Edge(e) /\ Edge(e) \in Nat /\ e.rcv_nxt \in Nat
    BY <1>1, <1>3, EndpointNumbers DEF Edge
<1>5. IsFiniteSet(f.rlist)
    BY <1>1, <1>3, FS_Subset DEF RecvOK
<1>6. RecvOK(f)
    BY <1>1, <1>3, <1>4, <1>5 DEF RecvOK
<1>7. f.rcv_nxt \in K /\ \A q \in f.rlist : EndOf(q) \in K
    BY <1>3 DEF Good
<1>8. Edge(e) <= Edge(f) /\ e.rcv_nxt <= f.rcv_nxt
    BY <1>3, <1>4
<1>9. Received(e, f, K, W)
    BY <1>2, <1>3, <1>6, <1>7, <1>8, ReceivedGood
<1>10. Stream(e, n, total) => Stream(f, n, total)
    <2>1. f.shutdown = e.shutdown
        BY <1>3 DEF SendSame
    <2>2. \A q : Stored(e, q) => Stored(f, q)
        BY <1>3 DEF Stored
    <2>3. \A k : Aligned(e, k, total) => Aligned(f, k, total)
        BY <1>3, <2>2 DEF Aligned
    <2> QED
        BY <1>3, <2>1, <2>3 DEF Stream
<1>11. Caught(e, n) => Caught(f, n)
    BY <1>3 DEF Caught
<1>12. Taken(e, f, K, W, n, total)
    BY <1>9, <1>10, <1>11 DEF Taken
<1> QED
    BY <1>12 DEF f

\* One saved segment that the data has reached is taken over.
LEMMA RecoverOneTaken ==
    ASSUME NEW K, NEW W \in Int, NEW n \in Nat, NEW total \in Nat, NEW e, Good(e, K, W)
    PROVE  Taken(e, RecoverOne(e), K, W, n, total)
<1> DEFINE due == Due(e)
           r == FirstDue(e)
           m == r.seq + r.len - e.rcv_nxt
           g == IF m > 0 THEN Consumed(e, m) ELSE e
           f == RecoverOne(e)
<1>1. e \in Endpoint /\ RecvOK(e) /\ e.rlist \subseteq Saved
    BY EndpointFields DEF Good
<1>2. e.rcv_nxt \in Nat /\ e.rcv_wnd \in Nat /\ Edge(e) = e.rcv_nxt + e.rcv_wnd
    BY <1>1, EndpointNumbers
<1>3. f = IF due = {} THEN e ELSE Dropped(g, r)
    BY DEF RecoverOne, Dropped
<1>s. Taken(e, e, K, W, n, total)
    <2>1. Edge(e) \in Nat /\ Edge(e) <= Edge(e) /\ e.rcv_nxt <= e.rcv_nxt
        BY <1>1, <1>2, EndpointNumbers
    <2>2. Received(e, e, K, W)
        BY <2>1 DEF Received, SendSame, Keeps
    <2> QED
        BY <2>2 DEF Taken
<1>4. CASE due = {}
    BY <1>3, <1>4, <1>s
<1>5. CASE due # {}
    <2>1. f = Dropped(g, r)
        BY <1>3, <1>5
    <2>2. r \in due
        <3> DEFINE T == {q.seq : q \in due}
        <3>1. T \subseteq Nat /\ T # {}
            BY <1>1, <1>5 DEF Saved, Due
        <3>2. \E x \in T : \A y \in T : x <= y
            BY <3>1, LeastMember
        <3>3. \E q \in due : \A o \in due : q.seq <= o.seq
            BY <3>2
        <3> QED
            BY <3>3 DEF FirstDue
    <2> HIDE DEF r
    <2>3. r \in e.rlist /\ r \in Saved /\ r.seq <= e.rcv_nxt /\ EndOf(r) <= Edge(e) /\ EndOf(r) \in K
        BY <1>1, <2>2 DEF RecvOK, Good, Due
    <2>4. EndOf(r) \in Nat /\ r.seq \in Nat /\ r.len \in Nat /\ EndOf(r) = r.seq + r.len
        BY <2>3 DEF Saved, EndOf
    <2> HIDE DEF due
    <2>5. CASE m > 0
        <3>1. m \in Nat /\ m <= e.rcv_wnd /\ e.rcv_nxt + m = EndOf(r)
            BY <1>2, <2>3, <2>4, <2>5
        <3>2. g = Consumed(e, m)
            BY <2>5
        <3>3. Received(e, g, K, W)
            BY <2>3, <2>5, <3>1, <3>2, ConsumedReceived
        <3>4. ASSUME Stream(e, n, total), Caught(e, n), e.shutdown = "none"
              PROVE  Stream(g, n, total) /\ Caught(g, n)
            <4>1. EndOf(r) <= total /\ Stored(e, r)
                BY <2>3, <3>4 DEF Stream, Aligned
            <4>2. ASSUME NEW i \in 0 .. m - 1 PROVE e.rfree[i] = Unit(e.rcv_nxt + i)
                <5> DEFINE j == e.rcv_nxt + i
                <5>1. j \in r.seq .. EndOf(r) - 1 /\ j >= e.rcv_nxt /\ j - e.rcv_nxt = i
                    BY <1>2, <2>3, <2>4, <3>1, <4>2
                <5> HIDE DEF j
                <5>2. e.rfree[j - e.rcv_nxt] = Unit(j)
                    BY <4>1, <5>1 DEF Stored
                <5> QED
                    BY <5>1, <5>2 DEF j
            <4> HIDE DEF m
            <4> QED
                BY <1>1, <2>5, <3>1, <3>2, <3>4, <4>1, <4>2, ConsumedStream
        <3>5. Taken(e, g, K, W, n, total)
            BY <3>3, <3>4 DEF Taken
        <3> HIDE DEF g
        <3>6. Good(g, K, W)
            BY <3>3 DEF Received
        <3>7. Taken(g, f, K, W, n, total)
            BY <2>1, <3>6, DropTaken
        <3> QED
            BY <1>1, <3>5, <3>7, TakenTrans
    <2>6. CASE ~(m > 0)
        <3>1. g = e
            BY <2>6
        <3> QED
            BY <2>1, <3>1, DropTaken
    <2> QED
        BY <2>5, <2>6
<1> QED
    BY <1>4, <1>5

\* All of them are: the rounds of Recover.
IsRecovering(f, e, N) == f = [n \in 0 .. N |-> IF n = 0 THEN e ELSE RecoverOne(f[n - 1])]
\* The recursive function of Recover exists.
LEMMA RecoveringDefined ==
    ASSUME NEW a
    PROVE  \A N \in Nat : \E f : IsRecovering(f, a, N)
<1> DEFINE S == {k \in Nat : \E f : IsRecovering(f, a, k)}
<1>1. 0 \in S
    <2> DEFINE f == [n \in 0 .. 0 |-> a]
    <2>1. IsRecovering(f, a, 0)
        BY DEF IsRecovering
    <2> QED
        BY <2>1
<1>2. ASSUME NEW k \in Nat, k \in S PROVE k + 1 \in S
    <2>1. PICK f : IsRecovering(f, a, k)
        BY <1>2
    <2> DEFINE g == [n \in 0 .. k + 1 |-> IF n <= k THEN f[n] ELSE RecoverOne(f[k])]
    <2>2. IsRecovering(g, a, k + 1)
        <3> HIDE DEF S
        <3> SUFFICES ASSUME NEW n \in 0 .. k + 1
                     PROVE  g[n] = IF n = 0 THEN a ELSE RecoverOne(g[n - 1])
            BY DEF IsRecovering
        <3>1. CASE n <= k
            <4>1. g[n] = f[n]
                BY <3>1
            <4>2. n # 0 => g[n - 1] = f[n - 1]
                BY <3>1
            <4>3. f[n] = IF n = 0 THEN a ELSE RecoverOne(f[n - 1])
                BY <2>1, <3>1 DEF IsRecovering
            <4> QED
                BY <4>1, <4>2, <4>3
        <3>2. CASE n = k + 1
            BY <3>2
        <3> QED
            BY <3>1, <3>2
    <2> HIDE DEF g
    <2> QED
        BY <2>2
<1> HIDE DEF S
<1>3. Nat \subseteq S
    BY <1>1, <1>2, Induction
<1> QED
    BY <1>3 DEF S

\* Recover takes over saved segments only where the stream has reached them.
LEMMA RecoverTaken ==
    ASSUME NEW K, NEW W \in Int, NEW n \in Nat, NEW total \in Nat, NEW e, Good(e, K, W)
    PROVE  Taken(e, Recover(e), K, W, n, total)
<1> DEFINE N == Cardinality(e.rlist)
           F == CHOOSE f : IsRecovering(f, e, N)
           S == {k \in Nat : k <= N => Taken(e, F[k], K, W, n, total)}
<1>1. N \in Nat
    BY FS_CardinalityType DEF Good, RecvOK
<1>2. Recover(e) = F[N]
    BY DEF Recover, IsRecovering
<1>3. IsRecovering(F, e, N)
    BY <1>1, RecoveringDefined
<1> HIDE DEF N, F
<1>4. F[0] = e /\ \A k \in 1 .. N : F[k] = RecoverOne(F[k - 1])
    BY <1>1, <1>3 DEF IsRecovering
<1>5. e \in Endpoint
    BY DEF Good
<1>6. 0 \in S
    <2>1. Edge(e) \in Nat /\ Edge(e) <= Edge(e) /\ e.rcv_nxt <= e.rcv_nxt
        BY <1>5, EndpointNumbers
    <2>2. Received(e, e, K, W)
        BY <2>1 DEF Received, SendSame, Keeps
    <2> QED
        BY <1>4, <2>2 DEF Taken
<1>7. ASSUME NEW k \in Nat, k \in S PROVE k + 1 \in S
    <2> SUFFICES ASSUME k + 1 <= N PROVE Taken(e, F[k + 1], K, W, n, total)
        OBVIOUS
    <2>1. k + 1 \in 1 .. N /\ (k + 1) - 1 = k /\ k <= N
        BY <1>1
    <2>2. F[k + 1] = RecoverOne(F[k])
        BY <1>4, <2>1
    <2>3. Taken(e, F[k], K, W, n, total)
        BY <1>7, <2>1
    <2> HIDE DEF S
    <2>4. Good(F[k], K, W)
        BY <2>3 DEF Taken, Received
    <2>5. Taken(F[k], F[k + 1], K, W, n, total)
        BY <2>2, <2>4, RecoverOneTaken
    <2> QED
        BY <1>5, <2>3, <2>5, TakenTrans
<1> HIDE DEF S
<1>8. Nat \subseteq S
    BY <1>6, <1>7, Induction
<1> QED
    BY <1>1, <1>2, <1>8 DEF S

\* Data is written into the free space, at its distance from rcv_nxt.
Written(e, seg) == WriteOffset(e, seg.data, seg.seq - e.rcv_nxt)
Genuine(seg) ==
    /\ seg.data \in Seq(Int) /\ seg.seq \in Nat
    /\ \A i \in 1 .. Size(seg.data) : seg.data[i] = Unit(seg.seq + i - 1)
Overwritten(e, f, seg, K, W, n, total) ==
    /\ Received(e, f, K, W) /\ f.rlist = e.rlist /\ f.rbuf = e.rbuf
    /\ f.rcv_nxt = e.rcv_nxt /\ f.rcv_wnd = e.rcv_wnd
    /\ Stream(e, n, total) => Stream(f, n, total)
    /\ \A i \in 0 .. RcvCap - 1 :
          seg.seq <= e.rcv_nxt + i /\ e.rcv_nxt + i < seg.seq + Size(seg.data) =>
             f.rfree[i] = Unit(e.rcv_nxt + i)
\* Writing a part of the stream into the free space leaves what is saved there true.
LEMMA WrittenTaken ==
    ASSUME NEW K, NEW W \in Int, NEW n \in Nat, NEW total \in Nat, NEW e, Good(e, K, W),
           NEW seg, Genuine(seg), e.rcv_nxt <= seg.seq
    PROVE  Overwritten(e, Written(e, seg), seg, K, W, n, total)
<1> DEFINE f == Written(e, seg)
           nxt == e.rcv_nxt
           off == seg.seq - nxt
           data == seg.data
           m == Size(data)
           free == [i \in 0 .. RcvCap - 1 |->
                      IF i >= off /\ i < off + m THEN data[i - off + 1] ELSE e.rfree[i]]
<1>1. e \in Endpoint /\ RecvOK(e)
    BY DEF Good
<1>2. /\ e.rfree \in [0 .. RcvCap - 1 -> Int] /\ e.rlist \subseteq Saved
    BY <1>1, EndpointFields
<1>3. /\ nxt \in Nat /\ e.rcv_wnd \in Nat /\ RcvCap \in Nat /\ m \in Nat /\ off \in Nat
      /\ Edge(e) = nxt + e.rcv_wnd /\ Size(e.rbuf) \in Nat /\ seg.seq \in Nat
    <2>1. m \in Nat /\ seg.seq \in Nat
        BY DEF Size, Genuine
    <2> QED
        BY <1>1, <2>1, EndpointNumbers, Sizes, SMTT(40)
<1>4. DOMAIN data = 1 .. m /\ \A i \in 1 .. m : data[i] \in Int
    BY DEF Size, Genuine
<1>5. f = [e EXCEPT !.rfree = free]
    BY <1>2 DEF Written, WriteOffset, Size
<1>6. ASSUME NEW i \in 0 .. RcvCap - 1
      PROVE  /\ i >= off /\ i < off + m => free[i] = Unit(nxt + i) /\ free[i] \in Int
             /\ ~(i >= off /\ i < off + m) => free[i] = e.rfree[i] /\ free[i] \in Int
    <2>1. CASE i >= off /\ i < off + m
        <3>1. i - off + 1 \in 1 .. m /\ seg.seq + (i - off + 1) - 1 = nxt + i
            BY <1>3, <2>1
        <3>2. free[i] = data[i - off + 1]
            BY <2>1
        <3> HIDE DEF free, data, off, nxt, m
        <3>3. data[i - off + 1] = Unit(seg.seq + (i - off + 1) - 1)
            BY <3>1 DEF data, m, Genuine
        <3>4. data[i - off + 1] \in Int
            BY <1>4, <3>1
        <3> QED
            BY <2>1, <3>1, <3>2, <3>3, <3>4
    <2>2. CASE ~(i >= off /\ i < off + m)
        BY <1>2, <2>2
    <2> QED
        BY <2>1, <2>2
<1>7. free \in [0 .. RcvCap - 1 -> Int]
    <2>1. \A i \in 0 .. RcvCap - 1 : free[i] \in Int
        BY <1>6
    <2> QED
        BY <2>1
<1> HIDE DEF free, f
<1>8. f \in Endpoint
    BY <1>1, <1>5, <1>7, ZenonT(40) DEF Endpoint
<1>9. /\ SendSame(e, f) /\ f.rlist = e.rlist /\ f.rbuf = e.rbuf /\ f.rcv_nxt = nxt
      /\ f.rcv_wnd = e.rcv_wnd /\ f.rfree = free
    BY <1>1, <1>5 DEF Endpoint, SendSame
<1>10. Edge(f) = Edge(e)
    BY <1>9 DEF Edge
<1>11. Received(e, f, K, W)
    <2>1. RecvOK(f)
        BY <1>1, <1>9, <1>10 DEF RecvOK
    <2>2. f.rcv_nxt \in K /\ \A q \in f.rlist : EndOf(q) \in K
        BY <1>9 DEF Good
    <2>3. Edge(e) <= Edge(f) /\ e.rcv_nxt <= f.rcv_nxt
        BY <1>3, <1>9, <1>10
    <2> QED
        BY <1>8, <1>9, <2>1, <2>2, <2>3, ReceivedGood
<1>12. ASSUME NEW q \in e.rlist, Stored(e, q) PROVE Stored(f, q)
    <2>1. q.seq \in Nat /\ EndOf(q) \in Nat /\ EndOf(q) <= Edge(e) /\ Size(e.rbuf) + e.rcv_wnd <= RcvCap
        BY <1>1, <1>2 DEF RecvOK, Saved, EndOf
    <2> SUFFICES ASSUME NEW j \in q.seq .. EndOf(q) - 1, j >= f.rcv_nxt
                 PROVE  f.rfree[j - f.rcv_nxt] = Unit(j)
        BY DEF Stored
    <2> DEFINE i == j - nxt
    <2>2. i \in 0 .. RcvCap - 1 /\ nxt + i = j
        BY <1>3, <1>9, <2>1
    <2>3. e.rfree[i] = Unit(j)
        <3>1. j >= e.rcv_nxt
            BY <1>9 DEF nxt
        <3> QED
            BY <1>12, <3>1 DEF Stored
    <2> HIDE DEF i
    <2>4. free[i] = Unit(j)
        BY <1>6, <2>2, <2>3
    <2> QED
        BY <1>9, <2>4 DEF i
<1>13. Stream(e, n, total) => Stream(f, n, total)
    <2>1. f.shutdown = e.shutdown
        BY <1>9 DEF SendSame
    <2>2. \A k : Aligned(e, k, total) => Aligned(f, k, total)
        BY <1>9, <1>12 DEF Aligned, nxt
    <2> QED
        BY <1>9, <2>1, <2>2 DEF Stream
<1>14. ASSUME NEW i \in 0 .. RcvCap - 1, seg.seq <= nxt + i, nxt + i < seg.seq + m
       PROVE  f.rfree[i] = Unit(nxt + i)
    <2>1. i >= off /\ i < off + m
        BY <1>3, <1>14
    <2> QED
        BY <1>6, <1>9, <2>1
<1>15. /\ Received(e, f, K, W) /\ f.rlist = e.rlist /\ f.rbuf = e.rbuf
       /\ f.rcv_nxt = e.rcv_nxt /\ f.rcv_wnd = e.rcv_wnd
       /\ Stream(e, n, total) => Stream(f, n, total)
    BY <1>9, <1>11, <1>13
<1>16. Overwritten(e, f, seg, K, W, n, total)
    BY <1>14, <1>15 DEF Overwritten
<1> QED
    BY <1>16 DEF f

\* Data that is counted as received and dropped.
Counted(e, m) == [e EXCEPT !.rcv_nxt = @ + m]
\* Counting keeps the invariant.
LEMMA CountedReceived ==
    ASSUME NEW K, NEW W \in Int, NEW e, Good(e, K, W), NEW m \in Nat, e.rcv_nxt + m \in K
    PROVE  LET f == Counted(e, m) IN
           Received(e, f, K, W) /\ f.rbuf = e.rbuf /\ f.rlist = e.rlist /\ f.rcv_nxt = e.rcv_nxt + m
<1> DEFINE f == Counted(e, m)
<1>1. e \in Endpoint /\ RecvOK(e)
    BY DEF Good
<1>2. e.rcv_nxt \in Nat /\ e.rcv_wnd \in Nat /\ Edge(e) = e.rcv_nxt + e.rcv_wnd /\ RcvCap \in Nat
    BY <1>1, EndpointNumbers, Sizes
<1>3. f \in Endpoint
    <2>1. e.rcv_nxt + m \in Nat
        BY <1>2
    <2> QED
        BY <1>1, <2>1 DEF Endpoint, Counted
<1>4. /\ SendSame(e, f) /\ f.rlist = e.rlist /\ f.rbuf = e.rbuf /\ f.rcv_nxt = e.rcv_nxt + m
      /\ f.rcv_wnd = e.rcv_wnd
    BY <1>1 DEF Endpoint, SendSame, Counted
<1> HIDE DEF f
<1>5. Edge(f) = Edge(e) + m
    BY <1>2, <1>4 DEF Edge
<1>6. Edge(e) <= Edge(f) /\ e.rcv_nxt <= f.rcv_nxt
    BY <1>2, <1>4, <1>5
<1>7. RecvOK(f)
    <2>1. RcvCap <= Edge(f)
        BY <1>1, <1>2, <1>5 DEF RecvOK
    <2>2. ASSUME NEW q \in f.rlist PROVE EndOf(q) <= Edge(f)
        <3>1. EndOf(q) \in Nat /\ EndOf(q) <= Edge(e)
            BY <1>1, <1>4, EndpointFields, SMTT(40) DEF RecvOK, Saved, EndOf
        <3> QED
            BY <1>2, <1>5, <3>1
    <2> QED
        BY <1>1, <1>4, <2>1, <2>2 DEF RecvOK
<1>8. f.rcv_nxt \in K /\ \A q \in f.rlist : EndOf(q) \in K
    BY <1>4 DEF Good
<1>9. Received(e, f, K, W)
    BY <1>3, <1>4, <1>6, <1>7, <1>8, ReceivedGood
<1> QED
    BY <1>4, <1>9 DEF f

\* Data that is out of order, kept for later.
Kept(e, q) == [e EXCEPT !.rlist = @ \cup {q}]
\* Keeping it does too, when its end lies in the window.
LEMMA KeptReceived ==
    ASSUME NEW K, NEW W \in Int, NEW e, Good(e, K, W), NEW q \in Saved, EndOf(q) \in K, EndOf(q) <= Edge(e)
    PROVE  LET f == Kept(e, q) IN
           /\ Received(e, f, K, W) /\ f.rbuf = e.rbuf /\ f.rlist = e.rlist \cup {q}
           /\ f.rcv_nxt = e.rcv_nxt /\ f.rfree = e.rfree
<1> DEFINE f == Kept(e, q)
<1>1. e \in Endpoint /\ RecvOK(e)
    BY DEF Good
<1>2. e.rcv_nxt \in Nat /\ Edge(e) \in Nat
    BY <1>1, EndpointNumbers
<1>3. f \in Endpoint
    BY <1>1, ZenonT(40) DEF Endpoint, Kept
<1>4. /\ SendSame(e, f) /\ f.rlist = e.rlist \cup {q} /\ f.rbuf = e.rbuf /\ f.rcv_nxt = e.rcv_nxt
      /\ f.rcv_wnd = e.rcv_wnd /\ f.rfree = e.rfree
    BY <1>1 DEF Endpoint, SendSame, Kept
<1> HIDE DEF f
<1>5. Edge(f) = Edge(e) /\ Edge(e) <= Edge(f) /\ e.rcv_nxt <= f.rcv_nxt
    BY <1>2, <1>4 DEF Edge
<1>6. RecvOK(f)
    <2>1. IsFiniteSet(e.rlist \cup {q})
        BY <1>1, FS_AddElement DEF RecvOK
    <2> QED
        BY <1>1, <1>4, <1>5, <2>1 DEF RecvOK
<1>7. f.rcv_nxt \in K /\ \A r \in f.rlist : EndOf(r) \in K
    BY <1>4 DEF Good
<1>8. Received(e, f, K, W)
    BY <1>3, <1>4, <1>5, <1>6, <1>7, ReceivedGood
<1> QED
    BY <1>4, <1>8 DEF f

\* Past the connect message an endpoint has caught up with the stream.
LEMMA PastConnect ==
    ASSUME NEW e \in Endpoint, NEW n \in Nat, NEW total, Stream(e, n, total), e.shutdown = "none",
           CtlLen <= e.rcv_nxt
    PROVE  Caught(e, n)
<1> DEFINE h == Size(e.rbuf)
           nxt == e.rcv_nxt
<1>1. h \in Nat /\ nxt \in Nat /\ CtlLen \in Nat
    BY EndpointNumbers, Sizes
<1>2. nxt = CtlLen + (n + h) \/ (nxt <= CtlLen /\ n + h = 0)
    BY DEF Stream, Aligned
<1> HIDE DEF h, nxt
<1>3. nxt = CtlLen + n + h
    BY <1>1, <1>2 DEF nxt
<1> QED
    BY <1>3 DEF Caught, h, nxt

\* The data of a packet: what is new of it is received, in its place.
Arrived(e, f, p, K, W, n, total) ==
    /\ Received(e, f, K, W)
    /\ Stream(e, n, total) /\ (p.data # <<>> /\ ~p.ctl => CtlLen <= e.rcv_nxt) => Stream(f, n, total)
    /\ p.data # <<>> /\ p.seq <= e.rcv_nxt => p.seq + Size(p.data) <= f.rcv_nxt
\* The data of a packet keeps the invariant of the endpoint, and the stream when it does
\* not overtake the connect message.
LEMMA ProcessDataArrived ==
    ASSUME NEW K, NEW W \in Int, NEW n \in Nat, NEW total \in Nat, NEW e, Good(e, K, W), NEW p,
           Expected(p, e, K, total)
    PROVE  Arrived(e, ProcessData(e, p), p, K, W, n, total)
<1> DEFINE seg == Trim(e, p)
           m == Size(seg.data)
           end == p.seq + Size(p.data)
           written == Written(e, seg)
           f == ProcessData(e, p)
<1>1. e \in Endpoint /\ RecvOK(e)
    BY DEF Good
<1>2. NewPart(seg, p, e)
    BY <1>1, TrimKeepsNew
<1>3. f = CASE m = 0 -> e
            [] m > 0 /\ (p.ctl \/ e.shutdown # "none") ->
                 IF seg.seq = e.rcv_nxt THEN Counted(e, m) ELSE e
            [] m > 0 /\ ~p.ctl /\ e.shutdown = "none" /\ seg.seq = e.rcv_nxt ->
                 Recover(Consumed(written, m))
            [] OTHER -> Kept(written, [seq |-> seg.seq, len |-> m])
    BY DEF ProcessData, Written, Counted, Kept, Size
<1>4. /\ e.rcv_nxt \in Nat /\ e.rcv_wnd \in Nat /\ Edge(e) = e.rcv_nxt + e.rcv_wnd /\ RcvCap \in Nat
      /\ CtlLen \in Nat /\ p.seq \in Int /\ Size(p.data) \in Nat /\ m \in Nat
      /\ e.rcv_wnd <= RcvCap
    <2>1. p \in Packets
        BY DEF Expected
    <2>2. p.seq \in Int /\ Size(p.data) \in Nat
        BY <2>1 DEF Packets, Size
    <2>3. Size(e.rbuf) \in Nat /\ Size(e.rbuf) + e.rcv_wnd <= RcvCap
        BY <1>1, EndpointNumbers DEF RecvOK
    <2> QED
        BY <1>1, <1>2, <2>2, <2>3, EndpointNumbers, Sizes, SMTT(40) DEF NewPart
<1>s. Received(e, e, K, W)
    <2>1. Edge(e) \in Nat /\ Edge(e) <= Edge(e) /\ e.rcv_nxt <= e.rcv_nxt
        BY <1>1, <1>4, EndpointNumbers
    <2> QED
        BY <2>1 DEF Received, SendSame, Keeps
<1> HIDE DEF f, seg, m
<1>5. CASE m = 0
    <2>1. f = e
        BY <1>3, <1>4, <1>5
    <2>2. p.data # <<>> => end <= e.rcv_nxt
        BY <1>2, <1>5 DEF NewPart, m
    <2> QED
        BY <1>s, <2>1, <2>2 DEF Arrived, f
<1>6. CASE m > 0
    <2>1. /\ p.data # <<>> /\ seg.seq \in Nat /\ e.rcv_nxt <= seg.seq /\ p.seq <= seg.seq
          /\ seg.seq + m = end /\ (p.seq <= e.rcv_nxt => seg.seq = e.rcv_nxt)
          /\ Genuine(seg)
        BY <1>2, <1>6 DEF NewPart, m, Genuine
    <2>2. /\ end \in K /\ end <= Edge(e) /\ end <= total /\ p.seq >= 0
          /\ (p.ctl => end <= CtlLen) /\ (~p.ctl => p.seq >= CtlLen)
        <3>1. /\ end \in K /\ end <= Edge(e) /\ end <= total /\ p.seq >= 0 /\ (~p.ctl => p.seq >= CtlLen)
              /\ p.ctl => p.seq = 0 /\ Size(p.data) = CtlLen
            BY <2>1 DEF Expected, DataOK
        <3>2. p.ctl => end <= CtlLen
            BY <1>4, <3>1
        <3> QED
            BY <3>1, <3>2
    <2>3. m # 0
        BY <1>6
    <2>4. CASE p.ctl \/ e.shutdown # "none"
        <3>1. CASE seg.seq = e.rcv_nxt
            <4>1. f = Counted(e, m)
                BY <1>3, <1>6, <2>3, <2>4, <3>1
            <4>2. e.rcv_nxt + m \in K
                BY <2>1, <2>2, <3>1
            <4>3. /\ Received(e, f, K, W) /\ f.rbuf = e.rbuf /\ f.rlist = e.rlist
                  /\ f.rcv_nxt = e.rcv_nxt + m
                BY <1>4, <4>1, <4>2, CountedReceived
            <4>4. f.rcv_nxt = end /\ end \in Nat
                BY <1>4, <2>1, <3>1, <4>3
            <4>5. f.shutdown = e.shutdown
                BY <4>3 DEF Received, SendSame
            <4>6. ASSUME NEW k \in Nat, e.shutdown = "none", Aligned(e, k, total)
                  PROVE  Aligned(f, k, total)
                <5>1. p.ctl
                    BY <2>4, <4>6
                <5>2. ~(e.rcv_nxt = CtlLen + k)
                    BY <1>4, <1>6, <2>1, <2>2, <3>1, <4>6, <5>1, SMTT(40)
                <5>3. k = 0 /\ e.rlist = {}
                    BY <4>6, <5>2 DEF Aligned
                <5>4. f.rcv_nxt <= CtlLen
                    BY <2>2, <4>4, <5>1
                <5> QED
                    BY <4>3, <5>3, <5>4 DEF Aligned
            <4>7. Stream(e, n, total) => Stream(f, n, total)
                <5>1. n + Size(e.rbuf) \in Nat
                    BY <1>1, EndpointNumbers
                <5> QED
                    BY <4>3, <4>5, <4>6, <5>1 DEF Stream
            <4>8. end <= f.rcv_nxt
                BY <4>4
            <4> QED
                BY <4>3, <4>7, <4>8 DEF Arrived, f
        <3>2. CASE seg.seq # e.rcv_nxt
            <4>1. f = e
                BY <1>3, <1>6, <2>3, <2>4, <3>2
            <4> QED
                BY <1>s, <2>1, <3>2, <4>1 DEF Arrived, f
        <3> QED
            BY <3>1, <3>2
    <2>5. CASE ~p.ctl /\ e.shutdown = "none"
        <3>1. /\ Received(e, written, K, W) /\ written.rlist = e.rlist /\ written.rbuf = e.rbuf
              /\ written.rcv_nxt = e.rcv_nxt /\ written.rcv_wnd = e.rcv_wnd
              /\ Stream(e, n, total) => Stream(written, n, total)
              /\ \A i \in 0 .. RcvCap - 1 :
                    seg.seq <= e.rcv_nxt + i /\ e.rcv_nxt + i < seg.seq + Size(seg.data) =>
                       written.rfree[i] = Unit(e.rcv_nxt + i)
            <4>1. Overwritten(e, written, seg, K, W, n, total)
                BY <2>1, WrittenTaken
            <4> HIDE DEF written
            <4> QED
                BY <4>1, Zenon DEF Overwritten
        <3> HIDE DEF written
        <3>2. Good(written, K, W) /\ written \in Endpoint /\ written.shutdown = "none" /\ RecvOK(written)
            BY <2>5, <3>1 DEF Received, SendSame, Good
        <3>3. Edge(written) = Edge(e)
            BY <3>1 DEF Edge
        <3>4. ASSUME Stream(e, n, total), CtlLen <= e.rcv_nxt
              PROVE  Stream(written, n, total) /\ Caught(written, n)
            BY <3>1, <3>2, <3>4, PastConnect
        <3>5. CASE seg.seq = e.rcv_nxt
            <4> DEFINE c == Consumed(written, m)
            <4>1. f = Recover(c)
                BY <1>3, <1>6, <2>3, <2>5, <3>5
            <4>2. written.rcv_nxt + m = end /\ m <= written.rcv_wnd /\ m <= RcvCap
                BY <1>4, <2>1, <2>2, <3>1, <3>5, SMTT(40)
            <4>3. Received(written, c, K, W)
                BY <1>4, <1>6, <2>2, <3>2, <4>2, ConsumedReceived
            <4>4. Good(c, K, W) /\ c \in Endpoint /\ c.shutdown = "none"
                BY <3>2, <4>3 DEF Received, Good, SendSame
            <4>5. ASSUME Stream(e, n, total), CtlLen <= e.rcv_nxt
                  PROVE  Stream(c, n, total) /\ Caught(c, n)
                <5>1. ASSUME NEW i \in 0 .. m - 1 PROVE written.rfree[i] = Unit(written.rcv_nxt + i)
                    <6>1. i \in 0 .. RcvCap - 1 /\ seg.seq <= e.rcv_nxt + i /\ e.rcv_nxt + i < seg.seq + m
                        BY <1>4, <2>1, <3>5, <4>2, SMTT(40)
                    <6> QED
                        BY <3>1, <6>1 DEF m
                <5> QED
                    BY <1>4, <1>6, <2>2, <3>2, <3>4, <4>2, <4>5, <5>1, ConsumedStream
            <4>6. c.rcv_nxt = written.rcv_nxt + m
                <5>1. written.rcv_wnd <= RcvCap
                    BY <1>4, <3>1
                <5> QED
                    BY <1>4, <1>6, <3>2, <4>2, <5>1, ConsumedFields
            <4> HIDE DEF c
            <4>7. Taken(c, f, K, W, n, total)
                BY <4>1, <4>4, RecoverTaken
            <4>8. Received(e, f, K, W)
                BY <1>1, <3>1, <3>2, <4>3, <4>7, ReceivedTrans DEF Taken
            <4>9. Stream(e, n, total) /\ CtlLen <= e.rcv_nxt => Stream(f, n, total)
                BY <4>4, <4>5, <4>7 DEF Taken
            <4>10. end <= f.rcv_nxt
                <5>1. c.rcv_nxt <= f.rcv_nxt
                    BY <4>7 DEF Taken, Received
                <5> QED
                    BY <4>2, <4>6, <5>1
            <4> QED
                BY <2>1, <2>5, <4>8, <4>9, <4>10 DEF Arrived, f
        <3>6. CASE seg.seq # e.rcv_nxt
            <4> DEFINE q == [seq |-> seg.seq, len |-> m]
            <4>1. f = Kept(written, q)
                BY <1>3, <1>6, <2>3, <2>5, <3>6
            <4>2. q \in Saved /\ q.seq = seg.seq /\ EndOf(q) = end
                BY <1>4, <1>6, <2>1 DEF Saved, EndOf
            <4> HIDE DEF q
            <4>3. /\ Received(written, f, K, W) /\ f.rbuf = written.rbuf /\ f.rlist = written.rlist \cup {q}
                  /\ f.rcv_nxt = written.rcv_nxt /\ f.rfree = written.rfree
                BY <2>2, <3>2, <3>3, <4>1, <4>2, KeptReceived
            <4>4. Received(e, f, K, W)
                BY <1>1, <3>1, <4>3, ReceivedTrans
            <4>5. ASSUME Stream(e, n, total), CtlLen <= e.rcv_nxt
                  PROVE  Stream(f, n, total)
                <5>1. Stream(written, n, total) /\ Caught(written, n)
                    BY <3>4, <4>5
                <5>2. Stored(f, q)
                    <6> SUFFICES ASSUME NEW j \in q.seq .. EndOf(q) - 1, j >= f.rcv_nxt
                                 PROVE  f.rfree[j - f.rcv_nxt] = Unit(j)
                        BY DEF Stored
                    <6> DEFINE i == j - e.rcv_nxt
                    <6>1. i \in 0 .. RcvCap - 1 /\ e.rcv_nxt + i = j /\ seg.seq <= j /\ j < seg.seq + m
                        <7> DEFINE nxt == e.rcv_nxt
                                   at == seg.seq
                        <7>1. /\ nxt \in Nat /\ at \in Nat /\ m \in Nat /\ RcvCap \in Nat /\ nxt <= j
                              /\ j \in at .. (at + m) - 1 /\ at + m <= nxt + e.rcv_wnd
                              /\ e.rcv_wnd \in Nat /\ e.rcv_wnd <= RcvCap
                            BY <1>4, <2>1, <2>2, <3>1, <4>2, <4>3
                        <7> HIDE DEF nxt, at
                        <7>2. j - nxt \in 0 .. RcvCap - 1 /\ nxt + (j - nxt) = j /\ at <= j /\ j < at + m
                            BY <7>1
                        <7> QED
                            BY <7>2 DEF nxt, at
                    <6> HIDE DEF i
                    <6>2. written.rfree[i] = Unit(j)
                        BY <3>1, <6>1 DEF m
                    <6> QED
                        BY <3>1, <4>3, <6>2 DEF i
                <5>3. CtlLen <= q.seq
                    BY <1>4, <2>1, <2>2, <2>5, <4>2
                <5>4. \A r : Stored(written, r) => Stored(f, r)
                    BY <4>3 DEF Stored
                <5>5. f.shutdown = "none"
                    BY <3>2, <4>3 DEF Received, SendSame
                <5>6. Aligned(written, n + Size(written.rbuf), total)
                    BY <3>2, <5>1 DEF Stream
                <5>7. f.rcv_nxt = CtlLen + (n + Size(f.rbuf))
                    <6>1. written.rcv_nxt = CtlLen + n + Size(written.rbuf) /\ Size(written.rbuf) \in Nat
                        BY <3>2, <5>1, EndpointNumbers DEF Caught
                    <6> DEFINE h == Size(written.rbuf)
                    <6> HIDE DEF h
                    <6>2. CtlLen + n + h = CtlLen + (n + h)
                        BY <1>4, <6>1 DEF h
                    <6> QED
                        BY <4>3, <6>1, <6>2 DEF h
                <5>8. Aligned(f, n + Size(f.rbuf), total)
                    <6>1. ASSUME NEW r \in f.rlist
                          PROVE  CtlLen <= r.seq /\ EndOf(r) <= total /\ Stored(f, r)
                        <7>1. CASE r = q
                            BY <2>2, <4>2, <5>2, <5>3, <7>1
                        <7>2. CASE r \in written.rlist
                            BY <5>4, <5>6, <7>2 DEF Aligned
                        <7> QED
                            BY <4>3, <7>1, <7>2
                    <6> QED
                        BY <5>7, <6>1 DEF Aligned
                <5> QED
                    BY <4>3, <5>1, <5>8 DEF Stream
            <4> QED
                BY <2>1, <2>5, <3>6, <4>4, <4>5 DEF Arrived, f
        <3> QED
            BY <3>5, <3>6
    <2> QED
        BY <2>4, <2>5
<1> QED
    BY <1>4, <1>5, <1>6

-----------------------------------------------------------------------------
(***************************************************************************)
(* A packet, all of it.                                                     *)
(***************************************************************************)
\* What an operation does to an endpoint that it does not end.
Progress(e, f, K, W) ==
    /\ Good(f, K, W) /\ Keeps(e, f) /\ Grown(e, f) /\ Edge(e) <= Edge(f)
    /\ ~Deaf(f) /\ ReaderOK(f)
\* What a packet does to the state of an endpoint: its control code, and then
\* the rest of it.
Turned(s, t, ctl) ==
    \/ ctl /\ s = "LISTEN" /\ t = "SYN_RECEIVED"
    \/ ctl /\ s = "SYN_SENT" /\ t = "ESTABLISHED"
    \/ ~(ctl /\ s \in {"LISTEN", "SYN_SENT"}) /\ t = s
Advanced(s, t, ctl) == Turned(s, t, ctl) \/ (~ctl /\ s = "SYN_RECEIVED" /\ t = "ESTABLISHED")
Processed(e, f, p, K, W, n, total) ==
    /\ Progress(e, f, K, W) /\ e.rcv_nxt <= f.rcv_nxt /\ f.shutdown = e.shutdown
    /\ Advanced(e.state, f.state, p.ctl)
    /\ Stream(e, n, total) /\ (p.data # <<>> /\ ~p.ctl => CtlLen <= e.rcv_nxt) => Stream(f, n, total)
    /\ p.data # <<>> /\ p.seq <= e.rcv_nxt => p.seq + Size(p.data) <= f.rcv_nxt

\* The stream depends on the receiving part of an endpoint alone.
LEMMA SameStream ==
    ASSUME NEW e, NEW f, RecvSame(e, f), NEW n, NEW total, Stream(e, n, total)
    PROVE  Stream(f, n, total)
<1>1. \A q : Stored(e, q) => Stored(f, q)
    BY DEF Stored, RecvSame
<1>2. \A k : Aligned(e, k, total) => Aligned(f, k, total)
    BY <1>1 DEF Aligned, RecvSame
<1> QED
    BY <1>2 DEF Stream, RecvSame

\* Nothing more has been heard of the peer's silence.
LEMMA ProbesOpened ==
    ASSUME NEW K, NEW W \in Int, NEW e, Good(e, K, W), NEW n \in Nat
    PROVE  Opened(e, [e EXCEPT !.probes = n], K, W) /\ [e EXCEPT !.probes = n].state = e.state
<1> DEFINE f == [e EXCEPT !.probes = n]
<1>1. e \in Endpoint
    BY DEF Good
<1>2. f \in Endpoint
    BY <1>1 DEF Endpoint
<1>3. /\ f.state = e.state /\ Core(e, f) /\ f.recover = e.recover /\ f.shutdown = e.shutdown
      /\ f.readEnable = e.readEnable
    BY <1>1 DEF Endpoint, Core
<1> HIDE DEF f
<1>4. Opened(e, f, K, W)
    BY <1>2, <1>3, CoreOpened DEF Deaf
<1> QED
    BY <1>3, <1>4 DEF f

\* The control code sets the state.
LEMMA ProcessConnectTurns ==
    ASSUME NEW K, NEW W \in Int, NEW e, Good(e, K, W), NEW p \in Packets,
           e.state = "LISTEN" => Total(e) = 0, CtlLen <= W
    PROVE  Turned(e.state, ProcessConnect(e, p).state, p.ctl)
<1>1. e \in Endpoint
    BY DEF Good
<1>2. CASE p.ctl /\ e.state = "LISTEN"
    <2> DEFINE f == QueueConnectMessage([e EXCEPT !.state = "SYN_RECEIVED"])
    <2>1. ProcessConnect(e, p) = f /\ Total(e) = 0
        BY <1>2 DEF ProcessConnect
    <2>2. f.state = "SYN_RECEIVED"
        BY <1>2, <2>1, ConnectOpened
    <2> HIDE DEF f
    <2> QED
        BY <1>2, <2>1, <2>2 DEF Turned
<1>3. CASE p.ctl /\ e.state = "SYN_SENT"
    <2>1. ProcessConnect(e, p) = AdjustMTU([e EXCEPT !.state = "ESTABLISHED"])
        BY <1>3 DEF ProcessConnect
    <2>2. AdjustMTU([e EXCEPT !.state = "ESTABLISHED"]).state = "ESTABLISHED"
        BY <1>1 DEF AdjustMTU, Endpoint
    <2> QED
        BY <1>3, <2>1, <2>2 DEF Turned
<1>4. CASE ~(p.ctl /\ e.state = "LISTEN") /\ ~(p.ctl /\ e.state = "SYN_SENT")
    <2>1. ProcessConnect(e, p) = e
        BY <1>4 DEF ProcessConnect
    <2> QED
        BY <1>4, <2>1 DEF Turned
<1> QED
    BY <1>2, <1>3, <1>4

\* The notifications: an answer that is not a connect message is the end of
\* opening.
LEMMA ProcessNotifyAdvances ==
    ASSUME NEW e \in Endpoint, NEW p, NEW s, Turned(s, e.state, p.ctl)
    PROVE  Advanced(s, ProcessNotify(e, p).state, p.ctl)
<1> DEFINE f == IF e.state = "SYN_RECEIVED" /\ ~p.ctl
                THEN AdjustMTU([e EXCEPT !.state = "ESTABLISHED"]) ELSE e
           b == f.writeEnable /\ Len(f.sbuf) >= (SndCap + RcvCap) \div 2
           g == [f EXCEPT !.writeEnable = b]
<1>1. ProcessNotify(e, p) = g
    BY DEF ProcessNotify
<1>2. g.state = f.state
    BY DEF AdjustMTU, Endpoint
<1>3. CASE e.state = "SYN_RECEIVED" /\ ~p.ctl
    <2>1. f.state = "ESTABLISHED"
        BY <1>3 DEF AdjustMTU, Endpoint
    <2> HIDE DEF f, g
    <2>2. s = "SYN_RECEIVED"
        BY <1>3 DEF Turned
    <2> QED
        BY <1>1, <1>2, <1>3, <2>1, <2>2 DEF Advanced
<1>4. CASE ~(e.state = "SYN_RECEIVED" /\ ~p.ctl)
    <2>1. f = e
        BY <1>4
    <2> HIDE DEF f, g
    <2> QED
        BY <1>1, <1>2, <2>1 DEF Advanced
<1> QED
    BY <1>3, <1>4

\* The control code and the acknowledgment.
Answered(e, p) == ProcessAck(ProcessConnect([e EXCEPT !.probes = 0], p), p)
\* They leave the endpoint going on, or end it.
LEMMA AnsweredOpened ==
    ASSUME NEW K, NEW W \in Int, NEW e, Good(e, K, W), ~Deaf(e), NEW p \in Packets,
           Reached(e, p.ack), p.ack + p.wnd <= W, CtlLen <= p.ack + p.wnd, CtlLen <= W,
           e.state = "LISTEN" => Total(e) = 0
    PROVE  \/ Opened(e, Answered(e, p), K, W) /\ Turned(e.state, Answered(e, p).state, p.ctl)
           \/ \E g : Opened(e, g, K, W) /\ Ended(Answered(e, p), g) /\ Turned(e.state, g.state, p.ctl)
<1> DEFINE e0 == [e EXCEPT !.probes = 0]
           e1 == ProcessConnect(e0, p)
           f == Answered(e, p)
<1>1. Opened(e, e0, K, W) /\ e0.state = e.state
    BY ProbesOpened
<1>f. f = ProcessAck(e1, p)
    BY DEF Answered
<1> HIDE DEF e0, f
<1>2. Good(e0, K, W) /\ ~Deaf(e0) /\ (e0.state = "LISTEN" => Total(e0) = 0)
    BY <1>1 DEF Opened, Deaf, Grown
<1>3. Opened(e0, e1, K, W)
    BY <1>2, ProcessConnectOpened
<1>t. Turned(e.state, e1.state, p.ctl)
    BY <1>1, <1>2, ProcessConnectTurns
<1> HIDE DEF e1
<1>4. Opened(e, e1, K, W)
    BY <1>1, <1>3, OpenedTrans
<1>5. Good(e1, K, W) /\ Reached(e1, p.ack) /\ ~Deaf(e1)
    BY <1>4 DEF Opened, Keeps
<1>6. Outcome(e1, f, K, W)
    BY <1>5, <1>f, ProcessAckOutcome
<1>7. ASSUME NEW g, Onward(e1, g, K, W) PROVE Opened(e, g, K, W) /\ Turned(e.state, g.state, p.ctl)
    <2>1. Opened(e1, g, K, W)
        BY <1>7 DEF Onward, Opened, Grown, Deaf
    <2> QED
        BY <1>4, <1>7, <1>t, <2>1, OpenedTrans DEF Onward
<1> QED
    BY <1>6, <1>7 DEF Outcome, f

\* process: an endpoint goes on, or ends.
LEMMA ProcessProgress ==
    ASSUME NEW K, NEW W \in Int, NEW e, Good(e, K, W), ~Deaf(e), ReaderOK(e), NEW p,
           NEW n \in Nat, NEW total \in Nat, Expected(p, e, K, total),
           Reached(e, p.ack), p.ack + p.wnd <= W, CtlLen <= p.ack + p.wnd, CtlLen <= W,
           e.state = "LISTEN" => Total(e) = 0, NEW cwnd \in Wide
    PROVE  \/ Processed(e, Process(e, p, cwnd), p, K, W, n, total)
           \/ \E g : Opened(e, g, K, W) /\ Ended(Process(e, p, cwnd), g) /\ Turned(e.state, g.state, p.ctl)
<1> DEFINE acked == Answered(e, p)
           told == ProcessNotify(acked, p)
           taken == ProcessData(told, p)
           flags == AckFlags(told, taken, p)
           done == AttemptSend(taken, flags, cwnd)
           b == done.readEnable /\ Len(taken.rbuf) = Len(told.rbuf)
           last == [done EXCEPT !.readEnable = b]
           f == Process(e, p, cwnd)
<1>1. f = IF acked.state = "CLOSED" THEN acked ELSE last
    BY DEF Process, Answered
<1>2. p \in Packets
    BY DEF Expected
<1>3. \/ Opened(e, acked, K, W) /\ Turned(e.state, acked.state, p.ctl)
      \/ \E g : Opened(e, g, K, W) /\ Ended(acked, g) /\ Turned(e.state, g.state, p.ctl)
    BY <1>2, AnsweredOpened
<1> HIDE DEF acked
<1>4. CASE \E g : Opened(e, g, K, W) /\ Ended(acked, g) /\ Turned(e.state, g.state, p.ctl)
    <2>1. acked.state = "CLOSED"
        BY <1>4 DEF Ended
    <2>2. f = acked
        BY <1>1, <2>1
    <2> HIDE DEF f
    <2> QED
        BY <1>4, <2>2 DEF f
<1>5. CASE Opened(e, acked, K, W) /\ Turned(e.state, acked.state, p.ctl)
    <2>1. Good(acked, K, W) /\ ~Deaf(acked) /\ acked.state # "CLOSED"
        BY <1>5 DEF Opened, Deaf
    <2>2. f = last
        BY <1>1, <2>1
    <2>3. Opened(acked, told, K, W)
        BY <2>1, ProcessNotifyOpened
    <2>t. Advanced(e.state, told.state, p.ctl)
        BY <1>5, <2>1, ProcessNotifyAdvances DEF Good
    <2> HIDE DEF told
    <2>4. Opened(e, told, K, W)
        BY <1>5, <2>3, OpenedTrans
    <2>5. Good(told, K, W) /\ RecvSame(e, told) /\ told \in Endpoint
        BY <2>4 DEF Opened, Good
    <2>6. Edge(told) = Edge(e)
        BY <2>5 DEF RecvSame, Edge
    <2>7. Expected(p, told, K, total)
        BY <2>6 DEF Expected
    <2>8. Arrived(told, taken, p, K, W, n, total)
        BY <2>5, <2>7, ProcessDataArrived
    <2> HIDE DEF taken
    <2>9. Good(taken, K, W) /\ Received(told, taken, K, W) /\ taken \in Endpoint
        BY <2>8 DEF Arrived, Received, Good
    <2>10. flags \in {"none", "immediate", "delayed"}
        BY DEF AckFlags
    <2> HIDE DEF flags
    <2>11. Sends(taken, done, K, W)
        BY <2>9, <2>10, AttemptSendSends
    <2> HIDE DEF done
    <2>12. Good(done, K, W) /\ Onward(taken, done, K, W) /\ done \in Endpoint
        BY <2>9, <2>11, SendsOnward DEF Onward, Good
    <2>13. b \in BOOLEAN
        BY <2>12 DEF Endpoint
    <2> HIDE DEF b
    <2>14. last \in Endpoint
        BY <2>12, <2>13 DEF Endpoint
    <2>15. /\ Core(done, last) /\ last.recover = done.recover /\ last.state = done.state
           /\ last.shutdown = done.shutdown /\ last.readEnable = b
        BY <2>12 DEF Endpoint, Core
    <2> HIDE DEF last
    <2>16. last.recover <= last.snd_nxt
        BY <2>12, <2>15 DEF Good, SendOK, Core
    <2>17. Good(last, K, W) /\ Keeps(done, last) /\ Total(last) = Total(done) /\ Edge(last) = Edge(done)
        BY <2>12, <2>14, <2>15, <2>16, SameCore
    <2>18. Keeps(e, last)
        BY <2>4, <2>9, <2>12, <2>17 DEF Opened, Received, Onward, Keeps
    <2>19. last.state = told.state /\ last.shutdown = e.shutdown /\ Total(last) = Total(told)
        BY <2>5, <2>9, <2>12, <2>15, <2>17 DEF Received, SendSame, Onward, RecvSame
    <2>20. Grown(e, last) /\ ~Deaf(last)
        BY <2>4, <2>19 DEF Opened, Grown, Deaf
    <2>21. RecvSame(taken, done)
        BY <2>12 DEF Onward
    <2>22. Edge(done) = Edge(taken)
        BY <2>21 DEF RecvSame, Edge
    <2>23. Edge(e) <= Edge(last)
        BY <2>6, <2>9, <2>17, <2>22 DEF Received
    <2>24. last.rbuf = taken.rbuf /\ done.readEnable = e.readEnable /\ told.rbuf = e.rbuf
        BY <2>5, <2>9, <2>15, <2>21 DEF Core, RecvSame, Received, SendSame
    <2>25. ReaderOK(last)
        <3> SUFFICES ASSUME last.rbuf # <<>>, b PROVE FALSE
            BY <2>15 DEF ReaderOK
        <3>1. e.readEnable /\ Size(taken.rbuf) = Size(told.rbuf)
            BY <2>24 DEF b, Size
        <3>2. taken.rbuf = told.rbuf
            <4>1. Size(told.rbuf) \in Nat /\ Size(taken.rbuf) \in Nat
                BY <2>5, <2>9, EndpointNumbers
            <4> QED
                BY <2>9, <3>1, <4>1 DEF Received
        <3> QED
            BY <2>24, <3>1, <3>2 DEF ReaderOK
    <2>26. Progress(e, last, K, W)
        BY <2>17, <2>18, <2>20, <2>23, <2>25 DEF Progress
    <2>27. last.rcv_nxt = taken.rcv_nxt /\ told.rcv_nxt = e.rcv_nxt
        BY <2>5, <2>15, <2>21 DEF Core, RecvSame
    <2>28. e.rcv_nxt <= last.rcv_nxt
        BY <2>9, <2>27 DEF Received
    <2>29. p.data # <<>> /\ p.seq <= e.rcv_nxt => p.seq + Size(p.data) <= last.rcv_nxt
        BY <2>8, <2>27 DEF Arrived
    <2>30. ASSUME Stream(taken, n, total) PROVE Stream(last, n, total)
        <3>1. Stream(done, n, total)
            BY <2>21, <2>30, SameStream
        <3>2. \A q : Stored(done, q) => Stored(last, q)
            BY <2>15 DEF Core, Stored
        <3>3. \A k : Aligned(done, k, total) => Aligned(last, k, total)
            BY <2>15, <3>2 DEF Core, Aligned
        <3> QED
            BY <2>15, <3>1, <3>3 DEF Core, Stream
    <2>31. Stream(e, n, total) /\ (p.data # <<>> /\ ~p.ctl => CtlLen <= e.rcv_nxt) => Stream(last, n, total)
        <3>1. Stream(e, n, total) => Stream(told, n, total)
            BY <2>5, SameStream
        <3> QED
            BY <2>8, <2>27, <2>30, <3>1 DEF Arrived
    <2>32. Processed(e, last, p, K, W, n, total)
        BY <2>t, <2>19, <2>26, <2>28, <2>29, <2>31 DEF Processed
    <2> QED
        BY <2>2, <2>32
<1> QED
    BY <1>3, <1>4, <1>5

-----------------------------------------------------------------------------
(***************************************************************************)
(* The other operations on an endpoint.                                     *)
(***************************************************************************)
LEMMA OpenedProgress ==
    ASSUME NEW K, NEW W \in Int, NEW e, NEW f, Opened(e, f, K, W), ~Deaf(e), ReaderOK(e), e \in Endpoint
    PROVE  Progress(e, f, K, W)
<1>1. Edge(e) = Edge(f) /\ Edge(e) \in Nat
    BY EndpointNumbers DEF Opened, RecvSame, Edge
<1>2. Edge(e) <= Edge(f)
    BY <1>1
<1>3. ReaderOK(f)
    BY DEF Opened, RecvSame, ReaderOK
<1> QED
    BY <1>2, <1>3 DEF Opened, Progress

\* Sending leaves an endpoint open.
LEMMA SendsOpened ==
    ASSUME NEW K, NEW W \in Int, NEW e, NEW f, Good(e, K, W), Sends(e, f, K, W)
    PROVE  Opened(e, f, K, W)
<1>1. Onward(e, f, K, W)
    BY SendsOnward
<1> QED
    BY <1>1 DEF Onward, Opened, Grown, Deaf

\* So does nothing.
LEMMA OpenedSelf ==
    ASSUME NEW K, NEW W, NEW e, Good(e, K, W)
    PROVE  Opened(e, e, K, W)
BY DEF Opened, Keeps, Grown, RecvSame

\* The same, in the same state.
Stayed(e, f, K, W) == Opened(e, f, K, W) /\ f.state = e.state
\* Nothing is such a step.
LEMMA StayedSelf ==
    ASSUME NEW K, NEW W, NEW e, Good(e, K, W)
    PROVE  Stayed(e, e, K, W)
BY OpenedSelf DEF Stayed
\* So are two of them.
LEMMA StayedTrans ==
    ASSUME NEW K, NEW W, NEW e, NEW f, NEW g, Stayed(e, f, K, W), Stayed(f, g, K, W)
    PROVE  Stayed(e, g, K, W)
BY OpenedTrans DEF Stayed
\* Sending is one.
LEMMA SendsStayed ==
    ASSUME NEW K, NEW W \in Int, NEW e, NEW f, Good(e, K, W), Sends(e, f, K, W)
    PROVE  Stayed(e, f, K, W)
BY SendsOpened DEF Stayed, Sends, SendFrame
\* So is counting probes.
LEMMA ProbesStayed ==
    ASSUME NEW K, NEW W \in Int, NEW e, Good(e, K, W), NEW n \in Nat
    PROVE  Stayed(e, [e EXCEPT !.probes = n], K, W)
BY ProbesOpened DEF Stayed

\* The clock.
LEMMA ClockOutcome ==
    ASSUME NEW K, NEW W \in Int, NEW e, Good(e, K, W), ~Deaf(e), NEW fired \in SUBSET Timers(e), NEW silent
    PROVE  \/ Stayed(e, Clock(e, fired, silent), K, W)
           \/ \E g : Stayed(e, g, K, W) /\ Ended(Clock(e, fired, silent), g)
<1> DEFINE resent == IF "rto" \in fired THEN Retransmit(e) ELSE e
           packet == Packet(resent, resent.snd_nxt - 1, FALSE, <<>>)
           probing == [packet EXCEPT !.probes = @ + 1]
           probed == CASE "probe" \notin fired -> resent
                       [] "probe" \in fired /\ silent -> Closedown(resent)
                       [] OTHER -> probing
           f == Clock(e, fired, silent)
<1>1. f = CASE resent.state = "CLOSED" -> resent
            [] resent.state # "CLOSED" /\ probed.state = "CLOSED" -> probed
            [] OTHER -> IF "ack" \in fired /\ probed.t_ack THEN Ack(probed) ELSE probed
    BY DEF Clock
<1>2. e \in Endpoint /\ Stayed(e, e, K, W)
    BY StayedSelf DEF Good
<1>3. \/ Stayed(e, resent, K, W)
      \/ \E g : Stayed(e, g, K, W) /\ Ended(resent, g)
    <2>1. CASE "rto" \in fired
        <3>1. e.rto
            BY <2>1 DEF Timers
        <3>2. e.snd_una < e.snd_nxt
            BY <3>1 DEF Good, SendOK
        <3>3. Resent(e, Retransmit(e), K, W) /\ resent = Retransmit(e)
            BY <2>1, <3>2, RetransmitSends
        <3> HIDE DEF resent
        <3> QED
            BY <3>3, SendsStayed DEF Resent
    <2>2. CASE "rto" \notin fired
        BY <1>2, <2>2
    <2> QED
        BY <2>1, <2>2
<1> HIDE DEF resent, f
<1>4. CASE \E g : Stayed(e, g, K, W) /\ Ended(resent, g)
    <2>1. resent.state = "CLOSED"
        BY <1>4 DEF Ended
    <2>2. f = resent
        BY <1>1, <2>1
    <2> QED
        BY <1>4, <2>2 DEF f
<1>5. CASE Stayed(e, resent, K, W)
    <2>1. Good(resent, K, W) /\ ~Deaf(resent) /\ resent \in Endpoint /\ resent.state # "CLOSED"
        BY <1>5 DEF Stayed, Opened, Good, Deaf
    <2>2. Stayed(resent, probing, K, W)
        <3>1. resent.snd_nxt - 1 \in Int
            BY <2>1, EndpointNumbers
        <3>2. Sends(resent, packet, K, W)
            BY <2>1, <3>1, EmptyPacket
        <3> HIDE DEF packet
        <3>3. Stayed(resent, packet, K, W) /\ Good(packet, K, W) /\ packet \in Endpoint
            BY <2>1, <3>2, SendsStayed DEF Stayed, Opened, Good
        <3>4. packet.probes + 1 \in Nat
            BY <3>3 DEF Endpoint
        <3>5. Stayed(packet, probing, K, W)
            BY <3>3, <3>4, ProbesStayed
        <3> QED
            BY <3>3, <3>5, StayedTrans
    <2> HIDE DEF probing
    <2>3. CASE "probe" \in fired /\ silent
        <3>1. probed = Closedown(resent)
            BY <2>3
        <3>2. Ended(probed, resent)
            BY <2>1, <3>1, ClosedownEnds
        <3>3. f = probed
            BY <1>1, <2>1, <3>2 DEF Ended
        <3> HIDE DEF probed
        <3> QED
            BY <1>5, <3>2, <3>3 DEF f
    <2>4. CASE ~("probe" \in fired /\ silent)
        <3>1. probed = resent \/ probed = probing
            BY <2>4
        <3> HIDE DEF probed
        <3>2. Stayed(resent, probed, K, W)
            BY <2>1, <2>2, <3>1, StayedSelf
        <3>3. Stayed(e, probed, K, W)
            BY <1>5, <3>2, StayedTrans
        <3>4. Good(probed, K, W) /\ probed.state # "CLOSED"
            BY <3>3 DEF Stayed, Opened, Deaf
        <3>5. f = IF "ack" \in fired /\ probed.t_ack THEN Ack(probed) ELSE probed
            BY <1>1, <2>1, <3>4
        <3>6. Stayed(probed, Ack(probed), K, W)
            BY <3>4, AckSends, SendsStayed
        <3> QED
            BY <3>3, <3>5, <3>6, StayedTrans DEF f
    <2> QED
        BY <2>3, <2>4
<1> QED
    BY <1>3, <1>4, <1>5

\* Advice on the MTU.
LEMMA AdviceOpened ==
    ASSUME NEW K, NEW W \in Int, NEW e, Good(e, K, W), ~Deaf(e), NEW m \in PacketSizes
    PROVE  LET g == [e EXCEPT !.mtu_advise = m] IN
           Opened(e, IF g.state = "ESTABLISHED" THEN AdjustMTU(g) ELSE g, K, W)
<1> DEFINE g == [e EXCEPT !.mtu_advise = m]
           f == IF g.state = "ESTABLISHED" THEN AdjustMTU(g) ELSE g
<1>1. e \in Endpoint
    BY DEF Good
<1>2. g \in Endpoint
    BY <1>1 DEF Endpoint
<1>3. /\ g.state = e.state /\ Core(e, g) /\ g.recover = e.recover /\ g.shutdown = e.shutdown
      /\ g.readEnable = e.readEnable
    BY <1>1 DEF Endpoint, Core
<1> HIDE DEF g
<1>4. Opened(e, g, K, W)
    BY <1>2, <1>3, CoreOpened DEF Deaf
<1>5. CASE g.state = "ESTABLISHED"
    <2>1. [g EXCEPT !.state = "ESTABLISHED"] = g
        BY <1>2, <1>5 DEF Endpoint
    <2>2. Good(g, K, W) /\ ~Deaf(g)
        BY <1>4 DEF Opened
    <2>3. Opened(g, AdjustMTU([g EXCEPT !.state = "ESTABLISHED"]), K, W)
        BY <1>5, <2>2, AdjustMTUOpened
    <2>4. Opened(g, AdjustMTU(g), K, W)
        BY <2>1, <2>3
    <2> QED
        BY <1>4, <1>5, <2>4, OpenedTrans DEF g
<1>6. CASE g.state # "ESTABLISHED"
    BY <1>4, <1>6 DEF g
<1> QED
    BY <1>5, <1>6

\* Close.
LEMMA ClosingGood ==
    ASSUME NEW K, NEW W \in Int, NEW e, Good(e, K, W), ~Deaf(e), ReaderOK(e),
           NEW how \in {"graceful", "forceful"}
    PROVE  LET f == [e EXCEPT !.shutdown = how] IN Progress(e, f, K, W) /\ Total(f) = Total(e)
<1> DEFINE f == [e EXCEPT !.shutdown = how]
<1>1. e \in Endpoint
    BY DEF Good
<1>2. f \in Endpoint
    BY <1>1 DEF Endpoint
<1>3. /\ f.state = e.state /\ Core(e, f) /\ f.recover = e.recover /\ f.shutdown = how
      /\ f.readEnable = e.readEnable /\ f.t_ack = e.t_ack
    BY <1>1 DEF Endpoint, Core
<1> HIDE DEF f
<1>4. f.recover <= f.snd_nxt
    BY <1>3 DEF Good, SendOK, Core
<1>5. Good(f, K, W) /\ Keeps(e, f) /\ Total(f) = Total(e) /\ Edge(f) = Edge(e)
    BY <1>2, <1>3, <1>4, SameCore
<1>6. Edge(e) <= Edge(f)
    BY <1>1, <1>5, EndpointNumbers
<1>7. Progress(e, f, K, W)
    BY <1>3, <1>5, <1>6 DEF Progress, Grown, Deaf, ReaderOK, Core
<1> QED
    BY <1>5, <1>7 DEF f

\* Read and write that would block ask to be told.
Asking(e, r, w) == [e EXCEPT !.readEnable = r, !.writeEnable = w]
Asked(e, f, K, W) ==
    /\ Progress(e, f, K, W) /\ f \in Endpoint /\ f.state = e.state /\ f.shutdown = e.shutdown /\ Core(e, f)
\* Asking to be told changes nothing else, and asks of data only when there is none.
LEMMA AskingGood ==
    ASSUME NEW K, NEW W \in Int, NEW e, Good(e, K, W), ~Deaf(e), ReaderOK(e),
           NEW r \in BOOLEAN, NEW w \in BOOLEAN, r => e.readEnable \/ e.rbuf = <<>>
    PROVE  Asked(e, Asking(e, r, w), K, W)
<1> DEFINE f == Asking(e, r, w)
<1>1. e \in Endpoint
    BY DEF Good
<1>2. f \in Endpoint
    BY <1>1 DEF Endpoint, Asking
<1>3. /\ f.state = e.state /\ Core(e, f) /\ f.recover = e.recover /\ f.shutdown = e.shutdown
      /\ f.readEnable = r /\ f.t_ack = e.t_ack
    BY <1>1 DEF Endpoint, Core, Asking
<1> HIDE DEF f
<1>4. f.recover <= f.snd_nxt
    BY <1>3 DEF Good, SendOK, Core
<1>5. Good(f, K, W) /\ Keeps(e, f) /\ Total(f) = Total(e) /\ Edge(f) = Edge(e)
    BY <1>2, <1>3, <1>4, SameCore
<1>6. Edge(e) <= Edge(f)
    BY <1>1, <1>5, EndpointNumbers
<1>7. ReaderOK(f)
    BY <1>3 DEF ReaderOK, Core
<1>8. Progress(e, f, K, W)
    BY <1>3, <1>5, <1>6, <1>7 DEF Progress, Grown, Deaf
<1> QED
    BY <1>2, <1>3, <1>8 DEF f, Asked

\* m units are read, and the window is w then.
Emptied(e, m, w) == [e EXCEPT !.rbuf = SubSeq(@, m + 1, Len(@)), !.rcv_wnd = w]
Emptying(e, f, m, n, total, K, W) ==
    /\ Progress(e, f, K, W) /\ f.state = e.state /\ SendSame(e, f) /\ f.rcv_nxt = e.rcv_nxt
    /\ Total(f) = Total(e)
    /\ Stream(e, n, total) => Stream(f, n + m, total)
\* What is read leaves room, so the window may grow by as much, and the stream goes on
\* after it.
LEMMA EmptiedGood ==
    ASSUME NEW K, NEW W \in Int, NEW e, Good(e, K, W), ~Deaf(e), ReaderOK(e), e.rbuf # <<>>,
           NEW m \in Nat, m <= Size(e.rbuf), NEW w \in Nat,
           e.rcv_wnd <= w, w <= RcvCap - (Size(e.rbuf) - m), NEW n \in Nat, NEW total \in Nat
    PROVE  Emptying(e, Emptied(e, m, w), m, n, total, K, W)
<1> DEFINE f == Emptied(e, m, w)
           h == Size(e.rbuf)
           buf == SubSeq(e.rbuf, m + 1, Len(e.rbuf))
<1>1. e \in Endpoint /\ e.rbuf \in Seq(Int) /\ RecvOK(e)
    BY EndpointFields DEF Good
<1>2. h \in Nat /\ e.rcv_nxt \in Nat /\ e.rcv_wnd \in Nat /\ RcvCap \in Nat /\ Edge(e) = e.rcv_nxt + e.rcv_wnd
    BY <1>1, EndpointNumbers, Sizes
<1>3. /\ buf \in Seq(Int) /\ Size(buf) = h - m /\ DOMAIN buf = 1 .. h - m
      /\ DOMAIN e.rbuf = 1 .. h /\ \A i \in 1 .. h - m : buf[i] = e.rbuf[m + i]
    <2> DEFINE l == Len(e.rbuf)
    <2>1. l \in Nat /\ m <= l /\ DOMAIN e.rbuf = 1 .. l
        BY <1>1 DEF Size
    <2>2. /\ m + 1 \in 1 .. l + 1 /\ l \in m .. l
        BY <2>1
    <2>3. buf \in Seq(Int) /\ Len(buf) = l - m /\ \A i \in 1 .. l - m : buf[i] = e.rbuf[m + i]
        BY <1>1, <2>1, <2>2, SubSeqProperties, SMTT(40)
    <2> QED
        BY <2>1, <2>3, SMTT(40) DEF Size
<1>4. f = [e EXCEPT !.rbuf = buf, !.rcv_wnd = w]
    BY DEF Emptied
<1> HIDE DEF f, buf
<1>5. f \in Endpoint
    BY <1>1, <1>3, <1>4, ZenonT(40) DEF Endpoint
<1>6. /\ SendSame(e, f) /\ f.rbuf = buf /\ f.rcv_wnd = w /\ f.rcv_nxt = e.rcv_nxt /\ f.rlist = e.rlist
      /\ f.rfree = e.rfree
    BY <1>1, <1>4 DEF Endpoint, SendSame
<1> HIDE DEF h
<1>7. Edge(f) = e.rcv_nxt + w /\ Edge(e) <= Edge(f) /\ Edge(f) \in Nat /\ Edge(e) \in Nat
    BY <1>2, <1>6 DEF Edge
<1>8. RecvOK(f)
    <2>1. Size(f.rbuf) + f.rcv_wnd <= RcvCap
        BY <1>2, <1>3, <1>6 DEF h
    <2>2. RcvCap <= Edge(f)
        BY <1>1, <1>2, <1>7 DEF RecvOK
    <2>3. ASSUME NEW q \in f.rlist PROVE EndOf(q) <= Edge(f)
        <3>1. EndOf(q) \in Nat /\ EndOf(q) <= Edge(e)
            BY <1>1, <1>6, EndpointFields, SMTT(40) DEF RecvOK, Saved, EndOf
        <3> QED
            BY <1>7, <3>1
    <2> QED
        BY <1>1, <1>6, <2>1, <2>2, <2>3 DEF RecvOK
<1>9. f.rcv_nxt \in K /\ \A q \in f.rlist : EndOf(q) \in K
    BY <1>6 DEF Good
<1>10. Good(f, K, W) /\ Keeps(e, f) /\ Total(f) = Total(e)
    BY <1>5, <1>6, <1>7, <1>8, <1>9, RightWindow
<1>11. f.state = e.state /\ f.shutdown = e.shutdown /\ f.readEnable = e.readEnable
    BY <1>6 DEF SendSame
<1>12. Progress(e, f, K, W)
    BY <1>7, <1>10, <1>11 DEF Progress, Grown, Deaf, ReaderOK
<1>13. ASSUME Stream(e, n, total) PROVE Stream(f, n + m, total)
    <2>1. ASSUME NEW i \in DOMAIN f.rbuf PROVE f.rbuf[i] = n + m + i
        <3>1. i \in 1 .. h - m
            BY <1>3, <1>6
        <3>2. f.rbuf[i] = e.rbuf[m + i]
            BY <1>3, <1>6, <3>1
        <3>3. m + i \in 1 .. h /\ n + (m + i) = n + m + i
            BY <1>2, <3>1, SMTT(40)
        <3>4. e.rbuf[m + i] = n + (m + i)
            BY <1>3, <1>13, <3>3 DEF Stream
        <3> QED
            BY <3>2, <3>3, <3>4
    <2>2. (n + m) + Size(f.rbuf) = n + h
        BY <1>2, <1>3, <1>6
    <2>3. CtlLen + (n + m) + Size(f.rbuf) = CtlLen + n + h
        <3>1. CtlLen \in Nat /\ Size(f.rbuf) = h - m
            BY <1>3, <1>6, Sizes
        <3> QED
            BY <1>2, <3>1
    <2>4. CtlLen + (n + m) + Size(f.rbuf) <= total
        BY <1>13, <2>3 DEF Stream, h
    <2>5. \A q : Stored(e, q) => Stored(f, q)
        BY <1>6 DEF Stored
    <2>6. \A k : Aligned(e, k, total) => Aligned(f, k, total)
        BY <1>6, <2>5 DEF Aligned
    <2>7. f.shutdown = "none" => Aligned(f, (n + m) + Size(f.rbuf), total)
        BY <1>11, <1>13, <2>2, <2>6 DEF Stream, h
    <2> QED
        BY <2>1, <2>4, <2>7 DEF Stream
<1> QED
    BY <1>6, <1>10, <1>11, <1>12, <1>13 DEF f, Emptying

-----------------------------------------------------------------------------
(***************************************************************************)
(* The two endpoints: one takes a step, the other waits.                    *)
(***************************************************************************)
\* What an endpoint may acknowledge: what its peer has sent, or anything once
\* the peer is gone.
Known(r) == {n \in Int : ~Deaf(r) => Reached(r, n)}
Facing(r, W) == ~Deaf(r) => W = Edge(r)
Cleared(h) == [h EXCEPT !.out = {}]

\* An operation takes e to h while the peer is r; m units were handed to Send.
Turn(e, h, r, m) ==
    \E W \in Int, g \in Endpoint :
        /\ Facing(r, W) /\ Good(g, Known(r), W) /\ Keeps(e, g) /\ Edge(e) <= Edge(g)
        /\ h.out \subseteq g.out /\ Counts(g, m)
        /\ \/ h = g /\ ~Deaf(h) /\ ReaderOK(h)
           \/ h \in Endpoint /\ Deaf(h) /\ Blank(h)

\* Handing the packets to the network leaves the rest of an endpoint alone.
LEMMA ClearedSame ==
    ASSUME NEW h \in Endpoint
    PROVE  /\ Cleared(h) \in Endpoint /\ Cleared(h).out = {} /\ Cleared(h).state = h.state
           /\ Cleared(h).rcv_nxt = h.rcv_nxt /\ Cleared(h).rlist = h.rlist /\ Cleared(h).rbuf = h.rbuf
           /\ Cleared(h).readEnable = h.readEnable /\ Cleared(h).shutdown = h.shutdown
           /\ Cleared(h).slist = h.slist /\ Cleared(h).snd_una = h.snd_una /\ Cleared(h).snd_nxt = h.snd_nxt
           /\ Cleared(h).snd_wnd = h.snd_wnd /\ Cleared(h).sbuf = h.sbuf /\ Cleared(h).rcv_wnd = h.rcv_wnd
           /\ Cleared(h).recover = h.recover /\ Cleared(h).rto = h.rto /\ Cleared(h).rfree = h.rfree
           /\ Cleared(h).t_ack = h.t_ack
BY DEF Cleared, Endpoint

\* Nor does it disturb the invariants.
LEMMA ClearedOK ==
    ASSUME NEW h \in Endpoint
    PROVE  /\ SendOK(h) => SendOK(Cleared(h))
           /\ Roomy(h) => Roomy(Cleared(h))
           /\ RecvOK(h) => RecvOK(Cleared(h))
           /\ \A n : Counts(h, n) => Counts(Cleared(h), n)
           /\ ReaderOK(h) => ReaderOK(Cleared(h))
           /\ Blank(h) => Blank(Cleared(h))
           /\ Deaf(Cleared(h)) <=> Deaf(h)
           /\ Edge(Cleared(h)) = Edge(h)
           /\ \A n : Reached(h, n) => Reached(Cleared(h), n)
<1> DEFINE c == Cleared(h)
<1>1. /\ c.state = h.state
      /\ c.rcv_nxt = h.rcv_nxt /\ c.rlist = h.rlist /\ c.rbuf = h.rbuf
      /\ c.readEnable = h.readEnable /\ c.slist = h.slist /\ c.snd_una = h.snd_una /\ c.snd_nxt = h.snd_nxt
      /\ c.snd_wnd = h.snd_wnd /\ c.sbuf = h.sbuf /\ c.rcv_wnd = h.rcv_wnd
      /\ c.recover = h.recover /\ c.rto = h.rto
    BY ClearedSame
<1> HIDE DEF c
<1>2. Total(c) = Total(h) /\ Edge(c) = Edge(h)
    BY <1>1 DEF Total, Edge
<1>3. \A n : Reached(h, n) <=> Reached(c, n)
    BY <1>1 DEF Reached
<1>4. Tile(h) => Tile(c)
    BY <1>1, <1>2, <1>3 DEF Tile
<1>5. Content(h) => Content(c)
    BY <1>1 DEF Content
<1>6. SendOK(h) => SendOK(c)
    BY <1>1, <1>4, <1>5 DEF SendOK
<1>7. RecvOK(h) => RecvOK(c)
    BY <1>1, <1>2 DEF RecvOK
<1>r. Roomy(h) => Roomy(c)
    BY <1>1, <1>2 DEF Roomy
<1>8. \A n : Counts(h, n) => Counts(c, n)
    BY <1>1, <1>2 DEF Counts
<1>9. (ReaderOK(h) => ReaderOK(c)) /\ (Blank(h) => Blank(c)) /\ (Deaf(c) <=> Deaf(h))
    BY <1>1 DEF ReaderOK, Blank, Deaf
<1> QED
    BY <1>2, <1>3, <1>6, <1>7, <1>r, <1>8, <1>9 DEF c

\* The endpoint after its step.
LEMMA TurnEnd ==
    ASSUME NEW e, NEW h, NEW r, NEW m \in Nat, Turn(e, h, r, m), NEW in
    PROVE  /\ h \in Endpoint /\ Cleared(h) \in Endpoint
           /\ EndOK(Cleared(h), IF Deaf(h) THEN {} ELSE in, m)
<1>1. PICK W \in Int, g \in Endpoint :
        /\ Facing(r, W) /\ Good(g, Known(r), W) /\ Keeps(e, g) /\ Edge(e) <= Edge(g)
        /\ h.out \subseteq g.out /\ Counts(g, m)
        /\ \/ h = g /\ ~Deaf(h) /\ ReaderOK(h)
           \/ h \in Endpoint /\ Deaf(h) /\ Blank(h)
    BY DEF Turn
<1>2. h \in Endpoint /\ (~Deaf(h) => SendOK(h) /\ Roomy(h) /\ RecvOK(h) /\ Counts(h, m)) /\ (Deaf(h) => Blank(h))
    BY <1>1 DEF Good
<1>3. ReaderOK(h)
    BY <1>1 DEF ReaderOK, Blank
<1>4. Cleared(h) \in Endpoint /\ Cleared(h).out = {}
    BY <1>2, ClearedSame
<1> QED
    BY <1>2, <1>3, <1>4, ClearedOK DEF EndOK

\* A longer stream has the same data at the same places.
LEMMA DataLonger ==
    ASSUME NEW p \in Packets, NEW m \in Nat, NEW n \in Nat, m <= n, DataOK(p, m)
    PROVE  DataOK(p, n)
<1>1. p.seq \in Int /\ Size(p.data) \in Nat
    BY LenProperties DEF Packets, Size
<1>2. p.data # <<>> => p.seq + Size(p.data) <= n
    BY <1>1 DEF DataOK
<1> QED
    BY <1>2 DEF DataOK

\* The link from the endpoint that took the step.
LEMMA TurnForward ==
    ASSUME NEW e \in Endpoint, NEW h, NEW r \in Endpoint, NEW m \in Nat, Turn(e, h, r, m), ~Deaf(e),
           NEW n \in Nat, n <= m, NEW inE, NEW inR \in SUBSET Packets, Link(e, r, inE, inR, n),
           NEW left, left \subseteq inE, NEW kept, kept \subseteq h.out, Deaf(r) => kept = {}
    PROVE  Link(Cleared(h), r, IF Deaf(h) THEN {} ELSE left, inR \cup kept, m)
<1> DEFINE c == Cleared(h)
           in == IF Deaf(h) THEN {} ELSE left
<1>1. PICK W \in Int, g \in Endpoint :
        /\ Facing(r, W) /\ Good(g, Known(r), W) /\ Keeps(e, g) /\ Edge(e) <= Edge(g)
        /\ h.out \subseteq g.out /\ Counts(g, m)
        /\ \/ h = g /\ ~Deaf(h) /\ ReaderOK(h)
           \/ h \in Endpoint /\ Deaf(h) /\ Blank(h)
    BY DEF Turn
<1>2. g \in Endpoint /\ h \in Endpoint /\ g.out \subseteq Packets /\ Tile(g)
    BY <1>1, EndpointFields DEF Good, SendOK
<1>3. Total(g) \in Nat /\ Total(g) <= CtlLen + m /\ CtlLen + m \in Nat /\ CtlLen + n \in Nat
      /\ CtlLen + n <= CtlLen + m
    <2>1. CtlLen \in Nat
        BY Sizes
    <2>2. Total(g) \in Nat
        BY <1>2, EndpointNumbers
    <2>3. Total(g) = 0 \/ Total(g) = CtlLen + m
        BY <1>1 DEF Counts
    <2> HIDE DEF c, in
    <2> QED
        BY <2>1, <2>2, <2>3
<1>4. /\ (Deaf(c) <=> Deaf(h)) /\ Edge(c) = Edge(h) /\ (\A k : Reached(h, k) => Reached(c, k))
      /\ c.snd_nxt = h.snd_nxt /\ c.snd_una = h.snd_una /\ c.snd_wnd = h.snd_wnd
    BY <1>2, ClearedOK, ClearedSame
<1>5. ~Deaf(h) => h = g
    BY <1>1
<1>o. \A p \in kept : PacketOK(p, g, Known(r)) /\ p \in Packets
    BY <1>1, <1>2 DEF Good, OutOK
<1> HIDE DEF c
<1>6. \A p \in inR \cup kept : DataOK(p, CtlLen + m)
    <2> SUFFICES ASSUME NEW p \in inR \cup kept PROVE DataOK(p, CtlLen + m)
        OBVIOUS
    <2>1. CASE p \in inR
        BY <2>1, <1>3, DataLonger DEF Link
    <2>2. CASE p \in kept
        BY <2>2, <1>3, <1>o, DataLonger DEF PacketOK
    <2> QED
        BY <2>1, <2>2
<1>7. ASSUME ~Deaf(r), NEW p \in inR \cup kept, p.data # <<>> PROVE p.seq + Size(p.data) <= Edge(r)
    <2>1. CASE p \in inR
        BY <1>7, <2>1 DEF Link
    <2>2. CASE p \in kept
        <3>1. Reached(g, p.seq + Size(p.data))
            BY <1>7, <1>o, <2>2 DEF PacketOK
        <3>2. p.seq \in Int /\ Size(p.data) \in Nat /\ p.seq + Size(p.data) \in Int
            BY <1>o, <2>2, LenProperties DEF Packets, Size
        <3>3. p.seq + Size(p.data) <= g.snd_nxt
            BY <1>2, <3>1, <3>2, ReachedBound
        <3>4. g.snd_nxt <= W /\ W = Edge(r) /\ g.snd_nxt \in Nat
            BY <1>1, <1>2, <1>7, EndpointNumbers DEF Good, Facing
        <3> QED
            BY <3>2, <3>3, <3>4
    <2> QED
        BY <2>1, <2>2
<1>8. ASSUME ~Deaf(h)
      PROVE  /\ Reached(c, r.rcv_nxt) /\ \A q \in r.rlist : Reached(c, EndOf(q))
             /\ \A p \in left : Reached(c, p.ack)
    <2>1. \A k : Reached(e, k) => Reached(c, k)
        BY <1>1, <1>4, <1>5, <1>8 DEF Keeps
    <2> QED
        BY <2>1 DEF Link
<1>9. ASSUME ~Deaf(h), NEW p \in inR \cup kept
      PROVE  (p.data # <<>> => Reached(c, p.seq + Size(p.data))) /\ p.ack + p.wnd <= Edge(c)
    <2>1. \A k : Reached(e, k) => Reached(c, k)
        BY <1>1, <1>4, <1>5, <1>9 DEF Keeps
    <2>2. Edge(c) = Edge(g) /\ Edge(e) <= Edge(c) /\ Edge(e) \in Nat /\ Edge(c) \in Nat
        BY <1>1, <1>2, <1>4, <1>5, <1>9, EndpointNumbers
    <2>3. CASE p \in inR
        <3>1. p.ack + p.wnd <= Edge(e) /\ p.ack + p.wnd \in Nat
            BY <2>3 DEF Link, Packets
        <3>2. p.ack + p.wnd <= Edge(c)
            BY <2>2, <3>1
        <3>3. p.data # <<>> => Reached(c, p.seq + Size(p.data))
            BY <2>1, <2>3 DEF Link
        <3> QED
            BY <3>2, <3>3
    <2>4. CASE p \in kept
        <3>1. p.ack + p.wnd <= Edge(c)
            BY <1>o, <2>2, <2>4 DEF PacketOK
        <3>2. p.data # <<>> => Reached(c, p.seq + Size(p.data))
            BY <1>o, <1>4, <1>5, <1>9, <2>4 DEF PacketOK
        <3> QED
            BY <3>1, <3>2
    <2> QED
        BY <2>3, <2>4
<1>10. ~Deaf(h) /\ ~Deaf(r) => c.snd_nxt <= Edge(r) /\ c.snd_una + c.snd_wnd <= Edge(r)
    BY <1>1, <1>4, <1>5 DEF Good, Facing
<1>w. \A p \in inR \cup kept : RcvCap <= p.ack + p.wnd
    BY <1>o DEF Link, PacketOK
<1>11. Link(c, r, in, inR \cup kept, m)
    BY <1>4, <1>6, <1>7, <1>8, <1>9, <1>10, <1>w DEF Link
<1> QED
    BY <1>11 DEF c

\* The link to it.
LEMMA TurnBack ==
    ASSUME NEW e \in Endpoint, NEW h, NEW r \in Endpoint, NEW m, Turn(e, h, r, m), ~Deaf(e),
           NEW n, NEW inE \in SUBSET Packets, NEW inR, Link(r, e, inR, inE, n),
           NEW left, left \subseteq inE, NEW kept, kept \subseteq h.out
    PROVE  Link(r, Cleared(h), inR \cup kept, IF Deaf(h) THEN {} ELSE left, n)
<1> DEFINE c == Cleared(h)
           in == IF Deaf(h) THEN {} ELSE left
<1>1. PICK W \in Int, g \in Endpoint :
        /\ Facing(r, W) /\ Good(g, Known(r), W) /\ Keeps(e, g) /\ Edge(e) <= Edge(g)
        /\ h.out \subseteq g.out /\ Counts(g, m)
        /\ \/ h = g /\ ~Deaf(h) /\ ReaderOK(h)
           \/ h \in Endpoint /\ Deaf(h) /\ Blank(h)
    BY DEF Turn
<1>2. g \in Endpoint /\ h \in Endpoint /\ in \subseteq inE
    BY <1>1 DEF Good
<1>4. (Deaf(c) <=> Deaf(h)) /\ Edge(c) = Edge(h) /\ c.rcv_nxt = h.rcv_nxt /\ c.rlist = h.rlist
    BY <1>2, ClearedOK, ClearedSame
<1>o. \A p \in kept : p.ack \in Known(r)
    BY <1>1 DEF Good, OutOK, PacketOK
<1> HIDE DEF c, in
<1>5. \A p \in in : DataOK(p, CtlLen + n)
    BY <1>2 DEF Link
<1>6. ASSUME ~Deaf(h) PROVE \A k \in Int : k <= Edge(e) => k <= Edge(c)
    BY <1>1, <1>2, <1>4, <1>6, EndpointNumbers
<1>7. ASSUME ~Deaf(h), NEW p \in in, p.data # <<>> PROVE p.seq + Size(p.data) <= Edge(c)
    <2>1. p \in Packets
        BY <1>2
    <2>2. p.seq \in Int /\ Size(p.data) \in Nat
        BY <2>1, LenProperties DEF Packets, Size
    <2>3. p.seq + Size(p.data) <= Edge(e) /\ p.seq + Size(p.data) \in Int
        BY <1>2, <1>7, <2>2 DEF Link
    <2> QED
        BY <1>6, <1>7, <2>3
<1>8. ASSUME ~Deaf(r)
      PROVE  /\ Reached(r, c.rcv_nxt) /\ \A q \in c.rlist : Reached(r, EndOf(q))
             /\ \A p \in inR \cup kept : Reached(r, p.ack)
             /\ \A p \in in : (p.data # <<>> => Reached(r, p.seq + Size(p.data))) /\ p.ack + p.wnd <= Edge(r)
    <2>1. \A p \in inR \cup kept : Reached(r, p.ack)
        BY <1>8, <1>o DEF Known, Link
    <2>2. \A p \in in : (p.data # <<>> => Reached(r, p.seq + Size(p.data))) /\ p.ack + p.wnd <= Edge(r)
        BY <1>8, <1>2 DEF Link
    <2>3. Reached(r, c.rcv_nxt) /\ \A q \in c.rlist : Reached(r, EndOf(q))
        <3>1. CASE h = g
            BY <1>1, <1>4, <1>8, <3>1 DEF Good, Known
        <3>2. CASE Blank(h)
            <4>1. c.rcv_nxt = 0 /\ c.rlist = {} /\ r.snd_una \in Nat
                BY <1>4, <3>2, EndpointNumbers DEF Blank
            <4> QED
                BY <4>1 DEF Reached, Reach
        <3> QED
            BY <1>1, <3>1, <3>2
    <2> QED
        BY <2>1, <2>2, <2>3
<1>9. ASSUME ~Deaf(r), ~Deaf(h) PROVE r.snd_nxt <= Edge(c) /\ r.snd_una + r.snd_wnd <= Edge(c)
    <2>1. r.snd_nxt <= Edge(e) /\ r.snd_una + r.snd_wnd <= Edge(e)
        BY <1>9 DEF Link
    <2>2. r.snd_nxt \in Int /\ r.snd_una + r.snd_wnd \in Int
        BY EndpointNumbers
    <2> QED
        BY <1>6, <1>9, <2>1, <2>2
<1>w. \A p \in in : RcvCap <= p.ack + p.wnd
    BY <1>2 DEF Link
<1>10. Link(r, c, inR \cup kept, in, n)
    BY <1>4, <1>5, <1>7, <1>8, <1>9, <1>w DEF Link
<1> QED
    BY <1>10 DEF c, in

\* An endpoint that has ended stays so.
LEMMA DeadLinks ==
    ASSUME NEW e, NEW c \in Endpoint, NEW r \in Endpoint, Deaf(e), Deaf(c), Blank(c),
           NEW n, NEW m, NEW inE, NEW inR, Link(e, r, inE, inR, n), Link(r, e, inR, inE, m)
    PROVE  Link(c, r, inE, inR, n) /\ Link(r, c, inR, inE, m)
<1>1. c.rcv_nxt = 0 /\ c.rlist = {} /\ r.snd_una \in Nat
    BY EndpointNumbers DEF Blank
<1>2. Reached(r, c.rcv_nxt)
    BY <1>1 DEF Reached, Reach
<1> QED
    BY <1>1, <1>2 DEF Link

\* There are two endpoints, and each is the other's peer.
LEMMA Peers ==
    ASSUME NEW x \in Ends
    PROVE  Peer(x) \in Ends /\ Peer(x) # x /\ Peer(Peer(x)) = x /\ Ends = {x, Peer(x)}
BY EndsAssumption DEF Ends, Peer

\* The types of the variables.
LEMMA Typed ==
    ASSUME BaseInv
    PROVE  /\ ep \in [Ends -> Endpoint] /\ net \in [Ends -> SUBSET Packets]
           /\ sent \in [Ends -> Nat] /\ got \in [Ends -> Seq(Int)]
BY DEF BaseInv, EndsOK

\* A step of an endpoint preserves the invariant.
LEMMA TurnBase ==
    ASSUME NEW x \in Ends, BaseInv, Alive(x), NEW h, NEW m \in Nat, sent[x] <= m,
           Turn(ep[x], h, ep[Peer(x)], m),
           NEW left \in [Ends -> SUBSET Packets], left[Peer(x)] = net[Peer(x)], left[x] \subseteq net[x],
           Leaves(x, h, left), sent' = [sent EXCEPT ![x] = m], got' \in [Ends -> Seq(Int)]
    PROVE  BaseInv'
<1> DEFINE y == Peer(x)
           c == Cleared(h)
           in == IF Deaf(h) THEN {} ELSE left[x]
<1>1. y \in Ends /\ y # x /\ Peer(y) = x /\ Ends = {x, y}
    BY Peers
<1>2. /\ ep \in [Ends -> Endpoint] /\ net \in [Ends -> SUBSET Packets]
      /\ sent \in [Ends -> Nat] /\ got \in [Ends -> Seq(Int)]
      /\ \A z \in Ends : EndOK(ep[z], net[z], sent[z])
    BY DEF BaseInv, EndsOK
<1>3. Link(ep[x], ep[y], net[x], net[y], sent[x]) /\ Link(ep[y], ep[x], net[y], net[x], sent[y])
    BY <1>1 DEF BaseInv, Linked
<1>4. PICK kept \in SUBSET h.out :
         /\ Deaf(ep[y]) => kept = {}
         /\ net' = [left EXCEPT ![y] = @ \cup kept, ![x] = IF Deaf(h) THEN {} ELSE @]
    BY DEF Leaves
<1>5. h \in Endpoint /\ c \in Endpoint /\ EndOK(c, in, m)
    BY TurnEnd
<1>6. ep' = [ep EXCEPT ![x] = c]
    BY DEF Leaves, Cleared
<1>7. ~Deaf(ep[x])
    BY DEF Alive
<1> HIDE DEF c, y
<1>8. ep'[x] = c /\ ep'[y] = ep[y] /\ ep' \in [Ends -> Endpoint]
    BY <1>1, <1>2, <1>5, <1>6
<1>9. net'[y] = net[y] \cup kept /\ net'[x] = in
    BY <1>1, <1>4 DEF y
<1>10. kept \subseteq Packets /\ in \subseteq Packets /\ in \subseteq net[x]
    BY <1>5, EndpointFields
<1>11. net' \in [Ends -> SUBSET Packets]
    <2>1. net' = [z \in Ends |-> net'[z]]
        BY <1>4
    <2>2. \A z \in Ends : net'[z] \in SUBSET Packets
        BY <1>1, <1>2, <1>9, <1>10
    <2> QED
        BY <2>1, <2>2
<1>12. sent'[x] = m /\ sent'[y] = sent[y] /\ sent' \in [Ends -> Nat]
    BY <1>1, <1>2
<1>13. EndOK(ep'[y], net'[y], sent'[y])
    <2>1. EndOK(ep[y], net[y], sent[y])
        BY <1>1, <1>2
    <2> QED
        BY <2>1, <1>4, <1>8, <1>9, <1>12 DEF EndOK
<1>14. EndOK(ep'[x], net'[x], sent'[x])
    BY <1>5, <1>8, <1>9, <1>12
<1>15. EndsOK'
    BY <1>1, <1>8, <1>11, <1>12, <1>13, <1>14 DEF EndsOK
<1>16. ep[x] \in Endpoint /\ ep[y] \in Endpoint /\ sent[x] \in Nat /\ net[x] \in SUBSET Packets
       /\ net[y] \in SUBSET Packets /\ Turn(ep[x], h, ep[y], m)
    BY <1>1, <1>2 DEF y
<1>17. Link(c, ep[y], in, net[y] \cup kept, m)
    BY <1>3, <1>4, <1>7, <1>16, TurnForward DEF c
<1>18. Link(ep[y], c, net[y] \cup kept, in, sent[y])
    BY <1>3, <1>4, <1>7, <1>16, TurnBack DEF c
<1>19. Linked(x)' /\ Linked(y)'
    BY <1>1, <1>8, <1>9, <1>12, <1>17, <1>18 DEF Linked, y
<1> QED
    BY <1>1, <1>15, <1>19 DEF BaseInv

\* Nor does a step of one that has ended.
LEMMA DeadBase ==
    ASSUME NEW x \in Ends, BaseInv, ~Alive(x), NEW h \in Endpoint, Deaf(h), Blank(h), h.out = {},
           Leaves(x, h, net), UNCHANGED <<sent, got>>
    PROVE  BaseInv'
<1> DEFINE y == Peer(x)
           c == Cleared(h)
<1>1. y \in Ends /\ y # x /\ Peer(y) = x /\ Ends = {x, y}
    BY Peers
<1>2. /\ ep \in [Ends -> Endpoint] /\ net \in [Ends -> SUBSET Packets]
      /\ sent \in [Ends -> Nat] /\ got \in [Ends -> Seq(Int)]
      /\ \A z \in Ends : EndOK(ep[z], net[z], sent[z])
    BY DEF BaseInv, EndsOK
<1>3. Link(ep[x], ep[y], net[x], net[y], sent[x]) /\ Link(ep[y], ep[x], net[y], net[x], sent[y])
    BY <1>1 DEF BaseInv, Linked
<1>4. net' = [net EXCEPT ![y] = @ \cup {}, ![x] = {}]
    BY DEF Leaves
<1>5. c \in Endpoint /\ Deaf(c) /\ Blank(c) /\ c.out = {}
    BY ClearedSame, ClearedOK
<1>6. ep' = [ep EXCEPT ![x] = c]
    BY DEF Leaves, Cleared
<1>7. Deaf(ep[x]) /\ net[x] = {}
    BY <1>2 DEF Alive, EndOK
<1> HIDE DEF c, y
<1>8. ep'[x] = c /\ ep'[y] = ep[y] /\ ep' \in [Ends -> Endpoint]
    BY <1>1, <1>2, <1>5, <1>6
<1>9. net' = net
    BY <1>1, <1>2, <1>4, <1>7
<1>10. EndOK(c, net[x], sent[x])
    BY <1>5, <1>7 DEF EndOK, Blank, ReaderOK
<1>11. EndsOK'
    BY <1>1, <1>2, <1>8, <1>9, <1>10 DEF EndsOK
<1>12. Link(c, ep[y], net[x], net[y], sent[x]) /\ Link(ep[y], c, net[y], net[x], sent[y])
    BY <1>1, <1>2, <1>3, <1>5, <1>7, DeadLinks
<1>13. Linked(x)' /\ Linked(y)'
    BY <1>1, <1>8, <1>9, <1>12 DEF Linked, y
<1> QED
    BY <1>1, <1>11, <1>13 DEF BaseInv

\* The window W that x's peer announces, or any that is large enough when the
\* peer is gone, and what x may acknowledge.
Sight(x, n, W) ==
    /\ Facing(ep[Peer(x)], W) /\ Good(ep[x], Known(ep[Peer(x)]), W) /\ CtlLen <= W /\ n <= W
    /\ Counts(ep[x], sent[x]) /\ ReaderOK(ep[x]) /\ ~Deaf(ep[x])
\* The invariant provides such a window.
LEMMA BaseSight ==
    ASSUME NEW x \in Ends, BaseInv, Alive(x), NEW n \in Nat,
           Alive(Peer(x)) => n <= Edge(ep[Peer(x)])
    PROVE  \E W \in Int : Sight(x, n, W)
<1> DEFINE y == Peer(x)
           e == ep[x]
           r == ep[y]
           K == Known(r)
<1>1. y \in Ends /\ Peer(y) = x
    BY Peers
<1>2. e \in Endpoint /\ r \in Endpoint /\ EndOK(e, net[x], sent[x]) /\ EndOK(r, net[y], sent[y])
    BY <1>1 DEF BaseInv, EndsOK
<1>3. Link(e, r, net[x], net[y], sent[x]) /\ Link(r, e, net[y], net[x], sent[y])
    BY <1>1 DEF BaseInv, Linked
<1>4. ~Deaf(e) /\ (~Deaf(r) => n <= Edge(r))
    BY DEF Alive
<1> HIDE DEF y, e, r
<1>5. SendOK(e) /\ Roomy(e) /\ RecvOK(e) /\ Counts(e, sent[x]) /\ e.out = {} /\ ReaderOK(e)
    BY <1>2, <1>4 DEF EndOK
<1>6. e.rcv_nxt \in Nat /\ \A q \in e.rlist : EndOf(q) \in Int
    <2>1. e.rlist \subseteq Saved
        BY <1>2, EndpointFields
    <2> QED
        BY <1>2, <2>1, EndpointNumbers DEF Saved, EndOf
<1>7. e.rcv_nxt \in K /\ \A q \in e.rlist : EndOf(q) \in K
    BY <1>3, <1>6 DEF Known, Link
<1>8. ASSUME NEW W \in Int, e.snd_nxt <= W, e.snd_una + e.snd_wnd <= W PROVE Good(e, K, W)
    BY <1>2, <1>5, <1>7, <1>8 DEF Good, OutOK
<1>9. CASE ~Deaf(r)
    <2>1. e.snd_nxt <= Edge(r) /\ e.snd_una + e.snd_wnd <= Edge(r)
        BY <1>3, <1>4, <1>9 DEF Link
    <2>2. RcvCap <= Edge(r)
        BY <1>2, <1>9 DEF EndOK, RecvOK
    <2>3. Edge(r) \in Int /\ RcvCap \in Int /\ CtlLen \in Int
        BY <1>2, EndpointNumbers, Sizes
    <2>4. CtlLen <= Edge(r)
        BY <2>2, <2>3, ConnectFits
    <2>5. Good(e, K, Edge(r))
        BY <1>8, <2>1, <2>3
    <2>6. Sight(x, n, Edge(r))
        BY <1>4, <1>5, <1>9, <2>4, <2>5 DEF Sight, Facing, e, r, y
    <2> QED
        BY <2>3, <2>6
<1>10. CASE Deaf(r)
    <2> DEFINE W == e.snd_nxt + e.snd_una + e.snd_wnd + CtlLen + n
    <2>1. e.snd_nxt \in Nat /\ e.snd_una \in Nat /\ e.snd_wnd \in Nat /\ CtlLen \in Nat
        BY <1>2, EndpointNumbers, Sizes
    <2>2. W \in Int /\ e.snd_nxt <= W /\ e.snd_una + e.snd_wnd <= W /\ CtlLen <= W /\ n <= W
        BY <2>1
    <2> HIDE DEF W
    <2>3. Good(e, K, W)
        BY <1>8, <2>2
    <2>4. Sight(x, n, W)
        BY <1>4, <1>5, <1>10, <2>2, <2>3 DEF Sight, Facing, e, r, y
    <2> QED
        BY <2>2, <2>4
<1> QED
    BY <1>9, <1>10

\* What an operation leaves of the stream that was queued.
LEMMA GrownCounts ==
    ASSUME NEW e, NEW f, Grown(e, f), NEW n \in Nat, Counts(e, n)
    PROVE  Counts(f, n)
<1>1. CtlLen \in Nat
    BY Sizes
<1> QED
    BY <1>1 DEF Grown, Counts

\* An operation that goes on, or ends, is a step.
LEMMA ProgressTurn ==
    ASSUME NEW W \in Int, NEW r, Facing(r, W), NEW e, NEW f, Progress(e, f, Known(r), W),
           NEW n \in Nat, Counts(e, n)
    PROVE  Turn(e, f, r, n)
<1>1. Counts(f, n) /\ f \in Endpoint
    BY GrownCounts DEF Progress, Good
<1> QED
    BY <1>1 DEF Progress, Turn
\* The same of an operation that ends.
LEMMA EndedTurn ==
    ASSUME NEW W \in Int, NEW r, Facing(r, W), NEW e \in Endpoint, ~Deaf(e), ReaderOK(e), NEW f, NEW g,
           Opened(e, g, Known(r), W), Ended(f, g), NEW n \in Nat, Counts(e, n)
    PROVE  Turn(e, f, r, n)
<1>1. Progress(e, g, Known(r), W)
    BY OpenedProgress
<1>2. Counts(g, n)
    BY <1>1, GrownCounts DEF Progress
<1>3. f \in Endpoint /\ Deaf(f) /\ Blank(f) /\ f.out \subseteq g.out
    BY DEF Ended, Deaf
<1>4. Good(g, Known(r), W) /\ Keeps(e, g) /\ Edge(e) <= Edge(g) /\ g \in Endpoint
    BY <1>1 DEF Progress, Good
<1> QED
    BY <1>2, <1>3, <1>4 DEF Turn

\* AdjustClock deletes the PseudoTcp, or leaves it alone.
LEMMA AdjustClockTurn ==
    ASSUME NEW e, NEW f, NEW r, NEW n, Turn(e, f, r, n)
    PROVE  Turn(e, AdjustClock(f), r, n)
<1> DEFINE h == [Fresh EXCEPT !.state = "GONE", !.out = f.out]
<1>1. AdjustClock(f) \in {f, h}
    BY DEF AdjustClock
<1>0. f \in Endpoint
    BY DEF Turn, Good
<1>2. h \in Endpoint /\ h.state = "GONE"
    BY <1>0, FreshEndpoint DEF Endpoint
<1>3. h.rcv_nxt = 0 /\ h.rbuf = <<>> /\ h.rlist = {} /\ h.out = f.out
    BY DEF Fresh
<1> HIDE DEF h
<1>4. Turn(e, h, r, n)
    BY <1>2, <1>3 DEF Turn, Deaf, Blank
<1> QED
    BY <1>1, <1>4

-----------------------------------------------------------------------------
(***************************************************************************)
(* What a step does to the stream that comes to the endpoint, and to the    *)
(* opening of the connection.                                               *)
(***************************************************************************)
\* An endpoint that has queued nothing hands no connect message to the transport.
LEMMA NoConnects ==
    ASSUME NEW K, NEW W, NEW g, Good(g, K, W), Total(g) = 0
    PROVE  \A q \in g.out : ~q.ctl
<1> SUFFICES ASSUME NEW q \in g.out, q.ctl PROVE FALSE
    OBVIOUS
<1>1. DataOK(q, 0)
    BY DEF Good, OutOK, PacketOK
<1>2. q.seq = 0 /\ Size(q.data) = CtlLen /\ q.seq + Size(q.data) <= 0
    BY <1>1 DEF DataOK
<1>3. CtlLen \in Nat /\ CtlLen # 0
    BY Sizes
<1> QED
    BY <1>2, <1>3

\* An operation other than process takes e to h, in state s unless it ended; k
\* units have been read then, n before.
Calm(e, h, s, n, k, total) ==
    /\ h \in Endpoint /\ h.state \in {s, "CLOSED", "GONE"}
    /\ ~Deaf(h) => /\ ~Deaf(e) /\ h.rcv_nxt = e.rcv_nxt
                   /\ Stream(e, n, total) => Stream(h, k, total)
    /\ (e.state = "LISTEN" /\ s = "LISTEN") \/ Deaf(e) => \A q \in h.out : ~q.ctl

\* An operation that leaves the endpoint open leaves the stream to it alone.
LEMMA OpenedCalm ==
    ASSUME NEW K, NEW W, NEW e, NEW f, Opened(e, f, K, W), ~Deaf(e), NEW m, Counts(e, m), NEW n, NEW total
    PROVE  Calm(e, f, f.state, n, n, total)
<1>1. f \in Endpoint /\ RecvSame(e, f) /\ Good(f, K, W)
    BY DEF Opened, Good
<1>2. Stream(e, n, total) => Stream(f, n, total)
    BY <1>1, SameStream
<1>3. f.rcv_nxt = e.rcv_nxt
    BY <1>1 DEF RecvSame
<1>4. ASSUME e.state = "LISTEN", f.state = "LISTEN" PROVE \A q \in f.out : ~q.ctl
    <2>1. Total(f) = 0
        BY <1>4 DEF Opened, Grown, Counts
    <2> QED
        BY <1>1, <2>1, NoConnects
<1> QED
    BY <1>1, <1>2, <1>3, <1>4 DEF Calm

\* So does one that ends it,
LEMMA EndedCalm ==
    ASSUME NEW K, NEW W, NEW e, NEW f, NEW g, Opened(e, g, K, W), Ended(f, g), ~Deaf(e), NEW m, Counts(e, m),
           NEW n, NEW total
    PROVE  Calm(e, f, g.state, n, n, total)
<1>1. Calm(e, g, g.state, n, n, total)
    BY OpenedCalm
<1>2. f \in Endpoint /\ f.state = "CLOSED" /\ f.out = g.out /\ Deaf(f)
    BY DEF Ended, Deaf
<1> QED
    BY <1>1, <1>2 DEF Calm

\* one that asks to be told,
LEMMA AskedCalm ==
    ASSUME NEW K, NEW W, NEW e, NEW f, Asked(e, f, K, W), ~Deaf(e), e.state # "LISTEN", NEW n, NEW total
    PROVE  Calm(e, f, e.state, n, n, total)
<1>1. \A q : Stored(e, q) => Stored(f, q)
    BY DEF Asked, Core, Stored
<1>2. \A k : Aligned(e, k, total) => Aligned(f, k, total)
    BY <1>1 DEF Asked, Core, Aligned
<1>3. Stream(e, n, total) => Stream(f, n, total)
    BY <1>2 DEF Asked, Core, Stream
<1> QED
    BY <1>3 DEF Asked, Core, Calm

\* and AdjustClock after any of them.
LEMMA AdjustClockCalm ==
    ASSUME NEW e, NEW f, NEW s, NEW n, NEW k, NEW total, Calm(e, f, s, n, k, total)
    PROVE  Calm(e, AdjustClock(f), s, n, k, total)
<1> DEFINE h == [Fresh EXCEPT !.state = "GONE", !.out = f.out]
<1>1. AdjustClock(f) \in {f, h}
    BY DEF AdjustClock
<1>2. f \in Endpoint
    BY DEF Calm
<1>3. h \in Endpoint /\ h.state = "GONE" /\ h.out = f.out
    BY <1>2, FreshEndpoint DEF Endpoint
<1> HIDE DEF h
<1>4. Calm(e, h, s, n, k, total)
    BY <1>3 DEF Calm, Deaf
<1> QED
    BY <1>1, <1>4

\* Handing the packets to the network leaves the stream alone.
LEMMA ClearedStream ==
    ASSUME NEW h \in Endpoint, NEW n, NEW total, Stream(h, n, total)
    PROVE  Stream(Cleared(h), n, total)
<1> DEFINE c == Cleared(h)
<1>1. /\ c.rcv_nxt = h.rcv_nxt /\ c.rlist = h.rlist /\ c.rbuf = h.rbuf /\ c.shutdown = h.shutdown
      /\ c.rfree = h.rfree
    BY ClearedSame
<1> HIDE DEF c
<1>2. \A q : Stored(h, q) => Stored(c, q)
    BY <1>1 DEF Stored
<1>3. \A k : Aligned(h, k, total) => Aligned(c, k, total)
    BY <1>1, <1>2 DEF Aligned
<1>4. Stream(c, n, total)
    BY <1>1, <1>3 DEF Stream
<1> QED
    BY <1>4 DEF c

\* A step of x leaves its peer alone, and brings it no connect message.
Frame(x) ==
    /\ ep'[Peer(x)] = ep[Peer(x)] /\ got'[Peer(x)] = got[Peer(x)] /\ sent'[Peer(x)] = sent[Peer(x)]
    /\ net'[x] \subseteq net[x]
    /\ sent[x] <= sent'[x] /\ (sent'[x] # sent[x] => ep[x].state = "ESTABLISHED" /\ x \in Senders)
Hushed(x) == \A q \in net'[Peer(x)] \ net[Peer(x)] : ~q.ctl

\* A step of x other than NotifyPacket.
Steady(x, s) ==
    /\ Frame(x) /\ ep'[x].state \in {s, "CLOSED", "GONE"}
    /\ ~Deaf(ep'[x]) => ~Deaf(ep[x]) /\ ep'[x].rcv_nxt = ep[x].rcv_nxt
    /\ (ep[x].state = "LISTEN" /\ s = "LISTEN") \/ Deaf(ep[x]) => Hushed(x)
    /\ Sound(x) => Sound(x)'

\* What Leaves says.
LEMMA LeavesFields ==
    ASSUME NEW x \in Ends, BaseInv, NEW h \in Endpoint, NEW left \in [Ends -> SUBSET Packets],
           left[Peer(x)] = net[Peer(x)], left[x] \subseteq net[x], Leaves(x, h, left)
    PROVE  /\ ep'[x] = Cleared(h) /\ ep'[Peer(x)] = ep[Peer(x)] /\ net'[x] \subseteq net[x]
           /\ net'[Peer(x)] \ net[Peer(x)] \subseteq h.out
<1>1. Peer(x) \in Ends /\ Peer(x) # x /\ ep \in [Ends -> Endpoint]
    BY Peers, Typed
<1>2. PICK kept \in SUBSET h.out :
         net' = [left EXCEPT ![Peer(x)] = @ \cup kept, ![x] = IF Deaf(h) THEN {} ELSE @]
    BY DEF Leaves
<1>3. ep' = [ep EXCEPT ![x] = Cleared(h)]
    BY DEF Leaves, Cleared
<1>4. net'[Peer(x)] = net[Peer(x)] \cup kept /\ net'[x] \subseteq left[x]
    BY <1>1, <1>2
<1>5. ep'[x] = Cleared(h) /\ ep'[Peer(x)] = ep[Peer(x)]
    BY <1>1, <1>3
<1> QED
    BY <1>4, <1>5

\* What has been read is what the peer sent, from its first unit on.
Genuinely(x) == (\A i \in DOMAIN got[x] : got[x][i] = i) /\ Size(got[x]) <= sent[Peer(x)]
\* A step that is calm in the endpoint is steady in the system.
LEMMA CalmSteady ==
    ASSUME NEW x \in Ends, BaseInv, NEW h, NEW s, Leaves(x, h, net),
           Calm(ep[x], h, s, Size(got[x]), Size(got'[x]), CtlLen + sent[Peer(x)]),
           got'[Peer(x)] = got[Peer(x)], sent'[Peer(x)] = sent[Peer(x)],
           sent[x] <= sent'[x], sent'[x] # sent[x] => ep[x].state = "ESTABLISHED" /\ x \in Senders,
           Sound(x) => Genuinely(x)'
    PROVE  Steady(x, s)
<1>1. h \in Endpoint /\ net \in [Ends -> SUBSET Packets]
    BY Typed DEF Calm
<1>2. /\ ep'[x] = Cleared(h) /\ ep'[Peer(x)] = ep[Peer(x)] /\ net'[x] \subseteq net[x]
      /\ net'[Peer(x)] \ net[Peer(x)] \subseteq h.out
    BY <1>1, LeavesFields
<1>3. ep'[x].state = h.state /\ ep'[x].rcv_nxt = h.rcv_nxt /\ (Deaf(ep'[x]) <=> Deaf(h))
    BY <1>1, <1>2, ClearedSame, ClearedOK
<1>4. Frame(x)
    BY <1>2 DEF Frame
<1>5. (ep[x].state = "LISTEN" /\ s = "LISTEN") \/ Deaf(ep[x]) => Hushed(x)
    BY <1>2 DEF Calm, Hushed
<1>6. ASSUME Sound(x) PROVE Sound(x)'
    <2> DEFINE total == CtlLen + sent[Peer(x)]
    <2>1. ASSUME ~Deaf(h) PROVE Stream(ep'[x], Size(got'[x]), total)
        <3>1. Stream(ep[x], Size(got[x]), total)
            BY <1>6, <2>1 DEF Calm, Sound, Alive
        <3>2. Stream(h, Size(got'[x]), total)
            BY <2>1, <3>1 DEF Calm
        <3> QED
            BY <1>1, <1>2, <3>2, ClearedStream
    <2>2. Alive(x)' => Stream(ep'[x], Size(got'[x]), CtlLen + sent'[Peer(x)])
        BY <1>3, <2>1 DEF Alive
    <2> QED
        BY <1>6, <2>2 DEF Sound, Genuinely
<1> QED
    BY <1>3, <1>4, <1>5, <1>6 DEF Steady, Calm

\* The steps that hand nothing to Send and read nothing.
LEMMA PlainSteady ==
    ASSUME NEW x \in Ends, BaseInv, NEW h, NEW s, Leaves(x, h, net), UNCHANGED <<sent, got>>,
           \A n : Calm(ep[x], h, s, n, n, CtlLen + sent[Peer(x)])
    PROVE  Steady(x, s)
<1>1. sent[x] \in Nat
    BY Typed
<1>2. sent[x] <= sent'[x]
    BY <1>1
<1>3. Sound(x) => Genuinely(x)'
    BY DEF Sound, Genuinely
<1> QED
    BY <1>2, <1>3, CalmSteady

-----------------------------------------------------------------------------
(***************************************************************************)
(* The actions.                                                             *)
(***************************************************************************)
\* A step that hands nothing to Send and delivers no packet.
LEMMA PlainBase ==
    ASSUME NEW x \in Ends, BaseInv, Alive(x), NEW h, Turn(ep[x], h, ep[Peer(x)], sent[x]),
           Leaves(x, h, net), UNCHANGED sent, got' \in [Ends -> Seq(Int)]
    PROVE  BaseInv'
<1>1. /\ net \in [Ends -> SUBSET Packets] /\ sent \in [Ends -> Nat]
    BY DEF BaseInv, EndsOK
<1>2. sent' = [sent EXCEPT ![x] = sent[x]] /\ sent[x] \in Nat /\ sent[x] <= sent[x]
    BY <1>1
<1> QED
    BY <1>1, <1>2, TurnBase

\* The congestion windows.
LEMMA WindowsWide ==
    ASSUME NEW e \in Endpoint
    PROVE  Windows(e) \subseteq Wide
<1>1. e.mss \in Nat /\ CtlLen <= e.mss /\ CtlLen \in Nat
    BY EndpointFields, Sizes
<1>2. \A c \in Nat : c >= e.mss => CtlLen <= c
    BY <1>1
<1>3. CongestionWindows \subseteq Nat
    BY SizeAssumption
<1> QED
    BY <1>2, <1>3 DEF Windows, Wide

\* OnChannelWritableState
LEMMA ConnectBase ==
    ASSUME NEW x \in Ends, BaseInv, Connect(x)
    PROVE  BaseInv' /\ x \in Connectors /\ ep[x].state = "LISTEN" /\ Steady(x, "SYN_SENT")
<1> DEFINE e == ep[x]
           r == ep[Peer(x)]
           f == QueueConnectMessage([e EXCEPT !.state = "SYN_SENT"])
<1>1. e.state = "LISTEN" /\ x \in Connectors /\ UNCHANGED <<sent, got>>
    BY DEF Connect
<1>2. PICK cwnd \in Windows(e) : Leaves(x, AdjustClock(AttemptSend(f, "none", cwnd)), net)
    BY DEF Connect
<1> DEFINE h == AttemptSend(f, "none", cwnd)
<1>3. Alive(x) /\ cwnd \in Wide /\ e \in Endpoint /\ sent[x] \in Nat /\ got \in [Ends -> Seq(Int)]
    BY <1>1, Typed, WindowsWide DEF Alive, Deaf
<1>p. Alive(Peer(x)) => 0 <= Edge(ep[Peer(x)])
    BY Typed, Peers, EndpointNumbers
<1>4. PICK W \in Int : Sight(x, 0, W)
    BY <1>3, <1>p, BaseSight
<1> HIDE DEF e, r, f, h
<1>5. /\ Facing(r, W) /\ Good(e, Known(r), W) /\ CtlLen <= W /\ Counts(e, sent[x])
      /\ ReaderOK(e) /\ ~Deaf(e)
    BY <1>4 DEF Sight, e, r
<1>6. Total(e) = 0
    BY <1>1, <1>5 DEF Counts
<1>7. Opened(e, f, Known(r), W) /\ f.state = "SYN_SENT"
    BY <1>1, <1>5, <1>6, ConnectOpened, ZenonT(40) DEF f
<1>8. Sends(f, h, Known(r), W)
    BY <1>3, <1>7, AttemptSendSends DEF Opened, h
<1>9. Opened(e, h, Known(r), W)
    BY <1>7, <1>8, SendsOpened, OpenedTrans DEF Opened
<1>10. Turn(e, h, r, sent[x])
    BY <1>3, <1>5, <1>9, OpenedProgress, ProgressTurn
<1>11. Turn(e, AdjustClock(h), r, sent[x])
    BY <1>10, AdjustClockTurn
<1>12. Leaves(x, AdjustClock(h), net)
    BY <1>2 DEF h
<1>13. BaseInv'
    BY <1>1, <1>3, <1>11, <1>12, PlainBase DEF e, r
<1>14. h.state = "SYN_SENT"
    BY <1>7, <1>8 DEF Sends, SendFrame
<1>15. \A n : Calm(e, AdjustClock(h), "SYN_SENT", n, n, CtlLen + sent[Peer(x)])
    BY <1>5, <1>9, <1>14, OpenedCalm, AdjustClockCalm
<1>16. Steady(x, "SYN_SENT")
    BY <1>1, <1>12, <1>15, PlainSteady DEF e
<1> QED
    BY <1>1, <1>13, <1>16 DEF e

\* What comes to an endpoint is what it may expect.
LEMMA ExpectedPacket ==
    ASSUME NEW x \in Ends, BaseInv, Alive(x), NEW p \in net[x]
    PROVE  /\ Expected(p, ep[x], Known(ep[Peer(x)]), CtlLen + sent[Peer(x)])
           /\ Reached(ep[x], p.ack) /\ p.ack + p.wnd \in Nat /\ CtlLen <= p.ack + p.wnd
           /\ Alive(Peer(x)) => p.ack + p.wnd <= Edge(ep[Peer(x)])
<1> DEFINE y == Peer(x)
           e == ep[x]
           r == ep[y]
<1>1. y \in Ends /\ Peer(y) = x /\ p \in Packets /\ ~Deaf(e)
    BY Peers, Typed DEF Alive
<1>2. Link(e, r, net[x], net[y], sent[x]) /\ Link(r, e, net[y], net[x], sent[y])
    BY <1>1 DEF BaseInv, Linked
<1>3. Alive(Peer(x)) <=> ~Deaf(r)
    BY DEF Alive
<1> HIDE DEF y, e, r
<1>4. p.ack + p.wnd \in Nat
    BY <1>1 DEF Packets
<1>5. p.seq + Size(p.data) \in Int
    <2>1. p.seq \in Int /\ Size(p.data) \in Nat
        BY <1>1, LenProperties DEF Packets, Size
    <2> QED
        BY <2>1
<1>6. DataOK(p, CtlLen + sent[y]) /\ (p.data # <<>> => p.seq + Size(p.data) <= Edge(e)) /\ Reached(e, p.ack)
    BY <1>1, <1>2 DEF Link
<1>7. ~Deaf(r) => (p.data # <<>> => Reached(r, p.seq + Size(p.data))) /\ p.ack + p.wnd <= Edge(r)
    BY <1>2 DEF Link
<1>8. Expected(p, e, Known(r), CtlLen + sent[y])
    BY <1>1, <1>5, <1>6, <1>7 DEF Expected, Known
<1>9. CtlLen <= p.ack + p.wnd
    <2>1. RcvCap <= p.ack + p.wnd
        BY <1>2 DEF Link
    <2> QED
        BY <1>4, <2>1, ConnectFits, Sizes
<1> QED
    BY <1>3, <1>4, <1>6, <1>7, <1>8, <1>9 DEF y, e, r

\* A packet takes e to f; n units have been read of the stream that comes to it.
Heeded(e, f, p, n, total) ==
    /\ f \in Endpoint /\ (Deaf(f) \/ Advanced(e.state, f.state, p.ctl))
    /\ ~Deaf(f) =>
         /\ e.rcv_nxt <= f.rcv_nxt
         /\ p.data # <<>> /\ p.seq <= e.rcv_nxt => p.seq + Size(p.data) <= f.rcv_nxt
         /\ Stream(e, n, total) /\ (p.data # <<>> /\ ~p.ctl => CtlLen <= e.rcv_nxt) => Stream(f, n, total)
    /\ e.state = "LISTEN" /\ ~p.ctl => \A q \in f.out : ~q.ctl

\* What process does is that, whether the endpoint goes on or ends.
LEMMA ProcessedHeeded ==
    ASSUME NEW K, NEW W, NEW e, NEW f, NEW p, NEW n, NEW total, Processed(e, f, p, K, W, n, total),
           NEW m, Counts(e, m)
    PROVE  Heeded(e, f, p, n, total)
<1>1. Good(f, K, W) /\ Grown(e, f) /\ Advanced(e.state, f.state, p.ctl)
    BY DEF Processed, Progress
<1>2. f \in Endpoint
    BY <1>1 DEF Good
<1>3. ASSUME e.state = "LISTEN", ~p.ctl PROVE \A q \in f.out : ~q.ctl
    <2>1. f.state = "LISTEN"
        BY <1>1, <1>3 DEF Advanced, Turned
    <2>2. Total(f) = 0
        BY <1>1, <1>3, <2>1 DEF Grown, Counts
    <2> QED
        BY <1>1, <2>2, NoConnects
<1> QED
    BY <1>1, <1>2, <1>3 DEF Processed, Heeded
\* The same when process ends the endpoint.
LEMMA EndedHeeded ==
    ASSUME NEW K, NEW W, NEW e, NEW f, NEW g, Opened(e, g, K, W), Ended(f, g), ~Deaf(e), NEW p,
           Turned(e.state, g.state, p.ctl), NEW m, Counts(e, m), NEW n, NEW total
    PROVE  Heeded(e, f, p, n, total)
<1>1. f \in Endpoint /\ Deaf(f) /\ f.out = g.out
    BY DEF Ended, Deaf
<1>2. Calm(e, g, g.state, n, n, total)
    BY OpenedCalm
<1>3. ASSUME e.state = "LISTEN", ~p.ctl PROVE \A q \in f.out : ~q.ctl
    <2>1. g.state = "LISTEN"
        BY <1>3 DEF Turned
    <2> QED
        BY <1>1, <1>2, <1>3, <2>1 DEF Calm
<1> QED
    BY <1>1, <1>3 DEF Heeded

\* So does AdjustClock after it.
LEMMA AdjustClockHeeded ==
    ASSUME NEW e, NEW f, NEW p, NEW n, NEW total, Heeded(e, f, p, n, total)
    PROVE  Heeded(e, AdjustClock(f), p, n, total)
<1> DEFINE h == [Fresh EXCEPT !.state = "GONE", !.out = f.out]
<1>1. AdjustClock(f) \in {f, h}
    BY DEF AdjustClock
<1>2. f \in Endpoint
    BY DEF Heeded
<1>3. h \in Endpoint /\ Deaf(h) /\ h.out = f.out
    BY <1>2, FreshEndpoint, ZenonT(40) DEF Endpoint, Deaf
<1> HIDE DEF h
<1>4. Heeded(e, h, p, n, total)
    BY <1>3 DEF Heeded
<1> QED
    BY <1>1, <1>4

\* A packet is processed: the endpoint goes on, or ends.
LEMMA NotifyPacketTurn ==
    ASSUME NEW x \in Ends, BaseInv, Alive(x), NEW p \in net[x], NEW cwnd \in Windows(ep[x])
    PROVE  /\ Turn(ep[x], Process(ep[x], p, cwnd), ep[Peer(x)], sent[x])
           /\ \A n \in Nat : Heeded(ep[x], Process(ep[x], p, cwnd), p, n, CtlLen + sent[Peer(x)])
<1> DEFINE e == ep[x]
           r == ep[Peer(x)]
           f == Process(e, p, cwnd)
           total == CtlLen + sent[Peer(x)]
<1>1. cwnd \in Wide /\ e \in Endpoint /\ sent[x] \in Nat /\ sent[Peer(x)] \in Nat
    BY Typed, WindowsWide, Peers
<1>2. total \in Nat
    BY <1>1, Sizes
<1>3. Expected(p, e, Known(r), total) /\ Reached(e, p.ack) /\ p.ack + p.wnd \in Nat /\ CtlLen <= p.ack + p.wnd
    BY ExpectedPacket
<1>4. PICK W \in Int : Sight(x, p.ack + p.wnd, W)
    BY ExpectedPacket, BaseSight
<1> HIDE DEF e, r, f, total
<1>5. /\ Facing(r, W) /\ Good(e, Known(r), W) /\ CtlLen <= W /\ Counts(e, sent[x])
      /\ ReaderOK(e) /\ ~Deaf(e) /\ p.ack + p.wnd <= W
    BY <1>4 DEF Sight, e, r
<1>6. e.state = "LISTEN" => Total(e) = 0
    BY <1>5 DEF Counts
<1>7. ASSUME NEW n \in Nat
      PROVE  \/ Processed(e, f, p, Known(r), W, n, total)
             \/ \E g : Opened(e, g, Known(r), W) /\ Ended(f, g) /\ Turned(e.state, g.state, p.ctl)
    BY <1>1, <1>2, <1>3, <1>5, <1>6, ProcessProgress DEF f
<1>8. Turn(e, f, r, sent[x])
    <2>1. CASE Processed(e, f, p, Known(r), W, 0, total)
        BY <1>1, <1>5, <2>1, ProgressTurn DEF Processed
    <2>2. CASE \E g : Opened(e, g, Known(r), W) /\ Ended(f, g)
        BY <1>1, <1>5, <2>2, EndedTurn
    <2> QED
        BY <1>7, <2>1, <2>2
<1>9. ASSUME NEW n \in Nat PROVE Heeded(e, f, p, n, total)
    <2>1. CASE Processed(e, f, p, Known(r), W, n, total)
        BY <1>5, <2>1, ProcessedHeeded
    <2>2. CASE \E g : Opened(e, g, Known(r), W) /\ Ended(f, g) /\ Turned(e.state, g.state, p.ctl)
        BY <1>5, <2>2, EndedHeeded
    <2> QED
        BY <1>7, <2>1, <2>2
<1> QED
    BY <1>8, <1>9 DEF e, r, f, total

\* A step of x that takes the packet p.
Heard(x, p) ==
    /\ Frame(x) /\ sent' = sent /\ Alive(x) /\ (Deaf(ep'[x]) \/ Advanced(ep[x].state, ep'[x].state, p.ctl))
    /\ ~Deaf(ep'[x]) =>
         /\ ep[x].rcv_nxt <= ep'[x].rcv_nxt
         /\ p.data # <<>> /\ p.seq <= ep[x].rcv_nxt => p.seq + Size(p.data) <= ep'[x].rcv_nxt
    /\ ep[x].state = "LISTEN" /\ ~p.ctl => Hushed(x)
    /\ Sound(x) /\ (p.data # <<>> /\ ~p.ctl => CtlLen <= ep[x].rcv_nxt) => Sound(x)'
\* What process did to the endpoint, the step does to the system.
LEMMA HeededHeard ==
    ASSUME NEW x \in Ends, BaseInv, Alive(x), NEW p, NEW h, UNCHANGED <<sent, got>>,
           \A n \in Nat : Heeded(ep[x], h, p, n, CtlLen + sent[Peer(x)]),
           NEW left \in [Ends -> SUBSET Packets], left[Peer(x)] = net[Peer(x)], left[x] \subseteq net[x],
           Leaves(x, h, left)
    PROVE  Heard(x, p)
<1> DEFINE n == Size(got[x])
           total == CtlLen + sent[Peer(x)]
<1>1. sent[x] \in Nat /\ n \in Nat
    BY Typed, LenProperties DEF Size
<1>2. Heeded(ep[x], h, p, n, total)
    BY <1>1
<1>3. h \in Endpoint
    BY <1>2 DEF Heeded
<1>4. /\ ep'[x] = Cleared(h) /\ ep'[Peer(x)] = ep[Peer(x)] /\ net'[x] \subseteq net[x]
      /\ net'[Peer(x)] \ net[Peer(x)] \subseteq h.out
    BY <1>3, LeavesFields
<1>5. ep'[x].state = h.state /\ ep'[x].rcv_nxt = h.rcv_nxt /\ (Deaf(ep'[x]) <=> Deaf(h))
    BY <1>3, <1>4, ClearedSame, ClearedOK
<1>6. sent[x] <= sent'[x]
    BY <1>1
<1>7. Frame(x)
    BY <1>4, <1>6 DEF Frame
<1>8. ep[x].state = "LISTEN" /\ ~p.ctl => Hushed(x)
    BY <1>2, <1>4 DEF Heeded, Hushed
<1>9. ASSUME Sound(x), p.data # <<>> /\ ~p.ctl => CtlLen <= ep[x].rcv_nxt PROVE Sound(x)'
    <2>1. ASSUME ~Deaf(h) PROVE Stream(ep'[x], n, total)
        <3>1. Stream(ep[x], n, total)
            BY <1>9 DEF Sound
        <3>2. Stream(h, n, total)
            BY <1>2, <1>9, <2>1, <3>1 DEF Heeded
        <3> QED
            BY <1>3, <1>4, <3>2, ClearedStream
    <2>2. Alive(x)' => Stream(ep'[x], Size(got'[x]), CtlLen + sent'[Peer(x)])
        BY <1>5, <2>1 DEF Alive
    <2> QED
        BY <1>9, <2>2 DEF Sound
<1> QED
    BY <1>2, <1>5, <1>7, <1>8, <1>9 DEF Heard, Heeded

\* OnChannelRead
LEMMA NotifyPacketBase ==
    ASSUME NEW x \in Ends, BaseInv, NotifyPacket(x)
    PROVE  BaseInv' /\ \E p \in net[x] : Heard(x, p)
<1>1. Alive(x) /\ UNCHANGED <<sent, got>>
    BY DEF NotifyPacket, Alive
<1>2. PICK p \in net[x], again \in BOOLEAN, cwnd \in Windows(ep[x]) :
         Leaves(x, AdjustClock(Process(ep[x], p, cwnd)),
                IF again THEN net ELSE [net EXCEPT ![x] = @ \ {p}])
    BY DEF NotifyPacket
<1> DEFINE h == AdjustClock(Process(ep[x], p, cwnd))
           left == IF again THEN net ELSE [net EXCEPT ![x] = @ \ {p}]
<1>3. Turn(ep[x], h, ep[Peer(x)], sent[x])
    BY <1>1, NotifyPacketTurn, AdjustClockTurn
<1>h. \A n \in Nat : Heeded(ep[x], h, p, n, CtlLen + sent[Peer(x)])
    BY <1>1, NotifyPacketTurn, AdjustClockHeeded
<1>4. Peer(x) \in Ends /\ Peer(x) # x
    BY Peers
<1>5. /\ net \in [Ends -> SUBSET Packets] /\ sent \in [Ends -> Nat] /\ got \in [Ends -> Seq(Int)]
    BY Typed
<1>6. left \in [Ends -> SUBSET Packets] /\ left[Peer(x)] = net[Peer(x)] /\ left[x] \subseteq net[x]
    BY <1>4, <1>5
<1>7. Leaves(x, h, left)
    BY <1>2
<1> HIDE DEF h, left
<1>8. sent' = [sent EXCEPT ![x] = sent[x]] /\ sent[x] \in Nat /\ sent[x] <= sent[x] /\ got' \in [Ends -> Seq(Int)]
    BY <1>1, <1>5
<1>9. BaseInv'
    BY <1>1, <1>3, <1>6, <1>7, <1>8, TurnBase
<1>10. Heard(x, p)
    BY <1>1, <1>6, <1>7, <1>h, HeededHeard
<1> QED
    BY <1>9, <1>10

\* What an endpoint sees when nothing has come.
LEMMA QuietSight ==
    ASSUME NEW x \in Ends, BaseInv, Alive(x)
    PROVE  /\ \E W \in Int : Sight(x, 0, W)
           /\ ep[x] \in Endpoint /\ sent[x] \in Nat
<1>1. Alive(Peer(x)) => 0 <= Edge(ep[Peer(x)])
    BY Typed, Peers, EndpointNumbers
<1> QED
    BY <1>1, BaseSight, Typed

\* NotifyClock
LEMMA NotifyClockBase ==
    ASSUME NEW x \in Ends, BaseInv, NotifyClock(x)
    PROVE  BaseInv' /\ Steady(x, ep[x].state)
<1> DEFINE e == ep[x]
           r == ep[Peer(x)]
<1>1. Alive(x) /\ UNCHANGED <<sent, got>>
    BY DEF NotifyClock, Alive
<1>2. PICK fired \in SUBSET Timers(e) \ {{}}, silent \in BOOLEAN :
         Leaves(x, AdjustClock(Clock(e, fired, silent)), net)
    BY DEF NotifyClock
<1> DEFINE f == Clock(e, fired, silent)
<1>3. PICK W \in Int : Sight(x, 0, W)
    BY <1>1, QuietSight
<1>4. e \in Endpoint /\ sent[x] \in Nat /\ got \in [Ends -> Seq(Int)]
    BY <1>1, QuietSight, Typed
<1> HIDE DEF e, r, f
<1>5. /\ Facing(r, W) /\ Good(e, Known(r), W) /\ Counts(e, sent[x]) /\ ReaderOK(e) /\ ~Deaf(e)
    BY <1>3 DEF Sight, e, r
<1>6. \/ Stayed(e, f, Known(r), W)
      \/ \E g : Stayed(e, g, Known(r), W) /\ Ended(f, g)
    <2>1. fired \in SUBSET Timers(e)
        BY <1>2
    <2> QED
        BY <1>5, <2>1, ClockOutcome DEF f
<1>7. Turn(e, f, r, sent[x]) /\ \A n : Calm(e, f, e.state, n, n, CtlLen + sent[Peer(x)])
    <2>1. CASE Stayed(e, f, Known(r), W)
        <3>1. Opened(e, f, Known(r), W) /\ f.state = e.state
            BY <2>1 DEF Stayed
        <3> QED
            BY <1>4, <1>5, <3>1, OpenedProgress, ProgressTurn, OpenedCalm
    <2>2. CASE \E g : Stayed(e, g, Known(r), W) /\ Ended(f, g)
        <3>1. PICK g : Opened(e, g, Known(r), W) /\ g.state = e.state /\ Ended(f, g)
            BY <2>2 DEF Stayed
        <3>2. Turn(e, f, r, sent[x])
            BY <1>4, <1>5, <3>1, EndedTurn
        <3>3. ASSUME NEW n PROVE Calm(e, f, e.state, n, n, CtlLen + sent[Peer(x)])
            BY <1>5, <3>1, EndedCalm
        <3> QED
            BY <3>2, <3>3
    <2> QED
        BY <1>6, <2>1, <2>2
<1>8. Turn(e, AdjustClock(f), r, sent[x])
    BY <1>7, AdjustClockTurn
<1>9. Leaves(x, AdjustClock(f), net)
    BY <1>2 DEF f
<1>10. \A n : Calm(e, AdjustClock(f), e.state, n, n, CtlLen + sent[Peer(x)])
    BY <1>7, AdjustClockCalm
<1>11. BaseInv'
    BY <1>1, <1>4, <1>8, <1>9, PlainBase DEF e, r
<1>12. Steady(x, ep[x].state)
    BY <1>1, <1>9, <1>10, PlainSteady DEF e
<1> QED
    BY <1>11, <1>12

\* An endpoint that has ended, with members that nobody looks at changed.
LEMMA DeadFields ==
    ASSUME NEW x \in Ends, BaseInv, ~Alive(x)
    PROVE  ep[x] \in Endpoint /\ Blank(ep[x]) /\ ep[x].out = {} /\ Deaf(ep[x])
BY DEF BaseInv, EndsOK, EndOK, Alive

\* OnChannelConnectionChanged
LEMMA NotifyMTUBase ==
    ASSUME NEW x \in Ends, BaseInv, NotifyMTU(x)
    PROVE  BaseInv' /\ Steady(x, ep[x].state)
<1> DEFINE e == ep[x]
           r == ep[Peer(x)]
<1>1. UNCHANGED <<sent, got>> /\ got \in [Ends -> Seq(Int)]
    BY Typed DEF NotifyMTU
<1>2. PICK m \in Advices :
         LET g == [e EXCEPT !.mtu_advise = m]
         IN Leaves(x, IF g.state = "ESTABLISHED" THEN AdjustMTU(g) ELSE g, net)
    BY DEF NotifyMTU
<1> DEFINE g == [e EXCEPT !.mtu_advise = m]
           f == IF g.state = "ESTABLISHED" THEN AdjustMTU(g) ELSE g
<1>3. m \in PacketSizes /\ Leaves(x, f, net)
    BY <1>2, SizeAssumption
<1>4. CASE Alive(x)
    <2>1. PICK W \in Int : Sight(x, 0, W)
        BY <1>4, QuietSight
    <2>2. e \in Endpoint /\ sent[x] \in Nat
        BY <1>4, QuietSight
    <2>3. /\ Facing(r, W) /\ Good(e, Known(r), W) /\ Counts(e, sent[x]) /\ ReaderOK(e) /\ ~Deaf(e)
        BY <2>1 DEF Sight
    <2>4. Opened(e, f, Known(r), W)
        BY <1>3, <2>3, AdviceOpened
    <2>s. f.state = e.state
        BY <2>2 DEF AdjustMTU, Endpoint
    <2> HIDE DEF e, r, f
    <2>5. Turn(e, f, r, sent[x])
        BY <2>2, <2>3, <2>4, OpenedProgress, ProgressTurn
    <2>6. BaseInv'
        BY <1>1, <1>3, <1>4, <2>5, PlainBase DEF e, r
    <2>7. \A n : Calm(e, f, e.state, n, n, CtlLen + sent[Peer(x)])
        BY <2>3, <2>4, <2>s, OpenedCalm
    <2>8. Steady(x, ep[x].state)
        BY <1>1, <1>3, <2>7, PlainSteady DEF e
    <2> QED
        BY <2>6, <2>8
<1>5. CASE ~Alive(x)
    <2>1. e \in Endpoint /\ Blank(e) /\ e.out = {} /\ Deaf(e)
        BY <1>5, DeadFields
    <2>2. g \in Endpoint /\ g.state = e.state /\ g.out = {} /\ g.rcv_nxt = e.rcv_nxt /\ g.rbuf = e.rbuf
          /\ g.rlist = e.rlist
        BY <1>3, <2>1, ZenonT(40) DEF Endpoint
    <2>3. f = g
        BY <2>1, <2>2 DEF Deaf
    <2> HIDE DEF e, f, g
    <2>4. Deaf(f) /\ Blank(f) /\ f \in Endpoint /\ f.out = {} /\ f.state = e.state
        BY <2>1, <2>2, <2>3 DEF Deaf, Blank
    <2>5. BaseInv'
        BY <1>1, <1>3, <1>5, <2>4, DeadBase
    <2>6. \A n : Calm(e, f, e.state, n, n, CtlLen + sent[Peer(x)])
        BY <2>4 DEF Calm
    <2>7. Steady(x, ep[x].state)
        BY <1>1, <1>3, <2>6, PlainSteady DEF e
    <2> QED
        BY <2>5, <2>7
<1> QED
    BY <1>4, <1>5

\* Close
LEMMA CloseBase ==
    ASSUME NEW x \in Ends, BaseInv, Close(x)
    PROVE  BaseInv' /\ Steady(x, ep[x].state)
<1> DEFINE e == ep[x]
           r == ep[Peer(x)]
<1>1. UNCHANGED <<sent, got>> /\ got \in [Ends -> Seq(Int)]
    BY Typed DEF Close
<1>2. PICK how \in {"graceful", "forceful"} : Leaves(x, AdjustClock([e EXCEPT !.shutdown = how]), net)
    BY DEF Close
<1> DEFINE f == [e EXCEPT !.shutdown = how]
<1>3. Leaves(x, AdjustClock(f), net)
    BY <1>2
<1>4. CASE Alive(x)
    <2>1. PICK W \in Int : Sight(x, 0, W)
        BY <1>4, QuietSight
    <2>2. e \in Endpoint /\ sent[x] \in Nat
        BY <1>4, QuietSight
    <2>3. /\ Facing(r, W) /\ Good(e, Known(r), W) /\ Counts(e, sent[x]) /\ ReaderOK(e) /\ ~Deaf(e)
        BY <2>1 DEF Sight
    <2>4. Progress(e, f, Known(r), W) /\ Total(f) = Total(e)
        BY <2>3, ClosingGood, ZenonT(40)
    <2>c. /\ f.state = e.state /\ f.shutdown # "none" /\ f.rbuf = e.rbuf /\ f.rcv_nxt = e.rcv_nxt
          /\ f \in Endpoint
        BY <2>2, ZenonT(40) DEF Endpoint
    <2> HIDE DEF e, r, f
    <2>5. Turn(e, AdjustClock(f), r, sent[x])
        BY <2>2, <2>3, <2>4, ProgressTurn, AdjustClockTurn
    <2>6. BaseInv'
        BY <1>1, <1>3, <1>4, <2>5, PlainBase DEF e, r
    <2>7. ASSUME NEW n PROVE Calm(e, f, e.state, n, n, CtlLen + sent[Peer(x)])
        <3>1. e.state = "LISTEN" => \A q \in f.out : ~q.ctl
            BY <2>3, <2>4, NoConnects DEF Counts, Progress
        <3>2. \A total : Stream(e, n, total) => Stream(f, n, total)
            BY <2>c DEF Stream
        <3> QED
            BY <2>3, <2>c, <3>1, <3>2 DEF Calm
    <2>8. \A n : Calm(e, AdjustClock(f), e.state, n, n, CtlLen + sent[Peer(x)])
        BY <2>7, AdjustClockCalm
    <2>9. Steady(x, ep[x].state)
        BY <1>1, <1>3, <2>8, PlainSteady DEF e
    <2> QED
        BY <2>6, <2>9
<1>5. CASE ~Alive(x)
    <2>1. e \in Endpoint /\ Blank(e) /\ e.out = {} /\ Deaf(e)
        BY <1>5, DeadFields
    <2>2. f \in Endpoint /\ f.state = e.state /\ f.out = {} /\ f.rcv_nxt = e.rcv_nxt /\ f.rbuf = e.rbuf
          /\ f.rlist = e.rlist
        BY <2>1 DEF Endpoint
    <2> DEFINE g == [Fresh EXCEPT !.state = "GONE", !.out = f.out]
    <2>3. AdjustClock(f) \in {f, g}
        BY DEF AdjustClock
    <2>4. g \in Endpoint /\ g.state = "GONE"
        BY <2>2, FreshEndpoint, ZenonT(40) DEF Endpoint
    <2>5. g.rcv_nxt = 0 /\ g.rbuf = <<>> /\ g.rlist = {} /\ g.out = f.out
        BY DEF Fresh
    <2> HIDE DEF e, f, g
    <2>6. Deaf(f) /\ Blank(f) /\ f \in Endpoint /\ f.out = {}
        BY <2>1, <2>2 DEF Deaf, Blank
    <2>7. Deaf(g) /\ Blank(g) /\ g \in Endpoint /\ g.out = {}
        BY <2>2, <2>4, <2>5 DEF Deaf, Blank
    <2>8. BaseInv'
        BY <1>1, <1>3, <1>5, <2>3, <2>6, <2>7, DeadBase
    <2>9. \A n : Calm(e, AdjustClock(f), e.state, n, n, CtlLen + sent[Peer(x)])
        BY <2>2, <2>3, <2>4, <2>6, <2>7 DEF Calm
    <2>10. Steady(x, ep[x].state)
        BY <1>1, <1>3, <2>9, PlainSteady DEF e
    <2> QED
        BY <2>8, <2>10
<1> QED
    BY <1>4, <1>5

\* What Send queues: the units from n on.
Units(n, m) == [i \in 1 .. m |-> n + i]
\* They are a sequence.
LEMMA UnitsFields ==
    ASSUME NEW n \in Nat, NEW m \in Nat
    PROVE  Units(n, m) \in Seq(Int) /\ Size(Units(n, m)) = m /\ \A i \in 1 .. m : Units(n, m)[i] = n + i
<1>1. \A i \in 1 .. m : n + i \in Int
    OBVIOUS
<1> QED
    BY <1>1, IsASeq, LenProperties DEF Units, Size

\* Send takes what fits and sends what it may.
Handed(e, n, m, cwnd) == AttemptSend(Queue(e, Units(n, m), FALSE), "none", cwnd)
Supplied(e, h, n, K, W) ==
    /\ Good(h, K, W) /\ Keeps(e, h) /\ Edge(e) = Edge(h) /\ Counts(h, n)
    /\ h.state = e.state /\ RecvSame(e, h)
\* Handing data to Send makes the stream longer by as much.
LEMMA QueuedOpened ==
    ASSUME NEW K, NEW W \in Int, NEW e, Good(e, K, W), ReaderOK(e), e.state = "ESTABLISHED",
           NEW n \in Nat, Counts(e, n), NEW m \in Nat, m > 0, NEW cwnd \in Wide,
           Size(e.sbuf) + m <= SndCap
    PROVE  Supplied(e, Handed(e, n, m, cwnd), n + m, K, W)
<1> DEFINE q == Queue(e, Units(n, m), FALSE)
           h == AttemptSend(q, "none", cwnd)
<1>1. Total(e) = CtlLen + n /\ CtlLen \in Nat /\ e \in Endpoint
    BY Sizes DEF Counts, Good
<1>2. ASSUME NEW i \in 1 .. m PROVE Units(n, m)[i] = Unit(Total(e) + i - 1)
    <2>1. Units(n, m)[i] = n + i
        BY UnitsFields
    <2>2. i \in Nat /\ i > 0 /\ Total(e) + i - 1 = CtlLen + n + i - 1
        BY <1>1
    <2>3. Unit(CtlLen + n + i - 1) = n + i
        BY <2>2, UnitAfter
    <2> QED
        BY <2>1, <2>2, <2>3
<1>3. Total(e) >= CtlLen
    BY <1>1
<1>r. CtlLen <= e.snd_una + e.snd_wnd
    <2>1. Total(e) # 0
        BY <1>1, Sizes
    <2> QED
        BY <2>1 DEF Good, Roomy
<1>4. Good(q, K, W) /\ Queued(e, q, m)
    BY <1>2, <1>3, <1>r, UnitsFields, QueueGood
<1> HIDE DEF q
<1>5. Sends(q, h, K, W)
    BY <1>4, AttemptSendSends
<1> HIDE DEF h
<1>6. Good(h, K, W) /\ Total(h) = Total(q) /\ Edge(h) = Edge(q)
    BY <1>4, <1>5, SendsGood
<1>7. Keeps(e, h) /\ h.state = e.state
    BY <1>4, <1>5 DEF Queued, Sends, SendFrame, Keeps
<1>8. Edge(e) = Edge(h)
    BY <1>4, <1>6 DEF Queued
<1>9. RecvSame(e, h)
    BY <1>4, <1>5 DEF Queued, Sends, SendFrame, RecvSame
<1>10. Total(h) = CtlLen + n + m
    BY <1>1, <1>4, <1>6 DEF Queued
<1>11. Counts(h, n + m)
    <2>1. CtlLen + n + m = CtlLen + (n + m)
        BY <1>1
    <2> QED
        BY <1>7, <1>10, <2>1 DEF Counts
<1>12. h = Handed(e, n, m, cwnd)
    BY DEF h, q, Handed
<1> QED
    BY <1>6, <1>7, <1>8, <1>9, <1>11, <1>12 DEF Supplied

\* Write
LEMMA SendBase ==
    ASSUME NEW x \in Ends, BaseInv, Send(x)
    PROVE  BaseInv' /\ Steady(x, ep[x].state)
<1> DEFINE e == ep[x]
           r == ep[Peer(x)]
           m(n) == Least(n, SndCap - Len(e.sbuf))
<1>1. e.state = "ESTABLISHED" /\ x \in Senders /\ got' = got /\ got \in [Ends -> Seq(Int)]
    BY Typed DEF Send
<1>2. PICK n \in 1 .. MaxUnits - sent[x], cwnd \in Windows(e) :
         IF m(n) = 0
         THEN Leaves(x, [e EXCEPT !.writeEnable = TRUE], net) /\ UNCHANGED sent
         ELSE /\ Leaves(x, AttemptSend(Queue(e, Units(sent[x], m(n)), FALSE), "none", cwnd), net)
              /\ sent' = [sent EXCEPT ![x] = @ + m(n)]
    BY DEF Send, Units
<1>3. Alive(x) /\ cwnd \in Wide
    BY <1>1, Typed, WindowsWide DEF Alive, Deaf
<1>4. e \in Endpoint /\ sent[x] \in Nat /\ net \in [Ends -> SUBSET Packets] /\ sent \in [Ends -> Nat]
    BY <1>3, QuietSight, Typed
<1>5. PICK W \in Int : Sight(x, 0, W)
    BY <1>3, QuietSight
<1>6. /\ Facing(r, W) /\ Good(e, Known(r), W) /\ Counts(e, sent[x]) /\ ReaderOK(e) /\ ~Deaf(e)
    BY <1>5 DEF Sight
<1>7. CASE m(n) = 0
    <2> DEFINE f == Asking(e, e.readEnable, TRUE)
    <2>1. e.readEnable \in BOOLEAN
        BY <1>4 DEF Endpoint
    <2>2. Leaves(x, f, net) /\ UNCHANGED sent
        <3>1. f = [e EXCEPT !.writeEnable = TRUE]
            BY <1>4 DEF Asking, Endpoint
        <3> QED
            BY <1>2, <1>7, <3>1
    <2> HIDE DEF e, r, m
    <2>3. Asked(e, f, Known(r), W)
        BY <1>6, <2>1, AskingGood
    <2> HIDE DEF f
    <2>4. Turn(e, f, r, sent[x])
        BY <1>4, <1>6, <2>3, ProgressTurn DEF Asked
    <2>5. BaseInv'
        BY <1>1, <1>3, <2>2, <2>4, PlainBase DEF e, r
    <2>6. \A n1 : Calm(e, f, e.state, n1, n1, CtlLen + sent[Peer(x)])
        BY <1>1, <1>6, <2>3, AskedCalm
    <2>7. Steady(x, ep[x].state)
        BY <1>1, <2>2, <2>6, PlainSteady DEF e
    <2> QED
        BY <2>5, <2>7
<1>8. CASE m(n) # 0
    <2>1. m(n) \in Nat /\ m(n) > 0 /\ Size(e.sbuf) + m(n) <= SndCap
        <3>1. Size(e.sbuf) \in Nat
            BY <1>4, EndpointNumbers
        <3>2. Size(e.sbuf) <= SndCap /\ SndCap \in Nat
            BY <1>6, Sizes DEF Good, SendOK
        <3>3. n \in Nat /\ n > 0
            BY <1>2
        <3>4. m(n) = Least(n, SndCap - Size(e.sbuf))
            BY DEF Size
        <3> QED
            BY <1>8, <3>1, <3>2, <3>3, <3>4 DEF Least
    <2> HIDE DEF m
    <2> DEFINE k == m(n)
               f == Handed(e, sent[x], k, cwnd)
    <2>2. Leaves(x, f, net) /\ sent' = [sent EXCEPT ![x] = sent[x] + k]
        BY <1>2, <1>8 DEF Handed
    <2> HIDE DEF k
    <2>3. /\ Good(f, Known(r), W) /\ Keeps(e, f) /\ Edge(e) = Edge(f) /\ Counts(f, sent[x] + k)
          /\ f.state = e.state /\ RecvSame(e, f)
        <3>1. k \in Nat /\ k > 0 /\ Size(e.sbuf) + k <= SndCap
            BY <2>1 DEF k
        <3>2. Supplied(e, f, sent[x] + k, Known(r), W)
            BY <1>1, <1>3, <1>4, <1>6, <3>1, QueuedOpened
        <3> HIDE DEF e, r, f
        <3> QED
            BY <3>2 DEF Supplied
    <2> HIDE DEF e, r, f
    <2>4. ReaderOK(f) /\ ~Deaf(f)
        BY <1>1, <1>6, <2>3 DEF ReaderOK, RecvSame, Deaf
    <2>5. Edge(e) <= Edge(f) /\ f \in Endpoint
        BY <1>4, <2>3, EndpointNumbers DEF Good
    <2>6. Turn(e, f, r, sent[x] + k)
        BY <1>6, <2>3, <2>4, <2>5 DEF Turn
    <2>7. sent[x] + k \in Nat /\ sent[x] <= sent[x] + k
        BY <1>4, <2>1 DEF k
    <2>8. BaseInv'
        BY <1>1, <1>3, <1>4, <2>2, <2>6, <2>7, TurnBase DEF e, r
    <2>9. ASSUME NEW n1 PROVE Calm(e, f, e.state, n1, n1, CtlLen + sent[Peer(x)])
        <3>1. f \in Endpoint /\ f.rcv_nxt = e.rcv_nxt /\ e.state # "LISTEN"
            BY <1>1, <2>3 DEF Good, RecvSame
        <3>2. \A total : Stream(e, n1, total) => Stream(f, n1, total)
            BY <2>3, SameStream
        <3> QED
            BY <1>6, <2>3, <3>1, <3>2 DEF Calm
    <2>10. Peer(x) \in Ends /\ Peer(x) # x
        BY Peers
    <2>11. sent'[x] = sent[x] + k /\ sent'[Peer(x)] = sent[Peer(x)]
        BY <1>4, <2>2, <2>10
    <2>12. Sound(x) => Genuinely(x)'
        BY <1>1, <2>11 DEF Sound, Genuinely
    <2>13. Steady(x, ep[x].state)
        BY <1>1, <2>2, <2>7, <2>9, <2>11, <2>12, CalmSteady DEF e
    <2> QED
        BY <2>8, <2>13
<1> QED
    BY <1>7, <1>8

\* What Recv leaves of an endpoint with data: the first m units are gone, and the
\* window is w; it is announced at once when it was closed.
ReadWindow(e, m) == RcvCap - (Size(e.rbuf) - m)
Reading(e, h, m, cwnd) ==
    \/ h = Emptied(e, m, e.rcv_wnd) \/ h = Emptied(e, m, ReadWindow(e, m))
    \/ h = AttemptSend(Emptied(e, m, ReadWindow(e, m)), "immediate", cwnd)
\* Recv with data in the buffer is such a read.
LEMMA RecvReads ==
    ASSUME NEW x \in Ends, Recv(x), ep[x] \in Endpoint, ep[x].rbuf # <<>>
    PROVE  \E m \in Nat, cwnd \in Windows(ep[x]) : \E h :
              /\ m <= Size(ep[x].rbuf) /\ Reading(ep[x], h, m, cwnd) /\ Leaves(x, h, net)
              /\ got' = [got EXCEPT ![x] = @ \o SubSeq(ep[x].rbuf, 1, m)]
<1> DEFINE e == ep[x]
           m(n) == Least(n, Len(e.rbuf))
           read(n) == [e EXCEPT !.rbuf = SubSeq(@, m(n) + 1, Len(@))]
           opened(n) == [read(n) EXCEPT !.rcv_wnd = GetWriteRemaining(read(n))]
           left(n, cwnd) ==
               CASE GetWriteRemaining(read(n)) - e.rcv_wnd < Least(RcvCap \div 2, e.mss) -> read(n)
                 [] OTHER -> IF e.rcv_wnd = 0 THEN AttemptSend(opened(n), "immediate", cwnd) ELSE opened(n)
<1>1. PICK n \in 1 .. RcvCap, cwnd \in Windows(e) :
        IF e.rbuf = <<>>
        THEN Leaves(x, [e EXCEPT !.readEnable = TRUE], net) /\ UNCHANGED got
        ELSE /\ got' = [got EXCEPT ![x] = @ \o SubSeq(e.rbuf, 1, m(n))]
             /\ Leaves(x, left(n, cwnd), net)
    BY Zenon DEF Recv
<1>b. e.rbuf # <<>>
    OBVIOUS
<1>c. got' = [got EXCEPT ![x] = @ \o SubSeq(e.rbuf, 1, m(n))] /\ Leaves(x, left(n, cwnd), net)
    BY <1>1, <1>b, Zenon
<1>2. Len(e.rbuf) \in Nat /\ e.rbuf \in Seq(Int) /\ n \in Nat
    <2>1. n \in Nat
        BY <1>1, Sizes
    <2>2. e.rbuf \in Seq(Int)
        BY EndpointFields
    <2> QED
        BY <2>1, <2>2, LenProperties
<1>3. m(n) \in Nat /\ m(n) <= Len(e.rbuf)
    BY <1>2 DEF Least
<1>4. left(n, cwnd) \in {read(n), opened(n), AttemptSend(opened(n), "immediate", cwnd)}
    OBVIOUS
<1> DEFINE k == m(n)
<1>5. read(n) = Emptied(e, k, e.rcv_wnd)
    BY DEF Emptied, Endpoint
<1>6. opened(n) = Emptied(e, k, ReadWindow(e, k))
    <2>1. Len(read(n).rbuf) = Len(e.rbuf) - k
        <3>1. read(n).rbuf = SubSeq(e.rbuf, k + 1, Len(e.rbuf))
            BY DEF Endpoint
        <3> HIDE DEF read, k, m
        <3>2. k \in Nat /\ k <= Len(e.rbuf)
            BY <1>3 DEF k
        <3>3. k + 1 \in 1 .. Len(e.rbuf) + 1 /\ Len(e.rbuf) \in k .. Len(e.rbuf)
            BY <1>2, <3>2
        <3> QED
            BY <1>2, <3>1, <3>2, <3>3, SubSeqProperties
    <2>2. GetWriteRemaining(read(n)) = ReadWindow(e, k)
        BY <2>1 DEF GetWriteRemaining, ReadWindow, Size
    <2> QED
        BY <2>2 DEF Emptied, Endpoint
<1>7. Reading(e, left(n, cwnd), k, cwnd)
    <2> HIDE DEF left, read, opened, k, e
    <2> QED
        BY <1>4, <1>5, <1>6 DEF Reading
<1>8. k \in Nat /\ k <= Size(e.rbuf)
    BY <1>3 DEF Size
<1> HIDE DEF left
<1> QED
    BY <1>1, <1>c, <1>7, <1>8

\* Reading is progress, and what was read has left the stream.
LEMMA ReadingProgress ==
    ASSUME NEW K, NEW W \in Int, NEW e, Good(e, K, W), ~Deaf(e), ReaderOK(e), e.rbuf # <<>>,
           NEW m \in Nat, m <= Size(e.rbuf), NEW cwnd \in Wide, NEW h, Reading(e, h, m, cwnd),
           NEW n \in Nat, NEW total \in Nat
    PROVE  /\ Progress(e, h, K, W) /\ h.state = e.state /\ h.rcv_nxt = e.rcv_nxt /\ Total(h) = Total(e)
           /\ Stream(e, n, total) => Stream(h, n + m, total)
<1> DEFINE w == ReadWindow(e, m)
           g == Emptied(e, m, w)
           h0 == Emptied(e, m, e.rcv_wnd)
           h2 == AttemptSend(g, "immediate", cwnd)
<1>1. e \in Endpoint
    BY DEF Good
<1>2. /\ Size(e.rbuf) \in Nat /\ e.rcv_wnd \in Nat /\ RcvCap \in Nat
      /\ Size(e.rbuf) + e.rcv_wnd <= RcvCap
    BY <1>1, EndpointNumbers, Sizes DEF Good, RecvOK
<1>3. w \in Nat /\ e.rcv_wnd <= w /\ w <= RcvCap - (Size(e.rbuf) - m)
      /\ e.rcv_wnd <= e.rcv_wnd /\ e.rcv_wnd <= RcvCap - (Size(e.rbuf) - m)
    BY <1>2 DEF ReadWindow
<1> HIDE DEF w
<1>4. /\ Progress(e, g, K, W) /\ g.state = e.state /\ g.rcv_nxt = e.rcv_nxt /\ Total(g) = Total(e)
      /\ Stream(e, n, total) => Stream(g, n + m, total)
    BY <1>3, EmptiedGood DEF Emptying
<1>5. /\ Progress(e, h0, K, W) /\ h0.state = e.state /\ h0.rcv_nxt = e.rcv_nxt /\ Total(h0) = Total(e)
      /\ Stream(e, n, total) => Stream(h0, n + m, total)
    BY <1>2, <1>3, EmptiedGood, SMTT(40) DEF Emptying
<1> HIDE DEF g, h0
<1>6. Good(g, K, W) /\ g \in Endpoint
    BY <1>4 DEF Progress, Good
<1>7. Sends(g, h2, K, W)
    BY <1>6, AttemptSendSends
<1> HIDE DEF h2
<1>8. Good(h2, K, W) /\ Onward(g, h2, K, W)
    BY <1>6, <1>7, SendsOnward DEF Onward
<1>9. Keeps(e, h2)
    BY <1>4, <1>8 DEF Progress, Onward, Keeps
<1>10. Edge(h2) = Edge(g)
    BY <1>8 DEF Onward, RecvSame, Edge
<1>11. Grown(e, h2) /\ ~Deaf(h2) /\ ReaderOK(h2) /\ h2.state = e.state /\ Total(h2) = Total(e)
       /\ h2.rcv_nxt = e.rcv_nxt
    BY <1>4, <1>8 DEF Progress, Onward, Grown, Deaf, ReaderOK, RecvSame
<1>12. Progress(e, h2, K, W)
    BY <1>4, <1>8, <1>9, <1>10, <1>11 DEF Progress
<1>13. Stream(e, n, total) => Stream(h2, n + m, total)
    BY <1>4, <1>8, SameStream DEF Onward
<1>14. h \in {h0, g, h2}
    BY DEF Reading, h0, g, h2, w
<1> QED
    BY <1>4, <1>5, <1>11, <1>12, <1>13, <1>14

\* What is read goes on where the last read ended.
LEMMA ReadOn ==
    ASSUME NEW g \in Seq(Int), NEW b \in Seq(Int), NEW m \in Nat, m <= Size(b)
    PROVE  LET all == g \o SubSeq(b, 1, m) IN
           /\ all \in Seq(Int) /\ Size(all) = Size(g) + m
           /\ (\A i \in DOMAIN g : g[i] = i) /\ (\A i \in DOMAIN b : b[i] = Size(g) + i) =>
                 \A i \in DOMAIN all : all[i] = i
<1> DEFINE t == SubSeq(b, 1, m)
           all == g \o t
           n == Len(g)
<1>1. Len(b) \in Nat /\ 1 \in 1 .. Len(b) + 1 /\ m \in 1 - 1 .. Len(b) /\ m <= Len(b) /\ n \in Nat
    BY DEF Size
<1>2. t \in Seq(Int) /\ Len(t) = m /\ \A i \in 1 .. m : t[i] = b[i]
    <2>1. t \in Seq(Int) /\ Len(t) = m - 1 + 1 /\ \A i \in 1 .. m - 1 + 1 : t[i] = b[1 + i - 1]
        BY <1>1, SubSeqProperties
    <2>2. m - 1 + 1 = m /\ \A i \in 1 .. m : 1 + i - 1 = i
        OBVIOUS
    <2> HIDE DEF t
    <2> QED
        BY <2>1, <2>2
<1> HIDE DEF t
<1>3. /\ all \in Seq(Int) /\ Len(all) = n + m
      /\ \A i \in 1 .. n + m : all[i] = IF i <= n THEN g[i] ELSE t[i - n]
    BY <1>2, ConcatProperties
<1>4. DOMAIN all = 1 .. n + m /\ DOMAIN g = 1 .. n /\ DOMAIN b = 1 .. Len(b)
    BY <1>3
<1> HIDE DEF all, n
<1>5. ASSUME \A i \in DOMAIN g : g[i] = i, \A i \in DOMAIN b : b[i] = n + i, NEW i \in 1 .. n + m
      PROVE  all[i] = i
    <2>1. CASE i <= n
        <3>1. i \in 1 .. n
            BY <1>1, <2>1
        <3> QED
            BY <1>3, <1>4, <1>5, <2>1, <3>1
    <2>2. CASE ~(i <= n)
        <3>1. i - n \in 1 .. m /\ i - n \in 1 .. Len(b) /\ n + (i - n) = i
            BY <1>1, <2>2
        <3>2. all[i] = t[i - n] /\ t[i - n] = b[i - n]
            BY <1>2, <1>3, <2>2, <3>1
        <3>3. b[i - n] = n + (i - n)
            BY <1>4, <1>5, <3>1
        <3> QED
            BY <3>1, <3>2, <3>3
    <2> QED
        BY <2>1, <2>2
<1> QED
    BY <1>3, <1>4, <1>5 DEF Size, all, n, t

\* Read
LEMMA RecvBase ==
    ASSUME NEW x \in Ends, BaseInv, Recv(x)
    PROVE  BaseInv' /\ Steady(x, ep[x].state)
<1> DEFINE e == ep[x]
           r == ep[Peer(x)]
<1>1. e.state = "ESTABLISHED" /\ UNCHANGED sent /\ got \in [Ends -> Seq(Int)]
    BY Typed DEF Recv
<1>2. Alive(x)
    BY <1>1 DEF Alive, Deaf
<1>3. e \in Endpoint /\ sent[x] \in Nat
    BY <1>2, QuietSight
<1>4. PICK W \in Int : Sight(x, 0, W)
    BY <1>2, QuietSight
<1>5. /\ Facing(r, W) /\ Good(e, Known(r), W) /\ Counts(e, sent[x]) /\ ReaderOK(e) /\ ~Deaf(e)
    BY <1>4 DEF Sight
<1>6. CASE e.rbuf = <<>>
    <2> DEFINE f == Asking(e, TRUE, e.writeEnable)
    <2>1. Leaves(x, [e EXCEPT !.readEnable = TRUE], net) /\ got' = got
        BY <1>6 DEF Recv
    <2>2. f = [e EXCEPT !.readEnable = TRUE] /\ e.writeEnable \in BOOLEAN
        BY <1>3 DEF Asking, Endpoint
    <2>3. Leaves(x, f, net)
        BY <2>1, <2>2
    <2> HIDE DEF e, r
    <2>4. Asked(e, f, Known(r), W)
        BY <1>5, <1>6, <2>2, AskingGood
    <2> HIDE DEF f
    <2>5. Turn(e, f, r, sent[x])
        BY <1>3, <1>5, <2>4, ProgressTurn DEF Asked
    <2>6. BaseInv'
        BY <1>1, <1>2, <2>1, <2>3, <2>5, PlainBase DEF e, r
    <2>7. \A n : Calm(e, f, e.state, n, n, CtlLen + sent[Peer(x)])
        BY <1>1, <1>5, <2>4, AskedCalm
    <2>8. Steady(x, ep[x].state)
        BY <1>1, <2>1, <2>3, <2>7, PlainSteady DEF e
    <2> QED
        BY <2>6, <2>8
<1>7. CASE e.rbuf # <<>>
    <2>0. PICK m \in Nat, cwnd \in Windows(e) : \E h :
              /\ m <= Size(e.rbuf) /\ Reading(e, h, m, cwnd) /\ Leaves(x, h, net)
              /\ got' = [got EXCEPT ![x] = @ \o SubSeq(e.rbuf, 1, m)]
        BY <1>3, <1>7, RecvReads
    <2>1. PICK h :
              /\ m <= Size(e.rbuf) /\ Reading(e, h, m, cwnd) /\ Leaves(x, h, net)
              /\ got' = [got EXCEPT ![x] = @ \o SubSeq(e.rbuf, 1, m)]
        BY <2>0
    <2>2. cwnd \in Wide
        BY <1>3, WindowsWide
    <2> HIDE DEF e, r
    <2>3. Progress(e, h, Known(r), W)
        BY <1>5, <1>7, <2>1, <2>2, ReadingProgress
    <2>4. Turn(e, h, r, sent[x])
        BY <1>3, <1>5, <2>3, ProgressTurn
    <2> DEFINE all == got[x] \o SubSeq(e.rbuf, 1, m)
               n == Size(got[x])
               total == CtlLen + sent[Peer(x)]
    <2>a. e.rbuf \in Seq(Int) /\ got[x] \in Seq(Int)
        BY <1>1, <1>3, EndpointFields
    <2>b. /\ all \in Seq(Int) /\ Size(all) = n + m
          /\ (\A i \in DOMAIN got[x] : got[x][i] = i) /\ (\A i \in DOMAIN e.rbuf : e.rbuf[i] = n + i) =>
                \A i \in DOMAIN all : all[i] = i
        BY <2>1, <2>a, ReadOn
    <2>c. Peer(x) \in Ends /\ Peer(x) # x
        BY Peers
    <2> HIDE DEF all
    <2>d. got'[x] = all /\ got'[Peer(x)] = got[Peer(x)]
        BY <1>1, <2>1, <2>c DEF all
    <2>5. got' \in [Ends -> Seq(Int)]
        BY <1>1, <2>1, <2>b DEF all
    <2>6. BaseInv'
        BY <1>1, <1>2, <2>1, <2>4, <2>5, PlainBase DEF e, r
    <2>7. n \in Nat /\ total \in Nat /\ sent[x] \in Nat /\ sent[Peer(x)] \in Nat /\ CtlLen \in Nat
        BY <2>a, <2>c, Typed, Sizes DEF Size
    <2> HIDE DEF n, total
    <2>8. Calm(e, h, e.state, n, n + m, total)
        <3>1. /\ Progress(e, h, Known(r), W) /\ h.state = e.state /\ h.rcv_nxt = e.rcv_nxt
              /\ Stream(e, n, total) => Stream(h, n + m, total)
            BY <1>5, <1>7, <2>1, <2>2, <2>7, ReadingProgress
        <3>2. h \in Endpoint /\ e.state # "LISTEN"
            BY <1>1, <3>1 DEF Progress, Good
        <3> QED
            BY <1>5, <3>1, <3>2 DEF Calm
    <2>9. ASSUME Sound(x) PROVE Genuinely(x)'
        <3>1. /\ \A i \in DOMAIN got[x] : got[x][i] = i
              /\ \A i \in DOMAIN e.rbuf : e.rbuf[i] = n + i
              /\ CtlLen + n + Size(e.rbuf) <= total
            BY <1>2, <2>9 DEF Sound, Stream, e, n, total
        <3>2. \A i \in DOMAIN all : all[i] = i
            BY <2>b, <3>1
        <3>3. n + m <= sent[Peer(x)]
            <4>1. Size(e.rbuf) \in Nat /\ total = CtlLen + sent[Peer(x)]
                BY <2>a DEF Size, total
            <4> QED
                BY <2>1, <2>7, <3>1, <4>1
        <3> QED
            BY <1>1, <2>b, <2>d, <3>2, <3>3 DEF Genuinely
    <2>10. sent[x] <= sent'[x]
        BY <1>1, <2>7
    <2>11. Calm(ep[x], h, ep[x].state, Size(got[x]), Size(got'[x]), CtlLen + sent[Peer(x)])
        BY <2>8, <2>b, <2>d DEF e, n, total
    <2>12. Steady(x, ep[x].state)
        BY <1>1, <2>1, <2>9, <2>10, <2>11, <2>d, CalmSteady
    <2> QED
        BY <2>6, <2>12
<1> QED
    BY <1>6, <1>7

\* A fresh PseudoTcp.
LEMMA FreshGood ==
    /\ Fresh \in Endpoint /\ EndOK(Fresh, {}, 0) /\ Link(Fresh, Fresh, {}, {}, 0)
<1> DEFINE e == Fresh
<1>1. e \in Endpoint
    BY FreshEndpoint
<1>2. /\ e.state = "LISTEN" /\ e.snd_una = 0 /\ e.snd_nxt = 0 /\ e.snd_wnd = 1 /\ e.sbuf = <<>>
      /\ e.slist = <<>> /\ e.rcv_nxt = 0 /\ e.rcv_wnd = RcvCap /\ e.rbuf = <<>> /\ e.rlist = {}
      /\ e.recover = 0 /\ e.rto = FALSE /\ e.out = {}
    BY DEF Fresh
<1> HIDE DEF e
<1>3. RcvCap \in Nat /\ RcvCap >= 1 /\ SndCap \in Nat /\ Size(<<>>) = 0 /\ DOMAIN <<>> = {}
    BY Sizes DEF Size
<1>4. Total(e) = 0 /\ Edge(e) = RcvCap /\ Reached(e, 0)
    BY <1>2, <1>3 DEF Total, Edge, Reached, Reach
<1>5. Tile(e)
    <2>1. Chain(<<>>, 0, 0) /\ Marked(<<>>, 0)
        BY <1>3 DEF Chain, Marked
    <2> QED
        BY <1>2, <1>4, <2>1 DEF Tile
<1>6. SendOK(e)
    <2>1. Kinds(<<>>)
        BY <1>3 DEF Kinds
    <2>2. Content(e)
        BY <1>2, <1>3 DEF Content
    <2> QED
        BY <1>2, <1>3, <1>5, <2>1, <2>2 DEF SendOK
<1>7. RecvOK(e)
    BY <1>2, <1>3, <1>4, FS_EmptySet DEF RecvOK
<1>8. EndOK(e, {}, 0)
    BY <1>2, <1>4, <1>6, <1>7 DEF EndOK, Roomy, Counts, ReaderOK, Deaf
<1>9. Link(e, e, {}, {}, 0)
    BY <1>2, <1>3, <1>4 DEF Link
<1> QED
    BY <1>1, <1>8, <1>9 DEF e

\* The invariant holds at the start.
LEMMA BaseInit == Init => BaseInv
<1> SUFFICES ASSUME Init PROVE BaseInv
    OBVIOUS
<1>1. /\ ep = [x \in Ends |-> Fresh] /\ net = [x \in Ends |-> {}]
      /\ sent = [x \in Ends |-> 0] /\ got = [x \in Ends |-> <<>>]
    BY DEF Init
<1>2. EndsOK
    BY <1>1, FreshGood DEF EndsOK
<1>3. \A x \in Ends : Linked(x)
    BY <1>1, FreshGood, Peers DEF Linked
<1> QED
    BY <1>2, <1>3 DEF BaseInv

\* A step of x: it goes on or ends, it connects, or it takes a packet.
StepOf(x) ==
    \/ Steady(x, ep[x].state)
    \/ x \in Connectors /\ ep[x].state = "LISTEN" /\ Steady(x, "SYN_SENT")
    \/ \E p \in net[x] : Heard(x, p)

\* Every step of the program is one of these, and preserves the invariant.
LEMMA StepKinds ==
    ASSUME BaseInv, NEW x \in Ends,
           \/ Connect(x) \/ NotifyPacket(x) \/ NotifyClock(x)
           \/ NotifyMTU(x) \/ Send(x) \/ Recv(x) \/ Close(x)
    PROVE  BaseInv' /\ StepOf(x)
<1>1. CASE Connect(x)
    BY <1>1, ConnectBase DEF StepOf
<1>2. CASE NotifyPacket(x)
    BY <1>2, NotifyPacketBase DEF StepOf
<1>3. CASE NotifyClock(x)
    BY <1>3, NotifyClockBase DEF StepOf
<1>4. CASE NotifyMTU(x)
    BY <1>4, NotifyMTUBase DEF StepOf
<1>5. CASE Send(x)
    BY <1>5, SendBase DEF StepOf
<1>6. CASE Recv(x)
    BY <1>6, RecvBase DEF StepOf
<1>7. CASE Close(x)
    BY <1>7, CloseBase DEF StepOf
<1> QED
    BY <1>1, <1>2, <1>3, <1>4, <1>5, <1>6, <1>7
\* So [Next]_vars preserves it.
LEMMA BaseNext == BaseInv /\ [Next]_vars => BaseInv'
<1> SUFFICES ASSUME BaseInv, [Next]_vars PROVE BaseInv'
    OBVIOUS
<1>1. CASE Next
    BY <1>1, StepKinds DEF Next
<1>2. CASE UNCHANGED vars
    BY <1>2 DEF vars, BaseInv, EndsOK, Linked, Alive
<1> QED
    BY <1>1, <1>2


-----------------------------------------------------------------------------
(***************************************************************************)
(* What the invariant says of the properties.                               *)
(***************************************************************************)
\* The invariant of the endpoints and the links between them holds for ever, whoever
\* connects, sends and closes.
THEOREM BaseAlways == Spec => []BaseInv
BY BaseInit, BaseNext, PTL DEF Spec

\* The user is told of data that it has not read (ReaderTold): m_bReadEnable is
\* set only by a Recv that found nothing, and process notifies once data is in
\* the buffer.
THEOREM ReaderIsTold == Spec => []ReaderTold
<1>1. BaseInv => ReaderTold
    BY DEF BaseInv, EndsOK, EndOK, ReaderOK, ReaderTold
<1> QED
    BY <1>1, BaseAlways, PTL

\* The segments tile the send buffer (SegmentsTile), whatever is acknowledged,
\* split, resent or queued; and the timer runs exactly while something is in
\* flight.
THEOREM SegmentsAlwaysTile == Spec => []SegmentsTile
<1>1. BaseInv => SegmentsTile
    <2> SUFFICES ASSUME BaseInv, NEW x \in Ends, Alive(x)
                 PROVE  LET e == ep[x]
                            End(i) == IF i = 0 THEN e.snd_una ELSE e.slist[i].seq + e.slist[i].len
                        IN /\ \A i \in DOMAIN e.slist :
                                /\ e.slist[i].seq = End(i - 1)
                                /\ e.slist[i].xmit > 0 <=> e.slist[i].seq < e.snd_nxt
                           /\ End(Len(e.slist)) = e.snd_una + Len(e.sbuf)
                           /\ e.snd_nxt \in {End(i) : i \in 0 .. Len(e.slist)}
                           /\ e.rto <=> InFlight(e) > 0
        BY DEF SegmentsTile
    <2> DEFINE e == ep[x]
               End(i) == IF i = 0 THEN e.snd_una ELSE e.slist[i].seq + e.slist[i].len
    <2>1. e \in Endpoint /\ SendOK(e)
        BY DEF BaseInv, EndsOK, EndOK, Alive
    <2> HIDE DEF e
    <2>2. e.slist \in Seq(Segments)
        BY <2>1, EndpointFields
    <2>3. /\ DOMAIN e.slist = 1 .. Len(e.slist) /\ Len(e.slist) \in Nat /\ (e.slist = <<>> <=> Len(e.slist) = 0)
          /\ \A i \in DOMAIN e.slist : EndOf(e.slist[i]) = e.slist[i].seq + e.slist[i].len /\ EndOf(e.slist[i]) \in Nat
        BY <2>2, ListFields
    <2>4. /\ Chain(e.slist, e.snd_una, Total(e)) /\ Marked(e.slist, e.snd_nxt)
          /\ e.snd_una <= e.snd_nxt /\ Reached(e, e.snd_nxt) /\ (e.rto <=> e.snd_una < e.snd_nxt)
        BY <2>1 DEF SendOK, Tile
    <2>5. \A i \in DOMAIN e.slist : End(i) = EndOf(e.slist[i])
        BY <2>3
    <2>6. End(0) = e.snd_una
        OBVIOUS
    <2> HIDE DEF End
    <2>7. ASSUME NEW i \in DOMAIN e.slist PROVE e.slist[i].seq = End(i - 1)
        <3>1. CASE i = 1
            <4>1. e.slist # <<>>
                BY <2>3, <3>1
            <4> QED
                BY <2>4, <2>6, <3>1, <4>1 DEF Chain
        <3>2. CASE i # 1
            <4>1. i - 1 \in DOMAIN e.slist /\ (i - 1) + 1 = i
                BY <2>3, <3>2
            <4>2. e.slist[(i - 1) + 1].seq = EndOf(e.slist[i - 1])
                BY <2>4, <4>1 DEF Chain
            <4> QED
                BY <2>5, <4>1, <4>2
        <3> QED
            BY <3>1, <3>2
    <2>8. End(Len(e.slist)) = Total(e)
        <3>1. CASE e.slist = <<>>
            BY <2>3, <2>4, <2>6, <3>1 DEF Chain
        <3>2. CASE e.slist # <<>>
            <4>1. Len(e.slist) \in DOMAIN e.slist /\ EndOf(e.slist[Len(e.slist)]) = Total(e)
                BY <2>3, <2>4, <3>2 DEF Chain
            <4> QED
                BY <2>5, <4>1
        <3> QED
            BY <3>1, <3>2
    <2>9. \E i \in 0 .. Len(e.slist) : e.snd_nxt = End(i)
        <3>1. e.snd_una \in Nat /\ e.snd_nxt \in Nat
            BY <2>1, EndpointNumbers
        <3>2. CASE e.snd_nxt <= e.snd_una
            <4>1. e.snd_nxt = End(0) /\ 0 \in 0 .. Len(e.slist)
                BY <2>3, <2>4, <2>6, <3>1, <3>2
            <4> QED
                BY <4>1
        <3>3. CASE \E i \in DOMAIN e.slist : e.snd_nxt = EndOf(e.slist[i])
            <4>1. PICK i \in DOMAIN e.slist : e.snd_nxt = EndOf(e.slist[i])
                BY <3>3
            <4>2. i \in 0 .. Len(e.slist) /\ e.snd_nxt = End(i)
                BY <2>3, <2>5, <4>1
            <4> QED
                BY <4>2
        <3> QED
            BY <2>4, <3>2, <3>3 DEF Reached, Reach
    <2>10. \A i \in DOMAIN e.slist : e.slist[i].xmit > 0 <=> e.slist[i].seq < e.snd_nxt
        BY <2>4 DEF Marked
    <2>11. e.rto <=> InFlight(e) > 0
        <3>1. e.snd_una \in Nat /\ e.snd_nxt \in Nat
            BY <2>1, EndpointNumbers
        <3>2. e.snd_una < e.snd_nxt <=> InFlight(e) > 0
            BY <3>1 DEF InFlight
        <3> QED
            BY <2>4, <3>2
    <2>12. End(Len(e.slist)) = e.snd_una + Len(e.sbuf)
        BY <2>8 DEF Total, Size
    <2>13. e.snd_nxt \in {End(i) : i \in 0 .. Len(e.slist)}
        BY <2>9
    <2> QED
        BY <2>7, <2>10, <2>11, <2>12, <2>13 DEF e, End
<1> QED
    BY <1>1, BaseAlways, PTL

\* The window an endpoint announces is never more than its buffer has room for,
\* and its peer never has more in flight (WindowFits).
THEOREM WindowAlwaysFits == Spec => []WindowFits
<1>1. BaseInv => WindowFits
    <2> SUFFICES ASSUME BaseInv, NEW x \in Ends, Alive(x)
                 PROVE  /\ ep[x].rcv_wnd <= GetWriteRemaining(ep[x])
                        /\ Alive(Peer(x)) => ep[Peer(x)].snd_nxt <= ep[x].rcv_nxt + GetWriteRemaining(ep[x])
        BY DEF WindowFits
    <2> DEFINE e == ep[x]
               s == ep[Peer(x)]
               room == GetWriteRemaining(e)
    <2>1. Peer(x) \in Ends /\ Peer(Peer(x)) = x
        BY Peers
    <2>2. e \in Endpoint /\ s \in Endpoint /\ RecvOK(e)
        BY <2>1 DEF BaseInv, EndsOK, EndOK, Alive
    <2>3. Alive(Peer(x)) => s.snd_nxt <= Edge(e)
        BY <2>1 DEF BaseInv, Linked, Link, Alive
    <2>4. room = RcvCap - Size(e.rbuf)
        BY DEF GetWriteRemaining, Size
    <2> HIDE DEF e, s, room
    <2>5. /\ Size(e.rbuf) \in Nat /\ e.rcv_wnd \in Nat /\ e.rcv_nxt \in Nat /\ RcvCap \in Nat
          /\ s.snd_nxt \in Nat /\ Edge(e) = e.rcv_nxt + e.rcv_wnd /\ Size(e.rbuf) + e.rcv_wnd <= RcvCap
        BY <2>2, EndpointNumbers, Sizes DEF RecvOK
    <2>6. e.rcv_wnd <= room
        BY <2>4, <2>5
    <2>7. Alive(Peer(x)) => s.snd_nxt <= e.rcv_nxt + room
        BY <2>3, <2>4, <2>5
    <2> QED
        BY <2>6, <2>7 DEF e, s, room
<1> QED
    BY <1>1, BaseAlways, PTL

-----------------------------------------------------------------------------
(***************************************************************************)
(* The stream (ListenerIntact). Endpoint c is the one that connects, d its  *)
(* peer.                                                                    *)
(***************************************************************************)
\* What the peer has sent only grows.
LEMMA StreamLonger ==
    ASSUME NEW e \in Endpoint, NEW n \in Nat, NEW t \in Nat, NEW u \in Nat, t <= u, Stream(e, n, t)
    PROVE  Stream(e, n, u)
<1>1. /\ e.rlist \subseteq Saved /\ Size(e.rbuf) \in Nat /\ CtlLen \in Nat
    BY EndpointFields, EndpointNumbers, Sizes
<1>2. \A q \in e.rlist : EndOf(q) \in Int
    BY <1>1 DEF Saved, EndOf
<1>3. \A k \in Int : k <= t => k <= u
    OBVIOUS
<1>4. \A k : Aligned(e, k, t) => Aligned(e, k, u)
    BY <1>2, <1>3 DEF Aligned
<1>5. CtlLen + n + Size(e.rbuf) <= u
    <2>1. CtlLen + n + Size(e.rbuf) <= t
        BY DEF Stream
    <2> QED
        BY <1>1, <2>1
<1> QED
    BY <1>4, <1>5 DEF Stream

\* A step of x leaves what its peer reads sound.
LEMMA SoundPeer ==
    ASSUME NEW x \in Ends, BaseInv, BaseInv', Frame(x), Sound(Peer(x))
    PROVE  Sound(Peer(x))'
<1> DEFINE y == Peer(x)
<1>1. y \in Ends /\ Peer(y) = x
    BY Peers
<1>2. ep[y] \in Endpoint /\ sent[x] \in Nat /\ sent'[x] \in Nat /\ got[y] \in Seq(Int)
    BY <1>1, Typed DEF BaseInv, EndsOK
<1>3. ep'[y] = ep[y] /\ got'[y] = got[y] /\ sent[x] <= sent'[x]
    BY DEF Frame
<1>4. /\ \A i \in DOMAIN got[y] : got[y][i] = i
      /\ Size(got[y]) <= sent[x]
      /\ ~Deaf(ep[y]) => Stream(ep[y], Size(got[y]), CtlLen + sent[x])
    BY <1>1 DEF Sound, Alive
<1>5. Size(got[y]) \in Nat /\ CtlLen \in Nat
    BY <1>2, LenProperties, Sizes DEF Size
<1> HIDE DEF y
<1>6. /\ CtlLen + sent[x] \in Nat /\ CtlLen + sent'[x] \in Nat /\ CtlLen + sent[x] <= CtlLen + sent'[x]
      /\ Size(got[y]) <= sent'[x]
    BY <1>2, <1>3, <1>4, <1>5
<1>7. ~Deaf(ep[y]) => Stream(ep[y], Size(got[y]), CtlLen + sent'[x])
    BY <1>2, <1>4, <1>5, <1>6, StreamLonger
<1>8. Sound(y)'
    BY <1>1, <1>3, <1>4, <1>6, <1>7 DEF Sound, Alive
<1> QED
    BY <1>8 DEF y

\* A connect message in flight has its place in the stream of its sender.
LEMMA PacketPlace ==
    ASSUME NEW x \in Ends, BaseInv, NEW p \in net[x]
    PROVE  /\ p.ctl => p.data # <<>> /\ p.seq = 0 /\ p.seq + Size(p.data) = CtlLen
           /\ p.data # <<>> /\ ~p.ctl => sent[Peer(x)] > 0
           /\ p.data # <<>> /\ Alive(Peer(x)) => Reached(ep[Peer(x)], p.seq + Size(p.data))
<1> DEFINE y == Peer(x)
<1>1. y \in Ends /\ Peer(y) = x /\ p \in Packets /\ sent[y] \in Nat
    BY Peers, Typed
<1>2. Link(ep[y], ep[x], net[y], net[x], sent[y])
    BY <1>1 DEF BaseInv, Linked
<1>3. DataOK(p, CtlLen + sent[y]) /\ (p.data # <<>> /\ ~Deaf(ep[y]) => Reached(ep[y], p.seq + Size(p.data)))
    BY <1>2 DEF Link
<1>4. p.seq \in Int /\ Size(p.data) \in Nat /\ (p.data # <<>> => Size(p.data) > 0) /\ CtlLen \in Nat
    BY <1>1, LenProperties, Sizes DEF Packets, Size
<1> HIDE DEF y
<1>5. p.ctl => p.data # <<>> /\ p.seq = 0 /\ p.seq + Size(p.data) = CtlLen
    BY <1>3, <1>4 DEF DataOK
<1>6. ASSUME p.data # <<>>, ~p.ctl PROVE sent[y] > 0
    <2>1. p.seq >= CtlLen /\ p.seq + Size(p.data) <= CtlLen + sent[y]
        BY <1>3, <1>6 DEF DataOK
    <2> QED
        BY <1>1, <1>4, <1>6, <2>1
<1> QED
    BY <1>3, <1>5, <1>6 DEF y, Alive

\* Nothing but acknowledgments comes from an endpoint that has not begun to open.
LEMMA SilentBefore ==
    ASSUME NEW x \in Ends, BaseInv, ep[x].state = "LISTEN", NEW p \in net[Peer(x)]
    PROVE  ~p.ctl
<1> SUFFICES ASSUME p.ctl PROVE FALSE
    OBVIOUS
<1>1. Peer(x) \in Ends /\ Peer(Peer(x)) = x /\ Alive(x)
    BY Peers DEF Alive, Deaf
<1>2. Reached(ep[x], CtlLen)
    BY <1>1, PacketPlace
<1>3. ep[x] \in Endpoint /\ SendOK(ep[x]) /\ Counts(ep[x], sent[x])
    BY <1>1, Typed DEF BaseInv, EndsOK, EndOK, Alive
<1>4. Total(ep[x]) = 0 /\ Tile(ep[x])
    BY <1>3 DEF Counts, SendOK
<1>5. CtlLen \in Nat /\ CtlLen # 0
    BY Sizes
<1>6. CtlLen <= ep[x].snd_nxt /\ ep[x].snd_nxt <= 0 /\ ep[x].snd_nxt \in Nat
    BY <1>2, <1>3, <1>4, <1>5, ReachedBound, NxtInBuffer, EndpointNumbers
<1> QED
    BY <1>5, <1>6

\* A step of d preserves Opening.
LEMMA ListenerStep ==
    ASSUME NEW c \in Ends, BaseInv, BaseInv', NEW d, d = Peer(c), Opening(c, d), Connectors \subseteq {c},
           StepOf(d)
    PROVE  Opening(c, d)'
<1>1. d \in Ends /\ Peer(d) = c /\ d # c
    BY Peers
<1>2. ASSUME Frame(d), ep'[d].state # "SYN_SENT",
             ep[c].state = "LISTEN" => ep'[d].state = "LISTEN" \/ Deaf(ep'[d]),
             ep[c].state = "LISTEN" \/ ep'[d].state = "LISTEN" => Hushed(d),
             ep'[d].state = "LISTEN" => ep[d].state = "LISTEN",
             ~Deaf(ep'[d]) /\ ep'[d].state # "LISTEN" => CtlLen <= ep'[d].rcv_nxt
      PROVE  Opening(c, d)'
    <2>1. ep'[c] = ep[c] /\ sent'[c] = sent[c]
        BY <1>1, <1>2 DEF Frame
    <2>2. Hushed(d) /\ (\E p \in net'[c] : p.ctl) => \E p \in net[c] : p.ctl
        BY <1>1 DEF Hushed
    <2> QED
        BY <1>2, <2>1, <2>2 DEF Opening, Alive
<1>3. CASE Steady(d, ep[d].state)
    BY <1>1, <1>2, <1>3 DEF Steady, Opening, Alive, Deaf
<1>4. CASE d \in Connectors
    BY <1>1, <1>4
<1>5. CASE \E p \in net[d] : Heard(d, p)
    <2>1. PICK p \in net[d] : Heard(d, p)
        BY <1>5
    <2>2. ep[c].state = "LISTEN" => ~p.ctl /\ ep[d].state = "LISTEN"
        BY <1>1, <2>1, SilentBefore DEF Opening, Heard
    <2>3. Deaf(ep'[d]) \/ Advanced(ep[d].state, ep'[d].state, p.ctl)
        BY <2>1 DEF Heard
    <2>4. ~Deaf(ep[d]) /\ Frame(d) /\ (ep[d].state = "LISTEN" /\ ~p.ctl => Hushed(d))
        BY <2>1 DEF Heard, Alive
    <2>5. ep'[d].state = "LISTEN" => ep[d].state = "LISTEN" /\ ~p.ctl
        BY <2>3 DEF Advanced, Turned, Deaf
    <2>6. ep'[d].state # "SYN_SENT"
        BY <2>3 DEF Opening, Advanced, Turned, Deaf
    <2>7. ep[c].state = "LISTEN" => ep'[d].state = "LISTEN" \/ Deaf(ep'[d])
        BY <2>2, <2>3 DEF Advanced, Turned
    <2>8. ASSUME ~Deaf(ep'[d]), ep'[d].state # "LISTEN" PROVE CtlLen <= ep'[d].rcv_nxt
        <3>1. /\ ep[d].rcv_nxt <= ep'[d].rcv_nxt
              /\ p.data # <<>> /\ p.seq <= ep[d].rcv_nxt => p.seq + Size(p.data) <= ep'[d].rcv_nxt
            BY <2>1, <2>8 DEF Heard
        <3>2. ep[d] \in Endpoint /\ ep[d].rcv_nxt \in Nat /\ CtlLen \in Nat
            BY <1>1, Typed, EndpointNumbers, Sizes
        <3>3. CASE ep[d].state # "LISTEN"
            <4>1. CtlLen <= ep[d].rcv_nxt
                BY <2>4, <3>3 DEF Opening, Alive
            <4>2. ep'[d].rcv_nxt \in Nat
                <5>1. ep'[d] \in Endpoint
                    BY <1>1 DEF BaseInv, EndsOK
                <5> QED
                    BY <5>1, EndpointNumbers
            <4> QED
                BY <3>1, <3>2, <4>1, <4>2
        <3>4. CASE ep[d].state = "LISTEN"
            <4>1. p.ctl
                BY <2>3, <2>8, <3>4 DEF Advanced, Turned
            <4>2. p.data # <<>> /\ p.seq = 0 /\ p.seq + Size(p.data) = CtlLen
                BY <1>1, <4>1, PacketPlace
            <4> QED
                BY <3>1, <3>2, <4>2
        <3> QED
            BY <3>3, <3>4
    <2> QED
        BY <1>2, <2>2, <2>4, <2>5, <2>6, <2>7, <2>8
<1> QED
    BY <1>3, <1>4, <1>5 DEF StepOf

\* So does a step of c.
LEMMA ConnectorStep ==
    ASSUME NEW c \in Ends, BaseInv, BaseInv', NEW d, d = Peer(c), Opening(c, d), StepOf(c)
    PROVE  Opening(c, d)'
<1>1. d \in Ends /\ d # c /\ sent[c] \in Nat /\ sent'[c] \in Nat
    BY Peers, Typed DEF BaseInv, EndsOK
<1>2. ASSUME Frame(c), ep'[c].state # "SYN_RECEIVED", ep'[c].state = "LISTEN" => ep[c].state = "LISTEN",
             ep'[c].state = "ESTABLISHED" => ep[d].state # "LISTEN"
      PROVE  Opening(c, d)'
    <2>1. /\ ep'[d] = ep[d] /\ net'[c] \subseteq net[c] /\ (sent'[c] # sent[c] => ep[c].state = "ESTABLISHED")
        BY <1>2 DEF Frame
    <2>2. sent'[c] > 0 => ep[d].state # "LISTEN"
        BY <2>1 DEF Opening
    <2> QED
        BY <1>2, <2>1, <2>2 DEF Opening, Alive
<1>3. CASE Steady(c, ep[c].state)
    BY <1>2, <1>3 DEF Steady, Opening
<1>4. CASE Steady(c, "SYN_SENT")
    BY <1>2, <1>4 DEF Steady
<1>5. CASE \E p \in net[c] : Heard(c, p)
    <2>1. PICK p \in net[c] : Heard(c, p)
        BY <1>5
    <2>2. Frame(c) /\ (Deaf(ep'[c]) \/ Advanced(ep[c].state, ep'[c].state, p.ctl))
        BY <2>1 DEF Heard
    <2>3. p.ctl => ep[d].state # "LISTEN" /\ ep[c].state # "LISTEN"
        BY DEF Opening
    <2>4. ep'[c].state # "SYN_RECEIVED" /\ (ep'[c].state = "LISTEN" => ep[c].state = "LISTEN")
        BY <2>2, <2>3 DEF Opening, Advanced, Turned, Deaf
    <2>5. ep'[c].state = "ESTABLISHED" => ep[d].state # "LISTEN"
        BY <2>2, <2>3 DEF Opening, Advanced, Turned, Deaf
    <2> QED
        BY <1>2, <2>2, <2>4, <2>5
<1> QED
    BY <1>3, <1>4, <1>5 DEF StepOf

\* A step of x leaves what it reads sound, when data that comes to it finds it
\* past the connect message.
LEMMA SoundSelf ==
    ASSUME NEW x \in Ends, Sound(x), StepOf(x),
           \A p \in net[x] : Alive(x) /\ p.data # <<>> /\ ~p.ctl => CtlLen <= ep[x].rcv_nxt
    PROVE  Sound(x)'
<1>1. CASE \E s : Steady(x, s)
    BY <1>1 DEF Steady
<1>2. CASE \E p \in net[x] : Heard(x, p)
    BY <1>2 DEF Heard
<1> QED
    BY <1>1, <1>2 DEF StepOf

\* Data comes to d after the connect message.
LEMMA ListenerReady ==
    ASSUME NEW c \in Ends, BaseInv, NEW d, d = Peer(c), Opening(c, d),
           NEW p \in net[d], Alive(d), p.data # <<>>, ~p.ctl
    PROVE  CtlLen <= ep[d].rcv_nxt
<1>1. d \in Ends /\ Peer(d) = c
    BY Peers
<1>2. sent[c] > 0
    BY <1>1, PacketPlace
<1> QED
    BY <1>2 DEF Opening

\* What holds of the stream to d, when only c connects.
Incoming(c) == BaseInv /\ Opening(c, Peer(c)) /\ Sound(Peer(c))

\* At the start there is nothing to read.
LEMMA SoundInit ==
    ASSUME Init, NEW x \in Ends
    PROVE  Sound(x)
<1>1. Peer(x) \in Ends
    BY Peers
<1>2. got[x] = <<>> /\ sent[Peer(x)] = 0 /\ ep[x] = Fresh
    BY <1>1 DEF Init
<1>3. Fresh.rbuf = <<>> /\ Fresh.rlist = {} /\ Fresh.rcv_nxt = 0 /\ CtlLen \in Nat
    BY Sizes DEF Fresh
<1>4. Size(<<>>) = 0 /\ DOMAIN <<>> = {}
    BY DEF Size
<1>5. Aligned(Fresh, 0, CtlLen)
    BY <1>3 DEF Aligned
<1>6. Stream(Fresh, 0, CtlLen + 0) /\ CtlLen + 0 = CtlLen
    BY <1>3, <1>4, <1>5 DEF Stream
<1> QED
    BY <1>2, <1>4, <1>6 DEF Sound
\* And neither end has begun to open.
LEMMA IncomingInit ==
    ASSUME NEW c \in Ends, Init
    PROVE  Incoming(c)
<1>1. Peer(c) \in Ends
    BY Peers
<1>2. /\ ep[c].state = "LISTEN" /\ ep[Peer(c)].state = "LISTEN" /\ net[c] = {} /\ sent[c] = 0
    BY <1>1 DEF Init, Fresh
<1>3. Opening(c, Peer(c))
    BY <1>2 DEF Opening
<1> QED
    BY <1>1, <1>3, BaseInit, SoundInit DEF Incoming

\* The invariant of the stream to d is preserved.
LEMMA IncomingNext ==
    ASSUME NEW c \in Ends, Connectors \subseteq {c}, Incoming(c), [Next]_vars
    PROVE  Incoming(c)'
<1> DEFINE d == Peer(c)
<1>1. d \in Ends /\ d # c /\ Peer(d) = c /\ Ends = {c, d}
    BY Peers
<1>2. BaseInv /\ Opening(c, d) /\ Sound(d)
    BY DEF Incoming
<1>d. d = Peer(c)
    OBVIOUS
<1> HIDE DEF d
<1>3. ASSUME NEW x \in Ends, BaseInv', StepOf(x) PROVE Opening(c, d)' /\ Sound(d)'
    <2>1. CASE x = d
        <3>1. \A p \in net[d] : Alive(d) /\ p.data # <<>> /\ ~p.ctl => CtlLen <= ep[d].rcv_nxt
            BY <1>2, <1>d, ListenerReady
        <3>2. Sound(d)'
            BY <1>1, <1>2, <1>3, <2>1, <3>1, SoundSelf
        <3>3. Opening(c, d)'
            BY <1>2, <1>3, <1>d, <2>1, ListenerStep
        <3> QED
            BY <3>2, <3>3
    <2>2. CASE x = c
        <3>1. Frame(c)
            BY <1>3, <2>2 DEF StepOf, Steady, Heard
        <3>2. Sound(d)'
            BY <1>2, <1>3, <1>d, <3>1, SoundPeer
        <3>3. Opening(c, d)'
            BY <1>2, <1>3, <1>d, <2>2, ConnectorStep
        <3> QED
            BY <3>2, <3>3
    <2> QED
        BY <1>1, <2>1, <2>2
<1>4. CASE Next
    <2>1. \E x \in Ends : BaseInv' /\ StepOf(x)
        BY <1>2, <1>4, StepKinds DEF Next
    <2> QED
        BY <1>3, <2>1, <1>d DEF Incoming
<1>5. CASE UNCHANGED vars
    <2>1. BaseInv'
        BY <1>2, <1>5, BaseNext
    <2>2. Opening(c, d)'
        BY <1>2, <1>5 DEF vars, Opening, Alive
    <2>3. Sound(d)'
        BY <1>2, <1>5 DEF vars, Sound, Alive
    <2> QED
        BY <2>1, <2>2, <2>3, <1>d DEF Incoming
<1> QED
    BY <1>4, <1>5

\* What is sound is intact.
LEMMA SoundIntact ==
    ASSUME NEW x \in Ends, BaseInv, Sound(x)
    PROVE  Intact(x)
<1> DEFINE g == got[x]
           b == ep[x].rbuf
           all == g \o b
           n == Len(g)
           k == Len(b)
           total == sent[Peer(x)]
<1>1. ep[x] \in Endpoint /\ total \in Nat /\ EndOK(ep[x], net[x], sent[x]) /\ g \in Seq(Int)
    BY Typed, Peers DEF BaseInv, EndsOK
<1>2. b \in Seq(Int)
    BY <1>1, EndpointFields
<1>3. (\A i \in DOMAIN g : g[i] = i) /\ n <= total
    BY DEF Sound, Size
<1>4. n \in Nat /\ k \in Nat /\ CtlLen \in Nat /\ DOMAIN g = 1 .. n /\ DOMAIN b = 1 .. k
    BY <1>1, <1>2, LenProperties, Sizes
<1>5. n + k <= total /\ \A i \in DOMAIN b : b[i] = n + i
    <2>1. CASE Deaf(ep[x])
        <3>1. b = <<>>
            BY <1>1, <2>1 DEF EndOK, Blank
        <3>2. k = 0 /\ DOMAIN b = {}
            BY <3>1
        <3> HIDE DEF n, k, b, total
        <3> QED
            BY <1>3, <1>4, <3>2
    <2>2. CASE ~Deaf(ep[x])
        <3>1. (\A i \in DOMAIN b : b[i] = n + i) /\ CtlLen + n + k <= CtlLen + total
            BY <2>2 DEF Sound, Stream, Alive, Size
        <3> HIDE DEF n, k, b, total
        <3> QED
            BY <1>1, <1>4, <3>1
    <2> QED
        BY <2>1, <2>2
<1>6. /\ all \in Seq(Int) /\ Len(all) = n + k
      /\ \A i \in 1 .. n + k : all[i] = IF i <= n THEN g[i] ELSE b[i - n]
    BY <1>1, <1>2, ConcatProperties
<1>7. DOMAIN all = 1 .. n + k
    BY <1>6, LenProperties
<1> HIDE DEF g, b, all, n, k, total
<1>8. ASSUME NEW i \in 1 .. n + k PROVE all[i] = i
    <2>1. CASE i <= n
        <3>1. i \in 1 .. n
            BY <1>4, <2>1
        <3> QED
            BY <1>3, <1>4, <1>6, <2>1, <3>1
    <2>2. CASE ~(i <= n)
        <3>1. i - n \in 1 .. k /\ n + (i - n) = i
            BY <1>4, <2>2
        <3>2. all[i] = b[i - n]
            BY <1>6, <2>2
        <3> QED
            BY <1>4, <1>5, <3>1, <3>2
    <2> QED
        BY <2>1, <2>2
<1>9. Len(all) <= total /\ \A i \in DOMAIN all : all[i] = i
    BY <1>5, <1>6, <1>7, <1>8
<1> QED
    BY <1>9 DEF Intact, g, b, all, total

\* What comes to the user of an endpoint that does not connect is what its peer
\* sent (ListenerIntact), whatever either user sends, closes or is told, and
\* however process trims, saves and takes over the segments. It is not so of an
\* endpoint that connects: data may overtake the answer to its connect message.
THEOREM ListenerAlwaysIntact == Spec => []ListenerIntact
<1> DEFINE FromPeer(x) == Incoming(Peer(x))
           AllFromPeers == \A x \in Ends \ Connectors : FromPeer(x)
<1>1. ASSUME NEW x \in Ends \ Connectors
      PROVE  Peer(x) \in Ends /\ Peer(Peer(x)) = x /\ Connectors \subseteq {Peer(x)}
    BY Peers, EndsAssumption
<1>2. Init => AllFromPeers
    BY <1>1, IncomingInit
<1>3. AllFromPeers /\ [Next]_vars => AllFromPeers'
    <2> SUFFICES ASSUME AllFromPeers, [Next]_vars, NEW x \in Ends \ Connectors PROVE FromPeer(x)'
        OBVIOUS
    <2>1. Incoming(Peer(x))
        OBVIOUS
    <2> QED
        BY <1>1, <2>1, IncomingNext
<1>4. AllFromPeers => ListenerIntact
    BY <1>1, SoundIntact DEF Incoming, ListenerIntact
<1> QED
    BY <1>2, <1>3, <1>4, PTL DEF Spec
=============================================================================
