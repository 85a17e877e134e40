-------------------------- MODULE P2PChannelProofs --------------------------
(***************************************************************************)
(* Proofs about P2PChannel for any finite set of paths, any priorities and  *)
(* networks, any role and any number of waiting messages.                   *)
(***************************************************************************)
EXTENDS P2PChannel, FiniteSetTheorems, SequenceTheorems, TLAPS

USE PathsAssumption, BoundAssumption, RoleAssumption

Conns == [read : {"INIT", "READABLE"}, write : {"WRITABLE", "UNRELIABLE", "INIT", "TIMEOUT"},
          pruned : BOOLEAN, waited : Waits, asked : BOOLEAN, prflx : BOOLEAN]
Messages == {SORT} \cup {DELETE(c) : c \in Paths}
Channels ==
    [listed : SUBSET Paths, conn : [Paths -> Conns], best : Paths \cup {None},
     pending : Paths \cup {None}, dirty : BOOLEAN, writable : BOOLEAN, was_writable : BOOLEAN,
     readable : BOOLEAN, queue : Seq(Messages), turn : Seq(Paths)]

-----------------------------------------------------------------------------
(***************************************************************************)
(* Sequences.                                                               *)
(***************************************************************************)
\* The two parts of a concatenation.
LEMMA ConcatParts ==
    ASSUME NEW S, NEW a \in Seq(S), NEW b \in Seq(S)
    PROVE  /\ a \o b \in Seq(S) /\ Len(a \o b) = Len(a) + Len(b)
           /\ \A i \in 1 .. Len(a) : (a \o b)[i] = a[i]
           /\ \A i \in 1 .. Len(b) : (a \o b)[Len(a) + i] = b[i]
BY ConcatProperties

\* What is in a concatenation.
LEMMA InConcat ==
    ASSUME NEW S, NEW a \in Seq(S), NEW b \in Seq(S)
    PROVE  a \o b \in Seq(S) /\ ToSet(a \o b) = ToSet(a) \cup ToSet(b)
<1>1. /\ a \o b \in Seq(S) /\ Len(a \o b) = Len(a) + Len(b)
      /\ \A i \in 1 .. Len(a) : (a \o b)[i] = a[i]
      /\ \A i \in 1 .. Len(b) : (a \o b)[Len(a) + i] = b[i]
    BY ConcatParts
<1>2. DOMAIN a = 1 .. Len(a) /\ DOMAIN b = 1 .. Len(b) /\ Len(a) \in Nat /\ Len(b) \in Nat
      /\ DOMAIN (a \o b) = 1 .. (Len(a) + Len(b))
    BY <1>1
<1> DEFINE c == a \o b
<1> HIDE DEF c
<1>3. ASSUME NEW i \in 1 .. (Len(a) + Len(b)) PROVE c[i] \in ToSet(a) \cup ToSet(b)
    <2>1. CASE i \in 1 .. Len(a)
        BY <1>1, <1>2, <2>1 DEF ToSet, c
    <2>2. CASE i \notin 1 .. Len(a)
        <3>1. i - Len(a) \in 1 .. Len(b) /\ i = Len(a) + (i - Len(a))
            BY <1>2, <2>2
        <3>2. c[i] = b[i - Len(a)]
            BY <1>1, <3>1 DEF c
        <3> QED
            BY <1>2, <3>1, <3>2 DEF ToSet
    <2> QED
        BY <2>1, <2>2
<1>4. \A i \in 1 .. Len(a) : i \in 1 .. (Len(a) + Len(b)) /\ c[i] = a[i]
    BY <1>1, <1>2 DEF c
<1>5. \A i \in 1 .. Len(b) : Len(a) + i \in 1 .. (Len(a) + Len(b)) /\ c[Len(a) + i] = b[i]
    BY <1>1, <1>2 DEF c
<1>6. DOMAIN c = 1 .. (Len(a) + Len(b))
    BY <1>2 DEF c
<1>7. ToSet(c) = ToSet(a) \cup ToSet(b)
    <2>1. \A x \in ToSet(c) : x \in ToSet(a) \cup ToSet(b)
        BY <1>3, <1>6, ZenonT(40) DEF ToSet
    <2>2. \A x \in ToSet(a) : x \in ToSet(c)
        BY <1>2, <1>4, <1>6 DEF ToSet
    <2>3. \A x \in ToSet(b) : x \in ToSet(c)
        BY <1>2, <1>5, <1>6, SMTT(40) DEF ToSet
    <2> QED
        BY <2>1, <2>2, <2>3
<1> QED
    BY <1>1, <1>7 DEF c

\* The elements of a finite set in some order.
LEMMA SetInOrder ==
    ASSUME NEW S, IsFiniteSet(S)
    PROVE  SetToSeq(S) \in Seq(S)
<1>1. PICK f : f \in Bijection(1 .. Cardinality(S), S)
    BY FS_CardinalityType DEF ExistsBijection
<1>2. f \in [1 .. Cardinality(S) -> S] /\ IsInjective(f)
    BY <1>1 DEF Bijection, Injection, IsInjective
<1>3. SetToSeq(S) \in [1 .. Cardinality(S) -> S]
    BY <1>2 DEF SetToSeq
<1>4. Cardinality(S) \in Nat
    BY FS_CardinalityType
<1> QED
    BY <1>3, <1>4

-----------------------------------------------------------------------------
(***************************************************************************)
(* The order of the pings: a listed connection has at most one turn.        *)
(***************************************************************************)
TurnOK(turn, listed) ==
    /\ turn \in Seq(Paths) /\ ToSet(turn) \subseteq listed
    /\ \A i, j \in DOMAIN turn : turn[i] = turn[j] => i = j

\* A connection leaves.
LEMMA TurnWithout ==
    ASSUME NEW listed, NEW turn, TurnOK(turn, listed), NEW c \in Paths
    PROVE  TurnOK(Without(turn, c), listed \ {c})
<1>1. CASE \E i \in DOMAIN turn : turn[i] = c
    <2> DEFINE k == CHOOSE i \in DOMAIN turn : turn[i] = c
               a == SubSeq(turn, 1, k - 1)
               b == SubSeq(turn, k + 1, Len(turn))
               n == Len(turn)
    <2>1. turn \in Seq(Paths) /\ n \in Nat /\ DOMAIN turn = 1 .. n
        BY DEF TurnOK
    <2>2. k \in 1 .. n /\ turn[k] = c
        BY <1>1, <2>1
    <2>3. Without(turn, c) = a \o b
        BY <1>1 DEF Without, RemoveAt
    <2> HIDE DEF k
    <2>4. /\ a \in Seq(Paths) /\ Len(a) = k - 1
          /\ \A i \in 1 .. (k - 1) : a[i] = turn[i]
        <3>1. k - 1 \in Int /\ k - 1 <= n /\ \A i \in 1 .. (k - 1) : turn[i] \in Paths
            BY <2>1, <2>2
        <3> QED
            BY <2>1, <2>2, <3>1
    <2>5. /\ b \in Seq(Paths) /\ Len(b) = n - k
          /\ \A i \in 1 .. (n - k) : b[i] = turn[k + i]
        <3>1. \A i \in (k + 1) .. n : turn[i] \in Paths
            BY <2>1, <2>2
        <3>2. /\ b \in Seq(Paths)
              /\ Len(b) = IF k + 1 <= n THEN n - (k + 1) + 1 ELSE 0
              /\ \A i \in 1 .. (n - (k + 1) + 1) : b[i] = turn[(k + 1) + i - 1]
            BY <2>1, <2>2, <3>1, SubSeqProperties
        <3>3. n - (k + 1) + 1 = n - k /\ \A i \in 1 .. (n - k) : (k + 1) + i - 1 = k + i
            BY <2>1, <2>2
        <3> HIDE DEF b, n
        <3>4. Len(b) = n - k
            BY <2>1, <2>2, <3>2
        <3> QED
            BY <3>2, <3>3, <3>4
    <2> HIDE DEF a, b
    <2> DEFINE r == a \o b
    <2>6. /\ r \in Seq(Paths) /\ DOMAIN r = 1 .. (n - 1)
          /\ \A i \in 1 .. (k - 1) : r[i] = turn[i]
          /\ \A i \in 1 .. (n - k) : r[(k - 1) + i] = turn[k + i]
        <3>1. /\ r \in Seq(Paths) /\ Len(r) = Len(a) + Len(b)
              /\ \A i \in 1 .. Len(a) : r[i] = a[i]
              /\ \A i \in 1 .. Len(b) : r[Len(a) + i] = b[i]
            <4>1. \A x, y \in Seq(Paths) :
                      /\ x \o y \in Seq(Paths) /\ Len(x \o y) = Len(x) + Len(y)
                      /\ \A i \in 1 .. Len(x) : (x \o y)[i] = x[i]
                      /\ \A i \in 1 .. Len(y) : (x \o y)[Len(x) + i] = y[i]
                BY ConcatParts
            <4> QED
                BY <2>4, <2>5, <4>1, ZenonT(40)
        <3> HIDE DEF r
        <3>2. Len(r) = n - 1
            BY <2>1, <2>2, <2>4, <2>5, <3>1
        <3> QED
            BY <2>4, <2>5, <3>1, <3>2, SMTT(40)
    <2> HIDE DEF r
    <2> DEFINE at(i) == IF i < k THEN i ELSE i + 1
    <2>7. \A i \in 1 .. (n - 1) : r[i] = turn[at(i)]
        <3> SUFFICES ASSUME NEW i \in 1 .. (n - 1) PROVE r[i] = turn[at(i)]
            OBVIOUS
        <3>1. CASE i < k
            BY <2>1, <2>2, <2>6, <3>1
        <3>2. CASE ~(i < k)
            <4>1. i - (k - 1) \in 1 .. (n - k) /\ (k - 1) + (i - (k - 1)) = i /\ k + (i - (k - 1)) = i + 1
                BY <2>1, <2>2, <3>2
            <4> QED
                BY <2>6, <3>2, <4>1
        <3> QED
            BY <3>1, <3>2
    <2>8. /\ \A i \in 1 .. (n - 1) : at(i) \in 1 .. n /\ at(i) # k
          /\ \A i, j \in 1 .. (n - 1) : at(i) = at(j) => i = j
        BY <2>1, <2>2
    <2>12. \A i, j \in 1 .. n : turn[i] = turn[j] => i = j
        BY <2>1 DEF TurnOK
    <2>13. \A i \in 1 .. n : turn[i] \in listed
        BY <2>1 DEF TurnOK, ToSet
    <2>9. \A i, j \in DOMAIN r : r[i] = r[j] => i = j
        <3> SUFFICES ASSUME NEW i \in 1 .. (n - 1), NEW j \in 1 .. (n - 1), r[i] = r[j] PROVE i = j
            BY <2>6
        <3> HIDE DEF at
        <3>1. at(i) = at(j)
            BY <2>7, <2>8, <2>12, SMTT(40)
        <3> QED
            BY <2>8, <3>1
    <2>10. ToSet(r) \subseteq listed \ {c}
        <3>1. ASSUME NEW i \in 1 .. (n - 1) PROVE r[i] \in listed \ {c}
            <4> HIDE DEF at
            <4>1. at(i) \in 1 .. n /\ at(i) # k /\ r[i] = turn[at(i)]
                BY <2>7, <2>8
            <4> QED
                BY <2>2, <2>12, <2>13, <4>1
        <3>3. ToSet(r) = {r[i] : i \in 1 .. (n - 1)}
            BY <2>6 DEF ToSet
        <3> HIDE DEF n
        <3> QED
            BY <3>1, <3>3
    <2>11. Without(turn, c) = r
        BY <2>3 DEF r
    <2> QED
        BY <2>6, <2>9, <2>10, <2>11 DEF TurnOK
<1>2. CASE ~ \E i \in DOMAIN turn : turn[i] = c
    BY <1>2 DEF TurnOK, ToSet, Without
<1> QED
    BY <1>1, <1>2

\* A connection comes, at the end.
LEMMA TurnLast ==
    ASSUME NEW listed, NEW turn, TurnOK(turn, listed), NEW c \in Paths \ listed
    PROVE  TurnOK(Append(turn, c), listed \cup {c})
<1> DEFINE n == Len(turn)
           r == Append(turn, c)
<1>1. turn \in Seq(Paths) /\ n \in Nat /\ DOMAIN turn = 1 .. n /\ \A i \in 1 .. n : turn[i] \in listed
    BY DEF TurnOK, ToSet
<1>2. /\ r \in Seq(Paths) /\ DOMAIN r = 1 .. (n + 1) /\ r[n + 1] = c
      /\ \A i \in 1 .. n : r[i] = turn[i]
    BY <1>1, AppendProperties
<1> HIDE DEF r
<1>3. \A i \in 1 .. (n + 1) : i \in 1 .. n \/ i = n + 1
    BY <1>1
<1>4. \A i, j \in DOMAIN r : r[i] = r[j] => i = j
    BY <1>1, <1>2, <1>3 DEF TurnOK
<1>5. ToSet(r) \subseteq listed \cup {c}
    <2>1. \A i \in DOMAIN r : r[i] \in listed \cup {c}
        BY <1>1, <1>2, <1>3
    <2> QED
        BY <2>1 DEF ToSet
<1> QED
    BY <1>2, <1>4, <1>5 DEF TurnOK, r

-----------------------------------------------------------------------------
(***************************************************************************)
(* The invariant of the channel.                                            *)
(***************************************************************************)
\* What holds inside the handlers too.
ChannelOK(s) ==
    /\ s \in Channels /\ TurnOK(s.turn, s.listed)
    /\ s.best \in s.listed \cup {None} /\ s.pending \in s.listed \cup {None}
    /\ s.was_writable = s.writable

\* What a sort restores: sort_dirty_ is true only while a MSG_SORT waits, and
\* when none waits the channel has said what it is.
Current(s) ==
    /\ s.dirty => SORT \in ToSet(s.queue)
    /\ SORT \notin ToSet(s.queue) =>
          /\ s.writable = IsWritable(s, s.best)
          /\ (\E c \in s.listed : s.conn[c].read = "READABLE") => s.readable

\* The fields of a channel.
LEMMA Fields ==
    ASSUME NEW s \in Channels
    PROVE  /\ s.listed \in SUBSET Paths /\ s.conn \in [Paths -> Conns] /\ s.best \in Paths \cup {None}
           /\ s.pending \in Paths \cup {None} /\ s.dirty \in BOOLEAN /\ s.writable \in BOOLEAN
           /\ s.was_writable \in BOOLEAN /\ s.readable \in BOOLEAN /\ s.queue \in Seq(Messages)
           /\ s.turn \in Seq(Paths)
BY DEF Channels

\* The connection that a write state and a ping leave.
LEMMA ConnTypes ==
    /\ NewConnection \in Conns
    /\ \A k \in Conns : UpdateState(k) \in Conns /\ Prune(k) \in Conns
<1>1. NewConnection \in Conns
    BY DEF NewConnection, Conns, Waits
<1>2. ASSUME NEW k \in Conns PROVE UpdateState(k) \in Conns
    BY DEF UpdateState, Conns
<1>3. ASSUME NEW k \in Conns PROVE Prune(k) \in Conns
    BY DEF Prune, Conns
<1> QED
    BY <1>1, <1>2, <1>3

\* The deletions that are posted.
LEMMA Deletions ==
    ASSUME NEW dying \in SUBSET Paths
    PROVE  SetToSeq({DELETE(c) : c \in dying}) \in Seq(Messages)
<1> DEFINE T == {DELETE(c) : c \in dying}
           f == [c \in dying |-> DELETE(c)]
<1>1. IsFiniteSet(dying)
    BY FS_Subset
<1>2. f \in Surjection(dying, T)
    BY DEF Surjection
<1>3. IsFiniteSet(T)
    BY <1>1, <1>2, FS_Surjection
<1>4. T \subseteq Messages
    BY DEF Messages
<1> HIDE DEF T
<1>5. SetToSeq(T) \in Seq(T)
    BY <1>3, SetInOrder
<1>6. SetToSeq(T) \in Seq(Messages)
    BY <1>4, <1>5
<1> QED
    BY <1>6 DEF T

\* What a change of connection states leaves: nothing that the channel has told
\* changes, or a MSG_SORT waits.
StatesChanged(s, conn, r) ==
    /\ r \in Channels /\ r.listed = s.listed /\ r.turn = s.turn /\ r.conn = conn
    /\ r.writable = s.writable /\ r.was_writable = s.was_writable /\ r.readable = s.readable
    /\ \/ r.best = s.best /\ r.pending = s.pending
       \/ r.best = s.pending /\ r.pending = None /\ s.pending \in s.listed
    /\ ToSet(s.queue) \subseteq ToSet(r.queue)
    /\ \/ /\ r.best = s.best /\ r.pending = s.pending /\ r.dirty = s.dirty
          /\ \A c \in s.listed : conn[c].read = s.conn[c].read /\ conn[c].write = s.conn[c].write
       \/ r.dirty /\ (s.dirty \/ SORT \in ToSet(r.queue))

\* SetStates is such a change.
LEMMA StatesChange ==
    ASSUME NEW s \in Channels, NEW conn \in [Paths -> Conns]
    PROVE  StatesChanged(s, conn, SetStates(s, conn))
<1> DEFINE r == SetStates(s, conn)
<1> DEFINE changed == {c \in s.listed : conn[c].read # s.conn[c].read \/ conn[c].write # s.conn[c].write}
           dying   == {c \in changed : Dead(conn[c]) /\ DELETE(c) \notin ToSet(s.queue)}
           adopted == {c \in changed : role = "controlled" /\ c = s.pending /\ conn[c].write = "WRITABLE"}
           sort    == IF changed = {} \/ s.dirty THEN <<>> ELSE <<SORT>>
           dels    == SetToSeq({DELETE(c) : c \in dying})
           q       == s.queue \o sort \o dels
<1>0. /\ s.listed \in SUBSET Paths /\ s.conn \in [Paths -> Conns] /\ s.best \in Paths \cup {None}
      /\ s.pending \in Paths \cup {None} /\ s.dirty \in BOOLEAN /\ s.writable \in BOOLEAN
      /\ s.was_writable \in BOOLEAN /\ s.readable \in BOOLEAN /\ s.queue \in Seq(Messages)
      /\ s.turn \in Seq(Paths)
    BY Fields
<1>1. dels \in Seq(Messages)
    BY <1>0, Deletions
<1>2. sort \in Seq(Messages) /\ (changed # {} /\ ~s.dirty => SORT \in ToSet(sort))
    <2>1. SORT \in Messages
        BY DEF Messages
    <2>2. \A m \in Messages : <<m>> \in Seq(Messages) /\ ToSet(<<m>>) = {m}
        BY DEF ToSet
    <2>3. <<>> \in Seq(Messages)
        OBVIOUS
    <2> QED
        BY <2>1, <2>2, <2>3
<1> HIDE DEF dels, sort
<1>3. q \in Seq(Messages) /\ ToSet(q) = (ToSet(s.queue) \cup ToSet(sort)) \cup ToSet(dels)
    <2>1. s.queue \o sort \in Seq(Messages) /\ ToSet(s.queue \o sort) = ToSet(s.queue) \cup ToSet(sort)
        BY <1>0, <1>2, InConcat
    <2> DEFINE p == s.queue \o sort
    <2>2. p \in Seq(Messages)
        BY <2>1
    <2> HIDE DEF p
    <2>3. p \o dels \in Seq(Messages) /\ ToSet(p \o dels) = ToSet(p) \cup ToSet(dels)
        BY <1>1, <2>2, InConcat
    <2> QED
        BY <2>1, <2>3 DEF p
<1> DEFINE best    == IF adopted = {} THEN s.best ELSE s.pending
           pending == IF adopted = {} THEN s.pending ELSE None
           dirty   == s.dirty \/ changed # {}
<1>4. r = [s EXCEPT !.conn = conn, !.best = best, !.pending = pending, !.dirty = dirty, !.queue = q]
    BY DEF SetStates, q, sort, dels
<1>5. adopted # {} => s.pending \in s.listed /\ changed # {}
    OBVIOUS
<1>6. best \in Paths \cup {None} /\ pending \in Paths \cup {None} /\ dirty \in BOOLEAN
    BY <1>0
<1>7. dirty = (s.dirty \/ changed # {})
    OBVIOUS
<1>8. /\ adopted = {} => best = s.best /\ pending = s.pending
      /\ adopted # {} => best = s.pending /\ pending = None
    OBVIOUS
<1>9. changed = {} => \A c \in s.listed : conn[c].read = s.conn[c].read /\ conn[c].write = s.conn[c].write
    OBVIOUS
<1> HIDE DEF best, pending, dirty, q, changed, adopted, r
<1>10. /\ r \in Channels /\ r.listed = s.listed /\ r.turn = s.turn /\ r.conn = conn
       /\ r.writable = s.writable /\ r.was_writable = s.was_writable /\ r.readable = s.readable
       /\ r.best = best /\ r.pending = pending /\ r.queue = q
    <2>1. r = [listed |-> s.listed, conn |-> conn, best |-> best, pending |-> pending, dirty |-> dirty,
               writable |-> s.writable, was_writable |-> s.was_writable, readable |-> s.readable,
               queue |-> q, turn |-> s.turn]
        BY <1>4 DEF Channels
    <2> QED
        BY <1>0, <1>3, <1>6, <2>1 DEF Channels
<1>11. r.dirty = dirty
    BY <1>4 DEF Channels
<1>12. ToSet(s.queue) \subseteq ToSet(r.queue) /\ (changed # {} => s.dirty \/ SORT \in ToSet(r.queue))
    BY <1>2, <1>3, <1>10
<1>13. CASE changed = {}
    <2>1. r.dirty = s.dirty
        BY <1>0, <1>7, <1>11, <1>13
    <2> QED
        BY <1>5, <1>8, <1>9, <1>10, <1>12, <1>13, <2>1 DEF StatesChanged, r
<1>14. CASE changed # {}
    <2>1. r.dirty
        BY <1>7, <1>11, <1>14
    <2> QED
        BY <1>5, <1>8, <1>10, <1>12, <1>14, <2>1 DEF StatesChanged, r
<1> QED
    BY <1>13, <1>14

\* So the invariant survives it.
LEMMA StatesInv ==
    ASSUME NEW s, ChannelOK(s), NEW conn \in [Paths -> Conns]
    PROVE  /\ ChannelOK(SetStates(s, conn)) /\ (Current(s) => Current(SetStates(s, conn)))
           /\ SetStates(s, conn).listed = s.listed /\ SetStates(s, conn).conn = conn
           /\ s.dirty = FALSE => (SetStates(s, conn).dirty => SORT \in ToSet(SetStates(s, conn).queue))
<1> DEFINE r == SetStates(s, conn)
<1>1. StatesChanged(s, conn, r)
    BY StatesChange DEF ChannelOK
<1> HIDE DEF r
<1>0. /\ s \in Channels
      /\ r \in Channels /\ r.listed = s.listed /\ r.turn = s.turn /\ r.conn = conn
      /\ r.writable = s.writable /\ r.was_writable = s.was_writable /\ r.readable = s.readable
      /\ \/ r.best = s.best /\ r.pending = s.pending
         \/ r.best = s.pending /\ r.pending = None /\ s.pending \in s.listed
      /\ ToSet(s.queue) \subseteq ToSet(r.queue)
      /\ \/ /\ r.best = s.best /\ r.pending = s.pending /\ r.dirty = s.dirty
            /\ \A c \in s.listed : conn[c].read = s.conn[c].read /\ conn[c].write = s.conn[c].write
         \/ r.dirty /\ (s.dirty \/ SORT \in ToSet(r.queue))
    BY <1>1 DEF StatesChanged, ChannelOK
<1>2. ChannelOK(r) /\ r.listed = s.listed /\ r.conn = conn
    BY <1>0 DEF ChannelOK
<1>3. ASSUME Current(s) PROVE Current(r)
    <2>1. CASE /\ r.best = s.best /\ r.dirty = s.dirty
               /\ \A c \in s.listed : conn[c].read = s.conn[c].read /\ conn[c].write = s.conn[c].write
        <3>1. IsWritable(r, r.best) <=> IsWritable(s, s.best)
            BY <1>2, <2>1 DEF ChannelOK, IsWritable
        <3>2. (\E c \in r.listed : r.conn[c].read = "READABLE") <=> (\E c \in s.listed : s.conn[c].read = "READABLE")
            BY <1>2, <2>1
        <3>3. (r.writable = IsWritable(r, r.best)) <=> (s.writable = IsWritable(s, s.best))
            BY <1>0, <3>1 DEF IsWritable
        <3> QED
            BY <1>0, <1>3, <2>1, <3>2, <3>3 DEF Current
    <2>2. CASE r.dirty /\ (s.dirty \/ SORT \in ToSet(r.queue))
        BY <1>0, <1>3, <2>2 DEF Current
    <2> QED
        BY <1>0, <2>1, <2>2
<1>4. s.dirty = FALSE => (r.dirty => SORT \in ToSet(r.queue))
    BY <1>0
<1> QED
    BY <1>2, <1>3, <1>4 DEF r

-----------------------------------------------------------------------------
(***************************************************************************)
(* Choosing the connection.                                                 *)
(***************************************************************************)
\* CompareConnections is a strict order in which any two connections differ.
LEMMA BetterOrders ==
    ASSUME NEW s \in Channels
    PROVE  /\ \A a, b \in Paths : a = b \/ Better(s, a, b) \/ Better(s, b, a)
           /\ \A a \in Paths : ~Better(s, a, a)
           /\ \A a, b, c \in Paths : Better(s, a, b) /\ Better(s, b, c) => Better(s, a, c)
<1> DEFINE rank(c) == WriteRank[s.conn[c].write]
<1>1. \A c \in Paths : s.conn[c].write \in {"WRITABLE", "UNRELIABLE", "INIT", "TIMEOUT"}
    BY DEF Channels, Conns
<1>2. \A c \in Paths : rank(c) \in 0 .. 3
    BY <1>1 DEF WriteRank
<1>3. \A c, d \in Paths : rank(c) = rank(d) <=> s.conn[c].write = s.conn[d].write
    BY <1>1 DEF WriteRank
<1>4. /\ \A c \in Paths : PriorityOf(s, c) \in Nat
      /\ \A c, d \in Paths : PriorityOf(s, c) = PriorityOf(s, d) => c = d
    BY DEF PriorityOf
<1>5. \A a, b \in Paths :
         Better(s, a, b) <=> rank(a) < rank(b) \/ (rank(a) = rank(b) /\ PriorityOf(s, a) > PriorityOf(s, b))
    BY <1>3 DEF Better
<1> HIDE DEF rank
<1>6. \A a, b \in Paths : a = b \/ Better(s, a, b) \/ Better(s, b, a)
    BY <1>2, <1>4, <1>5
<1>7. \A a \in Paths : ~Better(s, a, a)
    BY <1>2, <1>4, <1>5
<1>8. \A a, b, c \in Paths : Better(s, a, b) /\ Better(s, b, c) => Better(s, a, c)
    BY <1>2, <1>4, <1>5
<1> QED
    BY <1>6, <1>7, <1>8

\* The first of the sorted connections is one of them: of the sets of those
\* that are better than one, take the least.
LEMMA TopIn ==
    ASSUME NEW s \in Channels, NEW S \in SUBSET Paths
    PROVE  Top(s, S) \in S \cup {None}
<1>1. CASE S = {}
    BY <1>1 DEF Top
<1>2. CASE S # {}
    <2> DEFINE Up(c) == {d \in S : Better(s, d, c)}
               T     == {Up(c) : c \in S}
    <2>1. IsFiniteSet(S)
        BY FS_Subset
    <2>2. IsWellFoundedOn(StrictSubsetOrdering(S), SUBSET S)
        <3>1. FiniteSubsetsOf(S) = SUBSET S
            BY <2>1, FS_FiniteSubsetsOfFinite, Zenon
        <3>2. IsWellFoundedOn(StrictSubsetOrdering(S), FiniteSubsetsOf(S))
            BY FS_StrictSubsetOrderingWellFounded, Zenon
        <3> QED
            BY <3>1, <3>2, Zenon
    <2>3. T \subseteq SUBSET S /\ T # {}
        <3>1. \A c \in S : Up(c) \in SUBSET S
            OBVIOUS
        <3>2. PICK c : c \in S
            BY <1>2
        <3>3. Up(c) \in T
            BY <3>2
        <3> HIDE DEF Up
        <3> QED
            BY <3>1, <3>3
    <2> HIDE DEF T
    <2>4. PICK x \in T : \A y \in T : ~(<<y, x>> \in StrictSubsetOrdering(S))
        BY <2>2, <2>3, WFMin
    <2>5. PICK c \in S : x = Up(c)
        BY <2>4 DEF T
    <2>6. ASSUME NEW d \in S \ {c} PROVE Better(s, c, d)
        <3>1. SUFFICES ASSUME Better(s, d, c) PROVE FALSE
            BY BetterOrders
        <3>2. Up(d) \subseteq Up(c) /\ d \in Up(c) /\ d \notin Up(d)
            BY <3>1, BetterOrders
        <3>3. Up(d) \in T /\ Up(d) \in SUBSET S /\ Up(c) \in SUBSET S
            BY DEF T
        <3> HIDE DEF Up
        <3> QED
            BY <2>4, <2>5, <3>2, <3>3 DEF StrictSubsetOrdering
    <2> QED
        BY <1>2, <2>6 DEF Top
<1> QED
    BY <1>1, <1>2

-----------------------------------------------------------------------------
(***************************************************************************)
(* The parts of the handlers.                                               *)
(***************************************************************************)
\* A MSG_SORT is asked for.
LEMMA SortRequested ==
    ASSUME NEW s, ChannelOK(s), s.dirty => SORT \in ToSet(s.queue)
    PROVE  ChannelOK(RequestSort(s)) /\ Current(RequestSort(s))
<1> DEFINE q == Append(s.queue, SORT)
           r == [s EXCEPT !.dirty = TRUE, !.queue = q]
<1>0. s \in Channels /\ s.queue \in Seq(Messages)
    BY Fields DEF ChannelOK
<1>1. CASE s.dirty
    BY <1>1 DEF RequestSort, Current
<1>2. CASE ~s.dirty
    <2>1. SORT \in Messages
        BY DEF Messages
    <2>2. q \in Seq(Messages) /\ SORT \in ToSet(q)
        <3>1. q \in Seq(Messages) /\ Len(s.queue) + 1 \in DOMAIN q /\ q[Len(s.queue) + 1] = SORT
            BY <1>0, <2>1, AppendProperties
        <3> QED
            BY <3>1 DEF ToSet
    <2>3. RequestSort(s) = r
        BY <1>2 DEF RequestSort
    <2> HIDE DEF q
    <2>4. ChannelOK(r) /\ r.queue = q
        BY <1>0, <2>2 DEF ChannelOK, Channels
    <2> QED
        BY <2>2, <2>3, <2>4 DEF Current
<1> QED
    BY <1>1, <1>2

\* Connections without a state that the channel looks at.
SameStates(s, conn) ==
    \A c \in s.listed : conn[c].read = s.conn[c].read /\ conn[c].write = s.conn[c].write

\* The pings of connections are counted: the invariant does not look at them.
LEMMA PingsCounted ==
    ASSUME NEW s, ChannelOK(s), NEW conn \in [Paths -> Conns], SameStates(s, conn),
           NEW turn, TurnOK(turn, s.listed)
    PROVE  /\ ChannelOK([s EXCEPT !.conn = conn, !.turn = turn])
           /\ Current(s) => Current([s EXCEPT !.conn = conn, !.turn = turn])
<1> DEFINE r == [s EXCEPT !.conn = conn, !.turn = turn]
<1>1. /\ s \in Channels /\ r \in Channels /\ r.conn = conn /\ r.turn = turn /\ r.listed = s.listed
      /\ r.best = s.best /\ r.pending = s.pending /\ r.dirty = s.dirty /\ r.writable = s.writable
      /\ r.was_writable = s.was_writable /\ r.readable = s.readable /\ r.queue = s.queue
    BY DEF ChannelOK, TurnOK, Channels
<1> HIDE DEF r
<1>2. ChannelOK(r)
    BY <1>1 DEF ChannelOK
<1>3. IsWritable(r, r.best) <=> IsWritable(s, s.best)
    BY <1>1 DEF ChannelOK, IsWritable, SameStates
<1>4. (\E c \in r.listed : r.conn[c].read = "READABLE") <=> (\E c \in s.listed : s.conn[c].read = "READABLE")
    BY <1>1 DEF SameStates
<1>5. (r.writable = IsWritable(r, r.best)) <=> (s.writable = IsWritable(s, s.best))
    BY <1>1, <1>3 DEF IsWritable
<1>6. Current(s) => Current(r)
    BY <1>1, <1>4, <1>5 DEF Current
<1> QED
    BY <1>2, <1>6 DEF r

\* UpdateConnectionStates.
LEMMA Updated ==
    ASSUME NEW s, ChannelOK(s)
    PROVE  /\ ChannelOK(SetStates(s, UpdatedConnections(s)))
           /\ Current(s) => Current(SetStates(s, UpdatedConnections(s)))
           /\ SetStates(s, UpdatedConnections(s)).listed = s.listed
<1> DEFINE conn == UpdatedConnections(s)
<1>1. conn \in [Paths -> Conns]
    BY Fields, ConnTypes DEF ChannelOK, UpdatedConnections
<1> HIDE DEF conn
<1>2. ChannelOK(SetStates(s, conn)) /\ (Current(s) => Current(SetStates(s, conn)))
      /\ SetStates(s, conn).listed = s.listed
    BY <1>1, StatesInv
<1> QED
    BY <1>2 DEF conn

\* SortConnections: whatever it starts from, the channel has said what it is.
LEMMA Sorted ==
    ASSUME NEW s, ChannelOK(s), SortConnections(s)
    PROVE  ChannelOK(ch') /\ Current(ch')
<1> DEFINE u == SetStates(s, UpdatedConnections(s))
           a == [u EXCEPT !.dirty = FALSE]
           b == Switch(a)
           p == SetStates(b, PrunedConnections(b))
           w == HandleWritability(p)
           r == UpdateChannelState(w)
<1>1. ch' = r
    BY DEF SortConnections
<1>2. ChannelOK(u)
    BY Updated
<1> HIDE DEF u
<1>3. ChannelOK(a) /\ a.dirty = FALSE
    BY <1>2 DEF ChannelOK, Channels
<1> HIDE DEF a
<1>4. ChannelOK(b) /\ b.dirty = FALSE
    <2>1. Top(a, a.listed) \in a.listed \cup {None}
        BY <1>3, TopIn, Fields DEF ChannelOK
    <2>2. ASSUME NEW top \in a.listed \cup {None}
          PROVE  ChannelOK([a EXCEPT !.best = top]) /\ [a EXCEPT !.best = top].dirty = FALSE
        BY <1>3 DEF ChannelOK, Channels
    <2>3. b = a \/ b = [a EXCEPT !.best = Top(a, a.listed)]
        BY DEF Switch
    <2> HIDE DEF b
    <2> QED
        BY <1>3, <2>1, <2>2, <2>3, ZenonT(40)
<1> HIDE DEF b
<1>5. ChannelOK(p) /\ (p.dirty => SORT \in ToSet(p.queue))
    <2> DEFINE conn == PrunedConnections(b)
    <2>1. conn \in [Paths -> Conns]
        BY <1>4, Fields, ConnTypes DEF ChannelOK, PrunedConnections
    <2> HIDE DEF conn
    <2>2. ChannelOK(SetStates(b, conn))
          /\ (b.dirty = FALSE => (SetStates(b, conn).dirty => SORT \in ToSet(SetStates(b, conn).queue)))
        BY <1>4, <2>1, StatesInv
    <2> QED
        BY <1>4, <2>2 DEF conn
<1> HIDE DEF p
<1>6. /\ ChannelOK(w) /\ (w.dirty => SORT \in ToSet(w.queue))
      /\ w.writable = IsWritable(w, w.best)
    <2>1. p \in Channels /\ p.writable \in BOOLEAN /\ p.was_writable = p.writable
        BY <1>5, Fields DEF ChannelOK
    <2>2. ASSUME NEW v \in BOOLEAN, NEW k, k = [p EXCEPT !.was_writable = v, !.writable = v]
          PROVE  /\ ChannelOK(k) /\ (k.dirty => SORT \in ToSet(k.queue)) /\ k.writable = v
                 /\ IsWritable(k, k.best) <=> IsWritable(p, p.best)
        <3>1. /\ k \in Channels /\ k.was_writable = v /\ k.writable = v /\ k.best = p.best
              /\ k.conn = p.conn /\ k.listed = p.listed /\ k.pending = p.pending
              /\ k.turn = p.turn /\ k.queue = p.queue /\ k.dirty = p.dirty
            BY <2>1, <2>2 DEF Channels
        <3> QED
            BY <1>5, <3>1 DEF ChannelOK, IsWritable
    <2>3. CASE IsWritable(p, p.best)
        <3>1. w = [p EXCEPT !.was_writable = TRUE, !.writable = TRUE]
            BY <2>3 DEF HandleWritability
        <3> HIDE DEF w
        <3>2. ChannelOK(w) /\ (w.dirty => SORT \in ToSet(w.queue)) /\ w.writable = TRUE
              /\ IsWritable(w, w.best)
            BY <2>2, <2>3, <3>1
        <3> QED
            BY <3>2 DEF IsWritable
    <2>4. CASE ~IsWritable(p, p.best) /\ p.was_writable
        <3>1. w = [p EXCEPT !.was_writable = FALSE, !.writable = FALSE]
            BY <2>4 DEF HandleWritability
        <3> HIDE DEF w
        <3>2. ChannelOK(w) /\ (w.dirty => SORT \in ToSet(w.queue)) /\ w.writable = FALSE
              /\ ~IsWritable(w, w.best)
            BY <2>2, <2>4, <3>1
        <3> QED
            BY <3>2 DEF IsWritable
    <2>5. CASE ~IsWritable(p, p.best) /\ ~p.was_writable
        <3>1. w = p
            BY <2>5 DEF HandleWritability
        <3> HIDE DEF w
        <3>2. p.writable = FALSE /\ ~IsWritable(p, p.best)
            BY <2>1, <2>5
        <3> QED
            BY <1>5, <3>1, <3>2 DEF IsWritable
    <2> QED
        BY <2>3, <2>4, <2>5
<1> HIDE DEF w
<1>7. /\ ChannelOK(r) /\ r.dirty = w.dirty /\ r.queue = w.queue /\ r.writable = w.writable
      /\ r.best = w.best /\ r.conn = w.conn /\ r.listed = w.listed
    BY <1>6, ZenonT(40) DEF ChannelOK, Channels, UpdateChannelState
<1>8. r.readable = \E c \in w.listed : w.conn[c].read = "READABLE"
    BY <1>6 DEF ChannelOK, Channels, UpdateChannelState
<1> HIDE DEF r
<1>9. IsWritable(r, r.best) <=> IsWritable(w, w.best)
    BY <1>7 DEF IsWritable
<1>10. r.writable = IsWritable(r, r.best)
    BY <1>6, <1>7, <1>9 DEF IsWritable
<1>11. (\E c \in r.listed : r.conn[c].read = "READABLE") => r.readable
    BY <1>7, <1>8
<1>12. Current(r)
    BY <1>6, <1>7, <1>10, <1>11 DEF Current
<1> QED
    BY <1>1, <1>7, <1>12

\* Connections are made.
LEMMA Added ==
    ASSUME NEW s, ChannelOK(s), NEW new \in SUBSET Paths
    PROVE  ChannelOK(AddConnections(s, new)) /\ AddConnections(s, new).listed = s.listed \cup new
<1> DEFINE r == AddConnections(s, new)
           conn == [c \in Paths |-> IF c \in new THEN NewConnection ELSE s.conn[c]]
<1>1. s \in Channels /\ conn \in [Paths -> Conns]
    BY ConnTypes, Fields DEF ChannelOK
<1>2. TurnOK(s.turn, s.listed \cup new)
    BY DEF ChannelOK, TurnOK
<1>3. r = [s EXCEPT !.listed = s.listed \cup new, !.conn = conn]
    BY <1>1 DEF AddConnections, Channels
<1>4. s.listed \cup new \in SUBSET Paths
    BY <1>1, Fields
<1> HIDE DEF conn, r
<1>5. r \in Channels /\ r.listed = s.listed \cup new /\ r.turn = s.turn /\ r.best = s.best
      /\ r.pending = s.pending /\ r.was_writable = s.was_writable /\ r.writable = s.writable
    BY <1>1, <1>3, <1>4 DEF Channels
<1>6. ChannelOK(r)
    BY <1>2, <1>5 DEF ChannelOK
<1> QED
    BY <1>5, <1>6 DEF r

\* A read or a write state is set.
LEMMA StateSet ==
    ASSUME NEW s, ChannelOK(s), NEW c \in s.listed
    PROVE  /\ \A v \in {"INIT", "READABLE"} :
                 /\ ChannelOK(SetReadState(s, c, v)) /\ (Current(s) => Current(SetReadState(s, c, v)))
                 /\ SetReadState(s, c, v).listed = s.listed
           /\ \A v \in {"WRITABLE", "UNRELIABLE", "INIT", "TIMEOUT"} :
                 /\ ChannelOK(SetWriteState(s, c, v)) /\ (Current(s) => Current(SetWriteState(s, c, v)))
                 /\ SetWriteState(s, c, v).listed = s.listed
<1>0. s.conn \in [Paths -> Conns] /\ c \in Paths
    BY Fields DEF ChannelOK
<1>1. ASSUME NEW v \in {"INIT", "READABLE"}
      PROVE  /\ ChannelOK(SetReadState(s, c, v)) /\ (Current(s) => Current(SetReadState(s, c, v)))
             /\ SetReadState(s, c, v).listed = s.listed
    <2> DEFINE conn == [s.conn EXCEPT ![c].read = v]
    <2>1. conn \in [Paths -> Conns]
        BY <1>0 DEF Conns
    <2> HIDE DEF conn
    <2> QED
        BY <2>1, StatesInv DEF SetReadState, conn
<1>2. ASSUME NEW v \in {"WRITABLE", "UNRELIABLE", "INIT", "TIMEOUT"}
      PROVE  /\ ChannelOK(SetWriteState(s, c, v)) /\ (Current(s) => Current(SetWriteState(s, c, v)))
             /\ SetWriteState(s, c, v).listed = s.listed
    <2> DEFINE conn == [s.conn EXCEPT ![c].write = v]
    <2>1. conn \in [Paths -> Conns]
        BY <1>0 DEF Conns
    <2> HIDE DEF conn
    <2> QED
        BY <2>1, StatesInv DEF SetWriteState, conn
<1> QED
    BY <1>1, <1>2

\* RestartChecks.
LEMMA Restarted ==
    ASSUME NEW s, ChannelOK(s), Current(s), NEW c \in s.listed
    PROVE  /\ ChannelOK(RestartChecks(s, c)) /\ Current(RestartChecks(s, c))
           /\ RestartChecks(s, c).listed = s.listed
<1>1. ChannelOK(SetWriteState(s, c, "INIT")) /\ Current(SetWriteState(s, c, "INIT"))
      /\ SetWriteState(s, c, "INIT").listed = s.listed
    BY StateSet
<1> QED
    BY <1>1 DEF RestartChecks

\* The peer nominates a connection.
LEMMA Nominated ==
    ASSUME NEW s, ChannelOK(s), Current(s), NEW c \in s.listed
    PROVE  ChannelOK(OnUseCandidate(s, c)) /\ Current(OnUseCandidate(s, c))
<1> DEFINE p == [s EXCEPT !.pending = c]
           b == [s EXCEPT !.best = c, !.pending = None]
<1>1. ChannelOK(p) /\ Current(p)
    <2>1. /\ ChannelOK(p) /\ p.best = s.best /\ p.conn = s.conn /\ p.writable = s.writable
          /\ p.dirty = s.dirty /\ p.queue = s.queue /\ p.readable = s.readable /\ p.listed = s.listed
        BY Fields, ZenonT(40) DEF ChannelOK, Channels
    <2> HIDE DEF p
    <2>2. (p.writable = IsWritable(p, p.best)) <=> (s.writable = IsWritable(s, s.best))
        BY <2>1 DEF IsWritable
    <2> QED
        BY <2>1, <2>2 DEF Current
<1>2. ChannelOK(RequestSort(b)) /\ Current(RequestSort(b))
    <2>1. ChannelOK(b) /\ b.dirty = s.dirty /\ b.queue = s.queue
        BY Fields, ZenonT(40) DEF ChannelOK, Channels
    <2> HIDE DEF b
    <2> QED
        BY <2>1, SortRequested DEF Current
<1> QED
    BY <1>1, <1>2 DEF OnUseCandidate

\* A connection deletes itself.
LEMMA Destroyed ==
    ASSUME NEW s, ChannelOK(s), Current(s), NEW c \in Paths
    PROVE  ChannelOK(OnConnectionDestroyed(s, c)) /\ Current(OnConnectionDestroyed(s, c))
<1> DEFINE listed  == s.listed \ {c}
           conn    == [s.conn EXCEPT ![c] = NewConnection]
           turn    == Without(s.turn, c)
           pending == IF s.pending = c THEN None ELSE s.pending
           gone    == [s EXCEPT !.listed = @ \ {c}, !.conn[c] = NewConnection, !.turn = Without(@, c),
                                !.pending = IF @ = c THEN None ELSE @]
<1>1. s \in Channels /\ s.conn \in [Paths -> Conns] /\ conn \in [Paths -> Conns] /\ listed \in SUBSET Paths
    BY ConnTypes, Fields DEF ChannelOK
<1>2. TurnOK(turn, listed) /\ turn \in Seq(Paths)
    <2>1. TurnOK(turn, listed)
        BY TurnWithout DEF ChannelOK
    <2> QED
        BY <2>1 DEF TurnOK
<1>3. pending \in listed \cup {None} /\ pending \in Paths \cup {None}
    BY <1>1, Fields DEF ChannelOK
<1>4. gone = [s EXCEPT !.listed = listed, !.conn = conn, !.turn = turn, !.pending = pending]
    BY <1>1 DEF Channels
<1>5. OnConnectionDestroyed(s, c) =
         IF gone.best = c THEN RequestSort([gone EXCEPT !.best = None]) ELSE gone
    BY DEF OnConnectionDestroyed
<1>6. /\ conn[c] = NewConnection /\ \A d \in Paths \ {c} : conn[d] = s.conn[d]
      /\ listed \subseteq s.listed /\ c \notin listed
    BY <1>1
<1> HIDE DEF listed, conn, turn, pending, gone
<1>7. /\ gone \in Channels /\ gone.listed = listed /\ gone.conn = conn /\ gone.turn = turn
      /\ gone.pending = pending /\ gone.best = s.best /\ gone.dirty = s.dirty /\ gone.queue = s.queue
      /\ gone.writable = s.writable /\ gone.was_writable = s.was_writable /\ gone.readable = s.readable
    BY <1>1, <1>2, <1>3, <1>4 DEF Channels
<1>8. CASE s.best = c
    <2> DEFINE b == [gone EXCEPT !.best = None]
    <2>1. /\ b \in Channels /\ b.listed = listed /\ b.turn = turn /\ b.pending = pending /\ b.best = None
          /\ b.dirty = s.dirty /\ b.queue = s.queue /\ b.writable = s.writable
          /\ b.was_writable = s.was_writable
        BY <1>7 DEF Channels
    <2>2. OnConnectionDestroyed(s, c) = RequestSort(b)
        BY <1>5, <1>7, <1>8
    <2> HIDE DEF b
    <2>3. ChannelOK(b)
        BY <1>2, <1>3, <2>1 DEF ChannelOK
    <2> QED
        BY <2>1, <2>2, <2>3, SortRequested DEF Current
<1>9. CASE s.best # c
    <2>1. OnConnectionDestroyed(s, c) = gone
        BY <1>5, <1>7, <1>9
    <2>2. s.best \in listed \cup {None}
        BY <1>9 DEF ChannelOK, listed
    <2>3. ChannelOK(gone)
        BY <1>2, <1>3, <1>7, <2>2 DEF ChannelOK
    <2>4. IsWritable(gone, gone.best) <=> IsWritable(s, s.best)
        BY <1>1, <1>6, <1>7, <1>9, <2>2 DEF IsWritable
    <2>5. (gone.writable = IsWritable(gone, gone.best)) <=> (s.writable = IsWritable(s, s.best))
        BY <1>7, <2>4 DEF IsWritable
    <2>6. (\E d \in gone.listed : gone.conn[d].read = "READABLE") => \E d \in s.listed : s.conn[d].read = "READABLE"
        BY <1>1, <1>6, <1>7
    <2> QED
        BY <1>7, <2>1, <2>3, <2>5, <2>6 DEF Current
<1> QED
    BY <1>8, <1>9

\* A connection is pinged.
LEMMA Pinged ==
    ASSUME NEW s, ChannelOK(s), Current(s), NEW c \in s.listed
    PROVE  ChannelOK(Ping(s, c)) /\ Current(Ping(s, c))
<1> DEFINE k    == s.conn[c]
           w    == IF k.waited = 0 THEN 1 ELSE k.waited
           made == [k EXCEPT !.asked = TRUE, !.waited = w]
           conn == [s.conn EXCEPT ![c] = made]
           turn == Append(Without(s.turn, c), c)
<1>1. s \in Channels /\ s.conn \in [Paths -> Conns] /\ c \in Paths
    BY Fields DEF ChannelOK
<1>5. k \in Conns /\ made \in Conns /\ made.read = k.read /\ made.write = k.write
    <2>1. k \in Conns
        BY <1>1
    <2>2. w \in Waits
        BY <2>1 DEF Conns, Waits
    <2> HIDE DEF k, w
    <2>3. made \in Conns
        BY <2>1, <2>2 DEF Conns
    <2>4. made.read = k.read /\ made.write = k.write
        BY <2>1 DEF Conns
    <2> QED
        BY <2>1, <2>3, <2>4
<1>6. [s.conn EXCEPT ![c].asked = TRUE, ![c].waited = IF @ = 0 THEN 1 ELSE @] = conn
    <2> DEFINE g == [s.conn EXCEPT ![c].asked = TRUE, ![c].waited = IF @ = 0 THEN 1 ELSE @]
    <2>1. DOMAIN g = Paths /\ \A d \in Paths \ {c} : g[d] = s.conn[d]
        BY <1>1
    <2>2. g[c] = [k EXCEPT !.asked = TRUE, !.waited = w]
        BY <1>1, <1>5 DEF Conns
    <2>4. g = [d \in Paths |-> g[d]]
        BY <1>1
    <2> HIDE DEF g
    <2>3. g[c] = made
        BY <2>2
    <2> HIDE DEF made
    <2> QED
        BY <1>1, <2>1, <2>3, <2>4 DEF g
<1> HIDE DEF made
<1>2. conn \in [Paths -> Conns] /\ SameStates(s, conn)
    BY <1>1, <1>5 DEF SameStates
<1>3. TurnOK(turn, s.listed)
    <2>1. TurnOK(Without(s.turn, c), s.listed \ {c})
        BY <1>1, TurnWithout DEF ChannelOK
    <2>2. TurnOK(turn, (s.listed \ {c}) \cup {c})
        BY <1>1, <2>1, TurnLast
    <2>3. (s.listed \ {c}) \cup {c} = s.listed
        OBVIOUS
    <2> QED
        BY <2>2, <2>3
<1>4. Ping(s, c) = [s EXCEPT !.conn = conn, !.turn = turn]
    <2>1. Ping(s, c) = [s EXCEPT !.conn = [s.conn EXCEPT ![c].asked = TRUE, ![c].waited = IF @ = 0 THEN 1 ELSE @],
                                 !.turn = turn]
        BY <1>1 DEF Ping, Channels
    <2> QED
        BY <1>6, <2>1
<1> HIDE DEF conn, turn
<1>7. /\ ChannelOK([s EXCEPT !.conn = conn, !.turn = turn])
      /\ Current(s) => Current([s EXCEPT !.conn = conn, !.turn = turn])
    BY <1>2, <1>3, PingsCounted
<1> QED
    BY <1>4, <1>7, Zenon

\* What is known of the pings of one connection changes.
LEMMA Counted ==
    ASSUME NEW s, ChannelOK(s), Current(s), NEW c \in s.listed, NEW w \in Waits, NEW a \in BOOLEAN
    PROVE  /\ ChannelOK([s EXCEPT !.conn[c].waited = w, !.conn[c].asked = a])
           /\ Current([s EXCEPT !.conn[c].waited = w, !.conn[c].asked = a])
<1> DEFINE k    == s.conn[c]
           made == [k EXCEPT !.waited = w, !.asked = a]
           conn == [s.conn EXCEPT ![c] = made]
<1>1. s \in Channels /\ s.conn \in [Paths -> Conns] /\ c \in Paths /\ k \in Conns
    BY Fields DEF ChannelOK
<1>2. made \in Conns /\ made.read = k.read /\ made.write = k.write
    <2> HIDE DEF k
    <2>1. made \in Conns
        BY <1>1 DEF Conns
    <2>2. made.read = k.read /\ made.write = k.write
        BY <1>1 DEF Conns
    <2> QED
        BY <2>1, <2>2
<1>3. [s.conn EXCEPT ![c].waited = w, ![c].asked = a] = conn
    <2> DEFINE g == [s.conn EXCEPT ![c].waited = w, ![c].asked = a]
    <2>1. DOMAIN g = Paths /\ \A d \in Paths \ {c} : g[d] = s.conn[d]
        BY <1>1
    <2>2. g[c] = made
        BY <1>1 DEF Conns
    <2>3. g = [d \in Paths |-> g[d]]
        BY <1>1
    <2> HIDE DEF g, made
    <2> QED
        BY <1>1, <2>1, <2>2, <2>3 DEF g
<1> HIDE DEF made
<1>4. conn \in [Paths -> Conns] /\ SameStates(s, conn)
    BY <1>1, <1>2 DEF SameStates
<1>5. [s EXCEPT !.conn[c].waited = w, !.conn[c].asked = a] = [s EXCEPT !.conn = conn, !.turn = s.turn]
    <2>1. [s EXCEPT !.conn[c].waited = w, !.conn[c].asked = a] =
             [s EXCEPT !.conn = [s.conn EXCEPT ![c].waited = w, ![c].asked = a], !.turn = s.turn]
        BY <1>1 DEF Channels
    <2> QED
        BY <1>3, <2>1
<1>6. TurnOK(s.turn, s.listed)
    BY DEF ChannelOK
<1> HIDE DEF conn
<1>7. /\ ChannelOK([s EXCEPT !.conn = conn, !.turn = s.turn])
      /\ Current(s) => Current([s EXCEPT !.conn = conn, !.turn = s.turn])
    BY <1>4, <1>6, PingsCounted
<1> QED
    BY <1>5, <1>7, Zenon

\* Only one of the two changes.
LEMMA OneCounted ==
    ASSUME NEW s, ChannelOK(s), Current(s), NEW c \in s.listed, NEW w \in Waits, NEW a \in BOOLEAN
    PROVE  /\ ChannelOK([s EXCEPT !.conn[c].waited = w]) /\ Current([s EXCEPT !.conn[c].waited = w])
           /\ ChannelOK([s EXCEPT !.conn[c].asked = a]) /\ Current([s EXCEPT !.conn[c].asked = a])
<1> DEFINE k == s.conn[c]
<1>1. s \in Channels /\ s.conn \in [Paths -> Conns] /\ c \in Paths /\ k \in Conns
    BY Fields DEF ChannelOK
<1>2. k.waited \in Waits /\ k.asked \in BOOLEAN
    BY <1>1 DEF Conns
<1>3. [s EXCEPT !.conn[c].waited = w] = [s EXCEPT !.conn[c].waited = w, !.conn[c].asked = k.asked]
    <2>1. [k EXCEPT !.waited = w] = [k EXCEPT !.waited = w, !.asked = k.asked]
        BY <1>1 DEF Conns
    <2>2. [s.conn EXCEPT ![c].waited = w] = [s.conn EXCEPT ![c] = [k EXCEPT !.waited = w]]
        OBVIOUS
    <2>3. [s.conn EXCEPT ![c].waited = w, ![c].asked = k.asked] =
             [s.conn EXCEPT ![c] = [k EXCEPT !.waited = w, !.asked = k.asked]]
        BY <1>1 DEF Conns
    <2>4. [s EXCEPT !.conn[c].waited = w] = [s EXCEPT !.conn = [s.conn EXCEPT ![c].waited = w]]
        OBVIOUS
    <2>5. [s EXCEPT !.conn[c].waited = w, !.conn[c].asked = k.asked] =
             [s EXCEPT !.conn = [s.conn EXCEPT ![c].waited = w, ![c].asked = k.asked]]
        BY <1>1 DEF Channels
    <2> QED
        BY <2>1, <2>2, <2>3, <2>4, <2>5, Zenon
<1>4. [s EXCEPT !.conn[c].asked = a] = [s EXCEPT !.conn[c].waited = k.waited, !.conn[c].asked = a]
    <2>1. [k EXCEPT !.asked = a] = [k EXCEPT !.waited = k.waited, !.asked = a]
        BY <1>1 DEF Conns
    <2>2. [s.conn EXCEPT ![c].asked = a] = [s.conn EXCEPT ![c] = [k EXCEPT !.asked = a]]
        OBVIOUS
    <2>3. [s.conn EXCEPT ![c].waited = k.waited, ![c].asked = a] =
             [s.conn EXCEPT ![c] = [k EXCEPT !.waited = k.waited, !.asked = a]]
        BY <1>1 DEF Conns
    <2>4. [s EXCEPT !.conn[c].asked = a] = [s EXCEPT !.conn = [s.conn EXCEPT ![c].asked = a]]
        OBVIOUS
    <2>5. [s EXCEPT !.conn[c].waited = k.waited, !.conn[c].asked = a] =
             [s EXCEPT !.conn = [s.conn EXCEPT ![c].waited = k.waited, ![c].asked = a]]
        BY <1>1 DEF Channels
    <2> QED
        BY <2>1, <2>2, <2>3, <2>4, <2>5, Zenon
<1> HIDE DEF k
<1>5. /\ ChannelOK([s EXCEPT !.conn[c].waited = w, !.conn[c].asked = k.asked])
      /\ Current([s EXCEPT !.conn[c].waited = w, !.conn[c].asked = k.asked])
    BY <1>2, Counted
<1>6. /\ ChannelOK([s EXCEPT !.conn[c].waited = k.waited, !.conn[c].asked = a])
      /\ Current([s EXCEPT !.conn[c].waited = k.waited, !.conn[c].asked = a])
    BY <1>2, Counted
<1> QED
    BY <1>3, <1>4, <1>5, <1>6, Zenon

\* The local candidate of a connection becomes a peer reflexive one.
LEMMA Reflected ==
    ASSUME NEW s, ChannelOK(s), Current(s), NEW c \in s.listed
    PROVE  ChannelOK(AddPrflxCandidate(s, c)) /\ Current(AddPrflxCandidate(s, c))
<1> DEFINE k    == s.conn[c]
           made == [k EXCEPT !.prflx = TRUE]
           conn == [s.conn EXCEPT ![c] = made]
           r    == [s EXCEPT !.conn = conn, !.turn = s.turn]
<1>1. s \in Channels /\ s.conn \in [Paths -> Conns] /\ c \in Paths /\ k \in Conns
    BY Fields DEF ChannelOK
<1>2. made \in Conns /\ made.read = k.read /\ made.write = k.write
    <2> HIDE DEF k
    <2> QED
        BY <1>1 DEF Conns
<1>3. [s EXCEPT !.conn[c].prflx = TRUE] = r
    BY <1>1 DEF Channels
<1> HIDE DEF made
<1>4. conn \in [Paths -> Conns] /\ SameStates(s, conn)
    BY <1>1, <1>2 DEF SameStates
<1>5. TurnOK(s.turn, s.listed)
    BY DEF ChannelOK
<1> HIDE DEF conn
<1>6. ChannelOK(r) /\ Current(r)
    BY <1>4, <1>5, PingsCounted
<1> HIDE DEF r
<1> QED
    BY <1>3, <1>6, SortRequested DEF AddPrflxCandidate, Current

\* A message leaves the queue.
LEMMA Taken ==
    ASSUME NEW s, ChannelOK(s), s.queue # <<>>
    PROVE  LET r == [s EXCEPT !.queue = Tail(@)]
           IN  ChannelOK(r) /\ (Current(s) /\ Head(s.queue) # SORT => Current(r))
<1> DEFINE q == s.queue
           r == [s EXCEPT !.queue = Tail(@)]
<1>1. q \in Seq(Messages) /\ q # <<>>
    BY Fields DEF ChannelOK
<1>2. Tail(q) \in Seq(Messages) /\ Len(q) \in Nat /\ Len(q) > 0 /\ Len(Tail(q)) = Len(q) - 1
      /\ \A i \in 1 .. Len(Tail(q)) : Tail(q)[i] = q[i + 1]
    BY <1>1, HeadTailProperties
<1>3. Head(q) = q[1] /\ DOMAIN q = 1 .. Len(q) /\ DOMAIN Tail(q) = 1 .. (Len(q) - 1)
    BY <1>1, <1>2
<1>4. Head(q) # SORT => (SORT \in ToSet(q) <=> SORT \in ToSet(Tail(q)))
    <2>1. ASSUME NEW i \in 1 .. Len(q), q[i] = SORT, Head(q) # SORT PROVE SORT \in ToSet(Tail(q))
        <3>1. i - 1 \in 1 .. (Len(q) - 1) /\ (i - 1) + 1 = i
            BY <1>2, <1>3, <2>1
        <3>2. Tail(q)[i - 1] = q[i]
            BY <1>2, <3>1
        <3> QED
            BY <1>3, <2>1, <3>1, <3>2 DEF ToSet
    <2>2. ASSUME NEW i \in 1 .. (Len(q) - 1), Tail(q)[i] = SORT PROVE SORT \in ToSet(q)
        <3>1. i + 1 \in 1 .. Len(q) /\ q[i + 1] = SORT
            BY <1>2, <2>2
        <3> QED
            BY <1>3, <3>1 DEF ToSet
    <2> QED
        BY <1>3, <2>1, <2>2 DEF ToSet
<1>5. /\ r \in Channels /\ r.queue = Tail(q) /\ r.conn = s.conn /\ r.turn = s.turn /\ r.listed = s.listed
      /\ r.best = s.best /\ r.pending = s.pending /\ r.dirty = s.dirty /\ r.writable = s.writable
      /\ r.was_writable = s.was_writable /\ r.readable = s.readable
    BY <1>2 DEF ChannelOK, Channels
<1> HIDE DEF r, q
<1>6. ChannelOK(r)
    BY <1>5 DEF ChannelOK
<1>7. (r.writable = IsWritable(r, r.best)) <=> (s.writable = IsWritable(s, s.best))
    BY <1>5 DEF IsWritable
<1>8. Current(s) /\ Head(s.queue) # SORT => Current(r)
    BY <1>4, <1>5, <1>7 DEF Current, q
<1> QED
    BY <1>6, <1>8 DEF r

-----------------------------------------------------------------------------
(***************************************************************************)
(* The steps.                                                               *)
(***************************************************************************)
\* The invariant: ChannelOK and Current of the channel between two handlers.
Inv ==
    /\ ChannelOK(ch) /\ Current(ch)
    /\ role \in {"controlling", "controlled"} /\ switched \in BOOLEAN
    /\ remembered \subseteq Paths /\ revivals \in 0 .. MaxRevivals

\* The channel starts with nothing to tell.
LEMMA InitInv == Init => Inv
<1> SUFFICES ASSUME Init PROVE Inv
    OBVIOUS
<1>0. ch = [listed |-> {}, conn |-> [c \in Paths |-> NewConnection],
            best |-> None, pending |-> None, dirty |-> FALSE,
            writable |-> FALSE, was_writable |-> FALSE, readable |-> FALSE,
            queue |-> <<>>, turn |-> <<>>]
    BY DEF Init
<1>1. ch \in Channels
    <2>1. [c \in Paths |-> NewConnection] \in [Paths -> Conns]
        BY ConnTypes
    <2> QED
        BY <1>0, <2>1 DEF Channels
<1>2. TurnOK(ch.turn, ch.listed)
    BY <1>0 DEF TurnOK, ToSet
<1>3. ChannelOK(ch)
    BY <1>0, <1>1, <1>2 DEF ChannelOK
<1>4. ch.writable = IsWritable(ch, ch.best)
    BY <1>0 DEF IsWritable
<1>5. Current(ch)
    BY <1>0, <1>4 DEF Current
<1>6. role \in {"controlling", "controlled"} /\ remembered \subseteq Paths /\ revivals \in 0 .. MaxRevivals
    BY DEF Init
<1>7. switched \in BOOLEAN
    BY DEF Init
<1> QED
    BY <1>3, <1>5, <1>6, <1>7 DEF Inv

\* Every step keeps it.
LEMMA NextInv == Inv /\ [Next]_vars => Inv'
<1> SUFFICES ASSUME Inv, [Next]_vars PROVE Inv'
    OBVIOUS
<1>0. /\ ChannelOK(ch) /\ Current(ch) /\ ch.listed \subseteq Paths
      /\ role \in {"controlling", "controlled"} /\ switched \in BOOLEAN
      /\ remembered \subseteq Paths /\ revivals \in 0 .. MaxRevivals
    BY Fields DEF Inv, ChannelOK
<1>1. SUFFICES /\ ChannelOK(ch') /\ Current(ch')
               /\ role' \in {"controlling", "controlled"} /\ switched' \in BOOLEAN
               /\ remembered' \subseteq Paths /\ revivals' \in 0 .. MaxRevivals
    BY DEF Inv, ChannelOK, Current, IsWritable
<1>2. ASSUME ChannelOK(ch') /\ Current(ch'), UNCHANGED <<role, switched, remembered, revivals>>
      PROVE  /\ ChannelOK(ch') /\ Current(ch')
             /\ role' \in {"controlling", "controlled"} /\ switched' \in BOOLEAN
             /\ remembered' \subseteq Paths /\ revivals' \in 0 .. MaxRevivals
    BY <1>0, <1>2
<1>3. CASE OnMessage
    <2> DEFINE rest == [ch EXCEPT !.queue = Tail(@)]
    <2>1. ChannelOK(rest) /\ (Head(ch.queue) # SORT => Current(rest))
        BY <1>0, <1>3, Taken DEF OnMessage
    <2>2. \/ Head(ch.queue) = SORT /\ SortConnections(rest)
          \/ \E c \in Paths : Head(ch.queue) = DELETE(c) /\ ch' = OnConnectionDestroyed(rest, c)
        BY <1>3 DEF OnMessage
    <2> HIDE DEF rest
    <2>3. \A c \in Paths : DELETE(c) # SORT
        BY DEF DELETE, SORT
    <2>4. ChannelOK(ch') /\ Current(ch')
        <3>1. CASE SortConnections(rest)
            BY <2>1, <3>1, Sorted
        <3>2. ASSUME NEW c \in Paths, Head(ch.queue) = DELETE(c), ch' = OnConnectionDestroyed(rest, c)
              PROVE  ChannelOK(ch') /\ Current(ch')
            <4>1. Head(ch.queue) # SORT
                BY <2>3, <3>2
            <4> QED
                BY <2>1, <3>2, <4>1, Destroyed
        <3> QED
            BY <2>2, <3>1, <3>2
    <2> QED
        BY <1>2, <1>3, <2>4 DEF OnMessage
<1>4. CASE OnPing
    <2> DEFINE s == SetStates(ch, UpdatedConnections(ch))
    <2>1. ChannelOK(s) /\ Current(s)
        BY <1>0, Updated
    <2>2. \/ IsWritable(s, s.best) /\ ch' = Ping(s, s.best)
          \/ \E c \in s.listed : ch' = Ping(s, c)
          \/ ch' = s
        BY <1>4 DEF OnPing
    <2> HIDE DEF s
    <2>4. IsWritable(s, s.best) => s.best \in s.listed
        BY <2>1 DEF ChannelOK, IsWritable
    <2>5. ChannelOK(ch') /\ Current(ch')
        BY <2>1, <2>2, <2>4, Pinged
    <2> QED
        BY <1>2, <1>4, <2>5 DEF OnPing
<1>5. CASE SetIceRole
    BY <1>0, <1>5 DEF SetIceRole
<1>6. ASSUME NEW paths \in SUBSET Paths, OnCandidate(paths)
      PROVE  ChannelOK(ch') /\ Current(ch') /\ remembered' \subseteq Paths
    <2> DEFINE s == AddConnections(ch, paths \ (remembered \cup ch.listed))
    <2>1. ChannelOK(s)
        BY <1>0, Added
    <2>2. SortConnections(s) /\ remembered' = remembered \cup paths
        BY <1>6 DEF OnCandidate
    <2> HIDE DEF s
    <2> QED
        BY <1>0, <2>1, <2>2, Sorted
<1>7. ASSUME NEW c \in Paths, OnUnknownAddress(c) PROVE ChannelOK(ch') /\ Current(ch')
    <2> DEFINE s == SetReadState(AddConnections(ch, {c}), c, "READABLE")
    <2>1. SortConnections(s) /\ c \notin ch.listed
        BY <1>7 DEF OnUnknownAddress
    <2>2. ChannelOK(AddConnections(ch, {c})) /\ c \in AddConnections(ch, {c}).listed
        BY <1>0, <2>1, Added
    <2>3. ChannelOK(s)
        BY <2>2, StateSet
    <2> HIDE DEF s
    <2> QED
        BY <2>1, <2>3, Sorted
<1>8. ASSUME NEW c \in Paths, NEW use_candidate, OnBindingRequest(c, use_candidate)
      PROVE  ChannelOK(ch') /\ Current(ch')
    <2> DEFINE read == SetReadState(ch, c, "READABLE")
               s    == RestartChecks(read, c)
    <2>1. c \in ch.listed /\ (ch' = s \/ ch' = OnUseCandidate(s, c))
        BY <1>8 DEF OnBindingRequest
    <2>2. ChannelOK(read) /\ Current(read) /\ c \in read.listed
        BY <1>0, <2>1, StateSet
    <2> HIDE DEF read
    <2>3. ChannelOK(s) /\ Current(s) /\ c \in s.listed
        BY <2>2, Restarted
    <2> HIDE DEF s
    <2> QED
        BY <2>1, <2>3, Nominated
<1>9. ASSUME NEW c \in Paths, OnData(c) PROVE ChannelOK(ch') /\ Current(ch')
    BY <1>0, <1>9, Restarted DEF OnData
<1>10. ASSUME NEW c \in Paths, OnBindingResponse(c) PROVE ChannelOK(ch') /\ Current(ch')
    <2> DEFINE s == SetWriteState(ch, c, "WRITABLE")
               r == [s EXCEPT !.conn[c].waited = 0, !.conn[c].asked = FALSE]
    <2>1. c \in ch.listed /\ (ch' = r \/ ch' = AddPrflxCandidate(r, c))
        BY <1>10 DEF OnBindingResponse
    <2>2. ChannelOK(s) /\ Current(s) /\ c \in s.listed
        BY <1>0, <2>1, StateSet
    <2> HIDE DEF s
    <2>3. 0 \in Waits /\ FALSE \in BOOLEAN
        BY DEF Waits
    <2>4. ChannelOK(r) /\ Current(r)
        BY <2>2, <2>3, Counted
    <2>5. r.listed = s.listed
        BY <2>2 DEF ChannelOK, Channels
    <2> HIDE DEF r
    <2> QED
        BY <2>1, <2>2, <2>4, <2>5, Reflected
<1>11. ASSUME NEW c \in Paths, OnBindingErrorResponse(c) PROVE ChannelOK(ch') /\ Current(ch')
    <2> DEFINE s == SetWriteState(ch, c, "TIMEOUT")
    <2>1. PICK more \in BOOLEAN : c \in ch.listed /\ ch' = [s EXCEPT !.conn[c].asked = more]
        BY <1>11 DEF OnBindingErrorResponse
    <2>2. ChannelOK(s) /\ Current(s) /\ c \in s.listed
        BY <1>0, <2>1, StateSet
    <2> HIDE DEF s
    <2>3. 0 \in Waits
        BY DEF Waits
    <2> QED
        BY <2>1, <2>2, <2>3, OneCounted
<1>12. ASSUME NEW c \in Paths, OnRequestTimeout(c) PROVE ChannelOK(ch') /\ Current(ch')
    <2>1. c \in ch.listed /\ ch' = [ch EXCEPT !.conn[c].asked = FALSE]
        BY <1>12 DEF OnRequestTimeout
    <2>2. FALSE \in BOOLEAN /\ 0 \in Waits
        BY DEF Waits
    <2> QED
        BY <1>0, <2>1, <2>2, OneCounted
<1>13. ASSUME NEW c \in Paths, Wait(c) PROVE ChannelOK(ch') /\ Current(ch')
    <2> DEFINE w == ch.conn[c].waited + 1
    <2>1. c \in ch.listed /\ ch' = [ch EXCEPT !.conn[c].waited = w] /\ w \in Waits
        BY <1>13 DEF Wait, Waits
    <2> HIDE DEF w
    <2>2. FALSE \in BOOLEAN
        OBVIOUS
    <2> QED
        BY <1>0, <2>1, <2>2, OneCounted
<1>14. CASE UNCHANGED vars
    BY <1>0, <1>14 DEF vars
<1>15. ASSUME NEW c \in Paths, OnUnknownAddress(c) PROVE revivals' \in 0 .. MaxRevivals
    BY <1>0, <1>15 DEF OnUnknownAddress
<1> QED
    BY <1>0, <1>2, <1>3, <1>4, <1>5, <1>6, <1>7, <1>8, <1>9, <1>10, <1>11, <1>12, <1>13, <1>14, <1>15, ZenonT(40)
       DEF Next, OnCandidate, OnUnknownAddress, OnBindingRequest, OnData, OnBindingResponse,
           OnBindingErrorResponse, OnRequestTimeout, Wait

\* The invariant holds of every behaviour.
LEMMA Invariant == Spec => []Inv
BY InitInv, NextInv, PTL DEF Spec

-----------------------------------------------------------------------------
(***************************************************************************)
(* The theorems.                                                            *)
(***************************************************************************)
\* The members of P2PTransportChannel and its connections keep their types, and
\* none is twice in the order of the pings, nor is one that was deleted.
THEOREM TypeCorrect == Spec => []TypeOK
<1>1. Inv => TypeOK
    <2> SUFFICES ASSUME Inv PROVE TypeOK
        OBVIOUS
    <2>1. ch \in Channels /\ TurnOK(ch.turn, ch.listed)
        BY DEF Inv, ChannelOK
    <2>2. ToSet(ch.turn) \subseteq ch.listed /\ IsInjective(ch.turn)
        BY <2>1 DEF TurnOK, IsInjective
    <2>3. DOMAIN WriteRank = {"WRITABLE", "UNRELIABLE", "INIT", "TIMEOUT"}
        BY DEF WriteRank
    <2>4. ch.conn \in [Paths -> [read : {"INIT", "READABLE"}, write : DOMAIN WriteRank,
                                 pruned : BOOLEAN, waited : Waits, asked : BOOLEAN, prflx : BOOLEAN]]
        BY <2>1, <2>3, Fields, Zenon DEF Conns
    <2>5. ch.queue \in Seq({SORT} \cup {DELETE(c) : c \in Paths})
        BY <2>1, Fields, Zenon DEF Messages
    <2>6. {ch.dirty, ch.writable, ch.was_writable, ch.readable} \subseteq BOOLEAN
        BY <2>1, Fields
    <2>7. ch.listed \subseteq Paths /\ {ch.best, ch.pending} \subseteq Paths \cup {None}
        BY <2>1, Fields
    <2> QED
        BY <2>2, <2>4, <2>5, <2>6, <2>7 DEF TypeOK, Inv
<1> QED
    BY <1>1, Invariant, PTL

\* best_connection_ and pending_best_connection_ never point to a connection
\* that has deleted itself (OnConnectionDestroyed), however checks, nominations,
\* timeouts, sorts and deletions interleave.
THEOREM NoPointerDangles == Spec => []NoDanglingPointer
<1>1. Inv => NoDanglingPointer
    BY DEF Inv, ChannelOK, NoDanglingPointer
<1> QED
    BY <1>1, Invariant, PTL

\* What UpdateChannelState last told the owner is true whenever no MSG_SORT
\* waits: no handler changes what the sort looks at without asking for one.
THEOREM StateIsCurrent == Spec => []ChannelStateCurrent
<1>1. Inv => ChannelStateCurrent
    BY DEF Inv, Current, ChannelStateCurrent, SortWaits
<1> QED
    BY <1>1, Invariant, PTL

=============================================================================
