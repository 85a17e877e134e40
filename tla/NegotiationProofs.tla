------------------------- MODULE NegotiationProofs -------------------------
(***************************************************************************)
(* Proofs about Negotiation for any number of requests, remote descriptions *)
(* and candidates, whatever may fail and however the identity is obtained.  *)
(***************************************************************************)
EXTENDS Negotiation, SequenceTheorems, TLAPS

USE ModesAssumption, FailuresAssumption, BoundsAssumption

RequestSet == [id : 1 .. MaxRequests, type : {"offer", "answer"}, restart : BOOLEAN]
MailSet == [k : {"success", "failed", "state", "generate"}, id : 0 .. MaxRequests, d : Descs]

ResultSet == [id : 0 .. MaxRequests, d : Descs]

\* A MSG_GENERATE_IDENTITY is the first message ever posted, so that the state
\* it changes is the one the constructor left.
GenerateOK ==
    \A i \in DOMAIN mail : mail[i].k = "generate" =>
        i = 1 /\ identity = "waiting" /\ ~pending

HistoryOK ==
    /\ accepted \subseteq Candidates /\ agreedIce \in Nat /\ halfApplied \in BOOLEAN
    /\ results \in Seq([id : 0 .. MaxRequests, d : Descs])
    /\ made \in [type : Types, basis : Types, owed : BOOLEAN, again : BOOLEAN,
                 fresh : BOOLEAN, answeredIce : Nat]

BaseInv == TypeOK /\ GenerateOK /\ HistoryOK

-----------------------------------------------------------------------------
(***************************************************************************)
(* What a step is.                                                          *)
(***************************************************************************)
\* What may fail is decided by a Boolean.
LEMMA MayType == \A f : May(f) \subseteq BOOLEAN
BY DEF May

\* Every step is one of the actions, with parameters of these types. An answer
\* that CreateAnswer does not refuse has an offer to answer.
LEMMA NextCases ==
    ASSUME BaseInv, Next
    PROVE  \/ \E r \in RequestSet, refused, fails \in BOOLEAN :
                /\ r.id = asked + 1
                /\ r.type = "answer" /\ ~refused => remote.type = "offer"
                /\ Create(r, refused, fails)
           \/ \E d \in LocalDescs : SetLocalDescriptionInPart(d)
           \/ \E d \in LocalDescs, bad \in BOOLEAN : SetLocalDescription(d, bad)
           \/ /\ remoteCount < MaxRemote /\ remoteCount' = remoteCount + 1
              /\ \/ \E d \in RemoteDescs : SetRemoteDescriptionInPart(d)
                 \/ \E d \in RemoteDescs, bad \in BOOLEAN : SetRemoteDescription(d, bad)
           \/ OnResult \/ OnGenerateIdentity \/ OnState
           \/ OnIdentityReady \/ OnIdentityRequestFailed
           \/ \E fails \in BOOLEAN : DrainRequest(fails)
           \/ Terminate
           \/ \E c \in Candidates : ProcessIceMessage(c)
<1>1. ASSUME NEW restart \in BOOLEAN, NEW bad \in May("options"), NEW fails \in May("create"),
             CreateOffer(restart, bad, fails)
      PROVE  \E r \in RequestSet, refused, f \in BOOLEAN :
                /\ r.id = asked + 1
                /\ r.type = "answer" /\ ~refused => remote.type = "offer"
                /\ Create(r, refused, f)
    <2> DEFINE r == [id |-> asked + 1, type |-> "offer", restart |-> restart]
    <2>1. asked < MaxRequests /\ asked \in 0 .. MaxRequests
        BY <1>1 DEF CreateOffer, Create, BaseInv, TypeOK
    <2>2. r \in RequestSet /\ r.id = asked + 1 /\ r.type # "answer"
        BY <2>1 DEF RequestSet
    <2>3. bad \in BOOLEAN /\ fails \in BOOLEAN
        BY MayType
    <2>4. Create(r, bad, fails)
        BY <1>1 DEF CreateOffer
    <2> HIDE DEF r
    <2> QED
        BY <2>2, <2>3, <2>4
<1>2. ASSUME NEW bad \in May("options"), NEW fails \in May("create"),
             CreateAnswer(bad, fails)
      PROVE  \E r \in RequestSet, refused, f \in BOOLEAN :
                /\ r.id = asked + 1
                /\ r.type = "answer" /\ ~refused => remote.type = "offer"
                /\ Create(r, refused, f)
    <2> DEFINE r == [id |-> asked + 1, type |-> "answer", restart |-> FALSE]
               refused == bad \/ remote.type # "offer"
    <2>1. asked < MaxRequests /\ asked \in 0 .. MaxRequests
        BY <1>2 DEF CreateAnswer, Create, BaseInv, TypeOK
    <2>2. r \in RequestSet /\ r.id = asked + 1
        BY <2>1 DEF RequestSet
    <2>3. bad \in BOOLEAN /\ fails \in BOOLEAN
        BY MayType
    <2>4. refused \in BOOLEAN /\ (~refused => remote.type = "offer")
        BY <2>3
    <2>5. Create(r, refused, fails)
        BY <1>2 DEF CreateAnswer
    <2> HIDE DEF r, refused
    <2> QED
        BY <2>2, <2>3, <2>4, <2>5
<1>3. May("content") \subseteq BOOLEAN /\ May("create") \subseteq BOOLEAN
    BY MayType
<1> QED
    BY <1>1, <1>2, <1>3, Zenon DEF Next, Requests, Local, Remote, OnMessage, Identity, Drain

-----------------------------------------------------------------------------
(***************************************************************************)
(* Type correctness.                                                        *)
(***************************************************************************)
\* The descriptions that a step may set are descriptions.
LEMMA DescTypes ==
    ASSUME BaseInv
    PROVE  /\ NoDesc \in Descs
           /\ \A d \in LocalDescs : d \in Descs
           /\ \A d \in RemoteDescs : d \in Descs /\ d.type # "none"
<1>1. NoDesc \in Descs
    BY DEF NoDesc, Desc, Descs, Types
<1>2. ASSUME NEW d \in LocalDescs PROVE d \in Descs
    <2>1. \A a \in Descs : [a EXCEPT !.type = "pranswer"] \in Descs
        BY DEF Descs, Types
    <2> QED
        BY <2>1 DEF LocalDescs, BaseInv, TypeOK
<1>3. ASSUME NEW d \in RemoteDescs PROVE d \in Descs /\ d.type # "none"
    <2>1. remoteCount + 1 \in Nat /\ remote.ice \in Nat
        BY DEF BaseInv, TypeOK, Descs
    <2>2. {remoteCount + 1} \cup ({remote.ice} \ {0}) \subseteq Nat
        BY <2>1
    <2> QED
        BY <2>2 DEF RemoteDescs, Descs, Types
<1> QED
    BY <1>1, <1>2, <1>3

\* Posting keeps the mail well formed.
LEMMA PostedType ==
    ASSUME BaseInv, NEW s, NEW m \in Seq(MailSet)
    PROVE  /\ Posted(s, m) \in Seq(MailSet)
           /\ Len(m) <= Len(Posted(s, m))
           /\ \A i \in 1 .. Len(m) : Posted(s, m)[i] = m[i]
           /\ \A i \in 1 .. Len(Posted(s, m)) : i > Len(m) => Posted(s, m)[i] = MsgState
<1>1. MsgState \in MailSet
    BY DescTypes DEF MsgState, Mail, MailSet
<1> QED
    BY <1>1, AppendProperties DEF Posted

\* A description that InternalCreate makes, and what it leaves.
LEMMA CreateType ==
    ASSUME BaseInv, NEW r \in RequestSet, NEW restart \in BOOLEAN, NEW fails \in BOOLEAN,
           InternalCreate(r, restart, fails)
    PROVE  /\ version' = version + 1 /\ nextIce' \in Nat
           /\ \E m \in MailSet :
                /\ mail' = Append(mail, m) /\ m.id = r.id
                /\ \/ m.k = "success" /\ m.d.ver = version /\ m.d.type = r.type
                   \/ m.k = "failed" /\ m.d = NoDesc
           /\ made' = IF fails THEN made ELSE Made(r.type, restart)
           /\ made' \in [type : Types, basis : Types, owed : BOOLEAN, again : BOOLEAN,
                         fresh : BOOLEAN, answeredIce : Nat]
<1> DEFINE d == Desc(r.type, version, IF Fresh(restart) THEN nextIce ELSE local.ice, {})
           m == IF fails THEN Failed(r.id) ELSE Mail("success", r.id, d)
<1>1. d \in Descs /\ d.type = r.type /\ d.ver = version
    BY DEF Desc, Descs, Types, BaseInv, TypeOK, RequestSet
<1>2. m \in MailSet /\ m.id = r.id /\ (\/ m.k = "success" /\ m.d = d
                                       \/ m.k = "failed" /\ m.d = NoDesc)
    BY <1>1, DescTypes DEF Failed, Mail, MailSet, RequestSet
<1>3. mail' = Append(mail, m)
    BY DEF InternalCreate
<1>4. Made(r.type, restart) \in [type : Types, basis : Types, owed : BOOLEAN, again : BOOLEAN,
                                 fresh : BOOLEAN, answeredIce : Nat]
    BY DEF Made, BaseInv, TypeOK, HistoryOK, Descs, Types, RequestSet, Fresh
<1>5. /\ version' = version + 1 /\ nextIce' \in Nat
      /\ made' = IF fails THEN made ELSE Made(r.type, restart)
    BY DEF InternalCreate, BaseInv, TypeOK
<1> HIDE DEF d, m
<1> QED
    BY <1>1, <1>2, <1>3, <1>4, <1>5 DEF BaseInv, HistoryOK

\* A new session satisfies the base invariant, whatever the identity mode.
LEMMA InitBase == Init => BaseInv
<1> SUFFICES ASSUME Init PROVE BaseInv
    OBVIOUS
<1>0. NoDesc \in Descs
    BY DEF NoDesc, Desc, Descs, Types
<1>1. PICK mode \in IdentityModes :
        /\ identity = CASE mode = "none" -> "not_needed"
                        [] mode = "refused" -> "failed"
                        [] OTHER -> "waiting"
        /\ pending = (mode = "service")
        /\ mail = IF mode = "generate" THEN <<Mail("generate", 0, NoDesc)>> ELSE <<>>
    BY DEF Init
<1>2. identity \in {"not_needed", "waiting", "succeeded", "failed"}
      /\ pending \in BOOLEAN /\ (pending => identity = "waiting")
    BY <1>1
<1>3. Mail("generate", 0, NoDesc) \in MailSet /\ Mail("generate", 0, NoDesc).k = "generate"
    BY <1>0 DEF Mail, MailSet
<1>4. mail \in Seq(MailSet) /\ GenerateOK
    <2>1. CASE mode = "generate"
        <3> DEFINE m == Mail("generate", 0, NoDesc)
        <3>1. mail = <<m>> /\ identity = "waiting" /\ ~pending
            BY <1>1, <2>1
        <3> HIDE DEF m
        <3>2. mail \in Seq(MailSet) /\ DOMAIN mail = 1 .. 1
            BY <1>3, <3>1 DEF m
        <3> QED
            BY <3>1, <3>2 DEF GenerateOK
    <2>2. CASE mode # "generate"
        <3>1. mail = <<>>
            BY <1>1, <2>2
        <3> QED
            BY <3>1 DEF GenerateOK
    <2> QED
        BY <2>1, <2>2
<1>5. TypeOK
    <2>1. requests \in Seq([id : 1 .. MaxRequests, type : {"offer", "answer"}, restart : BOOLEAN])
          /\ requests = <<>>
        BY DEF Init
    <2>2. /\ version \in Nat /\ nextIce \in Nat
          /\ asked \in 0 .. MaxRequests /\ remoteCount \in 0 .. MaxRemote
        BY DEF Init
    <2> QED
        BY <1>0, <1>2, <1>4, <2>1, <2>2, Zenon DEF Init, TypeOK, States, MailSet
<1>6. HistoryOK
    <2>1. results \in Seq([id : 0 .. MaxRequests, d : Descs])
        BY DEF Init
    <2>2. made \in [type : Types, basis : Types, owed : BOOLEAN, again : BOOLEAN,
                    fresh : BOOLEAN, answeredIce : Nat]
        BY DEF Init, Types
    <2> QED
        BY <2>1, <2>2 DEF Init, HistoryOK
<1> QED
    BY <1>4, <1>5, <1>6 DEF BaseInv

\* Every step preserves the base invariant. One step per action.
LEMMA NextBase == BaseInv /\ [Next]_vars => BaseInv'
<1> SUFFICES ASSUME BaseInv, [Next]_vars PROVE BaseInv'
    OBVIOUS
<1>m. mail \in Seq(MailSet) /\ requests \in Seq(RequestSet) /\ DOMAIN mail = 1 .. Len(mail)
    BY DEF BaseInv, TypeOK, MailSet, RequestSet
<1>a. ASSUME NEW m \in MailSet, m.k # "generate", mail' = Append(mail, m),
             UNCHANGED <<identity, pending>>
      PROVE  mail' \in Seq(MailSet) /\ GenerateOK'
    BY <1>a, <1>m, AppendProperties DEF BaseInv, GenerateOK
<1>p. ASSUME NEW s, mail' = Posted(s, mail), UNCHANGED <<identity, pending>>
      PROVE  mail' \in Seq(MailSet) /\ GenerateOK'
    BY <1>p, <1>m, PostedType DEF BaseInv, GenerateOK, MsgState, Mail
<1>1. ASSUME NEW r \in RequestSet, NEW refused \in BOOLEAN, NEW fails \in BOOLEAN,
             r.id = asked + 1, Create(r, refused, fails)
      PROVE  BaseInv'
    <2>0. Failed(r.id) \in MailSet /\ Failed(r.id).k = "failed"
        BY DescTypes DEF Failed, Mail, MailSet, RequestSet
    <2>1. asked' \in 0 .. MaxRequests
        BY <1>1 DEF Create, BaseInv, TypeOK
    <2> USE DEF BaseInv, TypeOK, HistoryOK, MailSet, RequestSet
    <2>2. CASE /\ mail' = Append(mail, Failed(r.id))
               /\ UNCHANGED <<requests, version, nextIce, latch, made>>
        BY <1>1, <1>a, <2>0, <2>1, <2>2 DEF Create, sessionVars
    <2>3. CASE /\ identity = "waiting" /\ requests' = Append(requests, r)
               /\ UNCHANGED <<mail, version, nextIce, latch, made>>
        <3>1. requests' \in Seq(RequestSet) /\ GenerateOK'
            BY <1>1, <1>m, <2>3, AppendProperties DEF Create, GenerateOK
        <3> QED
            BY <1>1, <2>1, <2>3, <3>1, SMTT(40) DEF Create, sessionVars
    <2>4. CASE InternalCreateDescription(r, fails) /\ UNCHANGED requests
        <3>1. latch' \in BOOLEAN /\ \E restart \in BOOLEAN : InternalCreate(r, restart, fails)
            BY <2>4 DEF InternalCreateDescription, InternalCreateOffer, InternalCreateAnswer
        <3>2. PICK m \in MailSet : mail' = Append(mail, m) /\ m.k # "generate"
            BY <3>1, CreateType, SMTT(40)
        <3>3. /\ version' \in Nat /\ nextIce' \in Nat
              /\ made' \in [type : Types, basis : Types, owed : BOOLEAN, again : BOOLEAN,
                            fresh : BOOLEAN, answeredIce : Nat]
            BY <3>1, CreateType, SMTT(40)
        <3>4. mail' \in Seq(MailSet) /\ GenerateOK'
            BY <1>1, <1>a, <3>2 DEF Create
        <3> QED
            BY <1>1, <2>1, <2>4, <3>1, <3>3, <3>4 DEF Create, sessionVars
    <2> HIDE DEF BaseInv, TypeOK, HistoryOK, MailSet, RequestSet
    <2> QED
        BY <1>1, <2>2, <2>3, <2>4 DEF Create
<1>2. ASSUME NEW d \in LocalDescs, SetLocalDescriptionInPart(d) PROVE BaseInv'
    BY <1>2, DescTypes DEF SetLocalDescriptionInPart, BaseInv, TypeOK, GenerateOK, HistoryOK, factoryVars
<1>3. ASSUME NEW d \in LocalDescs, NEW bad \in BOOLEAN, SetLocalDescription(d, bad) PROVE BaseInv'
    <2>1. mail' \in Seq(MailSet) /\ GenerateOK'
        BY <1>3, <1>p DEF SetLocalDescription, UpdateSessionState, factoryVars
    <2>2. remote' \in Descs /\ saved' \subseteq Candidates /\ used' \subseteq Candidates
        <3>1. [remote EXCEPT !.cands = @ \cup saved] \in Descs
            BY DEF BaseInv, TypeOK, Descs
        <3> QED
            BY <1>3, <3>1 DEF SetLocalDescription, StartCandidatesAllocation, CopySavedCandidates,
               UseCandidatesInSessionDescription, BaseInv, TypeOK, Descs
    <2>3. state' \in States
        BY <1>3 DEF SetLocalDescription, UpdateSessionState, ValidateSessionDescription,
           ExpectSetLocalDescription, LocalState, States
    <2>4. agreedIce' \in Nat
        BY <1>3 DEF SetLocalDescription, BaseInv, TypeOK, HistoryOK, Descs
    <2> QED
        BY <1>3, <2>1, <2>2, <2>3, <2>4, DescTypes
           DEF SetLocalDescription, UpdateSessionState, BaseInv, TypeOK, HistoryOK, MailSet, factoryVars
<1>4. ASSUME NEW d \in RemoteDescs, SetRemoteDescriptionInPart(d),
             remoteCount < MaxRemote, remoteCount' = remoteCount + 1
      PROVE  BaseInv'
    BY <1>4, DescTypes DEF SetRemoteDescriptionInPart, BaseInv, TypeOK, GenerateOK, HistoryOK, factoryVars
<1>5. ASSUME NEW d \in RemoteDescs, NEW bad \in BOOLEAN, SetRemoteDescription(d, bad),
             remoteCount < MaxRemote, remoteCount' = remoteCount + 1
      PROVE  BaseInv'
    <2>1. mail' \in Seq(MailSet) /\ GenerateOK'
        BY <1>5, <1>p DEF SetRemoteDescription, UpdateSessionState, factoryVars
    <2>0. d \in Descs
        BY DescTypes
    <2>2. remote' \in Descs /\ saved' \subseteq Candidates /\ used' \subseteq Candidates /\ latch' \in BOOLEAN
        <3>1. AllCandidates(d) \subseteq Candidates
            BY <2>0 DEF AllCandidates, CopySavedCandidates, BaseInv, TypeOK, Descs
        <3>2. [d EXCEPT !.cands = AllCandidates(d)] \in Descs
            BY <2>0, <3>1 DEF Descs
        <3> QED
            BY <1>5, <2>0, <3>2 DEF SetRemoteDescription, UseCandidatesInSessionDescription,
               CheckForRemoteIceRestart, BaseInv, TypeOK, Descs
    <2>3. state' \in States
        BY <1>5 DEF SetRemoteDescription, UpdateSessionState, ValidateSessionDescription,
           ExpectSetRemoteDescription, RemoteState, States
    <2>4. agreedIce' \in Nat
        BY <1>5, <2>0 DEF SetRemoteDescription, BaseInv, TypeOK, HistoryOK, Descs
    <2> QED
        BY <1>5, <2>0, <2>1, <2>2, <2>3, <2>4, SMTT(40)
           DEF SetRemoteDescription, UpdateSessionState, BaseInv, TypeOK, HistoryOK, MailSet, factoryVars
<1>t. ASSUME mail # <<>> PROVE /\ Tail(mail) \in Seq(MailSet) /\ Head(mail) = mail[1]
                               /\ Head(mail) \in MailSet
                               /\ \A i \in 1 .. Len(Tail(mail)) : Tail(mail)[i].k # "generate"
    BY <1>t, <1>m DEF BaseInv, GenerateOK
<1>6. CASE OnResult
    <2>1. mail # <<>> /\ Head(mail).k # "generate"
        BY <1>6 DEF OnResult, NextMail
    <2>2. mail' \in Seq(MailSet) /\ GenerateOK'
        BY <1>6, <1>t, <2>1 DEF OnResult, GenerateOK, factoryVars
    <2>3. results' \in Seq([id : 0 .. MaxRequests, d : Descs]) /\ hands' \subseteq Descs
        <3>1. Head(mail).d \in Descs /\ Head(mail).id \in 0 .. MaxRequests
            BY <1>t, <2>1 DEF MailSet
        <3>2. [id |-> Head(mail).id, d |-> Head(mail).d] \in [id : 0 .. MaxRequests, d : Descs]
            BY <3>1
        <3> QED
            BY <1>6, <3>1, <3>2, AppendProperties DEF OnResult, BaseInv, TypeOK, HistoryOK
    <2> QED
        BY <1>6, <2>2, <2>3 DEF OnResult, BaseInv, TypeOK, HistoryOK, MailSet, factoryVars, sessionVars
<1>7. CASE OnGenerateIdentity
    <2>1. mail # <<>> /\ Head(mail).k = "generate"
        BY <1>7 DEF OnGenerateIdentity, NextMail
    <2>2. identity = "waiting" /\ ~pending
        BY <1>m, <1>t, <2>1 DEF BaseInv, GenerateOK
    <2>3. mail' \in Seq(MailSet) /\ GenerateOK'
        BY <1>7, <1>t, <2>1 DEF OnGenerateIdentity, GenerateOK
    <2> QED
        BY <1>7, <2>2, <2>3 DEF OnGenerateIdentity, BaseInv, TypeOK, HistoryOK, MailSet, sessionVars, history
<1>8. CASE OnState
    <2>1. mail # <<>>
        BY <1>8 DEF OnState, NextMail
    <2>2. mail' = Posted(state', Tail(mail)) /\ Tail(mail) \in Seq(MailSet)
        BY <1>8, <1>t, <2>1 DEF OnState
    <2>3. mail' \in Seq(MailSet)
        BY <2>2, PostedType
    <2> DEFINE tail == Tail(mail)
    <2>a. /\ \A i \in 1 .. Len(tail) : tail[i].k # "generate"
          /\ \A i \in 1 .. Len(tail) : mail'[i] = tail[i]
          /\ \A i \in 1 .. Len(mail') : i > Len(tail) => mail'[i] = MsgState
        <3>1. \A i \in 1 .. Len(tail) : tail[i].k # "generate"
            BY <1>t, <2>1
        <3>2. mail' = Posted(state', tail) /\ tail \in Seq(MailSet)
            BY <2>2
        <3> HIDE DEF tail
        <3> QED
            BY <3>1, <3>2, PostedType
    <2>b. Len(tail) \in Nat /\ Len(mail') \in Nat /\ MsgState.k # "generate"
        BY <2>2, <2>3 DEF MsgState, Mail
    <2> HIDE DEF tail
    <2>4. \A i \in 1 .. Len(mail') : mail'[i].k # "generate"
        BY <2>a, <2>b
    <2>5. GenerateOK'
        BY <2>3, <2>4 DEF GenerateOK
    <2> QED
        BY <1>8, <2>3, <2>5 DEF OnState, BaseInv, TypeOK, HistoryOK, MailSet, States, factoryVars, history
<1>9. CASE OnIdentityReady
    BY <1>9, ZenonT(40) DEF OnIdentityReady, BaseInv, TypeOK, HistoryOK, GenerateOK, sessionVars, history
<1>10. CASE OnIdentityRequestFailed
    <2> DEFINE f == [i \in DOMAIN requests |-> Failed(requests[i].id)]
    <2>1. f \in Seq(MailSet) /\ \A i \in 1 .. Len(f) : f[i].k = "failed"
        <3>1. ASSUME NEW i \in 1 .. Len(requests) PROVE Failed(requests[i].id) \in MailSet
            <4>1. requests[i] \in RequestSet
                BY <1>m
            <4> QED
                BY <4>1, DescTypes DEF Failed, Mail, MailSet, RequestSet
        <3>2. DOMAIN requests = 1 .. Len(requests) /\ Len(requests) \in Nat
            BY <1>m
        <3>3. f \in Seq(MailSet)
            BY <3>1, <3>2
        <3> QED
            BY <3>2, <3>3 DEF Failed, Mail
    <2>2. mail' = mail \o f /\ pending
        BY <1>10 DEF OnIdentityRequestFailed
    <2> HIDE DEF f
    <2>3. mail' \in Seq(MailSet)
        BY <1>m, <2>1, <2>2
    <2>4. \A i \in 1 .. Len(mail) : mail[i].k # "generate"
        BY <1>m, <2>2 DEF BaseInv, GenerateOK
    <2>5. \A i \in 1 .. Len(mail') : mail'[i].k # "generate"
        BY <1>m, <2>1, <2>2, <2>4, ConcatProperties
    <2>6. GenerateOK'
        BY <2>3, <2>5 DEF GenerateOK
    <2>7. requests' \in Seq(RequestSet) /\ requests' = <<>>
        BY <1>10 DEF OnIdentityRequestFailed
    <2> QED
        BY <1>10, <2>3, <2>6, <2>7, ZenonT(40) DEF OnIdentityRequestFailed, BaseInv, TypeOK, HistoryOK, MailSet,
           RequestSet, sessionVars, history
<1>11. ASSUME NEW fails \in BOOLEAN, DrainRequest(fails) PROVE BaseInv'
    <2>0. requests # <<>> /\ Head(requests) \in RequestSet /\ requests' \in Seq(RequestSet)
        BY <1>11, <1>m DEF DrainRequest, Draining
    <2>1. latch' \in BOOLEAN /\ \E restart \in BOOLEAN : InternalCreate(Head(requests), restart, fails)
        BY <1>11, <2>0 DEF DrainRequest, InternalCreateDescription, InternalCreateOffer,
           InternalCreateAnswer, BaseInv, TypeOK, RequestSet
    <2>2. PICK m \in MailSet : mail' = Append(mail, m) /\ m.k # "generate"
        BY <2>0, <2>1, CreateType
    <2>3. /\ version' \in Nat /\ nextIce' \in Nat
          /\ made' \in [type : Types, basis : Types, owed : BOOLEAN, again : BOOLEAN,
                        fresh : BOOLEAN, answeredIce : Nat]
        BY <2>0, <2>1, CreateType, SMTT(40) DEF BaseInv, TypeOK
    <2>4. mail' \in Seq(MailSet) /\ GenerateOK'
        BY <1>11, <1>a, <2>2 DEF DrainRequest
    <2> QED
        BY <1>11, <2>0, <2>1, <2>3, <2>4 DEF DrainRequest, Draining, BaseInv, TypeOK, HistoryOK, MailSet,
           RequestSet, sessionVars
<1>12. CASE Terminate
    <2>1. mail' \in Seq(MailSet) /\ GenerateOK'
        BY <1>12, <1>p DEF Terminate, factoryVars
    <2> QED
        BY <1>12, <2>1, ZenonT(40) DEF Terminate, DestroyTransports, BaseInv, TypeOK, HistoryOK, MailSet, States,
           factoryVars, history
<1>13. ASSUME NEW c \in Candidates, ProcessIceMessage(c) PROVE BaseInv'
    <2>1. [remote EXCEPT !.cands = @ \cup {c}] \in Descs
        BY DEF BaseInv, TypeOK, Descs
    <2> QED
        BY <1>13, <2>1, ZenonT(40) DEF ProcessIceMessage, UseCandidate, BaseInv, TypeOK, GenerateOK, HistoryOK,
           factoryVars
<1>14. CASE UNCHANGED vars
    BY <1>14 DEF vars, factoryVars, sessionVars, history, BaseInv, TypeOK, GenerateOK, HistoryOK
<1> QED
    BY NextCases, <1>1, <1>2, <1>3, <1>4, <1>5, <1>6, <1>7, <1>8, <1>9, <1>10, <1>11, <1>12, <1>13, <1>14

\* The types, the fate of queued requests (there are some only while they may
\* still be served) and of the identity request, for any number of steps.
THEOREM TypeCorrect == Spec => []TypeOK
<1>1. BaseInv => TypeOK
    BY DEF BaseInv
<1> QED
    BY <1>1, InitBase, NextBase, PTL DEF Spec

-----------------------------------------------------------------------------
(***************************************************************************)
(* The state and the descriptions.                                          *)
(***************************************************************************)
\* Every step either leaves the session alone (the factory's steps, and the
\* results that are handed out) or is one of the session's actions.
LEMMA SessionCases ==
    ASSUME BaseInv, [Next]_vars
    PROVE  \/ UNCHANGED <<sessionVars, accepted, agreedIce, halfApplied>>
           \/ \E d \in LocalDescs : SetLocalDescriptionInPart(d)
           \/ \E d \in LocalDescs, bad \in BOOLEAN : SetLocalDescription(d, bad)
           \/ \E d \in RemoteDescs : SetRemoteDescriptionInPart(d)
           \/ \E d \in RemoteDescs, bad \in BOOLEAN : SetRemoteDescription(d, bad)
           \/ OnState \/ Terminate
           \/ \E c \in Candidates : ProcessIceMessage(c)
BY NextCases DEF vars, history, Create, OnResult, OnGenerateIdentity, OnIdentityReady,
   OnIdentityRequestFailed, DrainRequest

\* What the states say about the two descriptions and the transport, for a
\* session in which no call failed half way.
StateInv ==
    ~halfApplied =>
        /\ state = "sentinitiate" => local.type = "offer"
        /\ state = "receivedinitiate" => remote.type = "offer" /\ rdSet
        /\ state = "sentpraccept" => /\ local.type = "pranswer" /\ remote.type = "offer"
                                     /\ ldSet /\ rdSet
        /\ state = "receivedpraccept" => local.type = "offer" /\ remote.type = "pranswer"
        /\ state = "sentaccept" => /\ local.type = "answer" /\ remote.type = "offer"
                                   /\ ldSet /\ rdSet
        /\ state = "receivedaccept" => local.type = "offer" /\ remote.type = "answer"
        /\ state = "inprogress" => \/ local.type = "offer" /\ remote.type = "answer"
                                   \/ local.type = "answer" /\ remote.type = "offer"
        /\ baseRemote.type = remote.type

\* Setting the local description changes of the remote one only the candidates.
LEMMA LocalKeepsRemote ==
    ASSUME BaseInv, NEW d, NEW bad \in BOOLEAN, SetLocalDescription(d, bad)
    PROVE  remote'.type = remote.type /\ remote'.ice = remote.ice
BY DEF SetLocalDescription, StartCandidatesAllocation, CopySavedCandidates, BaseInv, TypeOK, Descs

\* Every step preserves it.
LEMMA NextState == BaseInv /\ StateInv /\ [Next]_vars => StateInv'
<1> SUFFICES ASSUME BaseInv, StateInv, [Next]_vars PROVE StateInv'
    OBVIOUS
<1> USE DEF StateInv
<1>1. CASE UNCHANGED <<sessionVars, accepted, agreedIce, halfApplied>>
    BY <1>1 DEF sessionVars
<1>2. ASSUME NEW d \in LocalDescs, SetLocalDescriptionInPart(d) PROVE StateInv'
    BY <1>2 DEF SetLocalDescriptionInPart
<1>3. ASSUME NEW d \in LocalDescs, NEW bad \in BOOLEAN, SetLocalDescription(d, bad) PROVE StateInv'
    <2>1. SUFFICES ASSUME ~halfApplied' PROVE StateInv'
        OBVIOUS
    <2>2. ~halfApplied /\ ~bad
        BY <1>3, <2>1 DEF SetLocalDescription, BaseInv, HistoryOK
    <2>3. remote'.type = remote.type
        BY <1>3, LocalKeepsRemote
    <2> QED
        BY <1>3, <2>2, <2>3 DEF SetLocalDescription, UpdateSessionState, LocalState,
           ValidateSessionDescription, ExpectSetLocalDescription
<1>4. ASSUME NEW d \in RemoteDescs, SetRemoteDescriptionInPart(d) PROVE StateInv'
    BY <1>4 DEF SetRemoteDescriptionInPart
<1>5. ASSUME NEW d \in RemoteDescs, NEW bad \in BOOLEAN, SetRemoteDescription(d, bad) PROVE StateInv'
    <2>1. SUFFICES ASSUME ~halfApplied' PROVE StateInv'
        OBVIOUS
    <2>2. ~halfApplied /\ ~bad
        BY <1>5, <2>1 DEF SetRemoteDescription, BaseInv, HistoryOK
    <2>3. remote'.type = d.type /\ baseRemote'.type = d.type /\ rdSet'
        BY <1>5, <2>2, DescTypes DEF SetRemoteDescription, Descs
    <2> QED
        BY <1>5, <2>2, <2>3 DEF SetRemoteDescription, UpdateSessionState, RemoteState,
           ValidateSessionDescription, ExpectSetRemoteDescription
<1>6. CASE OnState
    BY <1>6 DEF OnState, history
<1>7. CASE Terminate
    BY <1>7 DEF Terminate, history
<1>8. ASSUME NEW c \in Candidates, ProcessIceMessage(c) PROVE StateInv'
    BY <1>8 DEF ProcessIceMessage, BaseInv, TypeOK, Descs
<1> HIDE DEF StateInv
<1> QED
    BY SessionCases, <1>1, <1>2, <1>3, <1>4, <1>5, <1>6, <1>7, <1>8

\* The state of the session and the types of its two descriptions fit together,
\* however calls, posted state changes and candidates interleave.
THEOREM DescriptionsFit == Spec => []DescriptionsFollowState
<1>1. Init => StateInv
    BY DEF Init, StateInv
<1>2. StateInv => DescriptionsFollowState
    BY DEF StateInv, DescriptionsFollowState
<1> QED
    BY <1>1, <1>2, InitBase, NextBase, NextState, PTL DEF Spec

-----------------------------------------------------------------------------
(***************************************************************************)
(* Answers that wait for the identity.                                      *)
(***************************************************************************)
\* While requests wait there is no description to set, so that the session is
\* where it was or has a remote offer: what CreateAnswer looked at still holds.
WaitInv ==
    /\ identity = "waiting" \/ requests # <<>> =>
          /\ hands = {} /\ local = NoDesc
          /\ state \in {"init", "receivedinitiate", "receivedterminate"}
    /\ identity = "waiting" => \A i \in DOMAIN mail : mail[i].k # "success"
    /\ \A i \in DOMAIN requests : requests[i].type = "answer" => remote.type = "offer"

\* A description that can be set exists only once the identity is there.
LEMMA NextWait == BaseInv /\ WaitInv /\ [Next]_vars => WaitInv'
<1> SUFFICES ASSUME BaseInv, WaitInv, [Next]_vars PROVE WaitInv'
    OBVIOUS
<1>m. mail \in Seq(MailSet) /\ requests \in Seq(RequestSet)
    BY DEF BaseInv, TypeOK, MailSet, RequestSet
<1>q. requests # <<>> => identity = "waiting" \/ Draining
    BY DEF BaseInv, TypeOK, Draining
<1>n. NoDesc.type = "none" /\ Failed(0).k = "failed" /\ MsgState.k = "state"
    BY DEF NoDesc, Desc, Failed, Mail, MsgState
<1> USE DEF WaitInv
<1>1. ASSUME NEW r \in RequestSet, NEW refused \in BOOLEAN, NEW fails \in BOOLEAN,
             r.type = "answer" /\ ~refused => remote.type = "offer", Create(r, refused, fails)
      PROVE  WaitInv'
    <2>1. CASE mail' = Append(mail, Failed(r.id)) /\ UNCHANGED requests
        <3>1. Failed(r.id) \in MailSet /\ Failed(r.id).k = "failed"
            BY DescTypes DEF Failed, Mail, MailSet, RequestSet
        <3>2. identity = "waiting" => \A i \in DOMAIN mail' : mail'[i].k # "success"
            BY <1>m, <2>1, <3>1, AppendProperties
        <3> QED
            BY <1>1, <2>1, <3>2 DEF Create, sessionVars
    <2>2. CASE identity = "waiting" /\ ~refused /\ requests' = Append(requests, r) /\ UNCHANGED mail
        <3>1. \A i \in DOMAIN requests' : requests'[i].type = "answer" => remote.type = "offer"
            BY <1>1, <1>m, <2>2, AppendProperties
        <3> QED
            BY <1>1, <2>2, <3>1 DEF Create, sessionVars
    <2>3. CASE identity \in {"succeeded", "not_needed"} /\ UNCHANGED requests
        <3>1. requests = <<>>
            BY <1>1, <1>q, <2>3 DEF Create
        <3> QED
            BY <1>1, <2>3, <3>1 DEF Create, sessionVars
    <2> QED
        BY <1>1, <2>1, <2>2, <2>3 DEF Create
<1>l. LocalDescs # {} => identity # "waiting" /\ requests = <<>>
    BY DEF LocalDescs
<1>2. ASSUME NEW d \in LocalDescs, SetLocalDescriptionInPart(d) PROVE WaitInv'
    BY <1>2, <1>l DEF SetLocalDescriptionInPart, factoryVars
<1>3. ASSUME NEW d \in LocalDescs, NEW bad \in BOOLEAN, SetLocalDescription(d, bad) PROVE WaitInv'
    BY <1>3, <1>l DEF SetLocalDescription, factoryVars
<1>4. ASSUME NEW d \in RemoteDescs, SetRemoteDescriptionInPart(d) PROVE WaitInv'
    BY <1>4 DEF SetRemoteDescriptionInPart, factoryVars
<1>5. ASSUME NEW d \in RemoteDescs, NEW bad \in BOOLEAN, SetRemoteDescription(d, bad) PROVE WaitInv'
    <2>1. CASE identity = "waiting"
        <3>1. d.type = "offer"
            BY <1>5, <2>1 DEF SetRemoteDescription, ValidateSessionDescription,
               ExpectSetRemoteDescription
        <3>2. remote'.type = "offer" \/ remote' = remote
            BY <1>5, <3>1, DescTypes DEF SetRemoteDescription, Descs
        <3>3. state' = "receivedinitiate" /\ mail' = Posted(state', mail)
            BY <1>5, <3>1 DEF SetRemoteDescription, UpdateSessionState, RemoteState
        <3>4. \A i \in DOMAIN mail' : mail'[i].k # "success"
            <4>1. /\ mail' \in Seq(MailSet) /\ \A i \in 1 .. Len(mail) : mail'[i] = mail[i]
                  /\ \A i \in 1 .. Len(mail') : i > Len(mail) => mail'[i] = MsgState
                BY <1>m, <3>3, PostedType
            <4> QED
                BY <1>m, <1>n, <2>1, <4>1
        <3> QED
            BY <1>5, <2>1, <3>2, <3>3, <3>4 DEF SetRemoteDescription, factoryVars
    <2>2. CASE identity # "waiting"
        BY <1>5, <1>q, <2>2 DEF SetRemoteDescription, ValidateSessionDescription, factoryVars
    <2> QED
        BY <2>1, <2>2
<1>6. CASE OnResult
    <2>1. mail # <<>> /\ ~Draining
        BY <1>6 DEF OnResult, NextMail
    <2>2. identity = "waiting" => Head(mail).k # "success"
        BY <1>m, <2>1
    <2>3. identity = "waiting" => \A i \in DOMAIN mail' : mail'[i].k # "success"
        BY <1>6, <1>m, <2>1 DEF OnResult
    <2> QED
        BY <1>6, <1>q, <2>1, <2>2, <2>3 DEF OnResult, factoryVars, sessionVars
<1>7. CASE OnGenerateIdentity
    BY <1>7, <1>q DEF OnGenerateIdentity, NextMail, sessionVars
<1>8. CASE OnState
    <2>1. mail # <<>> /\ ~Draining
        BY <1>8 DEF OnState, NextMail
    <2>2. identity = "waiting" => \A i \in DOMAIN mail' : mail'[i].k # "success"
        <3> DEFINE tail == Tail(mail)
        <3>1. mail' = Posted(state', tail) /\ tail \in Seq(MailSet)
            BY <1>8, <1>m, <2>1 DEF OnState
        <3>2. identity = "waiting" => \A i \in 1 .. Len(tail) : tail[i].k # "success"
            BY <1>m, <2>1
        <3> HIDE DEF tail
        <3>3. /\ mail' \in Seq(MailSet) /\ \A i \in 1 .. Len(tail) : mail'[i] = tail[i]
              /\ \A i \in 1 .. Len(mail') : i > Len(tail) => mail'[i] = MsgState
            BY <3>1, PostedType
        <3> QED
            BY <1>n, <3>1, <3>2, <3>3
    <2> QED
        BY <1>8, <1>q, <2>1, <2>2 DEF OnState, factoryVars
<1>9. CASE OnIdentityReady
    BY <1>9, <1>q DEF OnIdentityReady, sessionVars
<1>10. CASE OnIdentityRequestFailed
    BY <1>10, <1>q DEF OnIdentityRequestFailed, sessionVars
<1>11. ASSUME NEW fails \in BOOLEAN, DrainRequest(fails) PROVE WaitInv'
    <2>1. requests # <<>> /\ requests' = Tail(requests) /\ identity' = "succeeded"
        BY <1>11 DEF DrainRequest, Draining
    <2>2. \A i \in DOMAIN requests' : requests'[i].type = "answer" => remote.type = "offer"
        BY <1>m, <2>1
    <2> QED
        BY <1>11, <2>1, <2>2 DEF DrainRequest, sessionVars
<1>12. CASE Terminate
    <2>1. \A i \in DOMAIN mail' : \/ i \in DOMAIN mail /\ mail'[i] = mail[i]
                                  \/ mail'[i] = MsgState
        <3>1. /\ mail' \in Seq(MailSet) /\ \A i \in 1 .. Len(mail) : mail'[i] = mail[i]
              /\ \A i \in 1 .. Len(mail') : i > Len(mail) => mail'[i] = MsgState
            BY <1>12, <1>m, PostedType DEF Terminate
        <3> QED
            BY <1>m, <3>1
    <2> QED
        BY <1>12, <1>n, <2>1 DEF Terminate, factoryVars
<1>13. ASSUME NEW c \in Candidates, ProcessIceMessage(c) PROVE WaitInv'
    BY <1>13 DEF ProcessIceMessage, factoryVars, BaseInv, TypeOK, Descs
<1>14. CASE UNCHANGED vars
    BY <1>14 DEF vars, factoryVars, sessionVars
<1> HIDE DEF WaitInv
<1> QED
    BY NextCases, <1>1, <1>2, <1>3, <1>4, <1>5, <1>6, <1>7, <1>8, <1>9, <1>10, <1>11, <1>12, <1>13, <1>14

\* What a step does to the last description made and to the latch: nothing, or
\* it makes a description, and then an answer is one to a remote offer, or it
\* sets the remote description.
LEMMA MadeCases ==
    ASSUME BaseInv, WaitInv, [Next]_vars
    PROVE  \/ UNCHANGED <<made, latch>>
           \/ /\ UNCHANGED <<sessionVars, agreedIce, halfApplied>>
              /\ \/ \E restart \in BOOLEAN : made' = Made("offer", restart) /\ latch' = latch
                 \/ remote.type = "offer" /\ made' = Made("answer", latch) /\ latch' = FALSE
           \/ made' = made /\ \E d \in RemoteDescs, bad \in BOOLEAN : SetRemoteDescription(d, bad)
<1> DEFINE G == \/ UNCHANGED <<made, latch>>
                \/ \E restart \in BOOLEAN : made' = Made("offer", restart) /\ latch' = latch
                \/ remote.type = "offer" /\ made' = Made("answer", latch) /\ latch' = FALSE
<1>1. ASSUME NEW r \in RequestSet, NEW fails \in BOOLEAN,
             r.type = "answer" => remote.type = "offer", InternalCreateDescription(r, fails)
      PROVE  G
    <2>1. CASE r.type = "offer"
        BY <1>1, <2>1 DEF InternalCreateDescription, InternalCreateOffer, InternalCreate, RequestSet
    <2>2. CASE r.type = "answer"
        BY <1>1, <2>2 DEF InternalCreateDescription, InternalCreateAnswer, InternalCreate, BaseInv, TypeOK
    <2> QED
        BY <2>1, <2>2 DEF RequestSet
<1> HIDE DEF G
<1>2. ASSUME NEW r \in RequestSet, NEW refused \in BOOLEAN, NEW fails \in BOOLEAN,
             r.type = "answer" /\ ~refused => remote.type = "offer", Create(r, refused, fails)
      PROVE  G /\ UNCHANGED <<sessionVars, agreedIce, halfApplied>>
    BY <1>1, <1>2 DEF Create, G
<1>3. ASSUME NEW fails \in BOOLEAN, DrainRequest(fails)
      PROVE  G /\ UNCHANGED <<sessionVars, agreedIce, halfApplied>>
    <2>1. requests \in Seq(RequestSet) /\ requests # <<>>
        BY <1>3 DEF DrainRequest, Draining, BaseInv, TypeOK, RequestSet
    <2>2. Head(requests) = requests[1] /\ 1 \in DOMAIN requests /\ Head(requests) \in RequestSet
        BY <2>1
    <2>3. Head(requests).type = "answer" => remote.type = "offer"
        BY <2>2 DEF WaitInv
    <2> QED
        BY <1>1, <1>3, <2>2, <2>3 DEF DrainRequest
<1> QED
    BY NextCases, <1>2, <1>3, ZenonT(40) DEF G, vars, history, SetLocalDescriptionInPart, SetLocalDescription,
       SetRemoteDescriptionInPart, SetRemoteDescription, OnResult, OnGenerateIdentity, OnState,
       OnIdentityReady, OnIdentityRequestFailed, Terminate, ProcessIceMessage

\* An answer is made from an offer, however long its request has waited for the
\* identity and whatever was set in the meantime.
THEOREM AnswersAnswerOffers == Spec => []AnswerIsToAnOffer
<1>1. Init => WaitInv /\ StateInv /\ AnswerIsToAnOffer
    <2> SUFFICES ASSUME Init PROVE WaitInv /\ StateInv /\ AnswerIsToAnOffer
        OBVIOUS
    <2>1. \A i \in DOMAIN mail : mail[i].k # "success"
        BY DEF Init, Mail
    <2> QED
        BY <2>1 DEF Init, WaitInv, StateInv, AnswerIsToAnOffer
<1>2. BaseInv /\ StateInv /\ WaitInv /\ AnswerIsToAnOffer /\ [Next]_vars => AnswerIsToAnOffer'
    <2> SUFFICES ASSUME BaseInv, StateInv, WaitInv, AnswerIsToAnOffer, [Next]_vars, ~halfApplied'
                 PROVE  AnswerIsToAnOffer'
        BY DEF AnswerIsToAnOffer
    <2>1. ~halfApplied
        BY SessionCases DEF SetLocalDescriptionInPart, SetLocalDescription, SetRemoteDescriptionInPart,
           SetRemoteDescription, OnState, Terminate, ProcessIceMessage, history, BaseInv, HistoryOK
    <2>2. \A restart : made' = Made("offer", restart) => made'.type = "offer"
        BY DEF Made
    <2>3. remote.type = "offer" /\ made' = Made("answer", latch) => made'.basis = "offer"
        BY <2>1 DEF Made, StateInv
    <2> QED
        BY <2>1, <2>2, <2>3, MadeCases DEF AnswerIsToAnOffer
<1> QED
    BY <1>1, <1>2, InitBase, NextBase, NextState, NextWait, PTL DEF Spec

-----------------------------------------------------------------------------
(***************************************************************************)
(* ICE restarts.                                                            *)
(***************************************************************************)
\* The credentials that the last finished negotiation agreed on, in the states
\* of a session that takes descriptions; and an offer that has brought others
\* has left its mark in the latch, unless an answer was made for them already.
RestartInv ==
    /\ remote.type = "none" => remote = NoDesc /\ agreedIce = 0
    /\ ~error =>
          /\ state = "init" => remote.type = "none"
          /\ state \in {"receivedinitiate", "sentpraccept"} => remote.type = "offer"
          /\ state = "receivedpraccept" => remote.type = "pranswer"
          /\ state \in {"sentaccept", "receivedaccept", "inprogress"} =>
                remote.type \in {"offer", "answer"} /\ agreedIce = remote.ice
          /\ state = "sentinitiate" /\ remote.type # "none" => agreedIce = remote.ice
    /\ remote.type = "offer" /\ agreedIce # 0 =>
          latch \/ made.answeredIce = remote.ice \/ agreedIce = remote.ice

\* Every step preserves it.
LEMMA NextRestart == BaseInv /\ WaitInv /\ RestartInv /\ [Next]_vars => RestartInv'
<1> SUFFICES ASSUME BaseInv, WaitInv, RestartInv, [Next]_vars PROVE RestartInv'
    OBVIOUS
<1>t. /\ remote \in Descs /\ NoDesc.type = "none" /\ NoDesc.ice = 0
      /\ latch \in BOOLEAN /\ error \in BOOLEAN /\ agreedIce \in Nat
    BY DEF BaseInv, TypeOK, HistoryOK, NoDesc, Desc
<1> USE DEF RestartInv
<1>1. CASE UNCHANGED <<sessionVars, accepted, agreedIce, halfApplied>>
    <2>1. CASE UNCHANGED <<made, latch>>
        BY <1>1, <2>1 DEF sessionVars
    <2>2. ASSUME NEW restart \in BOOLEAN, made' = Made("offer", restart), latch' = latch
          PROVE RestartInv'
        <3>1. made'.answeredIce = made.answeredIce
            BY <2>2 DEF Made
        <3> QED
            BY <1>1, <2>2, <3>1 DEF sessionVars
    <2>3. CASE made' = Made("answer", latch)
        <3>1. made'.answeredIce = remote.ice
            BY <2>3 DEF Made
        <3> QED
            BY <1>1, <3>1 DEF sessionVars
    <2>4. ASSUME NEW d \in RemoteDescs, NEW bad \in BOOLEAN, SetRemoteDescription(d, bad),
                 made' = made
          PROVE RestartInv'
        <3>1. (bad /\ UNCHANGED latch) \/ (~bad /\ remote' = remote /\ latch' = CheckForRemoteIceRestart(d))
            BY <1>1, <2>4 DEF SetRemoteDescription, sessionVars
        <3> QED
            BY <1>1, <2>4, <3>1 DEF sessionVars, CheckForRemoteIceRestart
    <2> QED
        BY MadeCases, <2>1, <2>2, <2>3, <2>4
<1>2. ASSUME NEW d \in LocalDescs, SetLocalDescriptionInPart(d) PROVE RestartInv'
    BY <1>2 DEF SetLocalDescriptionInPart
<1>3. ASSUME NEW d \in LocalDescs, NEW bad \in BOOLEAN, SetLocalDescription(d, bad) PROVE RestartInv'
    <2>1. remote'.type = remote.type /\ remote'.ice = remote.ice
        BY <1>3, LocalKeepsRemote
    <2>2. remote = NoDesc => remote' = remote
        BY <1>3 DEF SetLocalDescription, StartCandidatesAllocation
    <2>3. /\ ~error /\ ExpectSetLocalDescription(d.type) /\ error' = bad
          /\ state' = LocalState[d.type] /\ UNCHANGED <<latch, made>>
          /\ agreedIce' = IF d.type = "answer" /\ ~bad THEN remote.ice ELSE agreedIce
        BY <1>3 DEF SetLocalDescription, UpdateSessionState, ValidateSessionDescription
    <2> QED
        BY <1>t, <2>1, <2>2, <2>3 DEF ExpectSetLocalDescription, LocalState
<1>4. ASSUME NEW d \in RemoteDescs, SetRemoteDescriptionInPart(d) PROVE RestartInv'
    BY <1>4 DEF SetRemoteDescriptionInPart
<1>5. ASSUME NEW d \in RemoteDescs, NEW bad \in BOOLEAN, SetRemoteDescription(d, bad) PROVE RestartInv'
    <2>1. /\ ~error /\ ExpectSetRemoteDescription(d.type) /\ error' = bad
          /\ state' = RemoteState[d.type] /\ made' = made
          /\ agreedIce' = IF d.type = "answer" /\ ~bad THEN d.ice ELSE agreedIce
        BY <1>5 DEF SetRemoteDescription, UpdateSessionState, ValidateSessionDescription
    <2>2. d.type \in {"offer", "pranswer", "answer"} /\ d \in Descs
        BY DescTypes DEF RemoteDescs
    <2>3. CASE bad
        <3>1. UNCHANGED <<remote, latch, agreedIce>>
            BY <1>5, <2>3 DEF SetRemoteDescription
        <3> QED
            BY <2>1, <2>3, <3>1
    <2>4. CASE ~bad
        <3>1. remote'.type = d.type /\ remote'.ice = d.ice /\ latch' = CheckForRemoteIceRestart(d)
            BY <1>5, <2>2, <2>4 DEF SetRemoteDescription, Descs
        <3>2. d.type = "offer" => remote.type = "none" \/ remote.type = "offer" \/ agreedIce = remote.ice
            BY <2>1 DEF ExpectSetRemoteDescription
        <3>3. d.type = "offer" /\ remote.type # "none" /\ d.ice # remote.ice => latch'
            BY <1>t, <3>1 DEF CheckForRemoteIceRestart
        <3>4. latch => latch'
            BY <3>1 DEF CheckForRemoteIceRestart
        <3>5. d.type = "offer" /\ agreedIce # 0 =>
                  latch' \/ made'.answeredIce = d.ice \/ agreedIce = d.ice
            BY <2>1, <3>2, <3>3, <3>4
        <3>6. d.type = "offer" => state' = "receivedinitiate" /\ agreedIce' = agreedIce
            BY <2>1 DEF RemoteState
        <3>7. d.type # "offer" => /\ d.type = "pranswer" => state' = "receivedpraccept"
                                  /\ d.type = "answer" => state' = "receivedaccept" /\ agreedIce' = d.ice
            BY <2>1, <2>2, <2>4 DEF RemoteState
        <3> QED
            BY <2>2, <3>1, <3>5, <3>6, <3>7
    <2> QED
        BY <2>3, <2>4
<1>6. CASE OnState
    BY <1>6 DEF OnState, history
<1>7. CASE Terminate
    BY <1>7 DEF Terminate, history
<1>8. ASSUME NEW c \in Candidates, ProcessIceMessage(c) PROVE RestartInv'
    BY <1>8 DEF ProcessIceMessage, BaseInv, TypeOK, Descs
<1> HIDE DEF RestartInv
<1> QED
    BY SessionCases, <1>1, <1>2, <1>3, <1>4, <1>5, <1>6, <1>7, <1>8

\* An ICE restart of the peer is answered with one: the first answer made for
\* new remote credentials has new local ones, whatever offers, failed calls and
\* answers came between.
THEOREM RestartsAnswered == Spec => []RestartIsAnswered
<1>1. Init => WaitInv /\ RestartInv /\ RestartIsAnswered
    <2> SUFFICES ASSUME Init PROVE WaitInv /\ RestartInv /\ RestartIsAnswered
        OBVIOUS
    <2>1. \A i \in DOMAIN mail : mail[i].k # "success"
        BY DEF Init, Mail
    <2> QED
        BY <2>1 DEF Init, WaitInv, RestartInv, RestartIsAnswered, NoDesc, Desc
<1>2. BaseInv /\ RestartInv /\ WaitInv /\ RestartIsAnswered /\ [Next]_vars => RestartIsAnswered'
    <2> SUFFICES ASSUME BaseInv, RestartInv, WaitInv, RestartIsAnswered, [Next]_vars
                 PROVE  RestartIsAnswered'
        OBVIOUS
    <2>1. ASSUME NEW restart, made' = Made("offer", restart) PROVE ~made'.owed
        <3>1. made'.owed = FALSE
            BY <2>1 DEF Made
        <3> QED
            BY <3>1
    <2>2. ASSUME remote.type = "offer", made' = Made("answer", latch), made'.owed, ~made'.again
          PROVE  made'.fresh
        <3>1. /\ made'.owed = (local # NoDesc /\ agreedIce # 0 /\ remote.ice # agreedIce)
              /\ made'.again = (made.answeredIce = remote.ice)
              /\ made'.fresh = (local = NoDesc \/ latch)
            BY <2>2 DEF Made, Fresh
        <3>2. agreedIce # 0 /\ remote.ice # agreedIce
            BY <2>2, <3>1
        <3>3. made.answeredIce # remote.ice
            BY <2>2, <3>1
        <3>4. latch
            BY <2>2, <3>2, <3>3 DEF RestartInv
        <3> QED
            BY <3>1, <3>4
    <2> QED
        BY <2>1, <2>2, MadeCases DEF RestartIsAnswered
<1> QED
    BY <1>1, <1>2, InitBase, NextBase, NextWait, NextRestart, PTL DEF Spec

-----------------------------------------------------------------------------
(***************************************************************************)
(* Candidates.                                                              *)
(***************************************************************************)
\* A candidate that AddIceCandidate accepted is not lost, however candidates and
\* descriptions interleave, and the answering side has used them all when it has
\* set its answer.
THEOREM NoCandidateLost == Spec => []CandidatesKept
<1>1. Init => StateInv /\ CandidatesKept
    BY DEF Init, StateInv, CandidatesKept
<1>2. BaseInv /\ StateInv /\ CandidatesKept /\ [Next]_vars => CandidatesKept'
    <2> SUFFICES ASSUME BaseInv, StateInv, CandidatesKept, [Next]_vars PROVE CandidatesKept'
        OBVIOUS
    <2>t. /\ remote \in Descs /\ saved \subseteq Candidates /\ used \subseteq Candidates
          /\ accepted \subseteq Candidates /\ ldSet \in BOOLEAN /\ rdSet \in BOOLEAN
          /\ remote.cands \subseteq Candidates /\ halfApplied \in BOOLEAN /\ NoDesc.type = "none"
        BY DEF BaseInv, TypeOK, HistoryOK, Descs, NoDesc, Desc
    <2> USE DEF CandidatesKept
    <2>1. CASE UNCHANGED <<sessionVars, accepted, agreedIce, halfApplied>>
        BY <2>1 DEF sessionVars
    <2>2. ASSUME NEW d \in LocalDescs, SetLocalDescriptionInPart(d) PROVE CandidatesKept'
        BY <2>2 DEF SetLocalDescriptionInPart
    <2>3. ASSUME NEW d \in LocalDescs, NEW bad \in BOOLEAN, SetLocalDescription(d, bad)
          PROVE CandidatesKept'
        <3>1. CASE bad
            BY <2>3, <3>1 DEF SetLocalDescription
        <3>2. CASE ~bad /\ remote = NoDesc
            <4>1. UNCHANGED <<remote, saved, accepted, halfApplied>>
                BY <2>3, <2>t, <3>2 DEF SetLocalDescription, StartCandidatesAllocation
            <4>2. ~halfApplied => state' # "sentaccept"
                BY <2>3, <2>t, <3>2 DEF SetLocalDescription, UpdateSessionState, StateInv, LocalState,
                   ValidateSessionDescription, ExpectSetLocalDescription
            <4> QED
                BY <4>1, <4>2
        <3>3. CASE ~bad /\ remote # NoDesc
            <4>1. /\ remote'.cands = remote.cands \cup saved
                  /\ UNCHANGED <<accepted, halfApplied>>
                  /\ used' = IF rdSet THEN used \cup remote'.cands ELSE used
                BY <2>3, <2>t, <3>3 DEF SetLocalDescription, StartCandidatesAllocation, Ready,
                   CopySavedCandidates, UseCandidatesInSessionDescription, Descs
            <4>2. state' = "sentaccept" /\ ~halfApplied => rdSet
                BY <2>3, <2>t, <3>3 DEF SetLocalDescription, UpdateSessionState, StateInv, LocalState,
                   ValidateSessionDescription, ExpectSetLocalDescription
            <4> QED
                BY <4>1, <4>2
        <3> QED
            BY <3>1, <3>2, <3>3
    <2>4. ASSUME NEW d \in RemoteDescs, SetRemoteDescriptionInPart(d) PROVE CandidatesKept'
        BY <2>4 DEF SetRemoteDescriptionInPart
    <2>5. ASSUME NEW d \in RemoteDescs, NEW bad \in BOOLEAN, SetRemoteDescription(d, bad)
          PROVE CandidatesKept'
        <3>1. d.type \in {"offer", "pranswer", "answer"} /\ d \in Descs
            BY DescTypes DEF RemoteDescs
        <3>2. state' # "sentaccept" /\ accepted' = accepted
            BY <2>5, <3>1 DEF SetRemoteDescription, UpdateSessionState, RemoteState
        <3>3. \/ UNCHANGED <<saved, remote>>
              \/ saved' = {} /\ remote' = [d EXCEPT !.cands = AllCandidates(d)]
            BY <2>5 DEF SetRemoteDescription
        <3>4. AllCandidates(d) = d.cands \cup saved \cup remote.cands
            BY <3>1 DEF AllCandidates, CopySavedCandidates, Descs
        <3>5. remote' = [d EXCEPT !.cands = AllCandidates(d)] => remote'.cands = AllCandidates(d)
            BY <3>1 DEF Descs
        <3> QED
            BY <3>2, <3>3, <3>4, <3>5
    <2>6. CASE OnState
        BY <2>6 DEF OnState, history
    <2>7. CASE Terminate
        BY <2>7 DEF Terminate, history
    <2>8. ASSUME NEW c \in Candidates, ProcessIceMessage(c) PROVE CandidatesKept'
        <3>1. CASE remote # NoDesc /\ Ready(ldSet, rdSet)
            <4>1. remote'.cands = remote.cands \cup {c} /\ used' = used \cup {c}
                BY <2>8, <2>t, <3>1 DEF ProcessIceMessage, UseCandidate, Descs
            <4> QED
                BY <2>8, <3>1, <4>1 DEF ProcessIceMessage
        <3>2. CASE ~(remote # NoDesc /\ Ready(ldSet, rdSet))
            <4>1. saved' = saved \cup {c} /\ UNCHANGED <<remote, state, halfApplied>>
                BY <2>8, <3>2 DEF ProcessIceMessage
            <4>2. ~(state = "sentaccept" /\ ~halfApplied)
                BY <2>t, <3>2 DEF StateInv, Ready
            <4> QED
                BY <2>8, <4>1, <4>2 DEF ProcessIceMessage
        <3> QED
            BY <3>1, <3>2
    <2> HIDE DEF CandidatesKept
    <2> QED
        BY SessionCases, <2>1, <2>2, <2>3, <2>4, <2>5, <2>6, <2>7, <2>8
<1> QED
    BY <1>1, <1>2, InitBase, NextBase, NextState, PTL DEF Spec

-----------------------------------------------------------------------------
(***************************************************************************)
(* The order of the results.                                                *)
(***************************************************************************)
\* A posted message that carries the result of a request.
IsResult(m) == m.k \in {"success", "failed"}

\* What ResultsInOrder asks of two results, the first before the second, and
\* what holds of a result and of a request that still waits.
Before(a, b) ==
    /\ a.id # b.id
    /\ a.d # NoDesc /\ b.d # NoDesc => a.id < b.id /\ a.d.ver < b.d.ver
Overtakes(a, r) == a.id # r.id /\ (a.d # NoDesc => a.id < r.id)

\* The identifier and the version of a result have been given out.
Known(a) == a.id <= asked /\ (a.d # NoDesc => a.d.ver < version)

\* A request is in the queue, in a message or answered: in one of them, and the
\* descriptions are made in the order of the requests.
OrderInv ==
    /\ \A i, j \in DOMAIN results : i < j => Before(results[i], results[j])
    /\ \A i, j \in DOMAIN mail : i < j /\ IsResult(mail[i]) /\ IsResult(mail[j]) =>
          Before(mail[i], mail[j])
    /\ \A i \in DOMAIN results, j \in DOMAIN mail : IsResult(mail[j]) => Before(results[i], mail[j])
    /\ \A i, j \in DOMAIN requests : i < j => requests[i].id < requests[j].id
    /\ \A i \in DOMAIN results, j \in DOMAIN requests : Overtakes(results[i], requests[j])
    /\ \A i \in DOMAIN mail, j \in DOMAIN requests : IsResult(mail[i]) => Overtakes(mail[i], requests[j])
    /\ \A i \in DOMAIN results : Known(results[i])
    /\ \A i \in DOMAIN mail : IsResult(mail[i]) => Known(mail[i])
    /\ \A i \in DOMAIN requests : requests[i].id <= asked

\* It does not depend on the messages that carry no result, nor on where the
\* others stand as long as their order is kept.
LEMMA OrderKept ==
    ASSUME BaseInv, OrderInv, NEW k \in {0, 1}, UNCHANGED <<results, requests, asked, version>>,
           mail' \in Seq(MailSet),
           \A i \in DOMAIN mail' : IsResult(mail'[i]) =>
               i + k \in DOMAIN mail /\ mail'[i] = mail[i + k]
    PROVE  OrderInv'
<1>1. DOMAIN mail' \subseteq Nat
    OBVIOUS
<1>2. \A i, j \in DOMAIN mail' : i < j => i + k < j + k
    BY <1>1
<1> QED
    BY <1>2 DEF OrderInv, Before, Overtakes, Known

\* A new result at the end of the messages.
LEMMA OrderAppended ==
    ASSUME BaseInv, OrderInv, NEW m \in MailSet, UNCHANGED results,
           requests' \in Seq(RequestSet), asked' \in Nat, version' \in Nat,
           asked <= asked', version <= version',
           mail' = Append(mail, m), m.id <= asked', m.d # NoDesc => m.d.ver < version',
           \A i \in DOMAIN results : Before(results[i], m),
           \A i \in DOMAIN mail : IsResult(mail[i]) => Before(mail[i], m),
           \A i \in DOMAIN requests' : Overtakes(m, requests'[i]),
           requests' = requests \/ (requests # <<>> /\ requests' = Tail(requests))
    PROVE  OrderInv'
<1>t. /\ mail \in Seq(MailSet) /\ requests \in Seq(RequestSet) /\ asked \in Nat /\ version \in Nat
      /\ results \in Seq(ResultSet)
    BY DEF BaseInv, TypeOK, HistoryOK, MailSet, RequestSet, ResultSet
<1>k. \E k \in {0, 1} : \A i \in DOMAIN requests' :
          i \in Nat /\ i + k \in DOMAIN requests /\ requests'[i] = requests[i + k]
    <2>1. CASE requests' = requests
        <3>1. \A i \in DOMAIN requests' : i \in Nat /\ i + 0 = i
            BY <1>t, <2>1
        <3> QED
            BY <2>1, <3>1
    <2>2. CASE requests # <<>> /\ requests' = Tail(requests)
        <3>1. \A i \in DOMAIN requests' :
                  i \in Nat /\ i + 1 \in DOMAIN requests /\ requests'[i] = requests[i + 1]
            BY <1>t, <2>2
        <3> QED
            BY <3>1
    <2> QED
        BY <2>1, <2>2
<1>p. PICK k \in {0, 1} : \A i \in DOMAIN requests' :
          i \in Nat /\ i + k \in DOMAIN requests /\ requests'[i] = requests[i + k]
    BY <1>k
<1>d. DOMAIN mail = 1 .. Len(mail) /\ Len(mail) \in Nat /\ DOMAIN mail' = 1 .. (Len(mail) + 1)
    BY <1>t
<1>m. \A i \in DOMAIN mail' : \/ i \in DOMAIN mail /\ mail'[i] = mail[i]
                              \/ i = Len(mail) + 1 /\ mail'[i] = m
    BY <1>t, <1>d
<1>o. \A i, j \in DOMAIN mail' : i < j => i \in DOMAIN mail /\ mail'[i] = mail[i]
    BY <1>d, <1>m
<1>1. \A i, j \in DOMAIN results' : i < j => Before(results'[i], results'[j])
    BY DEF OrderInv, Before
<1>2. \A i, j \in DOMAIN mail' : i < j /\ IsResult(mail'[i]) /\ IsResult(mail'[j]) =>
          Before(mail'[i], mail'[j])
    <2> SUFFICES ASSUME NEW i \in DOMAIN mail', NEW j \in DOMAIN mail', i < j,
                        IsResult(mail'[i]), IsResult(mail'[j])
                 PROVE  Before(mail'[i], mail'[j])
        OBVIOUS
    <2>1. i \in DOMAIN mail /\ mail'[i] = mail[i]
        BY <1>o
    <2>2. (j \in DOMAIN mail /\ mail'[j] = mail[j]) \/ mail'[j] = m
        BY <1>m
    <2> QED
        BY <2>1, <2>2 DEF OrderInv
<1>3. \A i \in DOMAIN results', j \in DOMAIN mail' : IsResult(mail'[j]) => Before(results'[i], mail'[j])
    BY <1>m DEF OrderInv
<1>4. \A i, j \in DOMAIN requests' : i < j => requests'[i].id < requests'[j].id
    <2>1. \A i, j \in DOMAIN requests' : i < j => i + k < j + k
        BY <1>p
    <2> QED
        BY <1>p, <2>1 DEF OrderInv
<1>5. \A i \in DOMAIN results', j \in DOMAIN requests' : Overtakes(results'[i], requests'[j])
    BY <1>p DEF OrderInv
<1>6. \A i \in DOMAIN mail', j \in DOMAIN requests' : IsResult(mail'[i]) => Overtakes(mail'[i], requests'[j])
    BY <1>p, <1>m DEF OrderInv
<1>7. ASSUME NEW a, a.id \in Nat, a.d.ver \in Nat, Known(a)
      PROVE  a.id <= asked' /\ (a.d # NoDesc => a.d.ver < version')
    BY <1>t, <1>7, SMTT(40) DEF Known
<1>8. \A i \in DOMAIN results : results[i].id <= asked' /\ (results[i].d # NoDesc => results[i].d.ver < version')
    <2> SUFFICES ASSUME NEW i \in DOMAIN results
                 PROVE  results[i].id <= asked' /\ (results[i].d # NoDesc => results[i].d.ver < version')
        OBVIOUS
    <2>1. results[i].id \in Nat /\ results[i].d.ver \in Nat
        <3>1. results[i] \in ResultSet
            BY <1>t
        <3> QED
            BY <3>1 DEF Descs, ResultSet
    <2> QED
        BY <1>7, <2>1 DEF OrderInv
<1>9. \A i \in DOMAIN mail' : IsResult(mail'[i]) =>
          mail'[i].id <= asked' /\ (mail'[i].d # NoDesc => mail'[i].d.ver < version')
    <2> SUFFICES ASSUME NEW i \in DOMAIN mail', IsResult(mail'[i])
                 PROVE  mail'[i].id <= asked' /\ (mail'[i].d # NoDesc => mail'[i].d.ver < version')
        OBVIOUS
    <2>1. CASE i \in DOMAIN mail /\ mail'[i] = mail[i]
        <3>1. mail[i].id \in Nat /\ mail[i].d.ver \in Nat
            <4>1. mail[i] \in MailSet
                BY <1>t, <2>1
            <4> QED
                BY <4>1, SMTT(40) DEF Descs, MailSet
        <3>2. Known(mail[i])
            BY <2>1 DEF OrderInv
        <3> QED
            BY <1>7, <2>1, <3>1, <3>2
    <2> QED
        BY <1>m, <2>1
<1>10. \A i \in DOMAIN requests' : requests'[i].id <= asked'
    <2> SUFFICES ASSUME NEW i \in DOMAIN requests' PROVE requests'[i].id <= asked'
        OBVIOUS
    <2>1. requests'[i].id \in Nat
        <3>1. requests'[i] \in RequestSet
            OBVIOUS
        <3> QED
            BY <3>1 DEF RequestSet
    <2>2. requests'[i].id <= asked
        BY <1>p DEF OrderInv
    <2> QED
        BY <1>t, <2>1, <2>2
<1> QED
    BY <1>1, <1>2, <1>3, <1>4, <1>5, <1>6, <1>8, <1>9, <1>10 DEF OrderInv, Before, Overtakes, Known

\* A result that is new, for a request that was made last, comes after all the
\* others; one for the first of the waiting requests too.
LEMMA OrderCreated ==
    ASSUME BaseInv, OrderInv, NEW r \in RequestSet, NEW m \in MailSet, UNCHANGED results,
           m.id = r.id, m.d = NoDesc \/ (m.d.ver = version /\ version' = version + 1),
           version' \in {version, version + 1}, mail' = Append(mail, m),
           \/ r.id = asked + 1 /\ asked' = r.id /\ requests' = requests /\ (m.d = NoDesc \/ requests = <<>>)
           \/ requests # <<>> /\ r = Head(requests) /\ asked' = asked /\ requests' = Tail(requests)
    PROVE  OrderInv'
<1>t. /\ mail \in Seq(MailSet) /\ requests \in Seq(RequestSet) /\ asked \in Nat /\ version \in Nat
      /\ results \in Seq(ResultSet) /\ m.d \in Descs
    BY DEF BaseInv, TypeOK, HistoryOK, MailSet, RequestSet, ResultSet
<1>r. r.id \in Nat
    BY DEF RequestSet
<1>1. ASSUME NEW a, a.id \in Nat, a.d \in Descs, Known(a),
             r.id = asked + 1 \/ (requests # <<>> /\ Overtakes(a, requests[1]) /\ r = requests[1])
      PROVE  Before(a, m)
    <2>1. a.id # m.id /\ (a.d # NoDesc => a.id < m.id)
        BY <1>1, <1>r, <1>t DEF Known, Overtakes
    <2>2. a.d # NoDesc /\ m.d # NoDesc => a.d.ver < m.d.ver
        BY <1>1, <1>t DEF Known
    <2> QED
        BY <2>1, <2>2 DEF Before
<1>h. /\ r.id = asked + 1 \/ (requests # <<>> /\ r = requests[1] /\ 1 \in DOMAIN requests)
      /\ requests # <<>> /\ r = Head(requests) => r = requests[1] /\ 1 \in DOMAIN requests
    BY <1>t
<1>2. \A i \in DOMAIN results : Before(results[i], m)
    <2> SUFFICES ASSUME NEW i \in DOMAIN results PROVE Before(results[i], m)
        OBVIOUS
    <2>1. results[i] \in ResultSet
        BY <1>t
    <2>2. results[i].id \in Nat /\ results[i].d \in Descs
        BY <2>1 DEF ResultSet
    <2> QED
        BY <1>1, <1>h, <2>2 DEF OrderInv
<1>3. \A i \in DOMAIN mail : IsResult(mail[i]) => Before(mail[i], m)
    <2> SUFFICES ASSUME NEW i \in DOMAIN mail, IsResult(mail[i]) PROVE Before(mail[i], m)
        OBVIOUS
    <2>1. mail[i] \in MailSet
        BY <1>t
    <2>2. mail[i].id \in Nat /\ mail[i].d \in Descs
        BY <2>1 DEF MailSet
    <2> QED
        BY <1>1, <1>h, <2>2 DEF OrderInv
<1>4. \A i \in DOMAIN requests' : Overtakes(m, requests'[i])
    <2>1. CASE r.id = asked + 1 /\ requests' = requests /\ (m.d = NoDesc \/ requests = <<>>)
        <3> SUFFICES ASSUME NEW i \in DOMAIN requests PROVE Overtakes(m, requests[i])
            BY <2>1
        <3>1. requests[i] \in RequestSet /\ requests # <<>>
            BY <1>t
        <3>2. requests[i].id \in Nat /\ requests[i].id <= asked
            BY <3>1 DEF OrderInv, RequestSet
        <3> QED
            BY <1>t, <2>1, <3>1, <3>2 DEF Overtakes
    <2>2. CASE requests # <<>> /\ r = Head(requests) /\ requests' = Tail(requests)
        <3> SUFFICES ASSUME NEW i \in DOMAIN requests' PROVE Overtakes(m, requests'[i])
            OBVIOUS
        <3>1. i + 1 \in DOMAIN requests /\ requests'[i] = requests[i + 1] /\ 1 < i + 1
            BY <1>t, <2>2
        <3>2. requests[i + 1] \in RequestSet
            BY <1>t, <3>1
        <3>3. requests[i + 1].id \in Nat /\ requests[1].id < requests[i + 1].id
            BY <1>h, <2>2, <3>1, <3>2 DEF OrderInv, RequestSet
        <3> QED
            BY <1>h, <1>r, <2>2, <3>1, <3>3 DEF Overtakes
    <2> QED
        BY <2>1, <2>2
<1>5. requests' \in Seq(RequestSet)
    <2>1. requests # <<>> => Tail(requests) \in Seq(RequestSet)
        BY <1>t, HeadTailProperties
    <2> QED
        BY <1>t, <2>1
<1>a. /\ asked' \in Nat /\ version' \in Nat /\ asked <= asked' /\ version <= version'
    BY <1>t, <1>r
<1>v. m.d # NoDesc => m.d.ver < version'
    BY <1>t
<1>6. m.id <= asked'
    BY <1>t, <1>r, <1>h DEF OrderInv
<1>7. requests' = requests \/ (requests # <<>> /\ requests' = Tail(requests))
    OBVIOUS
<1> QED
    BY <1>2, <1>3, <1>4, <1>5, <1>a, <1>v, <1>6, <1>7, OrderAppended

\* Every step preserves the order.
LEMMA NextOrder == BaseInv /\ OrderInv /\ [Next]_vars => OrderInv'
<1> SUFFICES ASSUME BaseInv, OrderInv, [Next]_vars PROVE OrderInv'
    OBVIOUS
<1>t. /\ mail \in Seq(MailSet) /\ requests \in Seq(RequestSet) /\ asked \in Nat /\ version \in Nat
      /\ results \in Seq(ResultSet) /\ identity \in {"not_needed", "waiting", "succeeded", "failed"}
      /\ requests # <<>> => identity \in {"waiting", "succeeded"}
    BY DEF BaseInv, TypeOK, HistoryOK, MailSet, RequestSet, ResultSet
<1>p. BaseInv'
    BY NextBase
<1>m. mail' \in Seq(MailSet)
    BY <1>p DEF BaseInv, TypeOK, MailSet
<1>n. /\ \A id : Failed(id).d = NoDesc /\ Failed(id).id = id
      /\ ~IsResult(MsgState)
    BY DEF Failed, Mail, MsgState, IsResult
<1>c. ASSUME NEW r \in RequestSet, NEW fails \in BOOLEAN, InternalCreateDescription(r, fails)
      PROVE  \E x \in MailSet : /\ mail' = Append(mail, x) /\ x.id = r.id /\ version' = version + 1
                                /\ x.d = NoDesc \/ x.d.ver = version
    <2>1. PICK restart \in BOOLEAN : InternalCreate(r, restart, fails)
        BY <1>c DEF InternalCreateDescription, InternalCreateOffer, InternalCreateAnswer, RequestSet,
           BaseInv, TypeOK
    <2> QED
        BY <2>1, CreateType
<1>1. ASSUME NEW r \in RequestSet, NEW refused \in BOOLEAN, NEW fails \in BOOLEAN,
             r.id = asked + 1, Create(r, refused, fails)
      PROVE  OrderInv'
    <2>1. asked' = r.id /\ UNCHANGED results
        BY <1>1 DEF Create
    <2>2. CASE mail' = Append(mail, Failed(r.id)) /\ UNCHANGED <<requests, version>>
        <3>1. Failed(r.id) \in MailSet
            BY DescTypes DEF Failed, Mail, MailSet, RequestSet
        <3> QED
            BY <1>1, <1>n, <2>1, <2>2, <3>1, OrderCreated
    <2>3. CASE requests' = Append(requests, r) /\ UNCHANGED <<mail, version>>
        <3>1. \A i \in DOMAIN requests' :
                  \/ i \in DOMAIN requests /\ requests'[i] = requests[i]
                  \/ i = Len(requests) + 1 /\ requests'[i] = r
            BY <1>t, <2>3
        <3>2. \A i \in DOMAIN requests : requests[i].id < r.id
            <4> SUFFICES ASSUME NEW i \in DOMAIN requests PROVE requests[i].id < r.id
                OBVIOUS
            <4>1. requests[i] \in RequestSet
                BY <1>t
            <4>2. requests[i].id \in Nat /\ requests[i].id <= asked
                BY <4>1 DEF OrderInv, RequestSet
            <4> QED
                BY <1>1, <1>t, <4>2
        <3>3. ASSUME NEW a, a.id \in Nat, Known(a) PROVE Overtakes(a, r)
            BY <1>1, <1>t, <3>3 DEF Known, Overtakes
        <3>4. /\ \A i \in DOMAIN results : results[i].id \in Nat
              /\ \A i \in DOMAIN mail : mail[i].id \in Nat
            <4>1. \A x \in ResultSet : x.id \in Nat
                BY DEF ResultSet
            <4>2. \A x \in MailSet : x.id \in Nat
                BY DEF MailSet
            <4> QED
                BY <1>t, <4>1, <4>2
        <3>5. \A i, j \in DOMAIN requests' : i < j => requests'[i].id < requests'[j].id
            <4>1. \A i, j \in DOMAIN requests' : i < j => i \in DOMAIN requests /\ requests'[i] = requests[i]
                BY <1>t, <2>3
            <4> QED
                BY <3>1, <3>2, <4>1 DEF OrderInv
        <3>6. \A i \in DOMAIN results, j \in DOMAIN requests' : Overtakes(results[i], requests'[j])
            BY <3>1, <3>3, <3>4 DEF OrderInv
        <3>7. \A i \in DOMAIN mail, j \in DOMAIN requests' : IsResult(mail[i]) => Overtakes(mail[i], requests'[j])
            BY <3>1, <3>3, <3>4 DEF OrderInv
        <3>8. ASSUME NEW a, a.id \in Nat, Known(a) PROVE Known(a)'
            BY <1>1, <1>t, <2>1, <2>3, <3>8 DEF Known
        <3>9. \A i \in DOMAIN requests' : requests'[i].id <= asked'
            <4>1. \A i \in DOMAIN requests' : requests'[i].id < r.id \/ requests'[i] = r
                BY <3>1, <3>2
            <4>2. \A i \in DOMAIN requests' : requests'[i] \in RequestSet
                BY <1>t, <3>1
            <4>3. \A x \in RequestSet : x.id \in Nat
                BY DEF RequestSet
            <4> QED
                BY <2>1, <4>1, <4>2, <4>3
        <3> QED
            BY <2>1, <2>3, <3>4, <3>5, <3>6, <3>7, <3>8, <3>9 DEF OrderInv, Before, Overtakes, Known
    <2>4. CASE /\ InternalCreateDescription(r, fails) /\ UNCHANGED requests
               /\ identity \in {"succeeded", "not_needed"}
        <3>1. requests = <<>>
            BY <1>1, <1>t, <2>4 DEF Create, Draining
        <3> QED
            BY <1>1, <1>c, <2>1, <2>4, <3>1, OrderCreated
    <2> QED
        BY <1>1, <2>2, <2>3, <2>4 DEF Create
<1>2. CASE UNCHANGED <<results, requests, asked, version, mail>>
    <2>1. \A i \in DOMAIN mail : i + 0 = i
        BY <1>t
    <2> QED
        BY <1>2, <1>m, <2>1, OrderKept
<1>3. ASSUME NEW s, UNCHANGED <<results, requests, asked, version>>, mail' = Posted(s, mail)
      PROVE  OrderInv'
    <2>1. \A i \in DOMAIN mail' : (i \in DOMAIN mail /\ mail'[i] = mail[i]) \/ ~IsResult(mail'[i])
        BY <1>3, <1>m, <1>n, <1>t, PostedType, SMTT(40)
    <2>2. \A i \in DOMAIN mail : i + 0 = i
        BY <1>t
    <2> QED
        BY <1>3, <1>m, <2>1, <2>2, OrderKept
<1>4. ASSUME mail # <<>>, UNCHANGED <<results, requests, asked, version>>,
             NEW s, mail' = Tail(mail) \/ mail' = Posted(s, Tail(mail))
      PROVE  OrderInv'
    <2>1. Tail(mail) \in Seq(MailSet) /\ \A i \in DOMAIN Tail(mail) : i + 1 \in DOMAIN mail /\ Tail(mail)[i] = mail[i + 1]
        BY <1>4, <1>t, HeadTailProperties
    <2>2. \A i \in DOMAIN mail' : (i \in DOMAIN Tail(mail) /\ mail'[i] = Tail(mail)[i]) \/ ~IsResult(mail'[i])
        <3>1. CASE mail' = Tail(mail)
            BY <3>1
        <3>2. CASE mail' = Posted(s, Tail(mail))
            <4>1. /\ mail' \in Seq(MailSet) /\ \A i \in 1 .. Len(Tail(mail)) : mail'[i] = Tail(mail)[i]
                  /\ \A i \in 1 .. Len(mail') : i > Len(Tail(mail)) => mail'[i] = MsgState
                <5>1. Tail(mail) \in Seq(MailSet)
                    BY <2>1
                <5>2. /\ Posted(s, Tail(mail)) \in Seq(MailSet)
                      /\ \A i \in 1 .. Len(Tail(mail)) : Posted(s, Tail(mail))[i] = Tail(mail)[i]
                      /\ \A i \in 1 .. Len(Posted(s, Tail(mail))) :
                            i > Len(Tail(mail)) => Posted(s, Tail(mail))[i] = MsgState
                    BY <5>1, PostedType
                <5> QED
                    BY <3>2, <5>2
            <4>2. \A i \in DOMAIN mail' : i \in 1 .. Len(mail') /\ (i \in DOMAIN Tail(mail) \/ i > Len(Tail(mail)))
                BY <2>1, <4>1
            <4>3. \A i \in DOMAIN Tail(mail) : i \in 1 .. Len(Tail(mail))
                BY <2>1
            <4> QED
                BY <1>n, <4>1, <4>2, <4>3
        <3> QED
            BY <1>4, <3>1, <3>2
    <2> QED
        BY <1>4, <1>m, <2>1, <2>2, OrderKept
<1>5. CASE OnResult
    <2>1. /\ mail # <<>> /\ IsResult(mail[1]) /\ Head(mail) = mail[1] /\ 1 \in DOMAIN mail
          /\ results' = Append(results, [id |-> mail[1].id, d |-> mail[1].d]) /\ mail' = Tail(mail)
          /\ UNCHANGED <<requests, asked, version>>
        BY <1>5, <1>t DEF OnResult, NextMail, factoryVars, IsResult
    <2> DEFINE x == [id |-> mail[1].id, d |-> mail[1].d]
    <2>2. x.id = mail[1].id /\ x.d = mail[1].d /\ x \in ResultSet
        <3>1. mail[1] \in MailSet
            BY <1>t, <2>1
        <3> QED
            BY <3>1 DEF MailSet, ResultSet
    <2>3. results' = Append(results, x)
        BY <2>1
    <2> HIDE DEF x
    <2>4. \A i \in DOMAIN results' : \/ i \in DOMAIN results /\ results'[i] = results[i]
                                     \/ i = Len(results) + 1 /\ results'[i] = x
        <3>1. /\ \A i \in 1 .. Len(results) : Append(results, x)[i] = results[i]
              /\ Append(results, x)[Len(results) + 1] = x /\ Append(results, x) \in Seq(ResultSet)
              /\ Len(Append(results, x)) = Len(results) + 1
            BY <1>t, <2>2, AppendProperties
        <3>2. DOMAIN results = 1 .. Len(results) /\ Len(results) \in Nat
            BY <1>t
        <3>3. DOMAIN results' = 1 .. (Len(results) + 1)
            BY <2>3, <3>1, <3>2
        <3>4. \A i \in DOMAIN results' : i \in DOMAIN results \/ i = Len(results) + 1
            BY <3>2, <3>3
        <3>5. results'[Len(results) + 1] = x
            BY <2>3, <3>1, Zenon
        <3>6. \A i \in 1 .. Len(results) : results'[i] = results[i]
            BY <2>3, <3>1, Zenon
        <3> QED
            BY <3>2, <3>4, <3>5, <3>6
    <2>5. \A i, j \in DOMAIN results' : i < j => i \in DOMAIN results /\ results'[i] = results[i]
        BY <1>t, <2>2, <2>3
    <2>6. \A i \in DOMAIN mail' : i + 1 \in DOMAIN mail /\ mail'[i] = mail[i + 1] /\ 1 < i + 1
        BY <1>t, <2>1
    <2>7. \A i, j \in DOMAIN mail' : i < j => i + 1 < j + 1
        BY <1>t, <2>1
    <2>8. /\ \A b : Before(mail[1], b) => Before(x, b)
          /\ \A a : Before(a, mail[1]) => Before(a, x)
          /\ \A b : Overtakes(mail[1], b) => Overtakes(x, b)
          /\ Known(mail[1]) => Known(x)
        BY <2>2 DEF Before, Overtakes, Known
    <2>9. \A i, j \in DOMAIN results' : i < j => Before(results'[i], results'[j])
        BY <2>1, <2>4, <2>5, <2>8 DEF OrderInv
    <2>10. \A i, j \in DOMAIN mail' : i < j /\ IsResult(mail'[i]) /\ IsResult(mail'[j]) =>
               Before(mail'[i], mail'[j])
        BY <2>6, <2>7 DEF OrderInv
    <2>11. \A i \in DOMAIN results', j \in DOMAIN mail' : IsResult(mail'[j]) => Before(results'[i], mail'[j])
        BY <2>1, <2>4, <2>6, <2>8 DEF OrderInv
    <2>12. \A i \in DOMAIN results', j \in DOMAIN requests : Overtakes(results'[i], requests[j])
        BY <2>1, <2>4, <2>8 DEF OrderInv
    <2>13. \A i \in DOMAIN mail', j \in DOMAIN requests : IsResult(mail'[i]) => Overtakes(mail'[i], requests[j])
        BY <2>6 DEF OrderInv
    <2>14. \A i \in DOMAIN results' : Known(results'[i])
        BY <2>1, <2>4, <2>8 DEF OrderInv
    <2>15. \A i \in DOMAIN mail' : IsResult(mail'[i]) => Known(mail'[i])
        BY <2>6 DEF OrderInv
    <2> QED
        BY <2>1, <2>9, <2>10, <2>11, <2>12, <2>13, <2>14, <2>15, SMTT(40)
           DEF OrderInv, Before, Overtakes, Known
<1>6. CASE OnIdentityRequestFailed
    <2>1. /\ mail' = mail \o [i \in DOMAIN requests |-> Failed(requests[i].id)] /\ requests' = <<>>
          /\ UNCHANGED <<results, asked, version>>
        BY <1>6 DEF OnIdentityRequestFailed, history
    <2> DEFINE f == [i \in DOMAIN requests |-> Failed(requests[i].id)]
    <2>2. f \in Seq(MailSet) /\ Len(f) = Len(requests) /\ \A i \in DOMAIN requests : f[i] = Failed(requests[i].id)
        <3>1. \A r \in RequestSet : Failed(r.id) \in MailSet
            BY DescTypes DEF Failed, Mail, MailSet, RequestSet
        <3>2. f \in [1 .. Len(requests) -> MailSet] /\ Len(requests) \in Nat
            BY <1>t, <3>1
        <3> QED
            BY <1>t, <3>2
    <2>3. mail' = mail \o f
        BY <2>1
    <2>n. \A i \in DOMAIN requests : f[i].id = requests[i].id /\ f[i].d = NoDesc
        BY <1>n, <2>2
    <2> HIDE DEF f
    <2>4. /\ DOMAIN mail' \subseteq Nat
          /\ \A i \in DOMAIN mail' : i \in DOMAIN mail => mail'[i] = mail[i]
          /\ \A i \in DOMAIN mail' : i \notin DOMAIN mail =>
                i - Len(mail) \in DOMAIN requests /\ mail'[i] = f[i - Len(mail)]
        BY <1>t, <2>2, <2>3
    <2>5. \A i, j \in DOMAIN mail' : i < j =>
              /\ j \in DOMAIN mail => i \in DOMAIN mail
              /\ i \notin DOMAIN mail => i - Len(mail) < j - Len(mail)
        BY <1>t, <2>4
    <2>i. \A i \in DOMAIN requests : requests[i].id \in Nat
        <3>1. \A x \in RequestSet : x.id \in Nat
            BY DEF RequestSet
        <3> QED
            BY <1>t, <3>1
    <2>6. ASSUME NEW i \in DOMAIN mail', NEW j \in DOMAIN mail', i < j, IsResult(mail'[i]), IsResult(mail'[j])
          PROVE  Before(mail'[i], mail'[j])
        <3>1. CASE j \in DOMAIN mail
            BY <2>4, <2>5, <2>6, <3>1 DEF OrderInv
        <3>2. CASE j \notin DOMAIN mail /\ i \in DOMAIN mail
            <4>1. Overtakes(mail[i], requests[j - Len(mail)])
                BY <2>4, <2>6, <3>2 DEF OrderInv
            <4> QED
                BY <2>4, <2>n, <3>2, <4>1 DEF Overtakes, Before
        <3>3. CASE j \notin DOMAIN mail /\ i \notin DOMAIN mail
            <4>1. requests[i - Len(mail)].id < requests[j - Len(mail)].id
                BY <2>4, <2>5, <2>6, <3>3 DEF OrderInv
            <4> QED
                BY <2>4, <2>n, <2>i, <3>3, <4>1 DEF Before
        <3> QED
            BY <3>1, <3>2, <3>3
    <2>7. ASSUME NEW i \in DOMAIN results, NEW j \in DOMAIN mail', IsResult(mail'[j])
          PROVE  Before(results[i], mail'[j])
        <3>1. CASE j \in DOMAIN mail
            BY <2>4, <2>7, <3>1 DEF OrderInv
        <3>2. CASE j \notin DOMAIN mail
            <4>1. Overtakes(results[i], requests[j - Len(mail)])
                BY <2>4, <3>2 DEF OrderInv
            <4> QED
                BY <2>4, <2>n, <3>2, <4>1 DEF Overtakes, Before
        <3> QED
            BY <3>1, <3>2
    <2>8. ASSUME NEW i \in DOMAIN mail', IsResult(mail'[i]) PROVE Known(mail'[i])
        <3>1. CASE i \in DOMAIN mail
            BY <2>4, <2>8, <3>1 DEF OrderInv
        <3>2. CASE i \notin DOMAIN mail
            <4>1. requests[i - Len(mail)].id <= asked
                BY <2>4, <3>2 DEF OrderInv
            <4> QED
                BY <2>4, <2>n, <3>2, <4>1 DEF Known
        <3> QED
            BY <3>1, <3>2
    <2>9. DOMAIN requests' = {}
        BY <2>1
    <2>10. /\ \A i, j \in DOMAIN results' : i < j => Before(results'[i], results'[j])
           /\ \A i \in DOMAIN results' : Known(results'[i])
        BY <2>1 DEF OrderInv
    <2>11. /\ \A i, j \in DOMAIN mail' : i < j /\ IsResult(mail'[i]) /\ IsResult(mail'[j]) =>
                 Before(mail'[i], mail'[j])
           /\ \A i \in DOMAIN results', j \in DOMAIN mail' : IsResult(mail'[j]) => Before(results'[i], mail'[j])
           /\ \A i \in DOMAIN mail' : IsResult(mail'[i]) => Known(mail'[i])
        BY <2>1, <2>6, <2>7, <2>8
    <2>12. \A a : Known(a) <=> Known(a)'
        BY <2>1 DEF Known
    <2> QED
        BY <2>9, <2>10, <2>11, <2>12 DEF OrderInv, Before, Overtakes
<1>7. ASSUME NEW fails \in BOOLEAN, DrainRequest(fails) PROVE OrderInv'
    <2>1. requests # <<>> /\ Head(requests) \in RequestSet
        BY <1>7, <1>t DEF DrainRequest, Draining
    <2>2. /\ InternalCreateDescription(Head(requests), fails) /\ requests' = Tail(requests)
          /\ UNCHANGED <<asked, results>>
        BY <1>7 DEF DrainRequest
    <2>3. PICK x \in MailSet : /\ mail' = Append(mail, x) /\ x.id = Head(requests).id
                               /\ version' = version + 1
                               /\ x.d = NoDesc \/ x.d.ver = version
        BY <1>c, <2>1, <2>2
    <2> DEFINE r == Head(requests)
    <2>4. r \in RequestSet /\ r = Head(requests) /\ x.id = r.id
        BY <2>1, <2>3
    <2> HIDE DEF r
    <2> QED
        BY <2>1, <2>2, <2>3, <2>4, OrderCreated
<1>8. OnGenerateIdentity \/ OnState =>
          /\ mail # <<>> /\ UNCHANGED <<results, requests, asked, version>>
          /\ \E s : mail' = Tail(mail) \/ mail' = Posted(s, Tail(mail))
    BY DEF OnGenerateIdentity, OnState, NextMail, history, factoryVars
<1>9. ASSUME \/ \E d \in LocalDescs, bad \in BOOLEAN : SetLocalDescription(d, bad)
             \/ \E d \in RemoteDescs, bad \in BOOLEAN : SetRemoteDescription(d, bad)
             \/ Terminate
      PROVE  \E s : mail' = Posted(s, mail) /\ UNCHANGED <<results, requests, asked, version>>
    BY <1>9 DEF SetLocalDescription, SetRemoteDescription, Terminate, UpdateSessionState, history, factoryVars
<1>10. ASSUME \/ \E d \in LocalDescs : SetLocalDescriptionInPart(d)
              \/ \E d \in RemoteDescs : SetRemoteDescriptionInPart(d)
              \/ OnIdentityReady \/ UNCHANGED vars
              \/ \E c \in Candidates : ProcessIceMessage(c)
       PROVE  UNCHANGED <<results, requests, asked, version, mail>>
    BY <1>10 DEF SetLocalDescriptionInPart, SetRemoteDescriptionInPart, OnIdentityReady, vars,
       ProcessIceMessage, history, factoryVars
<1>11. CASE OnGenerateIdentity \/ OnState
    BY <1>4, <1>8, <1>11
<1>12. CASE \/ \E d \in LocalDescs, bad \in BOOLEAN : SetLocalDescription(d, bad)
            \/ \E d \in RemoteDescs, bad \in BOOLEAN : SetRemoteDescription(d, bad)
            \/ Terminate
    BY <1>3, <1>9, <1>12
<1>13. CASE \/ \E d \in LocalDescs : SetLocalDescriptionInPart(d)
            \/ \E d \in RemoteDescs : SetRemoteDescriptionInPart(d)
            \/ OnIdentityReady \/ UNCHANGED vars
            \/ \E c \in Candidates : ProcessIceMessage(c)
    BY <1>2, <1>10, <1>13
<1>14. CASE \E r \in RequestSet, refused, fails \in BOOLEAN : r.id = asked + 1 /\ Create(r, refused, fails)
    BY <1>1, <1>14
<1>15. CASE \E fails \in BOOLEAN : DrainRequest(fails)
    BY <1>7, <1>15
<1> QED
    BY NextCases, <1>5, <1>6, <1>11, <1>12, <1>13, <1>14, <1>15

\* Every request has at most one result, and the descriptions are handed out in
\* the order of the requests and of their versions, for any number of requests,
\* refused, failed, made at once or held back for the identity.
THEOREM ResultsOrdered == Spec => []ResultsInOrder
<1>1. Init => OrderInv
    <2> SUFFICES ASSUME Init PROVE OrderInv
        OBVIOUS
    <2>1. \A i \in DOMAIN mail : ~IsResult(mail[i])
        BY DEF Init, Mail, IsResult
    <2> QED
        BY <2>1 DEF Init, OrderInv
<1>2. OrderInv => ResultsInOrder
    BY DEF OrderInv, Before, ResultsInOrder
<1> QED
    BY <1>1, <1>2, InitBase, NextBase, NextOrder, PTL DEF Spec
=============================================================================
