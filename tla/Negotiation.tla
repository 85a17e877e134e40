---------------------------- MODULE Negotiation ----------------------------
(***************************************************************************)
(* Offer and answer in a peer connection: WebRtcSessionDescriptionFactory,  *)
(* which makes the descriptions, and WebRtcSession over BaseSession, which  *)
(* applies them (talk/app/webrtc/webrtcsession*.cc, webrtc/p2p/base/        *)
(* session.cc). Everything runs on the signaling thread; what is posted to  *)
(* it waits in `mail' and is overtaken by calls of the application and by   *)
(* the identity service.                                                    *)
(*                                                                          *)
(* A description is its type, its session version, a number for its ICE     *)
(* credentials and its candidates; there is one media section. The          *)
(* application sets local descriptions that the factory gave it. Calls that *)
(* are refused without any effect are not steps.                            *)
(***************************************************************************)
EXTENDS Integers, Sequences, SequencesExt

CONSTANTS
    IdentityModes,   \* "none", "refused", "service", "generate": DTLS identity
    Candidates,      \* the remote ICE candidates
    Failures,        \* steps that may fail: "options", "create", "pushdown", "content", "channels"
    MayClose,
    MaxRequests,     \* bound on CreateOffer and CreateAnswer calls
    MaxRemote        \* bound on remote descriptions applied

ASSUME ModesAssumption ==
    IdentityModes \subseteq {"none", "refused", "service", "generate"}
ASSUME FailuresAssumption ==
    Failures \subseteq {"options", "create", "pushdown", "content", "channels"}
ASSUME BoundsAssumption == MaxRequests \in Nat /\ MaxRemote \in Nat

VARIABLES
    identity,     \* identity_request_state_
    pending,      \* the identity service owes an answer
    requests,     \* create_session_description_requests_
    mail,         \* what is posted on the signaling thread
    version,      \* session_version_
    nextIce,      \* the next fresh local ICE credentials
    latch,        \* ice_restart_latch_
    state,        \* state_ of BaseSession
    error,        \* error_ of BaseSession is set
    local,        \* local_desc_, and BaseSession's copy of it
    remote,       \* remote_desc_
    baseRemote,   \* remote_description_ of BaseSession
    ldSet, rdSet, \* the transport has its local and remote description
    saved,        \* saved_candidates_
    used,         \* the candidates given to the transport
    hands,        \* the descriptions the application was given
    asked,        \* number of requests made
    remoteCount,
    accepted,     \* history: the candidates AddIceCandidate accepted
    results,      \* history: the results the observers were given
    made,         \* history: the last description made
    agreedIce,    \* history: remote credentials of the last finished negotiation
    halfApplied   \* history: a description was applied in part

factoryVars == <<identity, pending, requests, version, nextIce>>
sessionVars == <<state, error, local, remote, baseRemote, ldSet, rdSet, saved, used>>
history == <<accepted, results, made, agreedIce, halfApplied>>
vars == <<factoryVars, sessionVars, latch, mail, hands, asked, remoteCount, history>>

Types == {"none", "offer", "pranswer", "answer"}
States == {"init", "sentinitiate", "receivedinitiate", "sentpraccept",
           "receivedpraccept", "sentaccept", "receivedaccept", "inprogress",
           "receivedterminate"}

Desc(type, ver, ice, cands) ==
    [type |-> type, ver |-> ver, ice |-> ice, cands |-> cands]
NoDesc == Desc("none", 0, 0, {})
Descs == [type : Types, ver : Nat, ice : Nat, cands : SUBSET Candidates]

\* A posted message: a result for request `id', MSG_STATE or MSG_GENERATE_IDENTITY.
Mail(k, id, d) == [k |-> k, id |-> id, d |-> d]
Failed(id) == Mail("failed", id, NoDesc)
MsgState == Mail("state", 0, NoDesc)

TypeOK ==
    /\ identity \in {"not_needed", "waiting", "succeeded", "failed"}
    /\ pending \in BOOLEAN /\ latch \in BOOLEAN /\ error \in BOOLEAN
    /\ requests \in Seq([id : 1 .. MaxRequests, type : {"offer", "answer"},
                         restart : BOOLEAN])
    /\ requests # <<>> => identity \in {"waiting", "succeeded"}
    /\ pending => identity = "waiting"
    /\ mail \in Seq([k : {"success", "failed", "state", "generate"},
                     id : 0 .. MaxRequests, d : Descs])
    /\ version \in Nat /\ nextIce \in Nat
    /\ state \in States
    /\ local \in Descs /\ remote \in Descs /\ baseRemote \in Descs
    /\ ldSet \in BOOLEAN /\ rdSet \in BOOLEAN
    /\ saved \subseteq Candidates /\ used \subseteq Candidates
    /\ hands \subseteq Descs
    /\ asked \in 0 .. MaxRequests /\ remoteCount \in 0 .. MaxRemote

Init ==
    /\ \E mode \in IdentityModes :
          /\ identity = CASE mode = "none" -> "not_needed"
                          [] mode = "refused" -> "failed"
                          [] OTHER -> "waiting"
          /\ pending = (mode = "service")
          /\ mail = IF mode = "generate" THEN <<Mail("generate", 0, NoDesc)>>
                    ELSE <<>>
    /\ requests = <<>> /\ version = 2 /\ nextIce = 1 /\ latch = FALSE
    /\ state = "init" /\ error = FALSE
    /\ local = NoDesc /\ remote = NoDesc /\ baseRemote = NoDesc
    /\ ldSet = FALSE /\ rdSet = FALSE
    /\ saved = {} /\ used = {} /\ hands = {}
    /\ asked = 0 /\ remoteCount = 0
    /\ accepted = {} /\ results = <<>> /\ agreedIce = 0 /\ halfApplied = FALSE
    /\ made = [type |-> "none", basis |-> "none", owed |-> FALSE,
               again |-> FALSE, fresh |-> FALSE, answeredIce |-> 0]

-----------------------------------------------------------------------------
(***************************************************************************)
(* The description factory.                                                 *)
(***************************************************************************)
\* SetIdentity works off the queued requests in its own loop: while it does,
\* nothing else runs.
Draining == identity = "succeeded" /\ requests # <<>>

May(f) == IF f \in Failures THEN BOOLEAN ELSE {FALSE}

\* New ICE credentials are made when there are none yet or on a restart.
Fresh(restart) == local = NoDesc \/ restart

\* The remote credentials have changed since the last finished negotiation, so
\* that an answer owes new ones; `again' if an answer was made for them before.
Made(type, restart) ==
    [type |-> type, basis |-> baseRemote.type,
     owed |-> type = "answer" /\ local # NoDesc /\ agreedIce # 0
              /\ remote.ice # agreedIce,
     again |-> made.answeredIce = remote.ice,
     fresh |-> Fresh(restart),
     answeredIce |-> IF type = "answer" THEN remote.ice ELSE made.answeredIce]

\* Mutant: the version does not move.
BugInternalCreate(r, restart, fails) ==
    LET d == Desc(r.type, version, IF Fresh(restart) THEN nextIce ELSE local.ice, {})
    IN
    /\ mail' = Append(mail, IF fails THEN Failed(r.id) ELSE Mail("success", r.id, d))
    /\ nextIce' = IF Fresh(restart) THEN nextIce + 1 ELSE nextIce
    /\ made' = IF fails THEN made ELSE Made(r.type, restart)
    /\ UNCHANGED version

\* What InternalCreateOffer and InternalCreateAnswer share.
InternalCreate(r, restart, fails) ==
    LET d == Desc(r.type, version, IF Fresh(restart) THEN nextIce ELSE local.ice, {})
    IN
    /\ version' = version + 1
    /\ mail' = Append(mail, IF fails THEN Failed(r.id) ELSE Mail("success", r.id, d))
    /\ nextIce' = IF Fresh(restart) THEN nextIce + 1 ELSE nextIce
    /\ made' = IF fails THEN made ELSE Made(r.type, restart)

InternalCreateOffer(r, fails) ==
    InternalCreate(r, r.restart, fails) /\ UNCHANGED latch

\* Mutant: the ICE restart of the remote offer is not looked at.
BugInternalCreateAnswer(r, fails) ==
    InternalCreate(r, FALSE, fails) /\ latch' = FALSE

\* The latch is reset by the first answer that is made.
InternalCreateAnswer(r, fails) ==
    InternalCreate(r, latch, fails) /\ latch' = (latch /\ fails)

InternalCreateDescription(r, fails) ==
    IF r.type = "offer" THEN InternalCreateOffer(r, fails)
    ELSE InternalCreateAnswer(r, fails)

\* Refused, queued for the identity, or made at once.
Create(r, refused, fails) ==
    /\ ~Draining /\ asked < MaxRequests
    /\ asked' = asked + 1
    /\ \/ /\ identity = "failed" \/ refused
          /\ mail' = Append(mail, Failed(r.id))
          /\ UNCHANGED <<requests, version, nextIce, latch, made>>
       \/ /\ identity = "waiting" /\ ~refused
          /\ requests' = Append(requests, r)
          /\ UNCHANGED <<mail, version, nextIce, latch, made>>
       \/ /\ identity \in {"succeeded", "not_needed"} /\ ~refused
          /\ InternalCreateDescription(r, fails)
          /\ UNCHANGED requests
    /\ UNCHANGED <<identity, pending, sessionVars, hands, remoteCount, accepted,
                   results, agreedIce, halfApplied>>

\* `bad': the options or the streams are not valid.
CreateOffer(restart, bad, fails) ==
    Create([id |-> asked + 1, type |-> "offer", restart |-> restart], bad, fails)

\* Mutant: the type of the remote description is not looked at.
BugCreateAnswer(bad, fails) ==
    Create([id |-> asked + 1, type |-> "answer", restart |-> FALSE],
           bad \/ remote = NoDesc, fails)

CreateAnswer(bad, fails) ==
    Create([id |-> asked + 1, type |-> "answer", restart |-> FALSE],
           bad \/ remote.type # "offer", fails)

OnIdentityReady ==
    /\ ~Draining /\ pending
    /\ pending' = FALSE /\ identity' = "succeeded"
    /\ UNCHANGED <<requests, version, nextIce, sessionVars, latch, mail, hands,
                   asked, remoteCount, history>>

\* Mutant: only the first request is made, and the queue is dropped.
BugDrainRequest(fails) ==
    /\ Draining
    /\ requests' = <<>>
    /\ InternalCreateDescription(Head(requests), fails)
    /\ UNCHANGED <<identity, pending, sessionVars, hands, asked, remoteCount,
                   accepted, results, agreedIce, halfApplied>>

\* The loop of SetIdentity.
DrainRequest(fails) ==
    /\ Draining
    /\ requests' = Tail(requests)
    /\ InternalCreateDescription(Head(requests), fails)
    /\ UNCHANGED <<identity, pending, sessionVars, hands, asked, remoteCount,
                   accepted, results, agreedIce, halfApplied>>

\* Mutant: the queue is not emptied.
BugOnIdentityRequestFailed ==
    /\ ~Draining /\ pending
    /\ pending' = FALSE /\ identity' = "failed"
    /\ UNCHANGED <<requests, mail, version, nextIce, sessionVars, latch, hands,
                   asked, remoteCount, history>>

OnIdentityRequestFailed ==
    /\ ~Draining /\ pending
    /\ pending' = FALSE /\ identity' = "failed"
    /\ mail' = mail \o [i \in DOMAIN requests |-> Failed(requests[i].id)]
    /\ requests' = <<>>
    /\ UNCHANGED <<version, nextIce, sessionVars, latch, hands, asked,
                   remoteCount, history>>

-----------------------------------------------------------------------------
(***************************************************************************)
(* Posted messages, in the order in which they were posted.                 *)
(***************************************************************************)
NextMail(k) == ~Draining /\ mail # <<>> /\ Head(mail).k = k

\* The observer gets its result, and the application the description.
OnResult ==
    /\ NextMail("success") \/ NextMail("failed")
    /\ results' = Append(results, [id |-> Head(mail).id, d |-> Head(mail).d])
    /\ hands' = IF Head(mail).k = "success" THEN hands \cup {Head(mail).d} ELSE hands
    /\ mail' = Tail(mail)
    /\ UNCHANGED <<factoryVars, sessionVars, latch, asked, remoteCount, accepted,
                   made, agreedIce, halfApplied>>

\* SetIdentity: a failed generation gives a null identity, with which every
\* creation fails.
OnGenerateIdentity ==
    /\ NextMail("generate")
    /\ identity' = "succeeded"
    /\ mail' = Tail(mail)
    /\ UNCHANGED <<pending, requests, version, nextIce, sessionVars, latch, hands,
                   asked, remoteCount, history>>

\* BaseSession::SetState posts MSG_STATE when the state changes.
Posted(s, m) == IF s = state THEN m ELSE Append(m, MsgState)

\* Mutant: the state at the time of the post is taken for the current one.
BugOnState ==
    /\ NextMail("state")
    /\ state' = IF state \in {"init", "sentinitiate", "receivedinitiate"} THEN state
                ELSE "inprogress"
    /\ mail' = Posted(state', Tail(mail))
    /\ UNCHANGED <<factoryVars, error, local, remote, baseRemote, ldSet, rdSet,
                   saved, used, latch, hands, asked, remoteCount, history>>

\* MSG_STATE looks at the state of now, not at that of the post.
OnState ==
    /\ NextMail("state")
    /\ state' = IF state \in {"sentaccept", "receivedaccept"} THEN "inprogress"
                ELSE state
    /\ mail' = Posted(state', Tail(mail))
    /\ UNCHANGED <<factoryVars, error, local, remote, baseRemote, ldSet, rdSet,
                   saved, used, latch, hands, asked, remoteCount, history>>

(***************************************************************************)
(* Local descriptions.                                                      *)
(***************************************************************************)
ExpectSetLocalDescription(type) ==
    \/ type = "offer" /\ state \in {"init", "sentinitiate", "receivedaccept",
                                    "sentaccept", "inprogress"}
    \/ type \in {"answer", "pranswer"} /\ state \in {"receivedinitiate", "sentpraccept"}

ExpectSetRemoteDescription(type) ==
    \/ type = "offer" /\ state \in {"init", "receivedinitiate", "receivedaccept",
                                    "sentaccept", "inprogress"}
    \/ type \in {"answer", "pranswer"} /\ state \in {"sentinitiate", "receivedpraccept"}

\* ValidateSessionDescription: no error is pending and the type is expected.
ValidateSessionDescription(expected) == ~Draining /\ ~error /\ expected

LocalState == [offer |-> "sentinitiate", pranswer |-> "sentpraccept",
               answer |-> "sentaccept"]
RemoteState == [offer |-> "receivedinitiate", pranswer |-> "receivedpraccept",
                answer |-> "receivedaccept"]

\* UpdateSessionState after the transport has taken the description; `bad': a
\* media channel does not like its content and sets the session's error.
UpdateSessionState(s, bad) ==
    /\ state' = s /\ mail' = Posted(s, mail)
    /\ error' = bad

\* ReadyToUseRemoteCandidate, for a transport with these descriptions.
Ready(ld, rd) == ld /\ rd

\* The transport is given the candidates, if it is ready for them; the error of
\* one it does not like is only logged.
UseCandidatesInSessionDescription(cands, ld, rd) ==
    used' = IF Ready(ld, rd) THEN used \cup cands ELSE used

CopySavedCandidates(d) == [d EXCEPT !.cands = @ \cup saved]

\* What may refuse a description that has been stored: the creation of a media
\* channel that an offer asks for, and the transport.
CreateChannelsFails(d) == "channels" \in Failures /\ d.type = "offer"
PushdownFails == "pushdown" \in Failures

\* The saved candidates join the remote description, if there is one, and the
\* transport is given all its candidates.
StartCandidatesAllocation ==
    /\ IF remote = NoDesc THEN UNCHANGED <<remote, saved>>
       ELSE /\ remote' = CopySavedCandidates(remote)
            /\ saved' = IF Ready(TRUE, rdSet) THEN {} ELSE remote'.cands
    /\ UseCandidatesInSessionDescription(remote'.cands, TRUE, rdSet)

\* Validated and stored; then the channels are not created, or the transport
\* refuses: the state stays as it was.
SetLocalDescriptionInPart(d) ==
    /\ ValidateSessionDescription(ExpectSetLocalDescription(d.type))
    /\ PushdownFails \/ CreateChannelsFails(d)
    /\ local' = d /\ halfApplied' = TRUE
    /\ UNCHANGED <<factoryVars, state, error, remote, baseRemote, ldSet, rdSet,
                   saved, used, latch, mail, hands, asked, remoteCount, accepted,
                   results, made, agreedIce>>

SetLocalDescription(d, bad) ==
    /\ ValidateSessionDescription(ExpectSetLocalDescription(d.type))
    /\ local' = d /\ ldSet' = TRUE
    /\ UpdateSessionState(LocalState[d.type], bad)
    /\ IF bad THEN UNCHANGED <<remote, saved, used>> ELSE StartCandidatesAllocation
    /\ agreedIce' = IF d.type = "answer" /\ ~bad THEN remote.ice ELSE agreedIce
    /\ halfApplied' = (halfApplied \/ bad)
    /\ UNCHANGED <<factoryVars, baseRemote, rdSet, latch, hands, asked,
                   remoteCount, accepted, results, made>>

(***************************************************************************)
(* Remote descriptions.                                                     *)
(***************************************************************************)
SetRemoteDescriptionInPart(d) ==
    /\ ValidateSessionDescription(ExpectSetRemoteDescription(d.type))
    /\ PushdownFails
    /\ baseRemote' = d /\ halfApplied' = TRUE
    /\ UNCHANGED <<factoryVars, state, error, local, remote, ldSet, rdSet, saved,
                   used, latch, mail, hands, asked, accepted, results, made,
                   agreedIce>>

CheckForRemoteIceRestart(d) ==
    latch \/ (remote # NoDesc /\ d.type = "offer" /\ d.ice # remote.ice)

\* Mutant: the candidates of the previous description are not retained.
BugAllCandidates(d) == d.cands \cup saved

\* CopySavedCandidates and CopyCandidatesFromSessionDescription.
AllCandidates(d) == CopySavedCandidates(d).cands \cup remote.cands

\* UseCandidatesInSessionDescription runs before the saved candidates join; it
\* fails only for a media section that does not exist.
SetRemoteDescription(d, bad) ==
    /\ ValidateSessionDescription(ExpectSetRemoteDescription(d.type))
    /\ baseRemote' = d /\ rdSet' = TRUE
    /\ UpdateSessionState(RemoteState[d.type], bad)
    /\ IF bad THEN UNCHANGED <<remote, saved, used, latch>>
       ELSE /\ IF local = NoDesc THEN UNCHANGED used
               ELSE UseCandidatesInSessionDescription(d.cands, ldSet, TRUE)
            /\ remote' = [d EXCEPT !.cands = AllCandidates(d)] /\ saved' = {}
            /\ latch' = CheckForRemoteIceRestart(d)
    /\ agreedIce' = IF d.type = "answer" /\ ~bad THEN d.ice ELSE agreedIce
    /\ halfApplied' = (halfApplied \/ bad)
    /\ UNCHANGED <<factoryVars, local, ldSet, hands, asked, accepted, results, made>>

UseCandidate(c) == used' = used \cup {c}

\* ProcessIceMessage: use the candidate, or save it.
ProcessIceMessage(c) ==
    /\ ~Draining /\ state # "init"
    /\ accepted' = accepted \cup {c}
    /\ IF remote # NoDesc /\ Ready(ldSet, rdSet)
       THEN /\ remote' = [remote EXCEPT !.cands = @ \cup {c}]
            /\ UseCandidate(c) /\ UNCHANGED saved
       ELSE saved' = saved \cup {c} /\ UNCHANGED <<remote, used>>
    /\ UNCHANGED <<factoryVars, state, error, local, baseRemote, ldSet, rdSet,
                   latch, mail, hands, asked, remoteCount, results, made,
                   agreedIce, halfApplied>>

\* RemoveUnusedChannelsAndTransports(NULL) destroys the transports. Its calls on a
\* description do nothing here: the one media section is never rejected.
DestroyTransports == ldSet' = FALSE /\ rdSet' = FALSE

Terminate ==
    /\ MayClose /\ ~Draining
    /\ state' = "receivedterminate" /\ mail' = Posted("receivedterminate", mail)
    /\ DestroyTransports
    /\ UNCHANGED <<factoryVars, error, local, remote, baseRemote, saved, used,
                   latch, hands, asked, remoteCount, history>>

-----------------------------------------------------------------------------
\* What the application may set: a description it was given, an answer also
\* as a provisional one.
LocalDescs == hands \cup {[d EXCEPT !.type = "pranswer"] :
                             d \in {a \in hands : a.type = "answer"}}

\* What the peer may send: it keeps its credentials or takes new ones, and
\* puts some of its candidates in the description.
RemoteDescs ==
    [type : {"offer", "pranswer", "answer"}, ver : {0},
     ice : {remoteCount + 1} \cup ({remote.ice} \ {0}), cands : SUBSET Candidates]

Requests ==
    \E bad \in May("options"), fails \in May("create") :
        \/ \E restart \in BOOLEAN : CreateOffer(restart, bad, fails)
        \/ CreateAnswer(bad, fails)

Local ==
    \E d \in LocalDescs :
        \/ SetLocalDescriptionInPart(d)
        \/ \E bad \in May("content") : SetLocalDescription(d, bad)

Remote ==
    /\ remoteCount < MaxRemote /\ remoteCount' = remoteCount + 1
    /\ \E d \in RemoteDescs :
          \/ SetRemoteDescriptionInPart(d)
          \/ \E bad \in May("content") : SetRemoteDescription(d, bad)

OnMessage == OnResult \/ OnGenerateIdentity \/ OnState
Identity == OnIdentityReady \/ OnIdentityRequestFailed
Drain == \E fails \in May("create") : DrainRequest(fails)

Next ==
    \/ Requests \/ Local \/ Remote \/ OnMessage \/ Identity \/ Drain \/ Terminate
    \/ \E c \in Candidates : ProcessIceMessage(c)

Spec == Init /\ [][Next]_vars

(***************************************************************************)
(* The signaling thread works off its messages and its loops, and the       *)
(* identity service answers.                                                *)
(***************************************************************************)
FairSpec == Spec /\ WF_vars(OnMessage) /\ WF_vars(Drain) /\ WF_vars(Identity)

-----------------------------------------------------------------------------
(***************************************************************************)
(* Properties.                                                              *)
(***************************************************************************)

\* A request gets one result, and the descriptions come in the order of the
\* requests with increasing versions, whether they were made at once or waited
\* for the identity.
ResultsInOrder ==
    \A i, j \in DOMAIN results : i < j =>
        /\ results[i].id # results[j].id
        /\ results[i].d # NoDesc /\ results[j].d # NoDesc =>
              results[i].id < results[j].id /\ results[i].d.ver < results[j].d.ver

\* Unless a call failed half way, the session's state and the types of the two
\* descriptions fit together, whatever is set and posted in between.
DescriptionsFollowState ==
    ~halfApplied =>
        /\ state = "sentinitiate" => local.type = "offer"
        /\ state = "receivedinitiate" => remote.type = "offer"
        /\ state = "sentpraccept" => <<local.type, remote.type>> = <<"pranswer", "offer">>
        /\ state = "receivedpraccept" => <<local.type, remote.type>> = <<"offer", "pranswer">>
        /\ state = "inprogress" => {local.type, remote.type} = {"offer", "answer"}
        /\ baseRemote.type = remote.type

\* An answer is made from an offer, also when the request has waited for the
\* identity since the remote description was looked at.
AnswerIsToAnOffer ==
    ~halfApplied /\ made.type = "answer" => made.basis = "offer"

\* When the remote offer has brought new ICE credentials, the first answer made
\* for them has new ones too. (A second answer to the same offer has not: the
\* latch is reset when an answer is made, not when one is applied.)
RestartIsAnswered ==
    made.owed /\ ~made.again => made.fresh

\* A candidate that AddIceCandidate accepted is saved or in the remote
\* description, and the side that answers has given all of them to the
\* transport when it has set its answer.
CandidatesKept ==
    /\ accepted \subseteq saved \cup remote.cands
    /\ state = "sentaccept" /\ ~halfApplied => accepted \subseteq used

\* When a negotiation has finished, every candidate that AddIceCandidate
\* accepted has been given to the transport.
CandidatesReachTransport ==
    state \in {"sentaccept", "receivedaccept", "inprogress"} /\ ~halfApplied =>
        accepted \subseteq used

\* Every request is answered.
RequestsAnswered ==
    \A n \in 1 .. MaxRequests :
        asked >= n ~> \E i \in DOMAIN results : results[i].id = n
=============================================================================
