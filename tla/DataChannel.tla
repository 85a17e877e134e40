---------------------------- MODULE DataChannel ----------------------------
(***************************************************************************)
(* webrtc::DataChannel (talk/app/webrtc/datachannel.cc): one data channel   *)
(* over the session's SCTP or RTP data transport. Everything runs on the    *)
(* signaling thread, but a handler is not atomic: it calls functions that   *)
(* call the observer, and the observer may call Send or Close before the    *)
(* outer function goes on. `todo' is that call stack: the functions still   *)
(* to run, the innermost first. Events come in when it is empty.            *)
(*                                                                          *)
(* The messages sent and received are numbered; `wire' is what the          *)
(* transport took. The transport takes, blocks or refuses each packet.      *)
(***************************************************************************)
EXTENDS Integers, Sequences, SequencesExt

CONSTANTS
    Configs,           \* the kinds of channel, and of world around it
    MaxQueuedSendBytes, MaxQueuedReceivedBytes,
    MaxSends, MaxReceives                        \* bounds on the messages

Outcomes == {"ok", "block", "error"}

ASSUME ConfigAssumption ==
    \A c \in Configs :
        /\ c.type \in {"SCTP", "RTP"} /\ c.role \in {"opener", "acker", "none"}
        /\ {c.ordered, c.sid, c.transport, c.ready} \subseteq BOOLEAN
        \* a transport that is ready has been created and its DTLS role, hence
        \* the stream id, is known
        /\ c.ready => c.transport /\ c.sid
        /\ c.data \subseteq Outcomes /\ c.control \subseteq Outcomes
        /\ c.reactions \subseteq {"send", "close"}
        /\ c.sizes \subseteq Nat \ {0}
ASSUME LimitAssumption ==
    /\ MaxQueuedSendBytes \in Nat /\ MaxQueuedReceivedBytes \in Nat
    /\ MaxSends \in Nat /\ MaxReceives \in Nat

VARIABLES
    config,            \* the one of Configs that this channel has
    state,             \* state_
    observer,          \* observer_ is set
    waitingAck,        \* waiting_for_open_ack_
    everWritable,      \* was_ever_writable_
    connected,         \* connected_to_provider_
    sid,               \* config_.id >= 0
    sendSsrcSet, recvSsrcSet,
    ctrlq,             \* number of messages in queued_control_data_
    recvq, recvBytes,  \* queued_received_data_ and its byte_count_
    sendq, sendBytes,  \* queued_send_data_ and its byte_count_
    heap,              \* the front of queued_send_data_: see FlushData
    transport,         \* the session's data channel: "none", "up" or "gone"
    listed,            \* the signaling layer has the channel in its list
    posted,            \* MSG_CHANNELREADY is in the thread's queue
    todo,
    wire, heard,       \* history: what was sent; did the peer send anything;
    refused,           \* was a handshake message refused that had blocked before
    accepted, arrived, shown

flags == <<waitingAck, everWritable, connected, sid, sendSsrcSet, recvSsrcSet>>
sending == <<sendq, sendBytes, heap>>
receiving == <<recvq, recvBytes>>
outside == <<observer, transport, listed, posted>>
history == <<config, heard, refused, accepted, arrived, shown>>
vars == <<state, flags, ctrlq, sending, receiving, outside, todo, wire, history>>

Type == config.type                      \* data_channel_type_
Role == config.role                      \* of the OPEN handshake, on SCTP
Ordered == config.ordered                \* config_.ordered
DataOutcomes == config.data              \* what SendData may answer for data,
ControlOutcomes == config.control        \* and for a control message
Reactions == config.reactions            \* what the observer may do in a callback
Sizes == config.sizes                    \* of the payloads

\* The DataState values, in their order.
Rank == [connecting |-> 0, open |-> 1, closing |-> 2, closed |-> 3]
Msg(id, size) == [id |-> id, size |-> size]
Call(f) == [f |-> f, m |-> Msg(0, 0)]
CallWith(f, m) == [f |-> f, m |-> m]
CallNames == {"Close", "SetOpen", "SetClosing", "SetClosed", "UpdateState",
              "SendControl", "FlushControl", "Deliver", "DeliverFront",
              "PopReceived", "FlushData", "Send",
              "OnStateChange", "OnMessage", "TransportGone"}
Messages == [id : 0 .. MaxSends + MaxReceives, size : Sizes \cup {0}]

TypeOK ==
    /\ state \in DOMAIN Rank
    /\ flags \in [1 .. 6 -> BOOLEAN]
    /\ ctrlq \in Nat
    /\ recvq \in Seq(Messages) /\ recvBytes \in Nat
    /\ sendq \in Seq(Messages) /\ sendBytes \in Nat
    /\ heap \in {"ok", "dangling", "corrupt", "crashed"}
    /\ transport \in {"none", "up", "gone"}
    /\ observer \in BOOLEAN /\ listed \in BOOLEAN /\ posted \in BOOLEAN
    /\ todo \in Seq([f : CallNames, m : Messages])
    /\ accepted \in 0 .. MaxSends /\ arrived \in 0 .. MaxReceives

\* Create, and AddDataChannel.
Init ==
    /\ config \in Configs
    /\ state = "connecting" /\ observer = FALSE
    /\ waitingAck = FALSE /\ everWritable = FALSE
    /\ connected = (Type = "SCTP" /\ config.transport)
    /\ sid = (Type = "SCTP" /\ config.sid)
    /\ sendSsrcSet = FALSE /\ recvSsrcSet = FALSE
    /\ ctrlq = 0
    /\ recvq = <<>> /\ recvBytes = 0 /\ sendq = <<>> /\ sendBytes = 0
    /\ heap = "ok"
    /\ transport = IF config.transport THEN "up" ELSE "none"
    /\ listed = TRUE
    /\ posted = (Type = "SCTP" /\ config.ready)
    /\ todo = <<>>
    /\ wire = <<>> /\ heard = FALSE /\ refused = FALSE
    /\ accepted = 0 /\ arrived = 0 /\ shown = <<>>

-----------------------------------------------------------------------------
(***************************************************************************)
(* The call stack.                                                          *)
(***************************************************************************)
Running(f) == todo # <<>> /\ Head(todo).f = f /\ heap # "crashed"
Idle == todo = <<>> /\ heap # "crashed"
Return == todo' = Tail(todo)
ReturnTo(calls) == todo' = calls \o Tail(todo)

(***************************************************************************)
(* State changes.                                                           *)
(***************************************************************************)
SetState(f, s) ==
    /\ Running(f)
    /\ state' = s
    /\ ReturnTo(IF state # s /\ observer THEN <<Call("OnStateChange")>> ELSE <<>>)
    /\ UNCHANGED <<flags, ctrlq, sending, receiving, outside, wire, history>>

BeginClosing == <<Call("SetClosing"), Call("UpdateState")>>

\* Mutant: a closed channel is closed again.
BugClose ==
    /\ Running("Close")
    /\ sendSsrcSet' = FALSE
    /\ ReturnTo(BeginClosing)
    /\ UNCHANGED <<state, waitingAck, everWritable, connected, sid, recvSsrcSet,
                   ctrlq, sending, receiving, outside, wire, history>>

Close ==
    /\ Running("Close")
    /\ \/ state = "closed" /\ Return /\ UNCHANGED sendSsrcSet
       \/ /\ state # "closed"
          /\ sendSsrcSet' = FALSE
          /\ ReturnTo(BeginClosing)
    /\ UNCHANGED <<state, waitingAck, everWritable, connected, sid, recvSsrcSet,
                   ctrlq, sending, receiving, outside, wire, history>>

\* RemoveSctpDataStream also takes the channel out of sctp_data_channels_.
DisconnectFromTransport ==
    /\ connected' = FALSE
    /\ listed' = (listed /\ ~(connected /\ sid))

UpdateState ==
    /\ Running("UpdateState")
    /\ \/ /\ state = "connecting" /\ sendSsrcSet = recvSsrcSet
          /\ connected' = (connected \/ (Type = "RTP" /\ transport = "up"))
          /\ UNCHANGED listed
          /\ ReturnTo(IF everWritable
                      THEN <<Call("FlushControl"), Call("SetOpen"), Call("Deliver")>>
                      ELSE <<>>)
       \/ /\ state = "closing"
          /\ DisconnectFromTransport
          /\ ReturnTo(IF ~sendSsrcSet /\ ~recvSsrcSet
                      THEN <<Call("SetClosed")>> ELSE <<>>)
       \/ /\ state \in {"open", "closed"} \/ (state = "connecting" /\ sendSsrcSet # recvSsrcSet)
          /\ Return /\ UNCHANGED <<connected, listed>>
    /\ UNCHANGED <<state, waitingAck, everWritable, sid, sendSsrcSet,
                   recvSsrcSet, ctrlq, sending, receiving, observer, transport,
                   posted, wire, history>>

(***************************************************************************)
(* Control messages: OPEN by the opener, OPEN_ACK by the acker.             *)
(***************************************************************************)
\* A packet, with what was known when it was sent: whether the peer had been
\* heard, and whether the handshake message was held up.
Packet(k, id, ordered) ==
    [k |-> k, id |-> id, ordered |-> ordered, heard |-> heard,
     held |-> ctrlq > 0 \/ refused]
\* SendData fails without SDR_BLOCK when there is no transport.
Answers(outcomes) == IF transport = "up" THEN outcomes ELSE {"error"}

\* SendQueuedControlMessages, which sends what blocked before, is called with one
\* of these left to do.
Retrying == \E i \in DOMAIN todo : todo[i].f \in {"SetOpen", "FlushData"}

\* Mutant: the opener does not wait for the OPEN_ACK.
BugSendControl(r) ==
    /\ Running("SendControl") /\ r \in Answers(ControlOutcomes)
    /\ wire' = IF r = "ok" THEN Append(wire, Packet("control", 0, TRUE)) ELSE wire
    /\ ctrlq' = IF r = "block" THEN ctrlq + 1 ELSE ctrlq
    /\ refused' = (refused \/ (r = "error" /\ Retrying))
    /\ ReturnTo(IF r = "error" THEN <<Call("Close")>> ELSE <<>>)
    /\ UNCHANGED <<state, flags, sending, receiving, outside, config, heard, accepted,
                   arrived, shown>>

SendControl(r) ==
    /\ Running("SendControl") /\ r \in Answers(ControlOutcomes)
    /\ wire' = IF r = "ok"
               THEN Append(wire, Packet("control", 0, Ordered \/ Role = "opener"))
               ELSE wire
    /\ waitingAck' = (waitingAck \/ (r = "ok" /\ Role = "opener"))
    /\ ctrlq' = IF r = "block" THEN ctrlq + 1 ELSE ctrlq
    /\ refused' = (refused \/ (r = "error" /\ Retrying))
    /\ ReturnTo(IF r = "error" THEN <<Call("Close")>> ELSE <<>>)
    /\ UNCHANGED <<state, everWritable, connected, sid, sendSsrcSet,
                   recvSsrcSet, sending, receiving, outside, config, heard, accepted,
                   arrived, shown>>

\* Mutant: the queue is popped, not swapped.
BugFlushControl ==
    /\ Running("FlushControl")
    /\ ctrlq' = ctrlq - 1
    /\ ReturnTo([i \in 1 .. ctrlq |-> Call("SendControl")])
    /\ UNCHANGED <<state, flags, sending, receiving, outside, wire, history>>

\* The queue is swapped with an empty one, so a message that blocks again is
\* tried once.
FlushControl ==
    /\ Running("FlushControl")
    /\ ctrlq' = 0
    /\ ReturnTo([i \in 1 .. ctrlq |-> Call("SendControl")])
    /\ UNCHANGED <<state, flags, sending, receiving, outside, wire, history>>

(***************************************************************************)
(* Received data.                                                           *)
(***************************************************************************)
Deliver ==
    /\ Running("Deliver")
    /\ ReturnTo(IF everWritable /\ observer THEN <<Call("DeliverFront")>> ELSE <<>>)
    /\ UNCHANGED <<state, flags, ctrlq, sending, receiving, outside, wire, history>>

\* The packet is popped after the observer has seen it.
DeliverFront ==
    /\ Running("DeliverFront")
    /\ ReturnTo(IF recvq = <<>> THEN <<>>
                ELSE <<CallWith("OnMessage", Head(recvq)), Call("PopReceived"),
                       Call("DeliverFront")>>)
    /\ UNCHANGED <<state, flags, ctrlq, sending, receiving, outside, wire, history>>

\* Mutant: byte_count_ is not reduced.
BugPopReceived ==
    /\ Running("PopReceived")
    /\ recvq' = Tail(recvq) /\ UNCHANGED recvBytes
    /\ Return
    /\ UNCHANGED <<state, flags, ctrlq, sending, outside, wire, history>>

PopReceived ==
    /\ Running("PopReceived")
    /\ recvq' = Tail(recvq) /\ recvBytes' = recvBytes - Head(recvq).size
    /\ Return
    /\ UNCHANGED <<state, flags, ctrlq, sending, outside, wire, history>>

(***************************************************************************)
(* The observer: it returns, or first makes one call.                       *)
(***************************************************************************)
React ==
    \/ Return
    \/ /\ "send" \in Reactions /\ accepted < MaxSends
       /\ \E z \in Sizes : ReturnTo(<<CallWith("Send", Msg(0, z))>>)
    \/ "close" \in Reactions /\ ReturnTo(<<Call("Close")>>)

OnStateChange ==
    /\ Running("OnStateChange")
    /\ React
    /\ UNCHANGED <<state, flags, ctrlq, sending, receiving, outside, wire, history>>

OnMessage ==
    /\ Running("OnMessage")
    /\ shown' = Append(shown, Head(todo).m.id)
    /\ React
    /\ UNCHANGED <<state, flags, ctrlq, sending, receiving, outside, wire, config,
                   heard, refused, accepted, arrived>>

(***************************************************************************)
(* Sent data.                                                               *)
(***************************************************************************)
\* The packet goes out ordered until the peer has answered the OPEN.
DataPacket(id) == Packet("data", id, Ordered \/ waitingAck)

\* QueueSendDataMessage, and Close when it fails. The size of the queue is
\* tested before the message is added.
QueueOrClose(m) ==
    \/ /\ sendBytes < MaxQueuedSendBytes
       /\ sendq' = Append(sendq, m) /\ sendBytes' = sendBytes + m.size
       /\ Return
    \/ /\ sendBytes >= MaxQueuedSendBytes
       /\ ReturnTo(<<Call("Close")>>)
       /\ UNCHANGED <<sendq, sendBytes>>

\* Mutant: a message may overtake the queue.
BugMustQueue == FALSE

\* The queue is not empty: the transport is blocked.
MustQueue == sendq # <<>>

\* Send of an open channel; the messages it accepts are numbered. On RTP a
\* message that the transport does not take is refused.
Send(r) ==
    LET m == Msg(accepted + 1, Head(todo).m.size) IN
    /\ Running("Send")
    /\ \/ state # "open" /\ r = "ok" /\ Return
          /\ UNCHANGED <<sendq, sendBytes, wire, accepted>>
       \/ /\ state = "open" /\ MustQueue /\ r = "block"
          /\ QueueOrClose(m)
          /\ accepted' = accepted + 1 /\ UNCHANGED wire
       \/ /\ state = "open" /\ ~MustQueue /\ r \in Answers(DataOutcomes)
          /\ accepted' = IF Type = "RTP" /\ r # "ok" THEN accepted ELSE accepted + 1
          /\ wire' = IF r = "ok" THEN Append(wire, DataPacket(m.id)) ELSE wire
          /\ \/ (r = "ok" \/ Type = "RTP") /\ Return /\ UNCHANGED <<sendq, sendBytes>>
             \/ r = "block" /\ Type = "SCTP" /\ QueueOrClose(m)
             \/ /\ r = "error" /\ Type = "SCTP"
                /\ ReturnTo(<<Call("Close")>>) /\ UNCHANGED <<sendq, sendBytes>>
    /\ UNCHANGED <<state, flags, ctrlq, heap, receiving, outside, config, heard,
                   refused, arrived, shown>>

\* SendQueuedDataMessages takes the front packet into a scoped_ptr, which
\* deletes it even if it could not be sent and stays in the queue. When that
\* packet is tried again its memory is read and deleted again: the program
\* crashes, or sends what it finds there.
FlushData(r) ==
    /\ Running("FlushData")
    /\ \/ /\ sendq = <<>> /\ r = "ok" /\ Return
          /\ UNCHANGED <<sending, wire>>
       \/ /\ sendq # <<>> /\ heap = "ok" /\ r \in Answers(DataOutcomes)
          /\ \/ /\ r = "ok"
                /\ wire' = Append(wire, DataPacket(Head(sendq).id))
                /\ sendq' = Tail(sendq) /\ sendBytes' = sendBytes - Head(sendq).size
                /\ UNCHANGED <<heap, todo>>
             \/ /\ r # "ok" /\ heap' = "dangling"
                /\ ReturnTo(IF r = "error" THEN <<Call("Close")>> ELSE <<>>)
                /\ UNCHANGED <<sendq, sendBytes, wire>>
       \/ /\ sendq # <<>> /\ heap \in {"dangling", "corrupt"} /\ r = "ok"
          /\ \/ heap' = "crashed" /\ UNCHANGED <<sendq, sendBytes, wire>>
             \/ /\ heap' = "corrupt"
                /\ \E id \in {0, Head(sendq).id} : wire' = Append(wire, DataPacket(id))
                /\ sendq' = Tail(sendq)
                /\ \E z \in Sizes : sendBytes' = IF z <= sendBytes THEN sendBytes - z ELSE 0
          /\ UNCHANGED todo
    /\ UNCHANGED <<state, flags, ctrlq, receiving, outside, history>>

-----------------------------------------------------------------------------
(***************************************************************************)
(* Events: calls by the application.                                        *)
(***************************************************************************)
AppSends(z) ==
    /\ Idle /\ accepted < MaxSends /\ state = "open"
    /\ todo' = <<CallWith("Send", Msg(0, z))>>
    /\ UNCHANGED <<state, flags, ctrlq, sending, receiving, outside, wire, history>>

\* Close by the application, or by the remote end of an SCTP channel.
AppCloses ==
    /\ Idle /\ state # "closed"
    /\ todo' = <<Call("Close")>>
    /\ UNCHANGED <<state, flags, ctrlq, sending, receiving, outside, wire, history>>

\* Mutant: what was received before is not delivered.
BugRegisterObserver ==
    /\ Idle /\ ~observer
    /\ observer' = TRUE
    /\ UNCHANGED <<state, flags, ctrlq, sending, receiving, transport, listed,
                   posted, todo, wire, history>>

RegisterObserver ==
    /\ Idle /\ ~observer
    /\ observer' = TRUE
    /\ todo' = <<Call("Deliver")>>
    /\ UNCHANGED <<state, flags, ctrlq, sending, receiving, transport, listed,
                   posted, wire, history>>

UnregisterObserver ==
    /\ Idle /\ observer
    /\ observer' = FALSE
    /\ UNCHANGED <<state, flags, ctrlq, sending, receiving, transport, listed,
                   posted, todo, wire, history>>

(***************************************************************************)
(* Events: calls by the session and its signaling layer.                    *)
(***************************************************************************)
\* RemotePeerRequestClose and OnDataEngineClose.
DoClose(calls) ==
    /\ Idle
    /\ IF state = "closed"
       THEN todo' = calls /\ UNCHANGED <<sendSsrcSet, recvSsrcSet>>
       ELSE /\ sendSsrcSet' = FALSE /\ recvSsrcSet' = FALSE
            /\ todo' = BeginClosing \o calls
    /\ UNCHANGED <<state, waitingAck, everWritable, connected, sid, ctrlq,
                   sending, receiving, observer, transport, posted, wire, history>>

RemotePeerRequestClose ==
    /\ Type = "RTP" /\ state # "closed"
    /\ DoClose(<<>>) /\ UNCHANGED listed

\* OnDataChannelClose empties the lists first; the transport goes afterwards.
OnDataEngineClose ==
    /\ transport = "up" /\ listed
    /\ DoClose(<<Call("TransportGone")>>) /\ listed' = FALSE

TransportGone ==
    /\ Running("TransportGone")
    /\ transport' = "gone"
    /\ Return
    /\ UNCHANGED <<state, flags, ctrlq, sending, receiving, observer, listed,
                   posted, wire, history>>

SetSctpSid ==
    /\ Idle /\ Type = "SCTP" /\ listed /\ ~sid
    /\ sid' = TRUE
    /\ UNCHANGED <<state, waitingAck, everWritable, connected, sendSsrcSet,
                   recvSsrcSet, ctrlq, sending, receiving, outside, todo, wire,
                   history>>

\* The session creates its data transport, and tells the SCTP channels of the
\* list, whatever their state.
OnTransportChannelCreated ==
    /\ Idle /\ transport = "none"
    /\ transport' = "up"
    /\ connected' = (connected \/ (Type = "SCTP" /\ listed))
    /\ UNCHANGED <<state, waitingAck, everWritable, sid, sendSsrcSet,
                   recvSsrcSet, ctrlq, sending, receiving, observer, listed,
                   posted, todo, wire, history>>

\* SetSendSsrc and SetReceiveSsrc: the first call counts.
SetSsrc ==
    /\ Idle /\ Type = "RTP" /\ listed
    /\ \/ ~sendSsrcSet /\ sendSsrcSet' = TRUE /\ UNCHANGED recvSsrcSet
       \/ ~recvSsrcSet /\ recvSsrcSet' = TRUE /\ UNCHANGED sendSsrcSet
    /\ todo' = <<Call("UpdateState")>>
    /\ UNCHANGED <<state, waitingAck, everWritable, connected, sid, ctrlq,
                   sending, receiving, outside, wire, history>>

(***************************************************************************)
(* Events: signals of the transport, and the posted MSG_CHANNELREADY.       *)
(***************************************************************************)
\* (The ASSERTs here and at the head of SendQueuedDataMessages stop only a debug
\* build.)
FirstReady ==
    (IF Type = "SCTP" /\ Role # "none" THEN <<Call("SendControl")>> ELSE <<>>)
    \o <<Call("UpdateState")>>

\* Mutant: only the first signal counts.
BugReadyAgain == <<>>

ReadyAgain ==
    IF state = "open" THEN <<Call("FlushControl"), Call("FlushData")>> ELSE <<>>

\* The stream id is assigned before the transport is ready.
OnChannelReady ==
    /\ Idle
    /\ \/ posted /\ posted' = FALSE
       \/ connected /\ (Type = "SCTP" => sid) /\ UNCHANGED posted
    /\ everWritable' = TRUE
    /\ todo' = IF everWritable THEN ReadyAgain ELSE FirstReady
    /\ UNCHANGED <<state, waitingAck, connected, sid, sendSsrcSet, recvSsrcSet,
                   ctrlq, sending, receiving, observer, transport, listed, wire,
                   history>>

\* The peer of an opener has the channel only once the OPEN was sent.
PeerHasChannel ==
    /\ connected /\ (Type = "SCTP" => sid)
    /\ Type = "SCTP" /\ Role = "opener" =>
          \E i \in DOMAIN wire : wire[i].k = "control"

\* OnDataReceived of an OPEN_ACK.
OnAckReceived ==
    /\ Idle /\ PeerHasChannel /\ Type = "SCTP" /\ waitingAck
    /\ waitingAck' = FALSE /\ heard' = TRUE
    /\ UNCHANGED <<state, everWritable, connected, sid, sendSsrcSet,
                   recvSsrcSet, ctrlq, sending, receiving, outside, todo, wire,
                   config, refused, accepted, arrived, shown>>

\* OnDataReceived of data: show it, keep it until it can be shown, or give up.
OnDataReceived(z) ==
    LET m == Msg(arrived + 1, z) IN
    /\ Idle /\ PeerHasChannel /\ arrived < MaxReceives
    /\ waitingAck' = FALSE /\ heard' = TRUE
    /\ arrived' = arrived + 1
    /\ \/ /\ everWritable /\ observer
          /\ todo' = <<CallWith("OnMessage", m)>> /\ UNCHANGED receiving
       \/ /\ ~(everWritable /\ observer) /\ recvBytes + z <= MaxQueuedReceivedBytes
          /\ recvq' = Append(recvq, m) /\ recvBytes' = recvBytes + z
          /\ UNCHANGED todo
       \/ /\ ~(everWritable /\ observer) /\ recvBytes + z > MaxQueuedReceivedBytes
          /\ recvq' = <<>> /\ recvBytes' = 0
          /\ todo' = IF Type = "RTP" THEN <<>> ELSE <<Call("Close")>>
    /\ UNCHANGED <<state, everWritable, connected, sid, sendSsrcSet,
                   recvSsrcSet, ctrlq, sending, outside, wire, config, refused,
                   accepted, shown>>

-----------------------------------------------------------------------------
Internal ==
    \/ Close \/ UpdateState \/ FlushControl \/ Deliver \/ DeliverFront
    \/ SetState("SetOpen", "open") \/ SetState("SetClosing", "closing")
    \/ SetState("SetClosed", "closed")
    \/ PopReceived \/ OnStateChange \/ OnMessage
    \/ TransportGone
    \/ \E r \in Outcomes : SendControl(r) \/ Send(r) \/ FlushData(r)

Event ==
    \/ \E z \in Sizes : AppSends(z) \/ OnDataReceived(z)
    \/ AppCloses \/ RegisterObserver \/ UnregisterObserver
    \/ RemotePeerRequestClose \/ OnDataEngineClose \/ SetSctpSid
    \/ OnTransportChannelCreated \/ SetSsrc \/ OnChannelReady \/ OnAckReceived

Next == Internal \/ Event

Spec == Init /\ [][Next]_vars

(***************************************************************************)
(* A handler runs to its end; a transport that has blocked signals that it  *)
(* is ready again, and does not block for ever. The signal is a message of  *)
(* the thread's queue, which serves it in turn whatever else is posted.     *)
(***************************************************************************)
FairSpec ==
    /\ Spec
    /\ WF_vars(Internal) /\ SF_vars(OnChannelReady)
    /\ SF_vars(FlushData("ok"))

-----------------------------------------------------------------------------
(***************************************************************************)
(* Properties.                                                              *)
(***************************************************************************)
Ids(q) == [i \in DOMAIN q |-> q[i].id]
UpTo(n) == [i \in 1 .. n |-> i]
IsData(p) == p.k = "data"
Sent == {i \in DOMAIN wire : IsData(wire[i])}
HeapOK == heap \in {"ok", "dangling"}

\* The size of the packets in q.
Bytes(q) ==
    LET sum[n \in 0 .. Len(q)] == IF n = 0 THEN 0 ELSE sum[n - 1] + q[n].size
    IN  sum[Len(q)]

\* While the channel is open, the transport took the first of the messages that
\* Send accepted, each once and in their order, and the rest is queued in their
\* order: nothing is lost, doubled or reordered by direct sends, flushes that
\* block halfway, and sends made from callbacks.
StreamIntact ==
    Idle /\ state = "open" /\ HeapOK =>
        LET taken == accepted - Len(sendq)
        IN  /\ {wire[i].id : i \in Sent} = 1 .. taken
            /\ \A i, j \in Sent : i < j => wire[i].id < wire[j].id
            /\ \A i \in DOMAIN sendq : sendq[i].id = taken + i

\* While the channel is open, what arrived is what the observer has been shown
\* followed by what is queued for it, whenever the observer was registered and
\* whenever the channel became writable. (RTP drops its queue when it is full.)
ReceiveIntact ==
    Idle /\ state = "open" /\ Type = "SCTP" =>
        shown \o Ids(recvq) = UpTo(arrived)

\* byte_count_ is the size of the packets in each queue, and the queues stay
\* within their limits: the received one below its limit, the sent one below
\* its limit plus one message.
BufferAccounting ==
    Idle /\ HeapOK =>
        /\ sendBytes = Bytes(sendq) /\ recvBytes = Bytes(recvq)
        /\ recvBytes <= MaxQueuedReceivedBytes
        /\ \A m \in Range(sendq) :
              m = Last(sendq) => sendBytes - m.size < MaxQueuedSendBytes

\* Closing is for good, whatever was posted before and whichever callback comes
\* between two steps of a handler: the state goes back, or a closed channel
\* sends data, in one case only. A handshake message that had blocked is refused
\* when SendQueuedControlMessages tries it again, and UpdateState or
\* OnChannelReady, which called it, goes on with the channel that this closed.
ClosedForGood ==
    [][\/ refused
       \/ /\ Rank[state'] >= Rank[state]
          /\ state = "closed" => Sent' = Sent]_vars

\* The peer of an opener does not receive data on a channel that it does not
\* know: the OPEN message goes out before any data, and until the peer has
\* answered it everything is sent in order. What goes out otherwise went out
\* while the OPEN was held up: while it waited in the control queue, or after
\* it was refused when it was tried again.
HandshakeFirst ==
    Type = "SCTP" /\ Role = "opener" =>
        \A i \in DOMAIN wire :
            \/ wire[i].held
            \/ /\ IsData(wire[i]) => \E j \in 1 .. i : wire[j].k = "control"
               /\ wire[i].ordered \/ wire[i].heard

\* A packet in the send queue is owned by the queue: it has not been deleted.
QueuedPacketsOwned == sendq # <<>> => heap = "ok"

\* What is queued because the transport blocked is sent in the end, unless the
\* channel closes, or is opened again after it closed and so has left its
\* transport (or the memory of the queue is corrupted, see FlushData).
QueuedIsSent ==
    sendq # <<>> ~> sendq = <<>> \/ state # "open" \/ refused \/ ~HeapOK
=============================================================================
