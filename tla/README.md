# WebRTC: a TLA+ verification project

This directory models parts of the WebRTC / libjingle code base (`src/`) in
TLA+: the modules are translated from the C++ source, TLC checks them on small
instances, and TLAPS proves what matters most for every value of the constants.
`PROJECT.json` maps every definition to the lines it models and lists the runs,
mutants, findings, hazards and theorems; this file explains them.

## 1. The system and its parts

A peer connection is a stack of objects that live on a few threads. Everything
above the media engines runs as messages of `rtc::Thread`s: the application's
*signaling* thread and the *worker* thread; a call from one to the other is
`Thread::Send`, a call later is `Thread::Post`.

| Part | Sources | State | Operations | Interaction | Hard behaviour | What makes it correct |
|---|---|---|---|---|---|---|
| Message queue | `webrtc/base/messagequeue.*` | `msgq_`, `dmsgq_`, `msgPeek_`, `fStop_` | Post, PostDelayed, PostAt, Get, Peek, Clear, Dispose, Quit | posted to by any thread, sleeps in the socket server | locks dropped between test and use, wakeups, a 32-bit clock | order, no lost wakeup, nothing called after Clear or Dispose |
| Thread | `webrtc/base/thread.cc` | `sendlist_`, the stack of nested calls | Send, Clear, Stop, the destructor | blocks in another thread's service | mutual and nested calls, a target that stops | every Send returns, once, with its frame alive |
| Data channel | `talk/app/webrtc/datachannel.cc` | state, three queues, handshake flags | Send, Close, RegisterObserver, transport signals | calls the observer, which calls back; session's data transport | re-entrancy, blocking sends, late signals | handshake first, no loss or reordering, closed stays closed |
| Session negotiation | `talk/app/webrtc/webrtcsession*.cc`, `webrtc/p2p/base/session.cc` | signalling state, pending requests, identity state | CreateOffer/Answer, SetLocal/RemoteDescription, identity callbacks | answers by posted messages | requests queued while the identity is made, stale checks | every request answered once, in order; legal offer/answer order |
| Shared/exclusive lock, profiler | `webrtc/base/sharedexclusivelock.cc`, `profiler.cc` | two critical sections, a count, an event | Lock/UnlockShared, Lock/UnlockExclusive | used by the profiler | an event as a condition | exclusion, progress |
| Worker objects | `webrtc/base/signalthread.cc`, `asyncinvoker.cc` | reference count, thread | Start, Destroy, OnWorkDone | two threads | destroy while done is posted | freed once, after the work |
| STUN requests | `webrtc/p2p/base/stunrequest.cc` | pending requests, their timers | Send, Resend, CheckResponse, Clear | message queue, sockets, connections | loss, duplication, late answers | one outcome per request |
| Connections, ports | `webrtc/p2p/base/port.cc`, `stunport.cc`, `turnport.cc`, `tcpport.cc` | read/write state, pings, ICE role | Ping, ReceivedPing, UpdateState, Prune, role conflict | P2P channel, peer | timeouts against late answers, conflicts told twice or late | a working path is found again; the two ends agree on their roles |
| P2P channel | `webrtc/p2p/base/p2ptransportchannel.cc` | connections, best and pending connection, what it last signalled | sort, switch, prune, ping, nominate, ICE restart | ports, transport | posted sorts and deletions, raw pointers, candidates of an old generation | no dangling pointer, the signalled state is true, the channel recovers |
| Transport, DTLS | `transport.cc`, `dtlstransportchannel.cc` | channels, aggregated states, ICE role | connect, channel signals, role conflict, restart | session, on another thread | signals in any order, messages posted across threads | aggregate equals the parts, one controlling end |
| PseudoTCP | `pseudotcp.cc`, `pseudotcpchannel.cc` | windows, sequence numbers, segments, timers | connect, send, recv, close, clock, MTU change | one peer over UDP | loss, reordering, overlap, a closed window, give-up limits | a byte stream, delivered unless an end gives up |
| TURN, relay | `turnserver.cc`, `relayserver.cc` | allocations, permissions, nonces | allocate, refresh, expire | TURN port | timers, stale nonces | no use of an expired allocation |
| Stream signalling | `mediastreamsignaling.cc` | track lists, SCTP ids | update from descriptions | session, data channels | both sides choose ids | ids are unique |
| Media channels, engines | `talk/session/media`, `talk/media`, `webrtc/video_engine`, `webrtc/voice_engine` | configuration | set descriptions, send, receive | session, RTP | mostly data | - |
| RTP, jitter buffer, pacing | `webrtc/modules` | packet and frame lists, rates | insert, retransmit, decode | engines | wrap-around, full buffers | no frame decoded out of order |
| Audio/video processing | `webrtc/modules/audio_*`, `video_*` | signals | filters, codecs | engines | numeric | out of reach |

The hazards, line by line, are in `PROJECT.json`.

## 2. Plan

Modules, in the order in which the rest of the system depends on them. Steps 1
to 8 are done.

1. `MessageQueue` with `MessageQueueProofs`: everything else runs on it.
2. `Mailbox`, the abstract specification of the queue, and `MailboxProofs`, the
   proof that the queue implements it.
3. `Thread`: synchronous calls over the queue (it abstracts the queue to a
   counter of posted messages).
4. `DataChannel`: the most re-entrant object of the API.
5. `Negotiation`: offers, answers, identities, candidates.
6. `PseudoTcp`: two endpoints and the network that loses, repeats and reorders.
7. `P2PChannel`: a channel and its connections, against pings, answers, time-outs,
   nominations and the messages they post.
8. `IceRoles`: two sessions, each on two threads, that agree on the ICE roles over
   a network.
9. `TransportStates`: the aggregation of channel states and the DTLS handshake
   (`transport.cc`, `dtlstransportchannel.cc`), and ICE restarts inside a channel.
10. `SignalThread` and `AsyncInvoker`: reference counts and destruction across two
    threads, over the `Mailbox` (composition with step 2).
11. `SharedExclusiveLock`, with the profiler that uses an iterator outside the
    lock; abstract specification: readers or one writer.
12. `SctpSids`: both sides allocate stream ids (`mediastreamsignaling.cc`).
13. Later, each on its own: `turnport.cc`/`turnserver.cc`, `dtmfsender.cc`, the
    jitter buffer's list of missing packets, the RTP packet history.

Theorems: every invariant and every safety property that a passing run checks for
steps 1 to 8 is proved (section 7); liveness stays with TLC. Worth trying next: the
stream to the connecting end of `PseudoTcp`, for a code that holds data back until
the peer's connect message has come (section 6).

## 3. Modules and code

### MessageQueue

One consumer thread runs `ProcessMessages` over the queue and any number of
posters call `Post`, `PostDelayed`/`PostAt`, `Dispose`, `Clear` and `Quit`. A
message is used once; `where[m]` is the container that holds it, `stamp[m]` its
place in `msgq_`, `due[m]` and `num[m]` the key of `dmsgq_`. The granularity is
that of the locks: what the code does under `crit_` is one step, except the scan
of `dmsgq_`, which is one step per message; what it does without the lock (the
tests of `fStop_`, `Quit`, the copy of `msgPeek_`, the socket server's `Wait`) is
a step of its own. The locals of `Get` (`cmsWait`, `msStart`, `msCurrent`,
`cmsDelayNext`) are variables, because other threads run while they are in use.
Time is unwrapped in the model and the code's comparisons see it modulo
`Modulus` (2^32 in the code). `Owner` states how the code base uses handlers: a
handler is posted to, cleared and disposed of by one thread, which stops using
it once it has called `Dispose`. The one variable that the code does not have is
history: `order`, `nextOrder`, `deleted`.

`Mailbox` is what remains when locks, clocks and wakeups are forgotten: messages
arrive, are served once and first come first served, or are removed for good.
`MessageQueue!AsMailbox` maps `ready`, `peek` and `hand` to "in", `delayed` to
"timed", `done` to "served", `cleared` and `disposed` to "gone".

### Thread

A thread is a stack of activation records (`Get`, the handler of a posted message,
the handler of a send, `Send` itself), because a blocked `Send` serves the sends of
its target and these may nest. Each test, push and wait of `Send`,
`ReceiveSendsFromThread`, `Get` and `Clear` is a step, as the locks allow. Two
locals of the C++ frames matter: `ready`, which the target sets through a pointer,
and `waited`. A send gets its number when it is pushed, so `sendlist_` is a set of
numbers whose least element is the oldest send. The owner of a thread may stop it
(`Quit`) and destroy it once its loop has ended (`Destroy`, with `Clear(NULL)`).
Posted messages are only counted. Not modelled: starting an OS thread, thread-local
storage, `Join` from a thread that others wait for.

### DataChannel

All functions of `datachannel.cc` that change state. The object lives on one thread
but is re-entrant: `todo` is the stack of functions still to run, and the observer's
callbacks are elements of it at which the application may call `Send` or `Close`.
The transport takes, blocks or refuses each packet. Messages are numbered, sizes
count towards the two buffer limits; `heap` follows the one packet whose memory the
flush mishandles. Two more history variables follow the handshake: `held`, in each
packet on the wire, says that it went out while the OPEN was held up, and `refused`
that a handshake message which had blocked was refused when it was tried again,
behind which the code opens a closed channel (section 6). `StreamIntact` compares
the wire with the numbers: the data on it are 1 to n, each once and ascending, and
the queue is n + 1, n + 2 and so on. Environment assumptions: the stream id is
assigned before the transport is ready; an observer does not register or unregister
inside a callback; messages are not empty; the channel is not destroyed inside a
call. `config` is the kind of channel and of world around it, chosen once, so that
one run checks all of them.

### Negotiation

`WebRtcSessionDescriptionFactory` (requests queued for the DTLS identity, results
posted), `WebRtcSession` (state machine of descriptions, candidates) and
`BaseSession` (`MSG_STATE`). `mail` is the part of the signaling thread's queue
that belongs to them; calls of the application and the identity callback happen
at any moment between two messages, but not inside the loop of `SetIdentity`
(`Draining`). A description is its type, session version, a number for its ICE
credentials and the set of its candidates; there is one media section. The places
where a call fails half way (channels, transport, media content) are kept:
`local`, `remote` and `baseRemote` (BaseSession's own copy) then differ, and
`halfApplied` records it. The application sets only local descriptions it was
given, also an answer as a provisional one. Calls refused without effect are not
steps. Left out: local candidates, ICE connection states, SSL roles, destruction
of the session. The one media section is never rejected, so the calls of
`RemoveUnusedChannelsAndTransports` on a description (`webrtcsession.cc:764`, `:807`)
do nothing; the call on NULL, which destroys the transports, is `DestroyTransports`.

### PseudoTcp

Two `PseudoTcp` objects, each with the part of `PseudoTcpChannel` that drives it
(the clock message and the deletion when `GetNextClock` returns false), and the
packets in flight between them. An endpoint is the record `ep[x]` of its C++
members; `Process`, `Transmit` and `AttemptSend` are functions on such records, cut
where the code's sections are, and an action composes them as the handler does.
`NotifyPacket` takes any packet in flight, and may leave it there to come again;
every packet an operation produces may be lost (`Leaves`). The receive buffer keeps
the content of its free space (`rfree`), because segments out of order are written
there and `m_rlist` remembers only their numbers: whether the right bytes come out
is what `StreamIntact` is about, and `ListenerIntact` for the ends that do not
connect. `NotifyMTU` may advise a size that is not an entry of the table
(`LevelOf`), not below the connect message (`PacketSizes`). The count of repeated
acknowledgments wraps at `DupAckModulus` (256 in the code, a `uint8`). Timers are
flags: a timer that runs may fire at any time (`NotifyClock`). An object that is
deleted has already handed its last packets to the transport, so they still leave.
Abstracted: the size of the congestion window is any of `CongestionWindows` at every
send, sizes are counted in units of the smallest segment, round-trip times do not
exist, the limits of 15 and 30 transmissions are `XmitLimit` and `SynXmitLimit`.
That a connect message fits the receive buffer and the smallest packet is the
assumption `ConnectFits`: it has at most 4 bytes (`queueConnectMessage`). Left out:
window scaling and the other options of the connect message, changes of the buffer
sizes, the wrap of sequence numbers, resets (the code never sends one), the stream
thread, and a write that fails (`WR_FAIL`, `pseudotcp.cc:968-971`), before which
`PseudoTcpChannel` asserts (`pseudotcpchannel.cc:520`).

### P2PChannel

One `P2PTransportChannel` with its `Connection`s. The handlers nest (a state that
changes signals the channel, which may adopt a connection, and then `CheckTimeout`
posts a deletion), so they are functions on the record `ch`; the worker thread's
queue holds at most one `MSG_SORT` known to `sort_dirty_` and the deletions of
`Connection`s. Between two messages packets, timers and calls come in any order:
checks with and without nomination, checks from unknown addresses, data, answers,
errors, time-outs, candidates, a change of role. One candidate makes a connection at
several ports, or one new port does with several candidates, before a single sort
(`OnCandidate`). An answer from a path in `Natted` may show an address the port does
not know: the connection's local candidate, and with it its priority, changes
(`AddPrflxCandidate`). Time is kept as how long the oldest unanswered
ping has waited, in the three steps the code distinguishes. `turn` is the order of
the last pings; of several connections that were never pinged any may be next. `Idle`
is a bound, not code: packets come in only while at most `MaxBacklog` messages wait.
RFC 5245 with a full
peer only: Google ICE, hybrid mode and read time-outs are left out, and so are
equal priorities (no round-trip time decides), port allocation and ICE restarts, with
the pruning of candidates of an old generation (`p2ptransportchannel.cc:790-801`).

### IceRoles

Two sessions: the role of each one's ports, the conflict found in a check on the
worker thread, `MSG_ROLECONFLICT` posted to the signaling thread,
`BaseSession::OnRoleConflict` with its `role_switch_`, and the roles that an ICE
restart sets in offer and answer. Checks carry the role their port had when they were
sent and may be handled much later, or never. A restart makes new ports
(`AddAllocatorSession` clears `ports_`); the connections of the older ones go on, and
`SetIceRole` no longer reaches them, so they check and answer in the role they had
(`older`). One transport per session; tiebreakers
differ.

## 4. Runs

Every bound is a CONSTANT of the cfg. Each property has a mutant in
`PROJECT.json`, a plausible bug of the code under which TLC finds it violated.

| Run | Instance | Shows |
|---|---|---|
| `mq_safety` | 3 messages, 2 handlers with an owner each, one message may be a disposal, delays of 0 and 1 ms, finite and infinite waits, Peek, Quit, Restart, failing waits; 2.4 million states | order of arrival and of trigger times, no oversleeping, no lost wakeup, no disposed handler called |
| `mq_live` | 2 messages, no Peek, Quit | every accepted message is served unless the queue stops; Quit ends the loop; the queue implements `Mailbox` |
| `thread` | 2 threads that call each other, one also itself, 3 sends, 2 posts, sends cleared, one thread stopped and destroyed; 0.1 million states | `ready` is only written while the frame lives, no thread sleeps on work, every Send returns |
| `datachannel` | an unordered SCTP channel that opens, one opened by the peer on a ready transport, an RTP channel made before its transport; data and control messages may block or fail; observer sends and closes in callbacks; 3 sends, 2 messages received, buffers of 2 bytes; 0.6 million states | OPEN first and unordered only after the peer has answered, but for what goes out while the OPEN is held up, no message lost, doubled or reordered in either direction, accounting, closed for good unless the second try of a handshake message is refused, queued data is sent in the end |
| `dc_owned` (violation) | one blocking flush | the packet left at the front of the queue has been deleted |
| `negotiation` | 2 requests, 2 remote descriptions, 1 candidate, close, all four ways to an identity, all failures; 0.6 million states | results once, in order and in the end; state and descriptions fit; answers are made from offers; restarts are answered; candidates are kept |
| `neg_candidates` (violation) | 1 request, 1 answer, 1 candidate | a candidate added before the answer is not given to the transport |
| `ptcp_safety` | A connects and sends 3 units; 2 segment sizes, an advice between them, a receive buffer of 3, 2 packets in flight each way, 1 repeated; loss and reordering throughout; 1.0 million states | the stream to the listener is intact, the segments tile the send buffer, the window fits, the reader is told |
| `ptcp_live` | the same with adjacent sizes, a path that carries the smaller one only, a buffer of 2 and 1 packet in flight each way, and A closes | what is sent is read, and a close ends, unless an end gives up |
| `ptcp_early` (violation) | A connects, B sends | data that overtakes the connect message is read as something else |
| `p2p_channel` | 2 connections on one network; the less preferred path works, and the peer's view may make it the preferred one; 1 change of role, 1 connection from an unknown address, up to 2 messages posted when a packet comes; 0.2 million states | no dangling pointer, the signalled state is true or about to be corrected, the channel recovers |
| `ice_roles` | two ends in one role, or in two and one ICE restart, by either end | never do both switch before a restart, and the roles settle |

Why the bounds are enough for the interesting cases. In the queue an overtaking
needs two messages and a third that is cleared, disposed or delayed between them;
two posters make the calls overlap; a clock that moves by one step distinguishes
before, at and after a trigger time, and a delay of zero is due at once. In
`Thread` three sends and two threads started by a post allow a call, a call back
and a call nested in it that consumes the first one's wakeup. In `DataChannel`
buffers of two bytes with messages of one and two bytes reach full, over-full and
empty with three messages. In `Negotiation` a restart needs two remote offers, two
requests and an applied answer. In `PseudoTcp` three units in segments of one to
three, a buffer of three and the connect message make segments that are split,
merged, overlap and arrive out of order, a window that closes and opens, and a
last unit that does not fit; two packets in flight each way are reordered. In `P2PChannel` two
connections on one network are enough for pruning, for a nomination of the one
that is being deleted and for recovery on the one that was pruned. The mutants
confirm it: each is caught at these bounds.

## 5. Fairness

- `MessageQueue!FairSpec`: weak fairness of the consumer, of a poster that is in the
  middle of a call, and of time: the operating system schedules threads that can
  run, and nobody holds `crit_` for ever. No poster has to call anything.
- `Thread!FairSpec`: weak fairness of each thread's own step (handlers return,
  runnable threads run) and of the owner's destroying a stopped thread.
- `DataChannel!FairSpec`: weak fairness of a handler in progress; strong fairness of
  `OnChannelReady` and of a send that succeeds: SCTP signals readiness each time it
  can send again, the signal is served by the queue (`mq_live`), and a transport
  that always blocks again would justify no promise at all.
- `Negotiation!FairSpec`: weak fairness of the posted messages (`mq_live` again), of
  the loop of `SetIdentity`, and of the identity service's answer, which
  `DTLSIdentityServiceInterface` owes its observer.
- `PseudoTcp!FairSpec`: weak fairness of the clock (`AdjustClock` posts the next
  `MSG_WK_CLOCK` whenever it handles one) and of a reader that has been told of
  data. Nothing is asked of the network: a packet may be lost every time, and
  `Delivered` holds because both limits (transmissions, silence) end in a give-up.
- `P2PChannel!FairSpec`: weak fairness of the worker thread's messages and of the
  ping timer; strong fairness of the peer's checks and answers on the paths in
  `Good`: such a path is one on which a peer that goes on checking gets through
  again and again. A controlled channel that follows its peer's nomination to a path
  that does not work is excepted from `Recovers`.
- `IceRoles!FairSpec`: weak fairness of sending checks from the newest ports (the
  ping timer), of the signaling threads and of the answer to an offer; strong
  fairness of the arrival of an up-to-date check and of an error. Without it the
  roles could never be compared.

## 6. Where code and documentation disagree

With a run (see `findings`):

- `dc_owned`: a flush that blocks deletes the packet it leaves in the queue.
- `neg_candidates`: candidates added before the answer do not reach the transport.
- `ptcp_early`: data that arrives before the connect message is misplaced.

Seen with TLC, on instances that the runs leave out or in cases that their
properties name:

- `datachannel.cc:402-403`: if the OPEN message blocks, `UpdateState` sets the channel
  to open all the same, so data may overtake the OPEN ("make sure the remote peer will
  not receive any data before it receives the OPEN message", line 566); if the second
  try of the OPEN is refused, the channel that this closes is opened again (the TODO
  at line 400). The run `datachannel` reaches both. `HandshakeFirst` and
  `ClosedForGood` except them, by the history variables `held` and `refused`, and
  show that nothing else goes wrong; without the exceptions both fail.
- `webrtcsessiondescriptionfactory.cc:377`: the ICE restart latch is reset when an
  answer has been made, not when one is applied, so a second answer to the same offer
  repeats the old credentials ("an answer should also contain new ice ufrag and
  password", line 339). `RestartIsAnswered` speaks of the first answer; without
  `~made.again` it fails with `MaxRequests = 3` and `MaxRemote = 2`.
- `messagequeue.h:155` compares trigger times as plain numbers, `Get` by signed
  difference: a message due after the clock has wrapped overtakes one due before.
  `DelayedInTriggerOrder` fails with the messages of `mq_live`, `Offsets = {0, 1}`,
  `Modulus = 16`, `StartTime = 15` and `MaxTime = 18`.
- `pseudotcp.cc:1128-1133`: an advised size between two entries of the table makes
  `transmit` skip the lower one; if that is the last, nothing is sent ("MTU too small"),
  no timer runs and a graceful close never ends ("TODO: consider closing socket",
  line 1107). `CloseCompletes` fails with the constants of `ptcp_live` but
  `MssTable <- FarSizes`, `PathMax = 1`, `Advices = {2}` and `CongestionWindows = {3}`.
- `session.cc:824`: a conflict between ends that start in one role, found before an ICE
  restart and handled after it, sets the reverse of the *initial* role in place of the
  role of the restart, and `role_switch_` (line 815) keeps both ends from switching
  ever again. `RolesSettle` fails with `Calls` the set
  `[initiators : {{}, {A, B}}, restarts : {1}]`, and with two restarts wherever the ends
  start. In the restarts of `ice_roles` the ends start in two roles, and what a late
  conflict sets is what the restart has set, so that the run cannot show this.

Seen while modelling, without an instance of their own:

- `messagequeue.h:174-177` promises that ready posts and pending sends are
  delivered before `Get` returns false. `Get` tests `fStop_` (`messagequeue.cc:238`)
  after it has released `crit_`, and `Post` and `Send` test it before they take
  it: a message that was accepted may stay behind. `PostedIsServed` therefore
  excepts a stopped queue.
- `Get` copies `msgPeek_` without `crit_` (`messagequeue.cc:173`): a message that
  `Clear` removes at that moment is dispatched with deleted data. This is why the
  refinement of `Mailbox` assumes `UsePeek = FALSE`.
- Three threads that `Send` in a ring wait for each other for ever
  (`thread.cc:456-458` accepts it); a thread that `Join`s one that is sending to it
  is not answered (`thread.cc:314`); a `Send` answered by `~Thread` still enters
  `crit_` of the destroyed thread (`thread.cc:461`).
- An observer that sends from `OnStateChange` while the transport blocks makes
  the ASSERT at `datachannel.cc:371` fail. One that registers or unregisters inside
  `OnMessage` makes the delivery loop use a null observer or a packet twice
  (`datachannel.cc:456`).
- A channel closed before the transport exists stays listed; when the transport
  is created it is connected again (`datachannel.cc:254`) and, when that is
  ready, sends its OPEN. The same happens with `MSG_CHANNELREADY` posted at
  creation (`datachannel.cc:277`). `ClosedForGood` therefore speaks of data.
- A local offer, `AddIceCandidate` and a second local offer reach the
  `ASSERT(false)` of `CopySavedCandidates` (`webrtcsession.cc:1569`). An answer made
  for an older offer may be set after a newer one: only the media sections are
  compared (`webrtcsession.cc:1668`).
- In `pseudotcp.cc` a bare acknowledgment may confirm A's connect message while B's
  is lost; A then has no timer, and if B gives up, A waits in SYN_SENT for ever.
  Nagle's return (line 1086) drops an acknowledgment that is owed, and a failed
  write (`WR_FAIL`) leaves data with no timer.
- "If timed out sending writability checks, start up again" (`port.cc:984` and
  `:1019`): the connection is put back to `STATE_WRITE_INIT`, but
  `pings_since_last_response_` is cleared only by a response (`port.cc:1285`), so the
  next `UpdateState`, which `OnPing` runs before it chooses whom to ping, times it
  out again; while another connection is writable it is never pinged.
- "we can always prune it again" (`port.cc:1256-1258`): `pruned_` is never reset, so
  `Prune` has no effect on a connection that was pruned and became writable again.
- A connection that becomes readable between the sort and its posted deletion
  leaves the channel readable with no readable connection; hence only one direction
  in `ChannelStateCurrent`. `Reset` (`p2ptransportchannel.cc:336-366`) clears neither
  `pending_best_connection_` nor `was_writable_`.
- A transport created after a switch gets the initial role (`session.cc:540`).

## 7. Proofs

`MessageQueueProofs` proves, for any sets of messages, handlers and posters, any
`Handler`, `Owner` and `Disposals` that fit them, any integer offsets, any waits
and any clock width `Modulus > 0`:

- `TypeCorrect`: `TypeOK`, together with `BaseInv`. `BaseInv` adds to the types
  what the provers need everywhere: what a poster in the middle of a call holds
  (an unused message of its own handler), what the consumer holds, and that at
  most one message is peeked.
- `NoWakeupIsLost`: `NoLostWakeup` is about the consumer asleep. It becomes
  inductive (`WakeInv`) once it covers the points between the end of the critical
  section and `Wait`: whoever slips in there leaves the event signalled, and
  nothing resets it before `Wait`.
- `ArrivalOrder`: `OrderInv` adds that stamps in `msgq_` are above that of the
  message in hand, which is above those of everything dispatched, and that only
  dispatched messages have an order.
- `DisposeIsSafe`: `DisposeInv` adds that a deleted handler had its disposal
  posted, so that its owner posts no more, and that no container holds a message
  for it; the race of `Clear` with `Peek` does not break it.
- `TriggerOrder` (`DelayedInTriggerOrder`), when `TriggersFit`: no trigger time wraps
  (`MaxTime < Modulus`, and no offset leads back before time 0). Section 6 shows that the
  code needs this. `TimesInv` bounds the trigger times and says which messages have a
  number; `TriggerInv` states the order for the pushes on `msgq_`, and `ArrivalOrder`
  carries it on to the dispatches.
- `SleepsInTime` (`NoOversleep`), when also `ClockFits`: no two clock values of the run
  are half a period apart (`6 * MaxTime < Modulus`). The factor is there because a
  sleeping `Get` may take the time past `MaxTime`, which bounds the trigger times only:
  `NowInv` shows that it stops at `3 * MaxTime`. `SleepInv` states `NoOversleep` from the end
  of the critical section on. The constants of `mq_safety` satisfy both hypotheses.

`MailboxProofs` proves `QueueIsMailbox`: `Spec => ImplementsMailbox` when
`UsePeek = FALSE`. `NoPeekInv` says that `msgPeek_` is then never used and that
the message in hand is in no container; every action is a stutter, an arrival
(`PushIsArrive`), a removal (`ClearIsRemove`), a delay or a service, whose order
comes from `OrderInv`.

`ThreadProofs`, for any set of threads, any `MaySend`, `MayPost` and `Quitters` and
any number of sends and posts:

- `TypeCorrect`: with `BaseInv`, that no queue holds more than was posted.
- `ReadyPointersValid`: `PtrInv` adds that each queued send has exactly one frame, on
  its sender, which calls the thread that has it in its list; that no send is
  served twice or served while still listed; and that neither is yet answered.
- `NoWakeupLost`: a thread has one signal for `Get` and all nested `Send`s. `WakeInv`
  says what the innermost frame has already seen at each point on its way to sleep
  (`Seen`), and, for the frames below it, that an answer that has come will be told
  because some inner `Send` has waited and will reissue the wakeup (`Told`): the
  wakeup at the end of `Thread::Send` (`thread.cc:467-478`).

`DataChannelProofs`, for any set of configurations, any limits of the buffers and any
number of messages. Everything rests on `StackInv`, which says which calls of
`datachannel.cc` may be nested in which: what is ever resumed (`Below`), that
deliveries and updates are at the bottom of the stack (`Bottomed`), that only
control messages run before a pending `SetState(kOpen)` or flush (`Shielded`), that an open channel
was writable (`Writable`), and that a transport that goes away leaves a closed
channel behind (`TransportLeft`, `Leaving`). The transport may answer as it likes; `StackHolds`
proves `refused \/ StackInv`, because behind a handshake message that is refused when
it is tried again the code goes on in an order it does not expect.

- `ClosingIsFinal`: `ClosedForGood`, an action property, from `StackHolds` alone: a
  closed channel stays closed and silent but for that one case.
- `HandshakeComesFirst`: `HandshakeFirst`, with `OpenerInv` (an opener that is or
  becomes open has its OPEN on the wire, or waiting in the control queue, and an OPEN
  on the wire is awaited or answered).
- `SendStreamIntact`: `StreamIntact`, with `SendInv`, which speaks of every moment at
  which the channel is not about to close (`Live`), also inside nested calls.
- `ReceiveStreamIntact`: `ReceiveIntact`, with `ReceiveInv`: while a packet is shown it
  is still the front of the queue (`Popping`), and while packets wait for an observer
  that could see them, the bottom of the stack is a function that delivers them.

The first two are theorems of `Spec` without hypothesis; their exceptions are in the
properties, and section 6 says why the code needs them.
The two on the streams state `refused \/ StreamIntact` and `refused \/ ReceiveIntact`.

Two more do not mention `refused`. Their invariant `BufferInv` keeps only the part of the
order of nested calls that no answer of the transport can break (`Below`, `Bottomed`,
proved in `OrderStep` for both invariants), so that nothing is popped from an empty
queue, and adds the messages on the stack (`Loaded`) and, for each queue, that its
count of bytes is the sum of its sizes (`Incoming`, `Outgoing`):

- `TypeCorrect`: `TypeOK`, where the point is that no count goes below zero.
- `BuffersAccounted`: `BufferAccounting`. The sum `Bytes` is a recursive function; the
  lemmas `BytesAppend` and `BytesTail` say what a push and a pop do to it.

`NegotiationProofs`, for any number of requests, remote descriptions and candidates,
any set of possible failures and any way to an identity:

- `TypeCorrect`, with `BaseInv`: a posted `MSG_GENERATE_IDENTITY` is the first message.
- `DescriptionsFit` (`DescriptionsFollowState`), with `StateInv`: what each state says
  about both descriptions and about the transport, as long as no call failed half way.
- `AnswersAnswerOffers` (`AnswerIsToAnOffer`), with `WaitInv`: while requests wait for
  the identity there is no local description to set, so the remote offer that
  `CreateAnswer` looked at is still there when the answer is made.
- `RestartsAnswered` (`RestartIsAnswered`), with `RestartInv`: new remote credentials
  are latched, or answered already, in every state.
- `NoCandidateLost` (`CandidatesKept`), by cases of the state machine.
- `ResultsOrdered` (`ResultsInOrder`), with `OrderInv`: a request is in the queue, in a
  message or answered, in one of them only, and everything that comes later has a
  greater number or is a refusal.

`PseudoTcpProofs`, for any buffers, packet sizes, congestion windows, limits and
numbers of units, packets and repeats that satisfy the assumptions on the constants,
and whichever ends close:

- `BaseAlways`: the invariant `BaseInv`. Of an endpoint (`EndOK`) it says that its
  segments tile its part of the stream, that the sent ones come first, and that
  buffers, windows and counters agree. Of each direction (`Link`) it says that every
  number which the receiver knows, in its state or in a packet in flight, is acknowledged
  or is the end of a segment that has been sent (`Reached`): that is why an
  acknowledgment, however old, never ends inside a segment, and it is what makes
  the tiling inductive. It also bounds all windows in flight by the room of the receiver.
- `ReaderIsTold` (`ReaderTold`), `SegmentsAlwaysTile` (`SegmentsTile`) and
  `WindowAlwaysFits` (`WindowFits`) follow from `BaseInv`, whoever connects and sends.
- `ListenerAlwaysIntact` (`ListenerIntact`), whoever sends and closes, and without a
  hypothesis: `Intact(x)` for every end `x` that does not connect. `Sound`
  says where the units that were read, that are in the buffer and that are saved
  in its free space stand in the stream; `Opening`, that such an end knows the connect
  message before any data of its peer can reach it. Of an end that connects the
  same is false of the code (`StreamIntact` in the run `ptcp_early`).

`AttemptSend`, `Free` and `Recover` are recursive functions. What they compute is proved
with the lemma `Induction`, which states induction over the natural numbers for a set
instead of a predicate, and which follows from the finite sets being well founded;
that the functions exist is a lemma of its own (`RunDefined`, `FreeingDefined`).
`DataChannelProofs` uses the same form for its sums.

`P2PChannelProofs`, for any finite set of connections, any distinct priorities, any
networks and any number of posted messages:

- `TypeCorrect`; `NoPointerDangles` (`NoDanglingPointer`), with `ChannelOK`, which the
  nested handlers keep at every intermediate record; `StateIsCurrent`
  (`ChannelStateCurrent`), with `Current`: `sort_dirty_` is set only while a
  `MSG_SORT` waits, and every handler that changes what a sort looks at asks for one.

`IceRolesProofs`, for any tiebreakers that differ, any initiators and any number of
restarts: `TypeCorrect`, and `OnlyOneYields` (`OneYields`) with `OnlyLoserYields`: before
a restart only the end that the tiebreakers name has switched, has been told to or is
about to be told, and every check from the other end claims its first role.

The constants' assumptions (`ASSUME` in the modules) are evaluated by TLC on the
runs.

Only model-checked, and why:

- all liveness (`PostedIsServed`, `Recovers`, `Delivered`, ...): fairness and ENABLED are
  out of the prover's reach.

## 8. What is not modelled

Listed part by part in `PROJECT.json` with the reason. In short: codecs, signal
processing, pacing and bandwidth estimation compute with real-valued data; SDP,
STUN and RTP formats are encodings without state; socket servers, devices and
engines are I/O and glue; XMPP is another protocol. What has protocol state and is
still missing is steps 9 to 13 of the plan. The map covers a small share of the
repository, most of which is codecs, drivers, tables, tests and vendored code.
