--------------------------- MODULE MCDataChannel ---------------------------
(* Small instances of DataChannel.                                           *)
EXTENDS DataChannel

\* The channel that sends the OPEN, unordered, made before its stream id is
\* known.
Opener ==
    [type |-> "SCTP", role |-> "opener", ordered |-> FALSE, sid |-> FALSE,
     transport |-> TRUE, ready |-> FALSE, data |-> Outcomes, control |-> Outcomes,
     reactions |-> {"send", "close"}, sizes |-> {1, 2}]

\* The channel made by an OPEN of the peer, on a transport that is ready, with
\* an observer that sends and closes in its callbacks.
Acker ==
    [type |-> "SCTP", role |-> "acker", ordered |-> TRUE, sid |-> TRUE,
     transport |-> TRUE, ready |-> TRUE, data |-> Outcomes, control |-> Outcomes,
     reactions |-> {"send", "close"}, sizes |-> {1}]

\* A channel over RTP, made before the transport.
Rtp ==
    [type |-> "RTP", role |-> "none", ordered |-> TRUE, sid |-> FALSE,
     transport |-> FALSE, ready |-> FALSE, data |-> Outcomes, control |-> {"ok", "error"},
     reactions |-> {"send", "close"}, sizes |-> {1, 2}]

\* A channel negotiated by the application, on a transport that may block.
Negotiated ==
    [type |-> "SCTP", role |-> "none", ordered |-> TRUE, sid |-> TRUE,
     transport |-> TRUE, ready |-> FALSE, data |-> {"ok", "block"}, control |-> {"ok", "block"},
     reactions |-> {}, sizes |-> {1}]

AllKinds == {Opener, Acker, Rtp}
OnlyNegotiated == {Negotiated}
=============================================================================
