--------------------------- MODULE MCMessageQueue ---------------------------
(* Small instances of MessageQueue: three messages, two handlers, each owned *)
(* by a posting thread of its own.                                           *)
EXTENDS MessageQueue, TLC

CONSTANTS m1, m2, m3, h1, h2, p1, p2

MCMsgs == {m1, m2, m3}
MCTwoMsgs == {m1, m2}
MCHandlers == {h1, h2}
MCPosters == {p1, p2}

\* m3 goes to h1 like m1, or disposes of h1.
MCHandler == m1 :> h1 @@ m2 :> h2 @@ m3 :> h1
MCTwoHandler == m1 :> h1 @@ m2 :> h2
MCOwner == h1 :> p1 @@ h2 :> p2

MCForever == {Forever}
MCWaits == {Forever, 1}
=============================================================================
