------------------------------ MODULE Mailbox ------------------------------
(***************************************************************************)
(* What a thread's message queue promises to the threads that use it,       *)
(* without locks, clocks and wakeups: messages are put in, at once or after *)
(* a while, are served once, first come first served, or are removed for    *)
(* good.                                                                    *)
(***************************************************************************)
EXTENDS Naturals

CONSTANT Msgs

VARIABLES
    box,    \* [Msgs -> {"out", "timed", "in", "served", "gone"}]
    rank,   \* [Msgs -> number of its arrival, 0 before]
    next

vars == <<box, rank, next>>

Init ==
    /\ box = [m \in Msgs |-> "out"]
    /\ rank = [m \in Msgs |-> 0] /\ next = 1

Delay(m) ==
    /\ box[m] = "out"
    /\ box' = [box EXCEPT ![m] = "timed"]
    /\ UNCHANGED <<rank, next>>

\* A message arrives: it was put in directly, or its time has come.
Arrive(m) ==
    /\ box[m] \in {"out", "timed"}
    /\ box' = [box EXCEPT ![m] = "in"]
    /\ rank' = [rank EXCEPT ![m] = next]
    /\ next' = next + 1

Serve(m) ==
    /\ box[m] = "in"
    /\ \A n \in Msgs : box[n] = "in" => rank[m] <= rank[n]
    /\ box' = [box EXCEPT ![m] = "served"]
    /\ UNCHANGED <<rank, next>>

Remove(S) ==
    /\ \A m \in S : box[m] \in {"timed", "in"}
    /\ box' = [m \in Msgs |-> IF m \in S THEN "gone" ELSE box[m]]
    /\ UNCHANGED <<rank, next>>

Next ==
    \/ \E m \in Msgs : Delay(m) \/ Arrive(m) \/ Serve(m)
    \/ \E S \in SUBSET Msgs : Remove(S)

Spec == Init /\ [][Next]_vars
=============================================================================
