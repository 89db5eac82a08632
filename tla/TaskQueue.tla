------------------------------ MODULE TaskQueue ------------------------------
(***************************************************************************)
(* What an event loop promises the threads that hand it work through       *)
(* queueInLoop(): per loop, functors without an expected_cb run one at a   *)
(* time, each at most once, in the order in which they were queued.        *)
(***************************************************************************)
EXTENDS Sequences

CONSTANTS Loops, Tasks

VARIABLES
    waiting,   \* per loop, the functors queued and not started, oldest first
    started    \* per loop, the functors started, oldest first

queueVars == <<waiting, started>>

Init ==
    /\ waiting = [l \in Loops |-> <<>>]
    /\ started = [l \in Loops |-> <<>>]

\* f has not been handed to any loop.
Fresh(f) == \A l \in Loops :
    /\ \A i \in DOMAIN waiting[l] : waiting[l][i] # f
    /\ \A i \in DOMAIN started[l] : started[l][i] # f

Queue(l, f) ==
    /\ Fresh(f)
    /\ waiting' = [waiting EXCEPT ![l] = Append(@, f)]
    /\ UNCHANGED started

Start(l) ==
    /\ waiting[l] # <<>>
    /\ started' = [started EXCEPT ![l] = Append(@, Head(waiting[l]))]
    /\ waiting' = [waiting EXCEPT ![l] = Tail(@)]

Next ==
    \/ \E l \in Loops, f \in Tasks : Queue(l, f)
    \/ \E l \in Loops : Start(l)

Spec == Init /\ [][Next]_queueVars
=============================================================================
