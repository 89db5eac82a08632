---------------------------- MODULE ThreadExecutor ----------------------------
(* common::ThreadExecutor: one thread that swaps the whole queue out and runs *)
(* it, producers that spin while the queue is over its capacity, producers    *)
(* that force their task in (putTaskWithPromise), and stop().                 *)
EXTENDS Integers, Sequences, FiniteSets

CONSTANTS Spinners, Forcers, TasksPer, ForcedTasks, Capacity

\* capacity_ is a size_t; a producer of the model calls one of the two methods.
ASSUME ThreadExecutorAssumption ==
    Capacity \in Nat /\ IsFiniteSet(Spinners) /\ Spinners \cap Forcers = {}

VARIABLES
    exStopped, exQueue, need_notify_,
    tmp_queue,   \* the tasks swapped out and not run yet
    adder,       \* producer -> "idle", "test" or "push"
    added,       \* producer -> number of tasks it has tried to put
    runner,      \* the thread: "top", "lock", "waiting", "run" or "exited"
    notified,    \* the waiting thread has been notified
    exStop,      \* the stopping thread: "none", "joining" or "returned"
    accepted, exRan \* the tasks accepted and run, in order

exVars == <<exStopped, exQueue, need_notify_, tmp_queue, adder, added, runner, notified, exStop,
            accepted, exRan>>
Adders == Spinners \cup Forcers

ExInit ==
    /\ exStopped = FALSE /\ exQueue = <<>> /\ need_notify_ = TRUE /\ tmp_queue = <<>>
    /\ adder = [p \in Adders |-> "idle"] /\ added = [p \in Adders |-> 0]
    /\ runner = "top" /\ notified = FALSE /\ exStop = "none" /\ accepted = <<>> /\ exRan = <<>>

(***************************************************************************)
(* putTask(task, force) and putTaskWithPromise()                            *)
(***************************************************************************)
ExPutTask(p) ==
    /\ adder[p] = "idle" /\ added[p] < (IF p \in Forcers THEN ForcedTasks ELSE TasksPer)
    /\ IF exStopped THEN added' = [added EXCEPT ![p] = @ + 1] /\ UNCHANGED adder
       ELSE adder' = [adder EXCEPT ![p] = IF p \in Forcers \/ Capacity = 0 THEN "push" ELSE "test"] /\ UNCHANGED added
    /\ UNCHANGED <<exStopped, exQueue, need_notify_, tmp_queue, runner, notified, exStop, accepted, exRan>>

\* One round of the loop: queueSize() > capacity_ sleeps and looks at stopped_.
TestCapacity(p) ==
    /\ adder[p] = "test"
    /\ IF Len(exQueue) > Capacity
       THEN exStopped /\ adder' = [adder EXCEPT ![p] = "idle"] /\ added' = [added EXCEPT ![p] = @ + 1]
       ELSE adder' = [adder EXCEPT ![p] = "push"] /\ UNCHANGED added
    /\ UNCHANGED <<exStopped, exQueue, need_notify_, tmp_queue, runner, notified, exStop, accepted, exRan>>

\* Mutant of Push: need_notify_ is cleared before it is looked at.
PushForgetsNotify(p) ==
    /\ adder[p] = "push"
    /\ exQueue' = Append(exQueue, <<p, added[p]>>) /\ accepted' = Append(accepted, <<p, added[p]>>)
    /\ need_notify_' = FALSE /\ UNCHANGED notified
    /\ adder' = [adder EXCEPT ![p] = "idle"] /\ added' = [added EXCEPT ![p] = @ + 1]
    /\ UNCHANGED <<exStopped, tmp_queue, runner, exStop, exRan>>

Push(p) ==
    /\ adder[p] = "push"
    /\ exQueue' = Append(exQueue, <<p, added[p]>>) /\ accepted' = Append(accepted, <<p, added[p]>>)
    /\ notified' = (notified \/ (need_notify_ /\ runner = "waiting")) /\ need_notify_' = FALSE
    /\ adder' = [adder EXCEPT ![p] = "idle"] /\ added' = [added EXCEPT ![p] = @ + 1]
    /\ UNCHANGED <<exStopped, tmp_queue, runner, exStop, exRan>>

(***************************************************************************)
(* threadFunc()                                                             *)
(***************************************************************************)
Top ==
    /\ runner = "top" /\ runner' = IF exStopped THEN "exited" ELSE "lock"
    /\ UNCHANGED <<exStopped, exQueue, need_notify_, tmp_queue, adder, added, notified, exStop, accepted, exRan>>

Swap == tmp_queue' = exQueue /\ exQueue' = <<>> /\ runner' = "run"

LockQueue ==
    /\ runner = "lock"
    /\ IF exQueue = <<>>
       THEN need_notify_' = TRUE /\ runner' = "waiting" /\ notified' = FALSE /\ UNCHANGED <<exQueue, tmp_queue>>
       ELSE Swap /\ UNCHANGED <<need_notify_, notified>>
    /\ UNCHANGED <<exStopped, adder, added, exStop, accepted, exRan>>

\* The end of waitFor(): notified, or after cron_time_ms_.
Awake ==
    /\ runner = "waiting" /\ need_notify_' = FALSE /\ notified' = FALSE /\ Swap
    /\ UNCHANGED <<exStopped, adder, added, exStop, accepted, exRan>>

RunSwapped ==
    /\ runner = "run"
    /\ IF tmp_queue = <<>> THEN runner' = "top" /\ UNCHANGED <<tmp_queue, exRan>>
       ELSE exRan' = Append(exRan, Head(tmp_queue)) /\ tmp_queue' = Tail(tmp_queue) /\ UNCHANGED runner
    /\ UNCHANGED <<exStopped, exQueue, need_notify_, adder, added, notified, exStop, accepted>>

(***************************************************************************)
(* stop(): the flag, one notification without the lock, join().             *)
(***************************************************************************)
ExStopSet ==
    /\ exStop = "none" /\ exStop' = "joining" /\ exStopped' = TRUE
    /\ notified' = (notified \/ runner = "waiting")
    /\ UNCHANGED <<exQueue, need_notify_, tmp_queue, adder, added, runner, accepted, exRan>>

ExJoined ==
    /\ exStop = "joining" /\ runner = "exited" /\ exStop' = "returned"
    /\ UNCHANGED <<exStopped, exQueue, need_notify_, tmp_queue, adder, added, runner, notified, accepted, exRan>>

ExThread == Top \/ LockQueue \/ Awake \/ RunSwapped
ExNext ==
    \/ \E p \in Adders : ExPutTask(p) \/ TestCapacity(p) \/ Push(p)
    \/ ExThread \/ ExStopSet \/ ExJoined

(***************************************************************************)
(* Properties                                                               *)
(***************************************************************************)
ExTypeOK ==
    /\ exStopped \in BOOLEAN /\ need_notify_ \in BOOLEAN /\ notified \in BOOLEAN
    /\ adder \in [Adders -> {"idle", "test", "push"}]
    /\ runner \in {"top", "lock", "waiting", "run", "exited"}

\* Tasks run one at a time, each once, in the order putTask() accepted them.
RunsAsAccepted == exRan \o tmp_queue \o exQueue = accepted

\* The thread never sleeps over a task until the timeout: if one was pushed
\* while it waits, it has been notified.
NoSleepOverTask == runner = "waiting" /\ exQueue # <<>> => notified

\* The capacity test is outside the lock and uses >: the queue passes the
\* capacity by at most one task per producer, beside the forced ones.
CapacityOverrun ==
    Capacity > 0 => Cardinality({i \in DOMAIN exQueue : exQueue[i][1] \in Spinners}) <= Capacity + Cardinality(Spinners)

\* putTask() returns: a producer that sleeps over a full queue sees it swapped
\* out, or stopped_.
ExPutReturns == \A p \in Adders : adder[p] # "idle" ~> adder[p] = "idle"

\* stop() returns.
ExStopReturns == exStop = "joining" ~> exStop = "returned"
=============================================================================
