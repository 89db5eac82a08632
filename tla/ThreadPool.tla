------------------------------ MODULE ThreadPool ------------------------------
(* common::ThreadPool: producers that call putTask(), worker threads in       *)
(* threadFunc(), and one thread that calls stop().                            *)
EXTENDS Integers, Sequences, FiniteSets

CONSTANTS Putters, Workers, TasksEach, MaxQueueSize

\* max_queue_size_ is a size_t; 0 is no limit.
ASSUME ThreadPoolAssumption == MaxQueueSize \in Nat

VARIABLES
    tpStopped,  \* stopped_
    tpQueue,    \* queue_, under mutex_
    putter,     \* producer -> "idle", "enter" or "notFull" (waits on not_full_cond_)
    put,        \* producer -> number of tasks it has put
    worker,     \* worker -> "loop", "take", "notEmpty" (waits), "run" or "exited"
    task,       \* worker -> the task it runs
    tpStop,     \* the stopping thread: "none", "joining" or "returned"
    tpRan,      \* the tasks that have run
    early       \* the tasks put into the queue before stop() was called

tpVars == <<tpStopped, tpQueue, putter, put, worker, task, tpStop, tpRan, early>>
NoTask == <<>>

TpInit ==
    /\ tpStopped = FALSE /\ tpQueue = <<>> /\ tpStop = "none" /\ tpRan = {} /\ early = {}
    /\ putter = [p \in Putters |-> "idle"] /\ put = [p \in Putters |-> 0]
    /\ worker = [w \in Workers |-> "loop"] /\ task = [w \in Workers |-> NoTask]

(***************************************************************************)
(* putTask()                                                                *)
(***************************************************************************)
NewTask(p) == <<p, put[p] + 1>>

\* The test of stopped_ without the lock; a stopped pool runs the task here.
PutTask(p) ==
    /\ putter[p] = "idle" /\ put[p] < TasksEach
    /\ IF tpStopped
       THEN tpRan' = tpRan \cup {NewTask(p)} /\ put' = [put EXCEPT ![p] = @ + 1] /\ UNCHANGED putter
       ELSE putter' = [putter EXCEPT ![p] = "enter"] /\ UNCHANGED <<tpRan, put>>
    /\ UNCHANGED <<tpStopped, tpQueue, worker, task, tpStop, early>>

\* notifyOne() on not_empty_cond_.
WakeOneWorker ==
    LET waiting == {w \in Workers : worker[w] = "notEmpty"}
    IN  IF waiting = {} THEN UNCHANGED worker
        ELSE \E w \in waiting : worker' = [worker EXCEPT ![w] = "take"]

Enqueue(p) ==
    /\ tpQueue' = Append(tpQueue, NewTask(p)) /\ put' = [put EXCEPT ![p] = @ + 1]
    /\ early' = IF tpStop = "none" THEN early \cup {NewTask(p)} ELSE early
    /\ putter' = [putter EXCEPT ![p] = "idle"] /\ WakeOneWorker

\* Under the lock: wait while the queue is full, then push and notify.
PutLocked(p) ==
    /\ putter[p] = "enter"
    /\ IF MaxQueueSize > 0 /\ Len(tpQueue) >= MaxQueueSize
       THEN putter' = [putter EXCEPT ![p] = "notFull"] /\ UNCHANGED <<tpQueue, put, early, worker>>
       ELSE Enqueue(p)
    /\ UNCHANGED <<tpStopped, task, tpStop, tpRan>>

(***************************************************************************)
(* threadFunc() and take()                                                  *)
(***************************************************************************)
LoopTest(w) ==
    /\ worker[w] = "loop"
    /\ worker' = [worker EXCEPT ![w] = IF tpStopped THEN "exited" ELSE "take"]
    /\ UNCHANGED <<tpStopped, tpQueue, putter, put, task, tpStop, tpRan, early>>

\* notifyOne() on not_full_cond_.
WakeOnePutter ==
    LET waiting == {p \in Putters : putter[p] = "notFull"}
    IN  IF waiting = {} THEN UNCHANGED putter
        ELSE \E p \in waiting : putter' = [putter EXCEPT ![p] = "enter"]

\* Mutant of Take: not_full_cond_ is not notified.
TakeSilently(w) ==
    /\ worker[w] = "take"
    /\ IF tpQueue = <<>>
       THEN /\ worker' = [worker EXCEPT ![w] = IF tpStopped THEN "loop" ELSE "notEmpty"]
            /\ UNCHANGED <<tpQueue, task>>
       ELSE /\ task' = [task EXCEPT ![w] = Head(tpQueue)] /\ tpQueue' = Tail(tpQueue)
            /\ worker' = [worker EXCEPT ![w] = "run"]
    /\ UNCHANGED <<tpStopped, putter, put, tpStop, tpRan, early>>

Take(w) ==
    /\ worker[w] = "take"
    /\ IF tpQueue = <<>>
       THEN /\ worker' = [worker EXCEPT ![w] = IF tpStopped THEN "loop" ELSE "notEmpty"]
            /\ UNCHANGED <<tpQueue, task, putter>>
       ELSE /\ task' = [task EXCEPT ![w] = Head(tpQueue)] /\ tpQueue' = Tail(tpQueue)
            /\ worker' = [worker EXCEPT ![w] = "run"]
            /\ IF MaxQueueSize > 0 THEN WakeOnePutter ELSE UNCHANGED putter
    /\ UNCHANGED <<tpStopped, put, tpStop, tpRan, early>>

RunTask(w) ==
    /\ worker[w] = "run"
    /\ tpRan' = tpRan \cup {task[w]} /\ task' = [task EXCEPT ![w] = NoTask]
    /\ worker' = [worker EXCEPT ![w] = "loop"]
    /\ UNCHANGED <<tpStopped, tpQueue, putter, put, tpStop, early>>

(***************************************************************************)
(* stop()                                                                   *)
(***************************************************************************)
StopSet ==
    /\ tpStop = "none" /\ tpStop' = "joining" /\ tpStopped' = TRUE
    /\ worker' = [w \in Workers |-> IF worker[w] = "notEmpty" THEN "take" ELSE worker[w]]
    /\ UNCHANGED <<tpQueue, putter, put, task, tpRan, early>>

\* After join(): the rest of the queue is run here, and nobody is notified.
StopDrain ==
    /\ tpStop = "joining" /\ \A w \in Workers : worker[w] = "exited"
    /\ tpStop' = "returned"
    /\ tpRan' = tpRan \cup {tpQueue[i] : i \in DOMAIN tpQueue} /\ tpQueue' = <<>>
    /\ UNCHANGED <<tpStopped, putter, put, worker, task, early>>

TpWork == \/ \E p \in Putters : PutLocked(p)
          \/ \E w \in Workers : LoopTest(w) \/ Take(w) \/ RunTask(w)
          \/ StopDrain
TpNext == TpWork \/ StopSet \/ \E p \in Putters : PutTask(p)

(***************************************************************************)
(* Properties                                                               *)
(***************************************************************************)
TpTypeOK ==
    /\ tpStopped \in BOOLEAN /\ tpStop \in {"none", "joining", "returned"}
    /\ putter \in [Putters -> {"idle", "enter", "notFull"}]
    /\ worker \in [Workers -> {"loop", "take", "notEmpty", "run", "exited"}]

\* However many producers wait for room, the queue never grows past
\* max_queue_size_: the assertion of putTask() holds.
QueueWithinLimit == MaxQueueSize > 0 => Len(tpQueue) <= MaxQueueSize

\* Every task put into the queue before stop() was called has run when stop()
\* returns, by a worker or by the drain.
StopRunsEarlierTasks == tpStop = "returned" => early \subseteq tpRan

\* putTask() returns, but for a producer that waits for room once stop() has
\* been called: the drain of stop() notifies nobody, and it may wait for ever
\* (ThreadPool.hpp:57 with ThreadPool.cpp:65-72).
PutReturns == \A p \in Putters : putter[p] # "idle" ~> putter[p] = "idle" \/ (tpStop # "none" /\ putter[p] = "notFull")

\* stop() returns: every worker leaves its wait and its loop.
TpStopReturns == tpStop = "joining" ~> tpStop = "returned"
=============================================================================
