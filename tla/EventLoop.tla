------------------------------ MODULE EventLoop ------------------------------
(***************************************************************************)
(* The one-loop-per-thread reactor of src/network/EventLoop.{hpp,cpp} and  *)
(* the wake-up pipe of src/network/EventWatcher.cpp: how a functor handed  *)
(* to a loop by any thread reaches the loop's own thread, is redirected or *)
(* rechecked when the object it is bound to lives on another loop, and     *)
(* what happens to it when the loop is stopped.                            *)
(*                                                                         *)
(* A loop and the thread that runs it are the same value.  Every step that *)
(* the code does atomically (a critical section of mutex_, a load or store *)
(* of an atomic flag, one read or write of the pipe) is one action, so the *)
(* windows between them are explored.                                      *)
(***************************************************************************)
EXTENDS Integers, Sequences

CONSTANTS
    Loops,         \* event loops, each with the thread that constructed it
    Callers,       \* threads without a loop of their own
    Stoppers,      \* the threads whose program code calls stop()
    Tasks,         \* functors the program hands to queueInLoop*, each once
    Bound,         \* the functors that carry an expected_cb (a TcpConnection's)
    StopFn,        \* the functor queued by stop(): runs stopInLoop()
    NoLoop,        \* the null EventLoop* an expected_cb may return
    PipeCapacity   \* bytes the socketpair holds before a write is dropped

ASSUME BoundAssumption == Bound \subseteq Tasks
ASSUME StopFnAssumption == StopFn \notin Tasks
ASSUME NoLoopAssumption == NoLoop \notin Loops
ASSUME PipeAssumption == PipeCapacity \in Nat \ {0}

Threads == Loops \cup Callers
Functors == Tasks \cup {StopFn}

\* Where the loop thread is: before run(), in event_base_dispatch, about to take
\* the lock of doPendingFunctors, in its for loop, inside a functor, at the
\* test of stopped_, requeueing, inside an I/O or timer callback, after run().
Phases == {"new", "poll", "swap", "drain", "task", "gate",
           "requeue", "event", "exited"}

\* Where a thread is inside stop() or queueInLoopMaybeRedir().
CallPoints == {"idle", "stopSet", "stopPush", "check", "set", "write"}

VARIABLES
    pending,     \* pending_functors_ of each loop
    notified,    \* pending_notified_
    pipe,        \* bytes unread in the pending watcher's socketpair
    stopped,     \* stopped_
    doPending,   \* do_pending_
    phase,       \* control point of the loop's thread
    batch,       \* the local `functors` of doPendingFunctors
    retry,       \* its local `next_loop_functors`
    lastPass,    \* the doPendingFunctors call after dispatch returned
    exitReq,     \* event_base_loopexit() was called
    call,        \* the stop()/queueInLoop* call each thread is in
    owner,       \* what expected_cb returns: the bound object's loop_
    submitted,   \* history: functors handed over so far
    late,        \* history: functors handed to a loop told to stop
    queued,      \* history: the plain functors each loop was handed, in order
    begun,       \* history: the plain functors each loop started, in order
    ran          \* history: the functors each loop ran, in order

queueVars == <<pending, notified, pipe>>
threadVars == <<phase, batch, retry, lastPass, doPending>>
histVars == <<submitted, late, queued, begun>>
vars == <<pending, notified, pipe, stopped, doPending, phase, batch, retry,
          lastPass, exitReq, call, owner, submitted, late, queued, begun, ran>>

Idle == [pc |-> "idle", loop |-> NoLoop]

TypeOK ==
    /\ pending \in [Loops -> Seq(Functors)]
    /\ notified \in [Loops -> BOOLEAN]
    /\ pipe \in [Loops -> 0..PipeCapacity]
    /\ stopped \in [Loops -> BOOLEAN]
    /\ doPending \in [Loops -> BOOLEAN]
    /\ phase \in [Loops -> Phases]
    /\ batch \in [Loops -> Seq(Functors)]
    /\ retry \in [Loops -> Seq(Bound)]
    /\ lastPass \in [Loops -> BOOLEAN]
    /\ exitReq \in [Loops -> BOOLEAN]
    /\ call \in [Threads -> [pc : CallPoints, loop : Loops \cup {NoLoop}]]
    /\ \A t \in Threads : call[t].pc # "idle" => call[t].loop \in Loops
    /\ owner \in Loops \cup {NoLoop}
    /\ submitted \subseteq Tasks
    /\ late \subseteq Tasks
    /\ queued \in [Loops -> Seq(Tasks \ Bound)]
    /\ begun \in [Loops -> Seq(Tasks \ Bound)]
    /\ ran \in [Loops -> Seq(Tasks)]

\* EventLoop::EventLoop: stopped_ is true until run() starts dispatching.
Init ==
    /\ pending = [l \in Loops |-> <<>>]
    /\ notified = [l \in Loops |-> FALSE]
    /\ pipe = [l \in Loops |-> 0]
    /\ stopped = [l \in Loops |-> TRUE]
    /\ doPending = [l \in Loops |-> FALSE]
    /\ phase = [l \in Loops |-> "new"]
    /\ batch = [l \in Loops |-> <<>>]
    /\ retry = [l \in Loops |-> <<>>]
    /\ lastPass = [l \in Loops |-> FALSE]
    /\ exitReq = [l \in Loops |-> FALSE]
    /\ call = [t \in Threads |-> Idle]
    /\ owner \in Loops
    /\ submitted = {}
    /\ late = {}
    /\ queued = [l \in Loops |-> <<>>]
    /\ begun = [l \in Loops |-> <<>>]
    /\ ran = [l \in Loops |-> <<>>]

-----------------------------------------------------------------------------
\* queueInLoopMaybeRedir(), by any thread.

\* A thread may call into a loop when it is in no other such call and, if it is
\* a loop's thread, when it is executing program code.
InProgramCode(t) ==
    /\ call[t].pc = "idle"
    /\ t \in Loops => phase[t] \in {"new", "task", "event"}

\* Mutant of Push: the functor is put at the front of the queue.
PushFront(t, l, f) ==
    /\ pending' = [pending EXCEPT ![l] = <<f>> \o @]
    /\ call' = [call EXCEPT ![t] = [pc |-> "check", loop |-> l]]

\* The critical section of queueInLoopMaybeRedir: thread t appends f to l's queue.
Push(t, l, f) ==
    /\ pending' = [pending EXCEPT ![l] = Append(@, f)]
    /\ call' = [call EXCEPT ![t] = [pc |-> "check", loop |-> l]]

\* queueInLoop / queueInLoopMaybeRedir called by the program with functor f.
QueueInLoop(t, l, f) ==
    /\ InProgramCode(t)
    /\ f \in Tasks \ submitted
    /\ Push(t, l, f)
    /\ submitted' = submitted \cup {f}
    /\ late' = IF stopped[l] /\ phase[l] # "new" THEN late \cup {f} ELSE late
    /\ queued' = IF f \in Bound THEN queued ELSE [queued EXCEPT ![l] = Append(@, f)]
    /\ UNCHANGED <<notified, pipe, stopped, threadVars, exitReq, owner, begun, ran>>

\* `if (!pending_notified_)`, read outside the lock.
CheckNotified(t) ==
    /\ call[t].pc = "check"
    /\ call' = [call EXCEPT ![t] = IF notified[call[t].loop]
                                   THEN Idle ELSE [@ EXCEPT !.pc = "set"]]
    /\ UNCHANGED <<queueVars, stopped, threadVars, exitReq, owner, histVars, ran>>

\* Mutant of SetNotified: the flag is set but the pipe is not written.
SetNotifiedOnly(t) ==
    /\ call[t].pc = "set"
    /\ notified' = [notified EXCEPT ![call[t].loop] = TRUE]
    /\ call' = [call EXCEPT ![t] = Idle]
    /\ UNCHANGED <<pending, pipe, stopped, threadVars, exitReq, owner, histVars, ran>>

\* `pending_notified_ = true`.
SetNotified(t) ==
    /\ call[t].pc = "set"
    /\ notified' = [notified EXCEPT ![call[t].loop] = TRUE]
    /\ call' = [call EXCEPT ![t].pc = "write"]
    /\ UNCHANGED <<pending, pipe, stopped, threadVars, exitReq, owner, histVars, ran>>

\* Mutant of WritePipe: a full socket buffer is not expected.
WritePipeUnbounded(t) ==
    /\ call[t].pc = "write"
    /\ pipe' = [pipe EXCEPT ![call[t].loop] = @ + 1]
    /\ call' = [call EXCEPT ![t] = Idle]
    /\ UNCHANGED <<pending, notified, stopped, threadVars, exitReq, owner, histVars, ran>>

\* PipeEventWatcher::notify(): one byte, dropped when the socket buffer is full.
WritePipe(t) ==
    /\ call[t].pc = "write"
    /\ pipe' = [pipe EXCEPT ![call[t].loop] = IF @ < PipeCapacity THEN @ + 1 ELSE @]
    /\ call' = [call EXCEPT ![t] = Idle]
    /\ UNCHANGED <<pending, notified, stopped, threadVars, exitReq, owner, histVars, ran>>

-----------------------------------------------------------------------------
\* stop(), by any thread.

\* `if (!stopped_)`: the call does nothing on a loop that is not running.
StopTest(t, l) ==
    /\ InProgramCode(t)
    /\ ~stopped[l]
    /\ call' = [call EXCEPT ![t] = [pc |-> "stopSet", loop |-> l]]
    /\ UNCHANGED <<queueVars, stopped, threadVars, exitReq, owner, histVars, ran>>

\* `stopped_ = true`, then stopInLoop() at once on the loop's own thread.
StopSet(t) ==
    LET l == call[t].loop IN
    /\ call[t].pc = "stopSet"
    /\ stopped' = [stopped EXCEPT ![l] = TRUE]
    /\ exitReq' = [exitReq EXCEPT ![l] = @ \/ t = l]
    /\ call' = [call EXCEPT ![t] = IF t = l THEN Idle ELSE [@ EXCEPT !.pc = "stopPush"]]
    /\ UNCHANGED <<queueVars, threadVars, owner, histVars, ran>>

\* Mutant of StopPush: stopInLoop() is not queued.
StopPushNothing(t) ==
    /\ call[t].pc = "stopPush"
    /\ call' = [call EXCEPT ![t] = Idle]
    /\ UNCHANGED <<queueVars, stopped, threadVars, exitReq, owner, histVars, ran>>

\* From another thread stop() queues stopInLoop().
StopPush(t) ==
    /\ call[t].pc = "stopPush"
    /\ Push(t, call[t].loop, StopFn)
    /\ UNCHANGED <<notified, pipe, stopped, threadVars, exitReq, owner, histVars, ran>>

-----------------------------------------------------------------------------
\* The loop's thread: run(), the pending watcher's handler, doPendingFunctors().

AtPhase(l, p) == phase[l] = p /\ call[l].pc = "idle"
Goto(l, p) == phase' = [phase EXCEPT ![l] = p]

\* EventLoop::run up to event_base_dispatch.
Run(l) ==
    /\ AtPhase(l, "new")
    /\ stopped' = [stopped EXCEPT ![l] = FALSE]
    /\ Goto(l, "poll")
    /\ UNCHANGED <<queueVars, batch, retry, lastPass, doPending, exitReq, call,
                   owner, histVars, ran>>

\* libevent runs a socket or timer callback: program code on the loop's thread.
BeginEvent(l) ==
    /\ AtPhase(l, "poll")
    /\ Goto(l, "event")
    /\ UNCHANGED <<queueVars, stopped, batch, retry, lastPass, doPending, exitReq,
                   call, owner, histVars, ran>>

\* The callback returns to the dispatcher.
EndEvent(l) ==
    /\ AtPhase(l, "event")
    /\ Goto(l, "poll")
    /\ UNCHANGED <<queueVars, stopped, batch, retry, lastPass, doPending, exitReq,
                   call, owner, histVars, ran>>

\* PipeEventWatcher::handlerFn reads the bytes (its 128-byte buffer is larger than
\* PipeCapacity) and calls doPendingFunctors().
ReadPipe(l) ==
    /\ AtPhase(l, "poll")
    /\ pipe[l] > 0
    /\ pipe' = [pipe EXCEPT ![l] = 0]
    /\ Goto(l, "swap")
    /\ UNCHANGED <<pending, notified, stopped, batch, retry, lastPass, doPending,
                   exitReq, call, owner, histVars, ran>>

\* Mutant of LeaveDispatch: run() returns without its last doPendingFunctors().
LeaveWithoutLastPass(l) ==
    /\ AtPhase(l, "poll")
    /\ exitReq[l]
    /\ Goto(l, "exited")
    /\ UNCHANGED <<queueVars, stopped, batch, retry, lastPass, doPending, exitReq, call,
                   owner, histVars, ran>>

\* After loopexit dispatch returns and run() calls doPendingFunctors() once more.
LeaveDispatch(l) ==
    /\ AtPhase(l, "poll")
    /\ exitReq[l]
    /\ lastPass' = [lastPass EXCEPT ![l] = TRUE]
    /\ Goto(l, "swap")
    /\ UNCHANGED <<queueVars, stopped, batch, retry, doPending, exitReq, call,
                   owner, histVars, ran>>

\* Mutant of SwapPending: pending_notified_ is not reset.
SwapKeepsFlag(l) ==
    /\ AtPhase(l, "swap")
    /\ batch' = [batch EXCEPT ![l] = pending[l]]
    /\ pending' = [pending EXCEPT ![l] = <<>>]
    /\ doPending' = [doPending EXCEPT ![l] = TRUE]
    /\ Goto(l, "drain")
    /\ UNCHANGED <<notified, pipe, stopped, retry, lastPass, exitReq, call, owner,
                   histVars, ran>>

\* Mutant of SwapPending: do_pending_ is not set.
SwapUnmarked(l) ==
    /\ AtPhase(l, "swap")
    /\ batch' = [batch EXCEPT ![l] = pending[l]]
    /\ pending' = [pending EXCEPT ![l] = <<>>]
    /\ notified' = [notified EXCEPT ![l] = FALSE]
    /\ Goto(l, "drain")
    /\ UNCHANGED <<pipe, stopped, doPending, retry, lastPass, exitReq, call, owner, histVars, ran>>

\* First critical section of doPendingFunctors.
SwapPending(l) ==
    /\ AtPhase(l, "swap")
    /\ batch' = [batch EXCEPT ![l] = pending[l]]
    /\ pending' = [pending EXCEPT ![l] = <<>>]
    /\ notified' = [notified EXCEPT ![l] = FALSE]
    /\ doPending' = [doPending EXCEPT ![l] = TRUE]
    /\ Goto(l, "drain")
    /\ UNCHANGED <<pipe, stopped, retry, lastPass, exitReq, call, owner, histVars, ran>>

\* The program functor at the head may run here: no expected_cb, or it returns
\* this loop.
RunsHere(l, f) == f \in Bound => owner = l

\* task_cb(this) for a functor of the program.
StartTask(l) ==
    /\ AtPhase(l, "drain")
    /\ batch[l] # <<>>
    /\ Head(batch[l]) \in Tasks
    /\ RunsHere(l, Head(batch[l]))
    /\ ran' = [ran EXCEPT ![l] = Append(@, Head(batch[l]))]
    /\ begun' = IF Head(batch[l]) \in Bound THEN begun
                ELSE [begun EXCEPT ![l] = Append(@, Head(batch[l]))]
    /\ batch' = [batch EXCEPT ![l] = Tail(@)]
    /\ Goto(l, "task")
    /\ UNCHANGED <<queueVars, stopped, retry, lastPass, doPending, exitReq, call,
                   owner, submitted, late, queued>>

\* The functor returns.
EndTask(l) ==
    /\ AtPhase(l, "task")
    /\ Goto(l, "drain")
    /\ UNCHANGED <<queueVars, stopped, batch, retry, lastPass, doPending, exitReq,
                   call, owner, histVars, ran>>

\* A functor moves the bound object: off this loop (TcpConnection::
\* detachFromLoopAndReset) or, when it has no loop, onto it (attachToNewLoop).
MoveOwner(l) ==
    /\ AtPhase(l, "task")
    /\ \/ owner = l /\ owner' = NoLoop
       \/ owner = NoLoop /\ owner' = l
    /\ UNCHANGED <<queueVars, stopped, threadVars, exitReq, call, histVars, ran>>

\* The functor of stop(): stopInLoop() calls event_base_loopexit.
RunStopFn(l) ==
    /\ AtPhase(l, "drain")
    /\ batch[l] # <<>>
    /\ Head(batch[l]) = StopFn
    /\ exitReq' = [exitReq EXCEPT ![l] = TRUE]
    /\ batch' = [batch EXCEPT ![l] = Tail(@)]
    /\ UNCHANGED <<queueVars, stopped, phase, retry, lastPass, doPending, call,
                   owner, histVars, ran>>

\* Mutant of KeepForRecheck: a functor whose expected_cb returns null is dropped.
KeepForRecheckDrops(l) ==
    /\ AtPhase(l, "drain")
    /\ batch[l] # <<>>
    /\ Head(batch[l]) \in Bound
    /\ owner = NoLoop
    /\ batch' = [batch EXCEPT ![l] = Tail(@)]
    /\ UNCHANGED <<queueVars, stopped, phase, retry, lastPass, doPending, exitReq, call,
                   owner, histVars, ran>>

\* expected_cb returned null: keep the functor for the next iteration.
KeepForRecheck(l) ==
    /\ AtPhase(l, "drain")
    /\ batch[l] # <<>>
    /\ Head(batch[l]) \in Bound
    /\ owner = NoLoop
    /\ retry' = [retry EXCEPT ![l] = Append(@, Head(batch[l]))]
    /\ batch' = [batch EXCEPT ![l] = Tail(@)]
    /\ UNCHANGED <<queueVars, stopped, phase, lastPass, doPending, exitReq, call,
                   owner, histVars, ran>>

\* expected_cb returned another loop: redirect the functor to it.
Redirect(l) ==
    /\ AtPhase(l, "drain")
    /\ batch[l] # <<>>
    /\ Head(batch[l]) \in Bound
    /\ owner \in Loops \ {l}
    /\ Push(l, owner, Head(batch[l]))
    /\ batch' = [batch EXCEPT ![l] = Tail(@)]
    /\ UNCHANGED <<notified, pipe, stopped, phase, retry, lastPass, doPending,
                   exitReq, owner, histVars, ran>>

\* Second critical section: do_pending_ = false.
EndDrain(l) ==
    /\ AtPhase(l, "drain")
    /\ batch[l] = <<>>
    /\ doPending' = [doPending EXCEPT ![l] = FALSE]
    /\ Goto(l, "gate")
    /\ UNCHANGED <<queueVars, stopped, batch, retry, lastPass, exitReq, call, owner,
                   histVars, ran>>

\* `if (stopped_) return`: the functors kept for recheck are given up, or
\* requeueing starts (and goes on even if stop() is called meanwhile).
TestStopped(l) ==
    /\ AtPhase(l, "gate")
    /\ Goto(l, IF ~stopped[l] THEN "requeue"
               ELSE IF lastPass[l] THEN "exited" ELSE "poll")
    /\ retry' = IF stopped[l] THEN [retry EXCEPT ![l] = <<>>] ELSE retry
    /\ UNCHANGED <<queueVars, stopped, batch, lastPass, doPending, exitReq, call,
                   owner, histVars, ran>>

\* One iteration of the loop that requeues next_loop_functors.
Requeue(l) ==
    /\ AtPhase(l, "requeue")
    /\ retry[l] # <<>>
    /\ Push(l, l, Head(retry[l]))
    /\ retry' = [retry EXCEPT ![l] = Tail(@)]
    /\ UNCHANGED <<notified, pipe, stopped, phase, batch, lastPass, doPending,
                   exitReq, owner, histVars, ran>>

\* doPendingFunctors returns; run() returns after its last pass.
EndPass(l) ==
    /\ AtPhase(l, "requeue")
    /\ retry[l] = <<>>
    /\ Goto(l, IF lastPass[l] THEN "exited" ELSE "poll")
    /\ UNCHANGED <<queueVars, stopped, batch, retry, lastPass, doPending, exitReq,
                   call, owner, histVars, ran>>

-----------------------------------------------------------------------------
CallerStep(t) ==
    \/ \E l \in Loops, f \in Tasks : QueueInLoop(t, l, f)
    \/ t \in Stoppers /\ \E l \in Loops : StopTest(t, l)

\* The rest of a call that a thread is in.
CallStep(t) ==
    \/ CheckNotified(t)
    \/ SetNotified(t)
    \/ WritePipe(t)
    \/ StopSet(t)
    \/ StopPush(t)

\* What the loop's thread does by itself once it has been woken.
DrainStep(l) ==
    \/ SwapPending(l)
    \/ StartTask(l)
    \/ EndTask(l)
    \/ RunStopFn(l)
    \/ KeepForRecheck(l)
    \/ Redirect(l)
    \/ EndDrain(l)
    \/ TestStopped(l)
    \/ Requeue(l)
    \/ EndPass(l)

LoopStep(l) ==
    \/ Run(l)
    \/ BeginEvent(l)
    \/ EndEvent(l)
    \/ ReadPipe(l)
    \/ LeaveDispatch(l)
    \/ MoveOwner(l)
    \/ DrainStep(l)

Next ==
    \/ \E t \in Threads : CallerStep(t) \/ CallStep(t)
    \/ \E l \in Loops : LoopStep(l)

Spec == Init /\ [][Next]_vars

\* A thread does not stop inside a call, callbacks and functors return, and the
\* dispatcher serves every ready event: a readable pipe and a requested exit are
\* not passed over for ever in favour of other events (strong fairness, since a
\* callback that runs in between disables them).
Fairness ==
    /\ \A t \in Threads : WF_vars(CallStep(t))
    /\ \A l \in Loops : /\ WF_vars(Run(l))
                        /\ WF_vars(EndEvent(l))
                        /\ WF_vars(DrainStep(l))
                        /\ SF_vars(ReadPipe(l))
                        /\ SF_vars(LeaveDispatch(l))

FairSpec == Spec /\ Fairness

-----------------------------------------------------------------------------
(* Correctness *)

\* Somebody is still going to make loop l's thread look at its queue.
WakeUpUnderWay(l) ==
    \/ pipe[l] > 0
    \/ phase[l] = "swap"
    \/ \E t \in Threads : call[t].loop = l /\ call[t].pc \in {"check", "set", "write"}

\* The flag pending_notified_ is tested and set outside the lock that protects the
\* queue, and cleared under it.  Whatever the interleaving, a functor in
\* pending_functors_ is never left behind with the pipe empty and no thread about
\* to write to it (queueInLoopMaybeRedir against handlerFn/doPendingFunctors).
NoLostWakeUp == \A l \in Loops : pending[l] # <<>> => WakeUpUnderWay(l)

\* Where a functor may be: in a loop's queue, in the batch it runs, among those it
\* keeps for recheck, or among those it has run.
Places == {"queue", "batch", "retry", "ran"} \X Loops
At(p) == [queue |-> pending, batch |-> batch, retry |-> retry, ran |-> ran][p[1]][p[2]]

Holds(s, f) == \E i \in DOMAIN s : s[i] = f
HoldsOnce(s, f) == \A i, j \in DOMAIN s : s[i] = f /\ s[j] = f => i = j
ToldToStop(l) == stopped[l] /\ phase[l] # "new"

\* A functor with an expected_cb follows its object through the queues of several
\* loops: redirected, kept while the object is between two loops, queued again.  It
\* is at every moment in one place only, so it runs at most once, and in some place:
\* only a loop that has been told to stop gives up what it kept for recheck
\* (doPendingFunctors' redirections against its early return).
BoundKeptOnce ==
    \A f \in Bound :
        /\ \A p \in Places : HoldsOnce(At(p), f)
        /\ \A p, q \in Places : Holds(At(p), f) /\ Holds(At(q), f) => p = q
        /\ f \in submitted => \/ \E p \in Places : Holds(At(p), f)
                              \/ \E l \in Loops : ToldToStop(l)

\* stop() loses nothing that was handed over before it: once run() has returned, a
\* functor without expected_cb that is still queued was queued after stop() had
\* already marked the loop stopped (the last doPendingFunctors of run()).
StopKeepsEarlierTasks ==
    \A l \in Loops : phase[l] = "exited" =>
        \A i \in DOMAIN pending[l] : pending[l][i] \in (Tasks \ Bound) => pending[l][i] \in late

\* What a loop owes: the functors without expected_cb it was handed and has not
\* started, in the order in which queueInLoop() was called.
Owed(l) == [i \in 1..(Len(queued[l]) - Len(begun[l])) |-> queued[l][Len(begun[l]) + i]]

FIFO == INSTANCE TaskQueue WITH
            Tasks <- Tasks \ Bound,
            waiting <- [l \in Loops |-> Owed(l)],
            started <- begun

\* What a loop owes is what it holds: the plain functors of the batch being run and
\* of pending_functors_, none lost on the way and none left over.
HoldsWhatItOwes ==
    \A l \in Loops :
        LET held == batch[l] \o pending[l]
        IN  {Owed(l)[i] : i \in DOMAIN Owed(l)}
                = {held[i] : i \in {j \in DOMAIN held : held[j] \in Tasks \ Bound}}

\* Splitting the queue into a swapped-out batch and the functors that arrive
\* meanwhile, with redirected and rechecked functors in between, still runs the
\* plain functors of a loop first in, first out, each once, and loses none
\* (doPendingFunctors): after every step what it owes is what it holds.
RunsInOrder == FIFO!Spec /\ [][HoldsWhatItOwes']_vars

\* hasPendingTask() as another thread evaluates it.
HasPendingTask(l) == pending[l] # <<>> \/ doPending[l]

\* A loop thread is allowed to exit when hasPendingTask() is false (the exit check
\* of tests/ut_tests/network/TcpServer_Resize_IO_test.cpp).  Whenever another
\* thread reads it, a loop that answers false is inside no functor and holds none,
\* but for those kept for recheck, which are in no queue from do_pending_ = false
\* to their requeueing (EventLoop.cpp:180).
NoPendingTaskMeansNone ==
    \A l \in Loops : ~HasPendingTask(l) =>
        /\ batch[l] = <<>> /\ phase[l] # "task"
        /\ retry[l] = <<>> \/ phase[l] \in {"gate", "requeue"}

\* Every functor without expected_cb handed to a loop that runs and is not told to
\* stop is run by it; one with an expected_cb is run once its object has come to
\* rest on a loop, wherever it was queued, if no loop is told to stop.
TaskRuns ==
    /\ \A f \in Tasks \ Bound :
          f \in submitted ~> (\E l \in Loops : Holds(ran[l], f)) \/ f \in late
    /\ \A f \in Bound, l \in Loops :
          <>[](owner = l) => (f \in submitted ~> \E k \in Loops : Holds(ran[k], f) \/ ToldToStop(k))

\* A stop() that found the loop running makes run() return.
StopTerminates ==
    \A l \in Loops : (\E t \in Threads : call[t].loop = l /\ call[t].pc = "stopSet")
                        ~> phase[l] = "exited"
=============================================================================
