--------------------------- MODULE EventLoopProofs ---------------------------
(***************************************************************************)
(* Proofs about EventLoop for any number of loops, threads and functors    *)
(* and any pipe capacity.                                                  *)
(***************************************************************************)
EXTENDS EventLoop, SequenceTheorems, TLAPS

\* A queue without its first functor is still a queue of functors.
LEMMA TailType ==
    ASSUME NEW S, NEW s \in Seq(S), s # <<>>
    PROVE  Tail(s) \in Seq(S) /\ Head(s) \in S
  OBVIOUS

\* The critical section of queueInLoopMaybeRedir keeps the types of the queue and
\* of the call table.
LEMMA PushType ==
    ASSUME TypeOK, NEW t \in Threads, NEW l \in Loops, NEW f \in Functors, Push(t, l, f)
    PROVE  /\ pending' \in [Loops -> Seq(Functors)]
           /\ call' \in [Threads -> [pc : CallPoints, loop : Loops \cup {NoLoop}]]
           /\ \A u \in Threads : call'[u].pc # "idle" => call'[u].loop \in Loops
  BY DEF TypeOK, Push, CallPoints

\* Type correctness: every control point, queue and flag of every loop keeps its
\* type under every step of run(), stop(), queueInLoopMaybeRedir() and
\* doPendingFunctors().
THEOREM TypeCorrect == Spec => []TypeOK
<1>1. Init => TypeOK
  BY PipeAssumption DEF Init, TypeOK, Idle, Phases, CallPoints
<1>2. TypeOK /\ [Next]_vars => TypeOK'
  <2> SUFFICES ASSUME TypeOK, [Next]_vars PROVE TypeOK'
    OBVIOUS
  <2> USE DEF Threads, queueVars, threadVars, histVars, Phases
  <2>1. ASSUME NEW t \in Threads, NEW l \in Loops, NEW f \in Tasks, QueueInLoop(t, l, f)
        PROVE  TypeOK'
    <3>1. f \in Functors
      BY DEF Functors
    <3>2. Push(t, l, f)
      BY <2>1 DEF QueueInLoop
    <3>3. queued' \in [Loops -> Seq(Tasks \ Bound)]
      <4>1. CASE f \in Bound
        BY <2>1, <4>1 DEF TypeOK, QueueInLoop
      <4>2. CASE f \notin Bound
        <5>1. queued' = [queued EXCEPT ![l] = Append(queued[l], f)]
          BY <2>1, <4>2 DEF QueueInLoop
        <5>2. Append(queued[l], f) \in Seq(Tasks \ Bound)
          BY <4>2 DEF TypeOK
        <5> QED BY <5>1, <5>2 DEF TypeOK
      <4> QED BY <4>1, <4>2
    <3> QED
      BY <2>1, <3>1, <3>2, <3>3, PushType DEF TypeOK, QueueInLoop
  <2>2. ASSUME NEW t \in Threads, CallStep(t)
        PROVE  TypeOK'
    <3>1. CASE CheckNotified(t)
      BY <3>1 DEF TypeOK, CheckNotified, Idle, CallPoints
    <3>2. CASE SetNotified(t)
      BY <3>2 DEF TypeOK, SetNotified, CallPoints
    <3>3. CASE WritePipe(t)
      <4>1. call[t].loop \in Loops
        BY <3>3 DEF TypeOK, WritePipe
      <4> DEFINE n == pipe[call[t].loop]
                 m == IF n < PipeCapacity THEN n + 1 ELSE n
      <4>2. n \in 0..PipeCapacity
        BY <4>1 DEF TypeOK
      <4>3. m \in 0..PipeCapacity
        BY <4>2, PipeAssumption
      <4>4. pipe' = [pipe EXCEPT ![call[t].loop] = m]
        BY <3>3 DEF WritePipe
      <4> HIDE DEF n, m
      <4>5. pipe' \in [Loops -> 0..PipeCapacity]
        BY <4>3, <4>4 DEF TypeOK
      <4> QED
        BY <3>3, <4>5 DEF TypeOK, WritePipe, Idle, CallPoints
    <3>4. CASE StopSet(t)
      BY <3>4, ZenonT(60) DEF TypeOK, StopSet, Idle, CallPoints
    <3>5. CASE StopPush(t)
      <4>1. call[t].loop \in Loops
        BY <3>5 DEF TypeOK, StopPush
      <4> QED
        BY <3>5, <4>1, PushType DEF TypeOK, StopPush, Functors
    <3> QED
      BY <2>2, <3>1, <3>2, <3>3, <3>4, <3>5 DEF CallStep
  <2>3. ASSUME NEW t \in Threads, NEW l \in Loops, StopTest(t, l)
        PROVE  TypeOK'
    BY <2>3 DEF TypeOK, StopTest, CallPoints
  <2>4. ASSUME NEW l \in Loops, LoopStep(l)
        PROVE  TypeOK'
    <3> USE DEF Goto, AtPhase
    <3>1. CASE Run(l)
      BY <3>1 DEF TypeOK, Run
    <3>2. CASE BeginEvent(l)
      BY <3>2 DEF TypeOK, BeginEvent
    <3>3. CASE EndEvent(l)
      BY <3>3 DEF TypeOK, EndEvent
    <3>4. CASE ReadPipe(l)
      BY <3>4, PipeAssumption, SMTT(30) DEF TypeOK, ReadPipe
    <3>5. CASE LeaveDispatch(l)
      BY <3>5 DEF TypeOK, LeaveDispatch
    <3>6. CASE MoveOwner(l)
      BY <3>6 DEF TypeOK, MoveOwner
    <3>7. CASE SwapPending(l)
      <4>1. pending' \in [Loops -> Seq(Functors)] /\ batch' \in [Loops -> Seq(Functors)]
        BY <3>7 DEF TypeOK, SwapPending
      <4> QED
        BY <3>7, <4>1 DEF TypeOK, SwapPending
    <3>8. CASE StartTask(l)
      <4>1. batch[l] \in Seq(Functors) /\ batch[l] # <<>> /\ Head(batch[l]) \in Tasks
        BY <3>8 DEF TypeOK, StartTask
      <4>2. Tail(batch[l]) \in Seq(Functors)
        BY <4>1, TailType
      <4>3. batch' \in [Loops -> Seq(Functors)]
        BY <3>8, <4>2 DEF TypeOK, StartTask
      <4>4. ran' \in [Loops -> Seq(Tasks)]
        BY <3>8, <4>1 DEF TypeOK, StartTask
      <4>5. begun' \in [Loops -> Seq(Tasks \ Bound)]
        <5>1. CASE Head(batch[l]) \in Bound
          BY <3>8, <5>1 DEF TypeOK, StartTask
        <5>2. CASE Head(batch[l]) \notin Bound
          <6>1. begun' = [begun EXCEPT ![l] = Append(begun[l], Head(batch[l]))]
            BY <3>8, <5>2 DEF StartTask
          <6>2. Append(begun[l], Head(batch[l])) \in Seq(Tasks \ Bound)
            BY <4>1, <5>2 DEF TypeOK
          <6> QED BY <6>1, <6>2 DEF TypeOK
        <5> QED BY <5>1, <5>2
      <4> QED
        BY <3>8, <4>3, <4>4, <4>5 DEF TypeOK, StartTask
    <3>9. CASE EndTask(l)
      BY <3>9 DEF TypeOK, EndTask
    <3>10. CASE RunStopFn(l)
      <4>1. Tail(batch[l]) \in Seq(Functors)
        BY <3>10, TailType DEF TypeOK, RunStopFn
      <4> QED
        BY <3>10, <4>1 DEF TypeOK, RunStopFn
    <3>11. CASE KeepForRecheck(l)
      <4>1. Tail(batch[l]) \in Seq(Functors)
        BY <3>11, TailType DEF TypeOK, KeepForRecheck
      <4>2. Append(retry[l], Head(batch[l])) \in Seq(Bound)
        BY <3>11 DEF TypeOK, KeepForRecheck
      <4> QED
        BY <3>11, <4>1, <4>2 DEF TypeOK, KeepForRecheck
    <3>12. CASE Redirect(l)
      <4>1. Tail(batch[l]) \in Seq(Functors) /\ Head(batch[l]) \in Functors
        BY <3>12, TailType DEF TypeOK, Redirect
      <4>2. owner \in Loops /\ Push(l, owner, Head(batch[l]))
        BY <3>12 DEF Redirect
      <4> QED
        BY <3>12, <4>1, <4>2, PushType DEF TypeOK, Redirect
    <3>13. CASE EndDrain(l)
      BY <3>13 DEF TypeOK, EndDrain
    <3>14. CASE TestStopped(l)
      <4>1. phase' \in [Loops -> Phases]
        BY <3>14 DEF TypeOK, TestStopped
      <4>2. retry' \in [Loops -> Seq(Bound)]
        BY <3>14, SMTT(30) DEF TypeOK, TestStopped
      <4> QED
        BY <3>14, <4>1, <4>2 DEF TypeOK, TestStopped
    <3>15. CASE Requeue(l)
      <4>1. Tail(retry[l]) \in Seq(Bound) /\ Head(retry[l]) \in Bound
        BY <3>15, TailType DEF TypeOK, Requeue
      <4>2. Head(retry[l]) \in Functors /\ Push(l, l, Head(retry[l]))
        BY <3>15, <4>1, BoundAssumption DEF Requeue, Functors
      <4> QED
        BY <3>15, <4>1, <4>2, PushType DEF TypeOK, Requeue
    <3>16. CASE EndPass(l)
      BY <3>16 DEF TypeOK, EndPass
    <3> QED
      BY <2>4, <3>1, <3>2, <3>3, <3>4, <3>5, <3>6, <3>7, <3>8, <3>9, <3>10, <3>11,
         <3>12, <3>13, <3>14, <3>15, <3>16 DEF LoopStep, DrainStep
  <2>5. CASE UNCHANGED vars
    BY <2>5 DEF TypeOK, vars
  <2> QED
    BY <2>1, <2>2, <2>3, <2>4, <2>5 DEF Next, CallerStep
<1> QED
  BY <1>1, <1>2, PTL DEF Spec

-----------------------------------------------------------------------------
\* NoLostWakeUp alone is not inductive: a thread that finds pending_notified_ up
\* returns without writing, so the flag must itself guarantee a byte.
\* Here, for one loop, both facts.
WakeUpInvAt(l) ==
    /\ pending[l] # <<>> => WakeUpUnderWay(l)
    /\ notified[l] => \/ pipe[l] > 0
                      \/ phase[l] = "swap"
                      \/ \E t \in Threads : call[t].loop = l /\ call[t].pc = "write"

\* A push wakes the loop up, whoever does it, as long as the caller was in no other
\* call: its own test of pending_notified_ is still to come.
LEMMA PushWakes ==
    ASSUME TypeOK, NEW t \in Threads, NEW m \in Loops, NEW f, Push(t, m, f),
           call[t].pc \in {"idle", "stopPush"}, UNCHANGED <<notified, pipe, phase>>,
           NEW l \in Loops, WakeUpInvAt(l)
    PROVE  WakeUpInvAt(l)'
<1>1. /\ call'[t] = [pc |-> "check", loop |-> m]
      /\ \A u \in Threads : u # t => call'[u] = call[u]
  BY DEF Push, TypeOK
<1>2. l # m => pending'[l] = pending[l]
  BY DEF Push, TypeOK
<1>3. \A u \in Threads : call[u].pc \in {"check", "set", "write"} => call'[u] = call[u]
  BY <1>1
<1>4. l = m => WakeUpUnderWay(l)'
  BY <1>1 DEF WakeUpUnderWay
<1>5. WakeUpUnderWay(l) => WakeUpUnderWay(l)'
  BY <1>3 DEF WakeUpUnderWay
<1> QED
  BY <1>2, <1>3, <1>4, <1>5 DEF WakeUpInvAt

\* No interleaving of queueInLoopMaybeRedir() with the reader of the pipe strands a
\* functor: whenever pending_functors_ is not empty, the loop is going to look at it.
THEOREM NoWakeUpIsLost == Spec => []NoLostWakeUp
<1> DEFINE WInv == \A l \in Loops : WakeUpInvAt(l)
<1>1. Init => WInv
  BY DEF Init, WakeUpInvAt
<1>2. TypeOK /\ TypeOK' /\ WInv /\ [Next]_vars => WInv'
  <2> SUFFICES ASSUME TypeOK, TypeOK', WInv, [Next]_vars, NEW l \in Loops
               PROVE  WakeUpInvAt(l)'
    OBVIOUS
  <2>0. WakeUpInvAt(l)
    OBVIOUS
  <2> HIDE DEF WInv
  <2> USE DEF queueVars, threadVars, histVars
  <2>1. ASSUME NEW t \in Threads, NEW m \in Loops, NEW f \in Tasks, QueueInLoop(t, m, f)
        PROVE  WakeUpInvAt(l)'
    <3>1. Push(t, m, f) /\ call[t].pc = "idle" /\ UNCHANGED <<notified, pipe, phase>>
      BY <2>1 DEF QueueInLoop, InProgramCode
    <3> QED
      BY <2>0, <3>1, PushWakes
  <2>2. ASSUME NEW t \in Threads, CallStep(t)
        PROVE  WakeUpInvAt(l)'
    <3> DEFINE m == call[t].loop
    <3>1. m \in Loops
      BY <2>2 DEF CallStep, CheckNotified, SetNotified, WritePipe, StopSet, StopPush, TypeOK
    <3>2. CASE CheckNotified(t)
      <4>1. /\ \A u \in Threads : u # t => call'[u] = call[u]
            /\ ~notified[m] => call'[t] = [call[t] EXCEPT !.pc = "set"]
            /\ UNCHANGED <<pending, notified, pipe, phase>>
            /\ call[t].pc = "check"
        BY <3>2 DEF CheckNotified, TypeOK
      <4>2. ~notified[m] => call'[t].loop = m /\ call'[t].pc = "set"
        BY <4>1 DEF TypeOK
      <4>3. \A u \in Threads : call[u].pc = "write" => call'[u] = call[u]
        BY <4>1
      <4>4. WakeUpUnderWay(l) => WakeUpUnderWay(l)' \/ (l = m /\ notified[m])
        BY <4>1, <4>2 DEF WakeUpUnderWay
      <4> QED
        BY <2>0, <4>1, <4>3, <4>4 DEF WakeUpInvAt, WakeUpUnderWay
    <3>3. CASE SetNotified(t)
      <4>1. /\ \A u \in Threads : u # t => call'[u] = call[u]
            /\ call'[t].pc = "write" /\ call'[t].loop = m
            /\ \A k \in Loops : k # m => notified'[k] = notified[k]
            /\ UNCHANGED <<pending, pipe, phase>>
            /\ call[t].pc = "set"
        BY <3>3 DEF SetNotified, TypeOK
      <4>2. WakeUpUnderWay(l) => WakeUpUnderWay(l)'
        BY <4>1 DEF WakeUpUnderWay
      <4>3. CASE l = m
        BY <2>0, <4>1, <4>2, <4>3 DEF WakeUpInvAt
      <4>4. CASE l # m
        BY <2>0, <4>1, <4>2, <4>4 DEF WakeUpInvAt
      <4> QED
        BY <4>3, <4>4
    <3>4. CASE WritePipe(t)
      <4>1. /\ \A u \in Threads : u # t => call'[u] = call[u]
            /\ \A k \in Loops : k # m => pipe'[k] = pipe[k]
            /\ UNCHANGED <<pending, notified, phase>>
        BY <3>4 DEF WritePipe, TypeOK
      <4>2. pipe'[m] = IF pipe[m] < PipeCapacity THEN pipe[m] + 1 ELSE pipe[m]
        BY <3>1, <3>4 DEF WritePipe, TypeOK
      <4>3. pipe[m] \in 0..PipeCapacity
        BY <3>1 DEF TypeOK
      <4>4. pipe'[m] > 0
        BY <4>2, <4>3, PipeAssumption
      <4>5. CASE l = m
        BY <4>4, <4>5 DEF WakeUpInvAt, WakeUpUnderWay
      <4>6. CASE l # m
        BY <2>0, <4>1, <4>6 DEF WakeUpInvAt, WakeUpUnderWay
      <4> QED
        BY <4>5, <4>6
    <3>5. CASE StopSet(t)
      <4>1. /\ \A u \in Threads : u # t => call'[u] = call[u]
            /\ UNCHANGED <<pending, notified, pipe, phase>>
            /\ call[t].pc = "stopSet"
        BY <3>5 DEF StopSet, TypeOK
      <4> QED
        BY <2>0, <4>1 DEF WakeUpInvAt, WakeUpUnderWay
    <3>6. CASE StopPush(t)
      <4>1. Push(t, m, StopFn) /\ call[t].pc = "stopPush" /\ UNCHANGED <<notified, pipe, phase>>
        BY <3>6 DEF StopPush
      <4> QED
        BY <2>0, <3>1, <4>1, PushWakes
    <3> QED
      BY <2>2, <3>2, <3>3, <3>4, <3>5, <3>6 DEF CallStep
  <2>3. ASSUME NEW t \in Threads, NEW m \in Loops, StopTest(t, m)
        PROVE  WakeUpInvAt(l)'
    <3>1. /\ \A u \in Threads : u # t => call'[u] = call[u]
          /\ UNCHANGED <<pending, notified, pipe, phase>>
          /\ call[t].pc = "idle"
      BY <2>3 DEF StopTest, InProgramCode, TypeOK
    <3> QED
      BY <2>0, <3>1 DEF WakeUpInvAt, WakeUpUnderWay
  <2>4. ASSUME NEW m \in Loops, LoopStep(m)
        PROVE  WakeUpInvAt(l)'
    <3> USE DEF Goto, AtPhase
    <3>0. m \in Threads
      BY DEF Threads
    <3>1. CASE ReadPipe(m)
      <4>1. /\ phase'[m] = "swap"
            /\ \A k \in Loops : k # m => pipe'[k] = pipe[k] /\ phase'[k] = phase[k]
            /\ UNCHANGED <<pending, notified, call>>
        BY <3>1 DEF ReadPipe, TypeOK
      <4>2. CASE l = m
        BY <4>1, <4>2 DEF WakeUpInvAt, WakeUpUnderWay
      <4>3. CASE l # m
        BY <2>0, <4>1, <4>3 DEF WakeUpInvAt, WakeUpUnderWay
      <4> QED
        BY <4>2, <4>3
    <3>2. CASE SwapPending(m)
      <4>1. /\ pending'[m] = <<>> /\ notified'[m] = FALSE
            /\ \A k \in Loops : k # m => /\ pending'[k] = pending[k]
                                         /\ notified'[k] = notified[k]
                                         /\ phase'[k] = phase[k]
            /\ UNCHANGED <<pipe, call>>
        BY <3>2 DEF SwapPending, TypeOK
      <4>2. CASE l = m
        BY <4>1, <4>2 DEF WakeUpInvAt
      <4>3. CASE l # m
        BY <2>0, <4>1, <4>3 DEF WakeUpInvAt, WakeUpUnderWay
      <4> QED
        BY <4>2, <4>3
    <3>3. CASE Redirect(m)
      <4>1. /\ owner \in Loops /\ Push(m, owner, Head(batch[m])) /\ call[m].pc = "idle"
            /\ UNCHANGED <<notified, pipe, phase>>
        BY <3>3 DEF Redirect
      <4> QED
        BY <2>0, <3>0, <4>1, PushWakes
    <3>4. CASE Requeue(m)
      <4>1. /\ Push(m, m, Head(retry[m])) /\ call[m].pc = "idle"
            /\ UNCHANGED <<notified, pipe, phase>>
        BY <3>4 DEF Requeue
      <4> QED
        BY <2>0, <3>0, <4>1, PushWakes
    <3>5. CASE \/ Run(m) \/ BeginEvent(m) \/ EndEvent(m) \/ LeaveDispatch(m)
               \/ MoveOwner(m) \/ StartTask(m) \/ EndTask(m) \/ RunStopFn(m)
               \/ KeepForRecheck(m) \/ EndDrain(m) \/ TestStopped(m) \/ EndPass(m)
      <4>1. /\ UNCHANGED <<pending, notified, pipe, call>>
            /\ phase[l] = "swap" => phase'[l] = "swap"
        BY <3>5 DEF TypeOK, Run, BeginEvent, EndEvent, LeaveDispatch, MoveOwner,
                    StartTask, EndTask, RunStopFn, KeepForRecheck, EndDrain,
                    TestStopped, EndPass
      <4> QED
        BY <2>0, <4>1 DEF WakeUpInvAt, WakeUpUnderWay
    <3> QED
      BY <2>4, <3>1, <3>2, <3>3, <3>4, <3>5 DEF LoopStep, DrainStep
  <2>5. CASE UNCHANGED vars
    BY <2>0, <2>5 DEF vars, WakeUpInvAt, WakeUpUnderWay
  <2> QED
    BY <2>1, <2>2, <2>3, <2>4, <2>5 DEF Next, CallerStep
<1>3. WInv => NoLostWakeUp
  BY DEF NoLostWakeUp, WakeUpInvAt
<1> QED
  BY <1>1, <1>2, <1>3, TypeCorrect, PTL DEF Spec

-----------------------------------------------------------------------------
\* What the loop's thread holds outside the queue, by its place in
\* doPendingFunctors(): do_pending_ is set as long as it has a batch or is in a
\* functor, and functors kept for recheck are gone when it polls again.
HeldAt(l) ==
    /\ phase[l] \in {"drain", "task"} => doPending[l]
    /\ batch[l] # <<>> => phase[l] \in {"drain", "task"}
    /\ retry[l] # <<>> => phase[l] \in {"drain", "task", "gate", "requeue"}

HeldInv == \A l \in Loops : HeldAt(l)

\* What a loop's thread holds follows from its place in doPendingFunctors().
LEMMA HeldByPlace == Spec => []HeldInv
<1>1. Init => HeldInv
  BY DEF Init, HeldInv, HeldAt
<1>2. TypeOK /\ HeldInv /\ [Next]_vars => HeldInv'
  <2> SUFFICES ASSUME TypeOK, HeldInv, [Next]_vars, NEW l \in Loops
               PROVE  HeldAt(l)'
    BY DEF HeldInv
  <2>0. HeldAt(l)
    BY DEF HeldInv
  <2>1. CASE \/ \E t \in Threads : CallerStep(t) \/ CallStep(t)
             \/ UNCHANGED vars
    <3>1. UNCHANGED <<phase, doPending, batch, retry>>
      BY <2>1 DEF CallerStep, CallStep, QueueInLoop, StopTest, CheckNotified, SetNotified,
                  WritePipe, StopSet, StopPush, threadVars, vars
    <3> QED
      BY <2>0, <3>1 DEF HeldAt
  <2>2. ASSUME NEW m \in Loops, LoopStep(m)
        PROVE  HeldAt(l)'
    <3>1. CASE m # l
      <4>1. /\ phase'[l] = phase[l] /\ doPending'[l] = doPending[l]
            /\ batch'[l] = batch[l] /\ retry'[l] = retry[l]
        BY <2>2, <3>1 DEF TypeOK, LoopStep, DrainStep, Run, BeginEvent, EndEvent, ReadPipe,
           LeaveDispatch, MoveOwner, SwapPending, StartTask, EndTask, RunStopFn, KeepForRecheck,
           Redirect, EndDrain, TestStopped, Requeue, EndPass, Goto, threadVars
      <4> QED
        BY <2>0, <4>1 DEF HeldAt
    <3>2. CASE m = l /\ (Run(m) \/ BeginEvent(m) \/ EndEvent(m) \/ ReadPipe(m) \/ LeaveDispatch(m) \/ MoveOwner(m))
      BY <2>0, <3>2 DEF TypeOK, HeldAt, AtPhase, Goto, Run, BeginEvent, EndEvent, ReadPipe,
                        LeaveDispatch, MoveOwner, threadVars
    <3>3. CASE m = l /\ (SwapPending(m) \/ StartTask(m) \/ EndTask(m) \/ RunStopFn(m) \/ KeepForRecheck(m) \/ Redirect(m))
      BY <2>0, <3>3 DEF TypeOK, HeldAt, AtPhase, Goto, SwapPending, StartTask, EndTask, RunStopFn,
                        KeepForRecheck, Redirect
    <3>4. CASE m = l /\ (EndDrain(m) \/ TestStopped(m) \/ Requeue(m) \/ EndPass(m))
      BY <2>0, <3>4 DEF TypeOK, HeldAt, AtPhase, Goto, EndDrain, TestStopped, Requeue, EndPass
    <3> QED
      BY <2>2, <3>1, <3>2, <3>3, <3>4 DEF LoopStep, DrainStep
  <2> QED
    BY <2>1, <2>2 DEF Next
<1> QED
  BY <1>1, <1>2, TypeCorrect, PTL DEF Spec

\* A loop whose hasPendingTask() is false is in no functor and holds none, but
\* for the ones about to be requeued (EventLoop.cpp:180), whatever the other
\* threads do meanwhile.
THEOREM NoTaskIsHidden == Spec => []NoPendingTaskMeansNone
<1>1. HeldInv => NoPendingTaskMeansNone
  BY DEF HeldInv, HeldAt, NoPendingTaskMeansNone, HasPendingTask
<1> QED
  BY <1>1, HeldByPlace, PTL

-----------------------------------------------------------------------------
\* stop() has marked the loop, which has started to run (ToldToStop).
Told(l) == stopped[l] /\ phase[l] # "new"

\* Where the traces of stop() are found, the loop has been told: in a thread inside
\* stop(), as stopInLoop() in the queue or the batch, as the request to leave dispatch,
\* in the last pass.
ToldAt(l) ==
    /\ phase[l] = "new" => stopped[l]
    /\ \A t \in Threads : call[t].loop = l /\ call[t].pc = "stopSet" => phase[l] # "new"
    /\ \A t \in Threads : call[t].loop = l /\ call[t].pc = "stopPush" => Told(l)
    /\ ~Told(l) => /\ \A i \in DOMAIN pending[l] : pending[l][i] # StopFn
                   /\ \A i \in DOMAIN batch[l] : batch[l][i] # StopFn
                   /\ ~exitReq[l] /\ ~lastPass[l]
    /\ phase[l] = "exited" => lastPass[l]

\* After the swap of the last pass, what the program queues comes late.
LateAt(l) ==
    lastPass[l] /\ phase[l] # "swap" =>
        \A i \in DOMAIN pending[l] : pending[l][i] \in (Tasks \ Bound) => pending[l][i] \in late

\* What a push adds.
LEMMA AppendedAt ==
    ASSUME NEW S, NEW s \in Seq(S), NEW e \in S
    PROVE  \A i \in DOMAIN Append(s, e) : Append(s, e)[i] = e \/ (i \in DOMAIN s /\ Append(s, e)[i] = s[i])
OBVIOUS

\* The element at a position of the rest of a queue.
LEMMA TailAt ==
    ASSUME NEW S, NEW s \in Seq(S), s # <<>>
    PROVE  /\ \A i \in DOMAIN Tail(s) : i + 1 \in DOMAIN s /\ Tail(s)[i] = s[i + 1]
           /\ 1 \in DOMAIN s /\ Head(s) = s[1]
OBVIOUS

\* A push of a functor f that is no stopInLoop() leaves ToldAt alone; so does one of
\* stopInLoop() to a loop that has been told.
LEMMA ToldPush ==
    ASSUME TypeOK, NEW t \in Threads, NEW m \in Loops, NEW f \in Functors, Push(t, m, f),
           f = StopFn => Told(m), UNCHANGED <<stopped, phase, exitReq, lastPass>>,
           NEW l \in Loops, ToldAt(l),
           \A i \in DOMAIN batch'[l] : \E j \in DOMAIN batch[l] : batch'[l][i] = batch[l][j]
    PROVE  ToldAt(l)'
<1>1. /\ call'[t].pc = "check"
      /\ \A u \in Threads : u # t => call'[u] = call[u]
  BY DEF Push, TypeOK
<1>2. pending[l] \in Seq(Functors)
  BY DEF TypeOK
<1>3. l = m => pending'[l] = Append(pending[l], f)
  BY DEF Push, TypeOK
<1>4. l # m => pending'[l] = pending[l]
  BY DEF Push, TypeOK
<1>5. ~Told(l) => \A i \in DOMAIN pending'[l] : pending'[l][i] # StopFn
  <2>1. CASE l = m
    BY <1>2, <1>3, <2>1, AppendedAt DEF ToldAt
  <2>2. CASE l # m
    BY <1>4, <2>2 DEF ToldAt
  <2> QED BY <2>1, <2>2
<1>6. Told(l)' <=> Told(l)
  BY DEF Told
<1>7. ~Told(l) => \A i \in DOMAIN batch'[l] : batch'[l][i] # StopFn
  BY DEF ToldAt
<1> QED BY <1>1, <1>5, <1>6, <1>7 DEF ToldAt

\* Every step leaves the traces of stop() only where the loop has been told.
LEMMA ToldStep ==
    ASSUME TypeOK, [Next]_vars, \A l \in Loops : ToldAt(l), NEW l \in Loops
    PROVE  ToldAt(l)'
<1>0. ToldAt(l)
  OBVIOUS
<1> USE DEF queueVars, threadVars, histVars
<1>1. ASSUME NEW t \in Threads, NEW m \in Loops, NEW f \in Tasks, QueueInLoop(t, m, f)
      PROVE  ToldAt(l)'
  <2>1. f \in Functors /\ f # StopFn
    BY StopFnAssumption DEF Functors
  <2> QED BY <1>0, <1>1, <2>1, ToldPush DEF QueueInLoop
<1>2. ASSUME NEW t \in Threads, NEW m \in Loops, StopTest(t, m) PROVE ToldAt(l)'
  <2>1. /\ call'[t] = [pc |-> "stopSet", loop |-> m] /\ \A u \in Threads : u # t => call'[u] = call[u]
        /\ ~stopped[m] /\ UNCHANGED <<pending, batch, stopped, phase, exitReq, lastPass>>
    BY <1>2 DEF StopTest, TypeOK
  <2>2. phase[m] # "new"
    BY <2>1 DEF ToldAt
  <2> QED BY <1>0, <2>1, <2>2 DEF ToldAt, Told
<1>3. ASSUME NEW t \in Threads, CheckNotified(t) \/ SetNotified(t) \/ WritePipe(t) PROVE ToldAt(l)'
  <2>1. /\ call'[t].pc \in {"idle", "set", "write"} /\ \A u \in Threads : u # t => call'[u] = call[u]
        /\ UNCHANGED <<pending, batch, stopped, phase, exitReq, lastPass>>
    BY <1>3 DEF CheckNotified, SetNotified, WritePipe, TypeOK, Idle
  <2> QED BY <1>0, <2>1 DEF ToldAt, Told
<1>4. ASSUME NEW t \in Threads, StopSet(t) PROVE ToldAt(l)'
  <2> DEFINE m == call[t].loop
  <2>1. /\ m \in Loops /\ \A u \in Threads : u # t => call'[u] = call[u]
        /\ stopped'[m] = TRUE /\ \A k \in Loops \ {m} : stopped'[k] = stopped[k] /\ exitReq'[k] = exitReq[k]
        /\ call'[t].pc = "idle" \/ (call'[t].pc = "stopPush" /\ call'[t].loop = m)
        /\ UNCHANGED <<pending, batch, phase, lastPass>>
    BY <1>4 DEF StopSet, TypeOK, Idle
  <2>2. phase[m] # "new"
    BY <1>4, <2>1 DEF ToldAt, StopSet
  <2> HIDE DEF m
  <2>3. CASE l = m
    BY <1>0, <2>1, <2>2, <2>3 DEF ToldAt, Told
  <2>4. CASE l # m
    BY <1>0, <2>1, <2>4 DEF ToldAt, Told
  <2> QED BY <2>3, <2>4
<1>5. ASSUME NEW t \in Threads, StopPush(t) PROVE ToldAt(l)'
  <2>1. call[t].loop \in Loops /\ Told(call[t].loop)
    BY <1>5 DEF StopPush, ToldAt, TypeOK
  <2>2. StopFn \in Functors
    BY DEF Functors
  <2> QED BY <1>0, <1>5, <2>1, <2>2, ToldPush DEF StopPush
<1>6. ASSUME NEW m \in Loops, LoopStep(m) PROVE ToldAt(l)'
  <2> USE DEF Goto, AtPhase
  <2>0. m \in Threads /\ batch[m] \in Seq(Functors) /\ retry[m] \in Seq(Bound)
    BY DEF Threads, TypeOK
  <2>1. CASE Run(m)
    <3>1. /\ phase[m] = "new" /\ phase'[m] = "poll" /\ stopped'[m] = FALSE
          /\ \A k \in Loops \ {m} : phase'[k] = phase[k] /\ stopped'[k] = stopped[k]
          /\ UNCHANGED <<pending, batch, exitReq, lastPass, call>>
      BY <2>1 DEF Run, TypeOK
    <3>2. CASE l = m
      BY <1>0, <3>1, <3>2 DEF ToldAt, Told
    <3>3. CASE l # m
      BY <1>0, <3>1, <3>3 DEF ToldAt, Told
    <3> QED BY <3>2, <3>3
  <2>2. CASE LeaveDispatch(m)
    <3>1. /\ phase[m] = "poll" /\ exitReq[m] /\ phase'[m] = "swap" /\ lastPass'[m] = TRUE
          /\ \A k \in Loops \ {m} : phase'[k] = phase[k] /\ lastPass'[k] = lastPass[k]
          /\ UNCHANGED <<pending, batch, exitReq, stopped, call>>
      BY <2>2 DEF LeaveDispatch, TypeOK
    <3>2. CASE l = m
      BY <1>0, <3>1, <3>2 DEF ToldAt, Told
    <3>3. CASE l # m
      BY <1>0, <3>1, <3>3 DEF ToldAt, Told
    <3> QED BY <3>2, <3>3
  <2>3. CASE SwapPending(m)
    <3>1. /\ phase[m] = "swap" /\ phase'[m] = "drain" /\ batch'[m] = pending[m] /\ pending'[m] = <<>>
          /\ \A k \in Loops \ {m} : phase'[k] = phase[k] /\ batch'[k] = batch[k] /\ pending'[k] = pending[k]
          /\ UNCHANGED <<exitReq, stopped, call, lastPass>>
      BY <2>3 DEF SwapPending, TypeOK
    <3>2. CASE l = m
      BY <1>0, <3>1, <3>2 DEF ToldAt, Told
    <3>3. CASE l # m
      BY <1>0, <3>1, <3>3 DEF ToldAt, Told
    <3> QED BY <3>2, <3>3
  <2>4. ASSUME batch[m] # <<>>, batch' = [batch EXCEPT ![m] = Tail(@)]
        PROVE  \A i \in DOMAIN batch'[l] : \E j \in DOMAIN batch[l] : batch'[l][i] = batch[l][j]
    <3>1. CASE l = m
      <4>1. batch'[l] = Tail(batch[l])
        BY <2>4, <3>1 DEF TypeOK
      <4> QED BY <2>0, <2>4, <3>1, <4>1, TailAt
    <3>2. CASE l # m
      BY <2>4, <3>2 DEF TypeOK
    <3> QED BY <3>1, <3>2
  <2>5. CASE RunStopFn(m)
    <3>1. /\ batch[m] # <<>> /\ Head(batch[m]) = StopFn /\ exitReq'[m] = TRUE
          /\ \A k \in Loops \ {m} : exitReq'[k] = exitReq[k]
          /\ UNCHANGED <<pending, phase, stopped, call, lastPass>>
      BY <2>5 DEF RunStopFn, TypeOK
    <3>2. Told(m)
      BY <2>0, <3>1, TailAt DEF ToldAt
    <3>3. \A i \in DOMAIN batch'[l] : \E j \in DOMAIN batch[l] : batch'[l][i] = batch[l][j]
      BY <2>4, <2>5 DEF RunStopFn
    <3>4. CASE l = m
      BY <1>0, <3>1, <3>2, <3>4 DEF ToldAt, Told
    <3>5. CASE l # m
      BY <1>0, <3>1, <3>3, <3>5 DEF ToldAt, Told
    <3> QED BY <3>4, <3>5
  <2>6. CASE StartTask(m) \/ KeepForRecheck(m)
    <3>1. /\ UNCHANGED <<pending, stopped, call, lastPass, exitReq>>
          /\ phase'[l] = phase[l] \/ (phase[l] = "drain" /\ phase'[l] = "task")
      BY <2>6 DEF StartTask, KeepForRecheck, TypeOK
    <3>2. \A i \in DOMAIN batch'[l] : \E j \in DOMAIN batch[l] : batch'[l][i] = batch[l][j]
      BY <2>4, <2>6 DEF StartTask, KeepForRecheck
    <3> QED BY <1>0, <3>1, <3>2 DEF ToldAt, Told
  <2>7. CASE Redirect(m)
    <3>1. /\ owner \in Loops /\ Push(m, owner, Head(batch[m])) /\ Head(batch[m]) \in Bound
          /\ UNCHANGED <<stopped, phase, exitReq, lastPass>>
      BY <2>7 DEF Redirect
    <3>2. Head(batch[m]) \in Functors /\ Head(batch[m]) # StopFn
      BY <3>1, BoundAssumption, StopFnAssumption DEF Functors
    <3>3. \A i \in DOMAIN batch'[l] : \E j \in DOMAIN batch[l] : batch'[l][i] = batch[l][j]
      BY <2>4, <2>7 DEF Redirect
    <3> QED BY <1>0, <2>0, <3>1, <3>2, <3>3, ToldPush
  <2>8. CASE Requeue(m)
    <3>1. Push(m, m, Head(retry[m])) /\ retry[m] # <<>> /\ UNCHANGED <<stopped, phase, batch, exitReq, lastPass>>
      BY <2>8 DEF Requeue
    <3>2. Head(retry[m]) \in Functors /\ Head(retry[m]) # StopFn
      BY <2>0, <3>1, TailType, BoundAssumption, StopFnAssumption DEF Functors
    <3> QED BY <1>0, <2>0, <3>1, <3>2, ToldPush
  <2>9. CASE \/ BeginEvent(m) \/ EndEvent(m) \/ ReadPipe(m) \/ MoveOwner(m) \/ EndTask(m)
             \/ EndDrain(m) \/ TestStopped(m) \/ EndPass(m)
    <3>1. /\ UNCHANGED <<pending, batch, stopped, call, lastPass, exitReq>>
          /\ \/ phase'[l] = phase[l]
             \/ phase[l] # "new" /\ phase'[l] # "new" /\ (phase'[l] = "exited" => lastPass[l])
      BY <2>9 DEF BeginEvent, EndEvent, ReadPipe, MoveOwner, EndTask, EndDrain, TestStopped,
         EndPass, TypeOK
    <3> QED BY <1>0, <3>1 DEF ToldAt, Told
  <2> QED BY <1>6, <2>1, <2>2, <2>3, <2>5, <2>6, <2>7, <2>8, <2>9 DEF LoopStep, DrainStep
<1>7. CASE UNCHANGED vars
  BY <1>0, <1>7 DEF vars, ToldAt, Told
<1> QED BY <1>1, <1>2, <1>3, <1>4, <1>5, <1>6, <1>7 DEF Next, CallerStep, CallStep

\* What reaches a loop after its last swap: a functor with expected_cb, stopInLoop(), or a
\* functor of the program, which is counted as late.
LEMMA LatePush ==
    ASSUME TypeOK, NEW t \in Threads, NEW m \in Loops, NEW f \in Functors, Push(t, m, f),
           UNCHANGED <<phase, lastPass>>, late \subseteq late',
           NEW l \in Loops, LateAt(l),
           l = m /\ lastPass[l] /\ f \in Tasks \ Bound => f \in late'
    PROVE  LateAt(l)'
<1>1. pending[l] \in Seq(Functors)
  BY DEF TypeOK
<1>2. CASE l = m
  <2>1. pending'[l] = Append(pending[l], f)
    BY <1>2 DEF Push, TypeOK
  <2> QED BY <1>1, <1>2, <2>1, AppendedAt DEF LateAt
<1>3. CASE l # m
  <2>1. pending'[l] = pending[l]
    BY <1>3 DEF Push, TypeOK
  <2> QED BY <2>1 DEF LateAt
<1> QED BY <1>2, <1>3

\* After the last swap the queue gains only what comes late.
LEMMA LateStep ==
    ASSUME TypeOK, [Next]_vars, NEW l \in Loops, ToldAt(l), LateAt(l)
    PROVE  LateAt(l)'
<1> USE DEF queueVars, threadVars, histVars
<1>1. ASSUME NEW t \in Threads, NEW m \in Loops, NEW f \in Tasks, QueueInLoop(t, m, f)
      PROVE  LateAt(l)'
  <2>1. f \in Functors /\ Push(t, m, f) /\ UNCHANGED <<phase, lastPass>>
    BY <1>1 DEF QueueInLoop, Functors
  <2>2. late' = IF stopped[m] /\ phase[m] # "new" THEN late \cup {f} ELSE late
    BY <1>1 DEF QueueInLoop
  <2>3. l = m /\ lastPass[l] => f \in late'
    BY <2>2 DEF ToldAt, Told
  <2>4. late \subseteq late'
    BY <2>2
  <2> QED BY <2>1, <2>3, <2>4, LatePush
<1>2. ASSUME NEW t \in Threads, StopPush(t) PROVE LateAt(l)'
  <2>1. /\ call[t].loop \in Loops /\ Push(t, call[t].loop, StopFn) /\ StopFn \in Functors
        /\ StopFn \notin Tasks /\ UNCHANGED <<phase, lastPass, late>>
    BY <1>2, StopFnAssumption DEF StopPush, TypeOK, Functors
  <2> QED BY <2>1, LatePush
<1>3. CASE \/ UNCHANGED vars
           \/ \E t \in Threads : CheckNotified(t) \/ SetNotified(t) \/ WritePipe(t) \/ StopSet(t)
           \/ \E t \in Threads, m \in Loops : StopTest(t, m)
  <2>1. UNCHANGED <<pending, phase, lastPass, late>>
    BY <1>3 DEF vars, CheckNotified, SetNotified, WritePipe, StopSet, StopTest
  <2> QED BY <2>1 DEF LateAt
<1>4. ASSUME NEW m \in Loops, LoopStep(m) PROVE LateAt(l)'
  <2> USE DEF Goto, AtPhase
  <2>0. m \in Threads /\ batch[m] \in Seq(Functors) /\ retry[m] \in Seq(Bound)
    BY DEF Threads, TypeOK
  <2>1. CASE LeaveDispatch(m)
    <3>1. /\ phase'[m] = "swap" /\ \A k \in Loops \ {m} : phase'[k] = phase[k] /\ lastPass'[k] = lastPass[k]
          /\ UNCHANGED <<pending, late>>
      BY <2>1 DEF LeaveDispatch, TypeOK
    <3>2. CASE l = m
      BY <3>1, <3>2 DEF LateAt
    <3>3. CASE l # m
      BY <3>1, <3>3 DEF LateAt
    <3> QED BY <3>2, <3>3
  <2>2. CASE SwapPending(m)
    <3>1. /\ pending'[m] = <<>> /\ \A k \in Loops \ {m} : pending'[k] = pending[k] /\ phase'[k] = phase[k]
          /\ UNCHANGED <<lastPass, late>>
      BY <2>2 DEF SwapPending, TypeOK
    <3>2. CASE l = m
      BY <3>1, <3>2 DEF LateAt
    <3>3. CASE l # m
      BY <3>1, <3>3 DEF LateAt
    <3> QED BY <3>2, <3>3
  <2>3. CASE Redirect(m)
    <3>1. /\ owner \in Loops /\ Push(m, owner, Head(batch[m])) /\ Head(batch[m]) \in Bound
          /\ Head(batch[m]) \in Functors /\ UNCHANGED <<phase, lastPass, late>>
      BY <2>3, BoundAssumption DEF Redirect, Functors
    <3> QED BY <2>0, <3>1, LatePush
  <2>4. CASE Requeue(m)
    <3>1. Push(m, m, Head(retry[m])) /\ retry[m] # <<>> /\ UNCHANGED <<phase, lastPass, late>>
      BY <2>4 DEF Requeue
    <3>2. Head(retry[m]) \in Bound /\ Head(retry[m]) \in Functors
      BY <2>0, <3>1, TailType, BoundAssumption DEF Functors
    <3> QED BY <2>0, <3>1, <3>2, LatePush
  <2>5. CASE \/ Run(m) \/ BeginEvent(m) \/ EndEvent(m) \/ ReadPipe(m) \/ MoveOwner(m)
             \/ StartTask(m) \/ EndTask(m) \/ RunStopFn(m) \/ KeepForRecheck(m)
             \/ EndDrain(m) \/ TestStopped(m) \/ EndPass(m)
    <3>1. /\ UNCHANGED <<pending, lastPass, late>>
          /\ phase[l] = "swap" => phase'[l] = "swap"
      BY <2>5 DEF Run, BeginEvent, EndEvent, ReadPipe, MoveOwner, StartTask, EndTask, RunStopFn,
         KeepForRecheck, EndDrain, TestStopped, EndPass, TypeOK
    <3> QED BY <3>1 DEF LateAt
  <2> QED BY <1>4, <2>1, <2>2, <2>3, <2>4, <2>5 DEF LoopStep, DrainStep
<1> QED BY <1>1, <1>2, <1>3, <1>4 DEF Next, CallerStep, CallStep

\* stop() loses nothing that was handed over before it: what is left in the queue of a loop
\* whose run() has returned was queued after the loop had been marked stopped, whoever
\* calls stop(), from whatever thread, and however often (EventLoop::run, stop,
\* doPendingFunctors).
THEOREM EarlierTasksAreKept == Spec => []StopKeepsEarlierTasks
<1> DEFINE SInv == \A l \in Loops : ToldAt(l) /\ LateAt(l)
<1>1. Init => SInv
  <2> SUFFICES ASSUME Init, NEW l \in Loops PROVE ToldAt(l) /\ LateAt(l)
    OBVIOUS
  <2>1. /\ stopped[l] /\ phase[l] = "new" /\ ~exitReq[l] /\ ~lastPass[l]
        /\ pending[l] = <<>> /\ batch[l] = <<>>
        /\ \A t \in Threads : call[t].pc = "idle"
    BY DEF Init, Idle
  <2> QED BY <2>1 DEF ToldAt, LateAt, Told
<1>2. TypeOK /\ SInv /\ [Next]_vars => SInv'
  BY ToldStep, LateStep
<1>3. SInv => StopKeepsEarlierTasks
  BY DEF ToldAt, LateAt, StopKeepsEarlierTasks
<1> QED BY <1>1, <1>2, <1>3, TypeCorrect, PTL DEF Spec

-----------------------------------------------------------------------------
\* The places of functors as one function, so that the lemmas on what a step moves can be
\* stated once: A says what is at each place of P.
Here == [p \in Places |-> At(p)]
Found(P, A, f) == \E p \in P : Holds(A[p], f)
Single(P, A, f) ==
    /\ \A p \in P : HoldsOnce(A[p], f)
    /\ \A p, q \in P : Holds(A[p], f) /\ Holds(A[q], f) => p = q

\* What is in a sequence after an element has joined it at the end.
LEMMA HoldsAppend ==
    ASSUME NEW S, NEW s \in Seq(S), NEW g \in S, NEW f
    PROVE  /\ Holds(Append(s, g), f) <=> Holds(s, f) \/ f = g
           /\ HoldsOnce(s, f) /\ (f = g => ~Holds(s, f)) => HoldsOnce(Append(s, g), f)
<1> DEFINE v == Append(s, g)
           n == Len(s)
<1>1. /\ n \in Nat /\ DOMAIN s = 1..n /\ DOMAIN v = 1..(n + 1)
      /\ v[n + 1] = g /\ \A i \in 1..n : v[i] = s[i]
  OBVIOUS
<1> HIDE DEF v, n
<1>2. \A i \in 1..(n + 1) : i \in 1..n \/ i = n + 1
  BY <1>1
<1>3. n + 1 \in 1..(n + 1) /\ \A i \in 1..n : i \in 1..(n + 1)
  BY <1>1
<1>4. Holds(v, f) <=> Holds(s, f) \/ f = g
  BY <1>1, <1>2, <1>3 DEF Holds
<1>5. HoldsOnce(s, f) /\ (f = g => ~Holds(s, f)) => HoldsOnce(v, f)
  BY <1>1, <1>2 DEF Holds, HoldsOnce
<1> QED BY <1>4, <1>5 DEF v

\* What is left of a sequence whose first element has been taken.
LEMMA HoldsTail ==
    ASSUME NEW S, NEW s \in Seq(S), s # <<>>, NEW f
    PROVE  /\ Holds(s, f) <=> Holds(Tail(s), f) \/ Head(s) = f
           /\ HoldsOnce(s, f) => HoldsOnce(Tail(s), f) /\ (Head(s) = f => ~Holds(Tail(s), f))
<1> DEFINE v == Tail(s)
           n == Len(s)
<1>1. /\ n \in Nat \ {0} /\ DOMAIN s = 1..n /\ DOMAIN v = 1..(n - 1)
      /\ Head(s) = s[1] /\ \A i \in 1..(n - 1) : v[i] = s[i + 1]
  OBVIOUS
<1> HIDE DEF v, n
<1>2. \A i \in 1..n : i = 1 \/ (i - 1 \in 1..(n - 1) /\ (i - 1) + 1 = i)
  BY <1>1
<1>3. 1 \in 1..n /\ \A i \in 1..(n - 1) : i + 1 \in 1..n /\ i + 1 # 1
  BY <1>1
<1>4. \A i, j \in 1..(n - 1) : i + 1 = j + 1 => i = j
  BY <1>1
<1>5. \A i \in 1..n : i = 1 \/ v[i - 1] = s[i]
  BY <1>1, <1>2
<1>6. Holds(s, f) => Holds(v, f) \/ s[1] = f
  BY <1>1, <1>2, <1>5 DEF Holds
<1>7. Holds(v, f) \/ s[1] = f => Holds(s, f)
  BY <1>1, <1>3 DEF Holds
<1>8. HoldsOnce(s, f) => HoldsOnce(v, f)
  BY <1>1, <1>3, <1>4 DEF HoldsOnce
<1>9. HoldsOnce(s, f) /\ s[1] = f => ~Holds(v, f)
  BY <1>1, <1>3 DEF HoldsOnce, Holds
<1> QED BY <1>1, <1>6, <1>7, <1>8, <1>9 DEF v

\* The first functor of one place goes to the end of another.
LEMMA Moved ==
    ASSUME NEW S, NEW P, NEW A \in [P -> Seq(S)], NEW B, NEW a \in P, NEW b \in P, a # b,
           A[a] # <<>>, B[a] = Tail(A[a]), B[b] = Append(A[b], Head(A[a])),
           \A p \in P \ {a, b} : B[p] = A[p], NEW f, Single(P, A, f)
    PROVE  Single(P, B, f) /\ (Found(P, B, f) <=> Found(P, A, f))
<1> DEFINE g == Head(A[a])
<1>1. A[a] \in Seq(S) /\ A[b] \in Seq(S) /\ g \in S
  OBVIOUS
<1>2. /\ Holds(A[a], f) <=> Holds(B[a], f) \/ g = f
      /\ HoldsOnce(A[a], f) => HoldsOnce(B[a], f) /\ (g = f => ~Holds(B[a], f))
  BY <1>1, HoldsTail
<1>3. /\ Holds(B[b], f) <=> Holds(A[b], f) \/ f = g
      /\ HoldsOnce(A[b], f) /\ (f = g => ~Holds(A[b], f)) => HoldsOnce(B[b], f)
  BY <1>1, HoldsAppend
<1> HIDE DEF g
<1>4. f = g => ~Holds(A[b], f)
  BY <1>2 DEF Single
<1>5. \A p \in P : HoldsOnce(B[p], f)
  BY <1>2, <1>3, <1>4 DEF Single
<1>6. \A p, q \in P : Holds(B[p], f) /\ Holds(B[q], f) => p = q
  BY <1>2, <1>3, <1>4 DEF Single
<1>7. Found(P, B, f) => Found(P, A, f)
  BY <1>2, <1>3 DEF Found
<1>8. Found(P, A, f) => Found(P, B, f)
  BY <1>2, <1>3 DEF Found
<1> QED BY <1>5, <1>6, <1>7, <1>8 DEF Single

\* Another functor leaves a place for good.
LEMMA Left ==
    ASSUME NEW S, NEW P, NEW A \in [P -> Seq(S)], NEW B, NEW a \in P, A[a] # <<>>,
           B[a] = Tail(A[a]), \A p \in P \ {a} : B[p] = A[p], NEW f, Head(A[a]) # f, Single(P, A, f)
    PROVE  Single(P, B, f) /\ (Found(P, B, f) <=> Found(P, A, f))
<1>1. A[a] \in Seq(S)
  OBVIOUS
<1>2. /\ Holds(A[a], f) <=> Holds(B[a], f)
      /\ HoldsOnce(A[a], f) => HoldsOnce(B[a], f)
  BY <1>1, HoldsTail
<1>3. \A p \in P : Holds(B[p], f) <=> Holds(A[p], f)
  BY <1>2
<1>4. \A p \in P : HoldsOnce(A[p], f) => HoldsOnce(B[p], f)
  BY <1>2
<1> QED BY <1>3, <1>4 DEF Single, Found

\* A functor that is nowhere yet joins a place, or another one does.
LEMMA Joined ==
    ASSUME NEW S, NEW P, NEW A \in [P -> Seq(S)], NEW B, NEW b \in P, NEW g \in S,
           B[b] = Append(A[b], g), \A p \in P \ {b} : B[p] = A[p], NEW f, Single(P, A, f),
           f = g => ~Found(P, A, f)
    PROVE  Single(P, B, f) /\ (Found(P, B, f) <=> Found(P, A, f) \/ f = g)
<1>1. A[b] \in Seq(S)
  OBVIOUS
<1>2. /\ Holds(B[b], f) <=> Holds(A[b], f) \/ f = g
      /\ HoldsOnce(A[b], f) /\ (f = g => ~Holds(A[b], f)) => HoldsOnce(B[b], f)
  BY <1>1, HoldsAppend
<1>3. \A p \in P : Holds(B[p], f) <=> Holds(A[p], f) \/ (p = b /\ f = g)
  BY <1>2
<1>4. \A p \in P : HoldsOnce(B[p], f)
  BY <1>2 DEF Single, Found
<1>5. f = g => \A p \in P : ~Holds(A[p], f)
  BY DEF Found
<1>6. \A p, q \in P : Holds(B[p], f) /\ Holds(B[q], f) => p = q
  BY <1>3, <1>5 DEF Single
<1>7. Found(P, B, f) <=> Found(P, A, f) \/ f = g
  BY <1>3 DEF Found
<1> QED BY <1>4, <1>6, <1>7 DEF Single

\* All that is at one place goes to another, which was empty.
LEMMA Swapped ==
    ASSUME NEW P, NEW A, NEW B, NEW a \in P, NEW b \in P, a # b, A[b] = <<>>,
           B[b] = A[a], B[a] = <<>>, \A p \in P \ {a, b} : B[p] = A[p], NEW f, Single(P, A, f)
    PROVE  Single(P, B, f) /\ (Found(P, B, f) <=> Found(P, A, f))
<1>1. ~Holds(<<>>, f) /\ HoldsOnce(<<>>, f)
  BY DEF Holds, HoldsOnce
<1>2. /\ Holds(B[b], f) <=> Holds(A[a], f)
      /\ HoldsOnce(B[b], f) <=> HoldsOnce(A[a], f)
      /\ ~Holds(B[a], f) /\ ~Holds(A[b], f) /\ HoldsOnce(B[a], f)
      /\ \A p \in P \ {a, b} : /\ Holds(B[p], f) <=> Holds(A[p], f)
                               /\ HoldsOnce(B[p], f) <=> HoldsOnce(A[p], f)
  BY <1>1
<1>3. \A p \in P : HoldsOnce(B[p], f)
  BY <1>2 DEF Single
<1>4. \A p, q \in P : Holds(B[p], f) /\ Holds(B[q], f) => p = q
  BY <1>2 DEF Single
<1>5. Found(P, B, f) <=> Found(P, A, f)
  BY <1>2 DEF Found
<1> QED BY <1>3, <1>4, <1>5 DEF Single

\* The four places of a loop.
InQ(l) == <<"queue", l>>
InB(l) == <<"batch", l>>
InR(l) == <<"retry", l>>
InD(l) == <<"ran", l>>

\* They are all different.
LEMMA PlacesApart ==
    ASSUME NEW l, NEW k
    PROVE  /\ InQ(l) # InB(k) /\ InQ(l) # InR(k) /\ InQ(l) # InD(k)
           /\ InB(l) # InR(k) /\ InB(l) # InD(k) /\ InR(l) # InD(k)
           /\ (InQ(l) = InQ(k)) \/ (InB(l) = InB(k)) \/ (InR(l) = InR(k)) \/ (InD(l) = InD(k)) => l = k
  BY DEF InQ, InB, InR, InD

\* The places of a step, before and after it.
LEMMA PlacesOf ==
    /\ \A p \in Places : \E l \in Loops :
          p = InQ(l) \/ p = InB(l) \/ p = InR(l) \/ p = InD(l)
    /\ \A l \in Loops : /\ InQ(l) \in Places /\ InB(l) \in Places
                        /\ InR(l) \in Places /\ InD(l) \in Places
                        /\ Here[InQ(l)] = pending[l] /\ Here[InB(l)] = batch[l]
                        /\ Here[InR(l)] = retry[l] /\ Here[InD(l)] = ran[l]
    /\ TypeOK => Here \in [Places -> Seq(Functors)]
<1>1. \A p \in Places : \E l \in Loops :
          p = InQ(l) \/ p = InB(l) \/ p = InR(l) \/ p = InD(l)
  BY DEF Places, InQ, InB, InR, InD
<1>2. \A l \in Loops : /\ InQ(l) \in Places /\ InB(l) \in Places
                       /\ InR(l) \in Places /\ InD(l) \in Places
  BY DEF Places, InQ, InB, InR, InD
<1>3. \A l \in Loops : /\ Here[InQ(l)] = pending[l] /\ Here[InB(l)] = batch[l]
                       /\ Here[InR(l)] = retry[l] /\ Here[InD(l)] = ran[l]
  BY <1>2 DEF Here, At, InQ, InB, InR, InD
<1>4. ASSUME TypeOK, NEW l \in Loops
      PROVE  /\ pending[l] \in Seq(Functors) /\ batch[l] \in Seq(Functors)
             /\ retry[l] \in Seq(Functors) /\ ran[l] \in Seq(Functors)
  <2>1. Bound \subseteq Functors /\ Tasks \subseteq Functors
    BY BoundAssumption DEF Functors
  <2>2. /\ pending[l] \in Seq(Functors) /\ batch[l] \in Seq(Functors)
        /\ retry[l] \in Seq(Bound) /\ ran[l] \in Seq(Tasks)
    BY <1>4 DEF TypeOK
  <2> QED BY <2>1, <2>2
<1>5. ASSUME TypeOK PROVE Here \in [Places -> Seq(Functors)]
  <2>1. \A p \in Places : Here[p] \in Seq(Functors)
    BY <1>1, <1>3, <1>4, <1>5
  <2> QED BY <2>1 DEF Here
<1> QED BY <1>1, <1>2, <1>3, <1>5

\* What a step leaves of the places it does not touch.
Untouched(K) == \A p \in Places \ K : Here'[p] = Here[p]

\* A bound functor is held in one place, by nobody before it is handed over, and lost only
\* once a loop has been told to stop.
KeptAt(f) ==
    /\ Single(Places, Here, f)
    /\ f \notin submitted => ~Found(Places, Here, f)
    /\ f \in submitted => Found(Places, Here, f) \/ \E l \in Loops : Told(l)

\* A loop that was told to stop stays told.
LEMMA ToldStays ==
    ASSUME TypeOK, [Next]_vars, NEW l \in Loops, Told(l)
    PROVE  Told(l)'
<1> USE DEF threadVars
<1>1. CASE \/ \E t \in Threads : CallerStep(t) \/ CallStep(t)
           \/ UNCHANGED vars
  <2>1. CASE \E t \in Threads : StopSet(t)
    BY <2>1 DEF StopSet, Told, TypeOK
  <2>2. CASE ~\E t \in Threads : StopSet(t)
    <3>1. UNCHANGED <<stopped, phase>>
      BY <1>1, <2>2 DEF CallerStep, CallStep, QueueInLoop, StopTest, CheckNotified, SetNotified,
         WritePipe, StopPush, vars
    <3> QED BY <3>1 DEF Told
  <2> QED BY <2>1, <2>2
<1>2. ASSUME NEW m \in Loops, LoopStep(m) PROVE Told(l)'
  <2> USE DEF Goto, AtPhase
  <2>1. CASE Run(m)
    BY <2>1 DEF Run, Told, TypeOK
  <2>2. CASE ~Run(m)
    <3>1. stopped' = stopped /\ (phase'[l] = phase[l] \/ phase'[l] # "new")
      BY <1>2, <2>2 DEF TypeOK, LoopStep, DrainStep, BeginEvent, EndEvent, ReadPipe,
         LeaveDispatch, MoveOwner, SwapPending, StartTask, EndTask, RunStopFn, KeepForRecheck,
         Redirect, EndDrain, TestStopped, Requeue, EndPass
    <3> QED BY <3>1 DEF Told
  <2> QED BY <2>1, <2>2
<1> QED BY <1>1, <1>2 DEF Next

\* A push adds to the queue of one loop.
LEMMA PushPlaces ==
    ASSUME TypeOK, NEW t \in Threads, NEW m \in Loops, NEW f, Push(t, m, f)
    PROVE  /\ pending'[m] = Append(pending[m], f)
           /\ \A l \in Loops : l # m => pending'[l] = pending[l]
  BY DEF Push, TypeOK

\* Every step leaves a bound functor in one place.
LEMMA KeptStep ==
    ASSUME TypeOK, HeldInv, [Next]_vars, NEW f \in Bound, KeptAt(f)
    PROVE  KeptAt(f)'
<1> USE DEF queueVars, threadVars, histVars
<1>0. /\ Here \in [Places -> Seq(Functors)] /\ Single(Places, Here, f)
      /\ \A l \in Loops : Told(l) => Told(l)'
  BY PlacesOf, ToldStays DEF KeptAt
<1>1. /\ \A p \in Places : \E l \in Loops :
            p = InQ(l) \/ p = InB(l) \/ p = InR(l) \/ p = InD(l)
      /\ \A l \in Loops : /\ InQ(l) \in Places /\ InB(l) \in Places
                          /\ InR(l) \in Places /\ InD(l) \in Places
      /\ \A l \in Loops : /\ Here[InQ(l)] = pending[l] /\ Here[InB(l)] = batch[l]
                          /\ Here[InR(l)] = retry[l] /\ Here[InD(l)] = ran[l]
  BY PlacesOf
<1>2. \A l \in Loops : /\ Here'[InQ(l)] = pending'[l] /\ Here'[InB(l)] = batch'[l]
                       /\ Here'[InR(l)] = retry'[l] /\ Here'[InD(l)] = ran'[l]
  BY <1>1 DEF Here, At, InQ, InB, InR, InD
<1>3. ASSUME Single(Places, Here', f), Found(Places, Here', f) <=> Found(Places, Here, f),
             submitted' = submitted
      PROVE  KeptAt(f)'
  BY <1>0, <1>3 DEF KeptAt
<1>4. ASSUME NEW a \in Places, NEW b \in Places, a # b, Here[a] # <<>>, Here'[a] = Tail(Here[a]),
             Here'[b] = Append(Here[b], Head(Here[a])), Untouched({a, b}), submitted' = submitted
      PROVE  KeptAt(f)'
  BY <1>0, <1>3, <1>4, Moved DEF Untouched
<1>5. ASSUME UNCHANGED <<pending, batch, retry, ran, submitted>> PROVE KeptAt(f)'
  <2>1. Here' = Here
    BY <1>5 DEF Here, At
  <2> QED BY <1>0, <1>3, <1>5, <2>1
<1>6. ASSUME NEW t \in Threads, NEW m \in Loops, NEW g \in Tasks, QueueInLoop(t, m, g)
      PROVE  KeptAt(f)'
  <2>1. /\ Push(t, m, g) /\ submitted' = submitted \cup {g} /\ g \notin submitted
        /\ UNCHANGED <<batch, retry, ran>>
    BY <1>6 DEF QueueInLoop
  <2>2. /\ pending'[m] = Append(pending[m], g)
        /\ \A l \in Loops : l # m => pending'[l] = pending[l]
    BY <2>1, PushPlaces
  <2>3. /\ InQ(m) \in Places /\ Here'[InQ(m)] = Append(Here[InQ(m)], g)
        /\ Untouched({InQ(m)})
    BY <1>1, <1>2, <2>1, <2>2, PlacesApart DEF Untouched
  <2>4. g \in Functors /\ (f = g => ~Found(Places, Here, f))
    BY <2>1 DEF Functors, KeptAt
  <2>5. Single(Places, Here', f) /\ (Found(Places, Here', f) <=> Found(Places, Here, f) \/ f = g)
    BY <1>0, <2>3, <2>4, Joined DEF Untouched
  <2> QED BY <1>0, <2>1, <2>5 DEF KeptAt
<1>7. ASSUME NEW t \in Threads, StopPush(t) PROVE KeptAt(f)'
  <2>1. PICK m \in Loops : Push(t, m, StopFn) /\ UNCHANGED <<batch, retry, ran, submitted>>
    <3>1. /\ call[t].loop \in Loops /\ Push(t, call[t].loop, StopFn)
          /\ UNCHANGED <<batch, retry, ran, submitted>>
      BY <1>7 DEF StopPush, TypeOK
    <3> QED BY <3>1
  <2>2. /\ pending'[m] = Append(pending[m], StopFn)
        /\ \A l \in Loops : l # m => pending'[l] = pending[l]
    BY <2>1, PushPlaces
  <2>3. /\ InQ(m) \in Places /\ Here'[InQ(m)] = Append(Here[InQ(m)], StopFn)
        /\ Untouched({InQ(m)})
    BY <1>1, <1>2, <2>1, <2>2, PlacesApart DEF Untouched
  <2>4. StopFn \in Functors /\ f # StopFn
    BY BoundAssumption, StopFnAssumption DEF Functors
  <2>5. Single(Places, Here', f) /\ (Found(Places, Here', f) <=> Found(Places, Here, f) \/ f = StopFn)
    <3>1. f = StopFn => ~Found(Places, Here, f)
      BY <2>4
    <3>2. StopFn \in Functors
      BY DEF Functors
    <3> QED BY <1>0, <2>3, <3>1, <3>2, Joined DEF Untouched
  <2> QED BY <1>3, <2>1, <2>4, <2>5
<1>8. CASE \/ UNCHANGED vars
           \/ \E t \in Threads : CheckNotified(t) \/ SetNotified(t) \/ WritePipe(t) \/ StopSet(t)
           \/ \E t \in Threads, m \in Loops : StopTest(t, m)
  <2>1. UNCHANGED <<pending, batch, retry, ran, submitted>>
    BY <1>8 DEF vars, CheckNotified, SetNotified, WritePipe, StopSet, StopTest
  <2> QED BY <1>5, <2>1
<1>9. ASSUME NEW m \in Loops, LoopStep(m) PROVE KeptAt(f)'
  <2> USE DEF Goto, AtPhase
  <2>0. m \in Threads
    BY DEF Threads
  <2>1. CASE SwapPending(m)
    <3>1. /\ batch[m] = <<>> /\ batch'[m] = pending[m] /\ pending'[m] = <<>>
          /\ \A k \in Loops \ {m} : batch'[k] = batch[k] /\ pending'[k] = pending[k]
          /\ UNCHANGED <<retry, ran, submitted>>
      BY <2>1 DEF SwapPending, TypeOK, HeldInv, HeldAt
    <3>2. \A p \in Places \ {InQ(m), InB(m)} : Here'[p] = Here[p]
      BY <1>1, <1>2, <3>1, PlacesApart
    <3>3. Single(Places, Here', f) /\ (Found(Places, Here', f) <=> Found(Places, Here, f))
      <4>1. InQ(m) # InB(m)
        BY PlacesApart
      <4>2. /\ Here[InB(m)] = <<>> /\ Here'[InB(m)] = Here[InQ(m)]
            /\ Here'[InQ(m)] = <<>>
        BY <1>1, <1>2, <3>1
      <4> QED BY <1>0, <1>1, <3>2, <4>1, <4>2, Swapped
    <3> QED BY <1>3, <3>1, <3>3
  <2>2. CASE StartTask(m)
    <3>1. /\ batch[m] # <<>> /\ batch'[m] = Tail(batch[m]) /\ ran'[m] = Append(ran[m], Head(batch[m]))
          /\ \A k \in Loops \ {m} : batch'[k] = batch[k] /\ ran'[k] = ran[k]
          /\ UNCHANGED <<pending, retry, submitted>>
      BY <2>2 DEF StartTask, TypeOK
    <3>2. Untouched({InB(m), InD(m)})
      BY <1>1, <1>2, <3>1, PlacesApart DEF Untouched
    <3>3. InB(m) # InD(m)
      BY PlacesApart
    <3>4. /\ Here[InB(m)] # <<>> /\ Here'[InB(m)] = Tail(Here[InB(m)])
          /\ Here'[InD(m)] = Append(Here[InD(m)], Head(Here[InB(m)]))
      BY <1>1, <1>2, <3>1
    <3> QED BY <1>1, <1>4, <3>1, <3>2, <3>3, <3>4
  <2>3. CASE RunStopFn(m)
    <3>1. /\ batch[m] # <<>> /\ batch'[m] = Tail(batch[m]) /\ Head(batch[m]) # f
          /\ \A k \in Loops \ {m} : batch'[k] = batch[k]
          /\ UNCHANGED <<pending, ran, retry, submitted>>
      BY <2>3, BoundAssumption, StopFnAssumption DEF RunStopFn, TypeOK
    <3>2. \A p \in Places \ {InB(m)} : Here'[p] = Here[p]
      BY <1>1, <1>2, <3>1, PlacesApart
    <3>3. Single(Places, Here', f) /\ (Found(Places, Here', f) <=> Found(Places, Here, f))
      <4>1. /\ Here[InB(m)] # <<>> /\ Here'[InB(m)] = Tail(Here[InB(m)])
            /\ Head(Here[InB(m)]) # f
        BY <1>1, <1>2, <3>1
      <4> QED BY <1>0, <1>1, <3>2, <4>1, Left
    <3> QED BY <1>3, <3>1, <3>3
  <2>4. CASE KeepForRecheck(m)
    <3>1. /\ batch[m] # <<>> /\ batch'[m] = Tail(batch[m]) /\ retry'[m] = Append(retry[m], Head(batch[m]))
          /\ \A k \in Loops \ {m} : batch'[k] = batch[k] /\ retry'[k] = retry[k]
          /\ UNCHANGED <<pending, ran, submitted>>
      BY <2>4 DEF KeepForRecheck, TypeOK
    <3>2. Untouched({InB(m), InR(m)})
      BY <1>1, <1>2, <3>1, PlacesApart DEF Untouched
    <3>3. InB(m) # InR(m)
      BY PlacesApart
    <3>4. /\ Here[InB(m)] # <<>> /\ Here'[InB(m)] = Tail(Here[InB(m)])
          /\ Here'[InR(m)] = Append(Here[InR(m)], Head(Here[InB(m)]))
      BY <1>1, <1>2, <3>1
    <3> QED BY <1>1, <1>4, <3>1, <3>2, <3>3, <3>4
  <2>5. CASE Redirect(m)
    <3>1. /\ batch[m] # <<>> /\ batch' = [batch EXCEPT ![m] = Tail(@)]
          /\ owner \in Loops /\ Push(m, owner, Head(batch[m]))
          /\ UNCHANGED <<retry, ran, submitted>>
      BY <2>5 DEF Redirect
    <3>2. /\ batch'[m] = Tail(batch[m]) /\ \A k \in Loops \ {m} : batch'[k] = batch[k]
          /\ pending'[owner] = Append(pending[owner], Head(batch[m]))
          /\ \A k \in Loops : k # owner => pending'[k] = pending[k]
      BY <2>0, <3>1, PushPlaces DEF TypeOK
    <3>3. Untouched({InB(m), InQ(owner)})
      BY <1>1, <1>2, <3>1, <3>2, PlacesApart DEF Untouched
    <3>4. InB(m) # InQ(owner)
      BY PlacesApart
    <3>5. /\ Here[InB(m)] # <<>> /\ Here'[InB(m)] = Tail(Here[InB(m)])
          /\ Here'[InQ(owner)] = Append(Here[InQ(owner)], Head(Here[InB(m)]))
      BY <1>1, <1>2, <3>1, <3>2
    <3> QED BY <1>1, <1>4, <3>1, <3>3, <3>4, <3>5
  <2>6. CASE TestStopped(m)
    <3>1. CASE stopped[m]
      <4>1. /\ retry'[m] = <<>> /\ \A k \in Loops \ {m} : retry'[k] = retry[k]
            /\ Told(m) /\ UNCHANGED <<pending, batch, ran, submitted>>
        BY <2>6, <3>1 DEF TestStopped, TypeOK, Told
      <4>2. ASSUME NEW p \in Places PROVE Here'[p] = Here[p] \/ Here'[p] = <<>>
        <5>1. PICK l \in Loops : p = InQ(l) \/ p = InB(l) \/ p = InR(l) \/ p = InD(l)
          BY <1>1
        <5> QED BY <1>1, <1>2, <4>1, <5>1
      <4>3. \A p \in Places : /\ Holds(Here'[p], f) => Holds(Here[p], f)
                              /\ HoldsOnce(Here[p], f) => HoldsOnce(Here'[p], f)
        <5>1. ~Holds(<<>>, f) /\ HoldsOnce(<<>>, f)
          BY DEF Holds, HoldsOnce
        <5> QED BY <4>2, <5>1
      <4>4. Single(Places, Here', f) /\ (Found(Places, Here', f) => Found(Places, Here, f))
        BY <1>0, <4>3 DEF Single, Found
      <4> QED BY <1>0, <4>1, <4>4 DEF KeptAt
    <3>2. CASE ~stopped[m]
      BY <1>5, <2>6, <3>2 DEF TestStopped
    <3> QED BY <3>1, <3>2
  <2>7. CASE Requeue(m)
    <3>1. /\ retry[m] # <<>> /\ retry' = [retry EXCEPT ![m] = Tail(@)]
          /\ Push(m, m, Head(retry[m])) /\ UNCHANGED <<batch, ran, submitted>>
      BY <2>7 DEF Requeue
    <3>2. /\ retry'[m] = Tail(retry[m]) /\ \A k \in Loops \ {m} : retry'[k] = retry[k]
          /\ pending'[m] = Append(pending[m], Head(retry[m]))
          /\ \A k \in Loops : k # m => pending'[k] = pending[k]
      BY <2>0, <3>1, PushPlaces DEF TypeOK
    <3>3. Untouched({InR(m), InQ(m)})
      BY <1>1, <1>2, <3>1, <3>2, PlacesApart DEF Untouched
    <3>4. InR(m) # InQ(m)
      BY PlacesApart
    <3>5. /\ Here[InR(m)] # <<>> /\ Here'[InR(m)] = Tail(Here[InR(m)])
          /\ Here'[InQ(m)] = Append(Here[InQ(m)], Head(Here[InR(m)]))
      BY <1>1, <1>2, <3>1, <3>2
    <3> QED BY <1>1, <1>4, <3>1, <3>3, <3>4, <3>5
  <2>8. CASE \/ Run(m) \/ BeginEvent(m) \/ EndEvent(m) \/ ReadPipe(m) \/ LeaveDispatch(m)
             \/ MoveOwner(m) \/ EndTask(m) \/ EndDrain(m) \/ EndPass(m)
    <3>1. UNCHANGED <<pending, batch, retry, ran, submitted>>
      BY <2>8 DEF Run, BeginEvent, EndEvent, ReadPipe, LeaveDispatch, MoveOwner, EndTask,
         EndDrain, EndPass
    <3> QED BY <1>5, <3>1
  <2> QED BY <1>9, <2>1, <2>2, <2>3, <2>4, <2>5, <2>6, <2>7, <2>8 DEF LoopStep, DrainStep
<1> QED BY <1>6, <1>7, <1>8, <1>9 DEF Next, CallerStep, CallStep

\* A functor with an expected_cb is in one place at every moment, whichever loops it is
\* redirected to and however often it is rechecked, so it runs at most once; and it is in
\* some place until a loop is told to stop (doPendingFunctors, queueInLoopMaybeRedir).
THEOREM BoundIsKeptOnce == Spec => []BoundKeptOnce
<1> DEFINE KInv == \A f \in Bound : KeptAt(f)
<1>1. Init => KInv
  <2> SUFFICES ASSUME Init, NEW f \in Bound PROVE KeptAt(f)
    OBVIOUS
  <2>1. \A p \in Places : Here[p] = <<>>
    <3>1. \A l \in Loops : pending[l] = <<>> /\ batch[l] = <<>> /\ retry[l] = <<>> /\ ran[l] = <<>>
      BY DEF Init
    <3> QED BY <3>1, PlacesOf
  <2>2. ~Holds(<<>>, f) /\ HoldsOnce(<<>>, f)
    BY DEF Holds, HoldsOnce
  <2>3. submitted = {}
    BY DEF Init
  <2> QED BY <2>1, <2>2, <2>3 DEF KeptAt, Single, Found
<1>2. TypeOK /\ HeldInv /\ KInv /\ [Next]_vars => KInv'
  BY KeptStep
<1>3. KInv => BoundKeptOnce
  <2> SUFFICES ASSUME NEW f \in Bound, KeptAt(f)
               PROVE  /\ \A p \in Places : HoldsOnce(At(p), f)
                      /\ \A p, q \in Places : Holds(At(p), f) /\ Holds(At(q), f) => p = q
                      /\ f \in submitted => \/ \E p \in Places : Holds(At(p), f)
                                            \/ \E l \in Loops : ToldToStop(l)
    BY DEF BoundKeptOnce
  <2>1. \A p \in Places : Here[p] = At(p)
    BY DEF Here
  <2> QED BY <2>1 DEF KeptAt, Single, Found, Told, ToldToStop
<1> QED BY <1>1, <1>2, <1>3, TypeCorrect, HeldByPlace, PTL DEF Spec

-----------------------------------------------------------------------------
\* The functors of P in the queue w are those of q after its first n, in the same
\* order: w holds no other functor of P, lacks none, and the places in q grow with
\* the places in w.
Tracks(P, w, q, n) ==
    /\ n <= Len(q)
    /\ \A i, k \in 1..Len(q) : q[i] = q[k] => i = k
    /\ \A i \in (n + 1)..Len(q) : \E j \in 1..Len(w) : w[j] = q[i]
    /\ \A j \in 1..Len(w) : w[j] \in P => \E i \in (n + 1)..Len(q) : w[j] = q[i]
    /\ \A j, k \in 1..Len(w) : \A i, m \in (n + 1)..Len(q) :
          j < k /\ w[j] = q[i] /\ w[k] = q[m] => i < m

\* A functor of P that is handed over goes to the end of both.
LEMMA TracksAppendPlain ==
    ASSUME NEW S, NEW P \in SUBSET S, NEW w \in Seq(S), NEW q \in Seq(P), NEW n \in Nat,
           Tracks(P, w, q, n), NEW f \in P, \A i \in 1..Len(q) : q[i] # f
    PROVE  Tracks(P, Append(w, f), Append(q, f), n)
<1> DEFINE v == Append(w, f)
           r == Append(q, f)
<1>1. /\ Len(w) \in Nat /\ Len(q) \in Nat /\ Len(v) = Len(w) + 1 /\ Len(r) = Len(q) + 1
      /\ v[Len(w) + 1] = f /\ r[Len(q) + 1] = f
      /\ \A j \in 1..Len(w) : v[j] = w[j]
      /\ \A i \in 1..Len(q) : r[i] = q[i]
  OBVIOUS
<1> HIDE DEF v, r
<1>2. \A i \in (n + 1)..Len(q) : i \in 1..Len(q)
  BY <1>1
<1>3. \A j \in 1..Len(w) : w[j] # f
  BY <1>2 DEF Tracks
<1>4. \A i \in 1..Len(r) : i \in 1..Len(q) \/ i = Len(q) + 1
  BY <1>1
<1>5. \A j \in 1..Len(v) : j \in 1..Len(w) \/ j = Len(w) + 1
  BY <1>1
<1>5a. \A j \in 1..Len(w) : j \in 1..Len(v)
  BY <1>1
<1>5b. \A i \in 1..Len(q) : i \in 1..Len(r)
  BY <1>1
<1>6. n <= Len(r)
  BY <1>1 DEF Tracks
<1>7. \A i, k \in 1..Len(r) : r[i] = r[k] => i = k
  <2> SUFFICES ASSUME NEW i \in 1..Len(r), NEW k \in 1..Len(r), r[i] = r[k] PROVE i = k
    OBVIOUS
  <2> QED BY <1>1, <1>4 DEF Tracks
<1>8. \A i \in (n + 1)..Len(r) : i \in (n + 1)..Len(q) \/ i = Len(q) + 1
  BY <1>1
<1>9. \A i \in (n + 1)..Len(r) : \E j \in 1..Len(v) : v[j] = r[i]
  <2> SUFFICES ASSUME NEW i \in (n + 1)..Len(r) PROVE \E j \in 1..Len(v) : v[j] = r[i]
    OBVIOUS
  <2>1. CASE i = Len(q) + 1
    <3>1. Len(w) + 1 \in 1..Len(v)
      BY <1>1
    <3> QED BY <1>1, <2>1, <3>1
  <2>2. CASE i \in (n + 1)..Len(q)
    <3>1. PICK j \in 1..Len(w) : w[j] = q[i]
      BY <2>2 DEF Tracks
    <3> QED BY <1>1, <1>2, <1>5a, <2>2, <3>1
  <2> QED BY <1>8, <2>1, <2>2
<1>10. \A i \in (n + 1)..Len(q) : i \in (n + 1)..Len(r)
  BY <1>1
<1>11. \A j \in 1..Len(v) : v[j] \in P => \E i \in (n + 1)..Len(r) : v[j] = r[i]
  <2> SUFFICES ASSUME NEW j \in 1..Len(v), v[j] \in P PROVE \E i \in (n + 1)..Len(r) : v[j] = r[i]
    OBVIOUS
  <2>1. CASE j = Len(w) + 1
    <3>1. Len(q) + 1 \in (n + 1)..Len(r)
      BY <1>1 DEF Tracks
    <3> QED BY <1>1, <2>1, <3>1
  <2>2. CASE j \in 1..Len(w)
    <3>1. PICK i \in (n + 1)..Len(q) : w[j] = q[i]
      BY <1>1, <2>2 DEF Tracks
    <3> QED BY <1>1, <1>2, <1>10, <2>2, <3>1
  <2> QED BY <1>5, <2>1, <2>2
<1>12. \A j, k \in 1..Len(v) : \A i, m \in (n + 1)..Len(r) :
          j < k /\ v[j] = r[i] /\ v[k] = r[m] => i < m
  <2> SUFFICES ASSUME NEW j \in 1..Len(v), NEW k \in 1..Len(v), j < k,
                      NEW i \in (n + 1)..Len(r), NEW m \in (n + 1)..Len(r), v[j] = r[i], v[k] = r[m]
               PROVE  i < m
    OBVIOUS
  <2>1. j \in 1..Len(w)
    BY <1>1
  <2>2. i \in (n + 1)..Len(q)
    BY <1>1, <1>3, <1>8, <2>1
  <2>3. CASE m = Len(q) + 1
    BY <1>1, <2>2, <2>3
  <2>4. CASE m \in (n + 1)..Len(q)
    <3>1. k # Len(w) + 1
      BY <1>1, <1>2, <2>4
    <3>2. k \in 1..Len(w)
      BY <1>5, <3>1
    <3>3. w[j] = q[i] /\ w[k] = q[m]
      BY <1>1, <1>2, <2>1, <2>2, <2>4, <3>2
    <3> QED BY <2>1, <2>2, <2>4, <3>2, <3>3 DEF Tracks
  <2> QED BY <1>8, <2>3, <2>4
<1> QED BY <1>6, <1>7, <1>9, <1>11, <1>12 DEF Tracks, v, r

\* A functor outside P that joins the queue changes nothing for P.
LEMMA TracksAppendOther ==
    ASSUME NEW S, NEW P \in SUBSET S, NEW w \in Seq(S), NEW q \in Seq(P), NEW n \in Nat,
           Tracks(P, w, q, n), NEW f \in S \ P
    PROVE  Tracks(P, Append(w, f), q, n)
<1> DEFINE v == Append(w, f)
<1>1. /\ Len(w) \in Nat /\ Len(q) \in Nat /\ Len(v) = Len(w) + 1 /\ v[Len(w) + 1] = f
      /\ \A j \in 1..Len(w) : v[j] = w[j]
      /\ \A i \in 1..Len(q) : q[i] \in P
  OBVIOUS
<1> HIDE DEF v
<1>2. \A i \in (n + 1)..Len(q) : q[i] # f
  BY <1>1
<1>3. \A j \in 1..Len(v) : j \in 1..Len(w) \/ j = Len(w) + 1
  BY <1>1
<1>4. \A j \in 1..Len(w) : j \in 1..Len(v)
  BY <1>1
<1>5. \A i \in (n + 1)..Len(q) : \E j \in 1..Len(v) : v[j] = q[i]
  BY <1>1, <1>4 DEF Tracks
<1>6. \A j \in 1..Len(v) : v[j] \in P => \E i \in (n + 1)..Len(q) : v[j] = q[i]
  <2> SUFFICES ASSUME NEW j \in 1..Len(v), v[j] \in P PROVE \E i \in (n + 1)..Len(q) : v[j] = q[i]
    OBVIOUS
  <2>1. j \in 1..Len(w) /\ v[j] = w[j]
    BY <1>1, <1>3
  <2> QED BY <2>1 DEF Tracks
<1>7. \A j, k \in 1..Len(v) : \A i, m \in (n + 1)..Len(q) :
          j < k /\ v[j] = q[i] /\ v[k] = q[m] => i < m
  <2> SUFFICES ASSUME NEW j \in 1..Len(v), NEW k \in 1..Len(v), j < k,
                      NEW i \in (n + 1)..Len(q), NEW m \in (n + 1)..Len(q), v[j] = q[i], v[k] = q[m]
               PROVE  i < m
    OBVIOUS
  <2>1. j \in 1..Len(w) /\ k \in 1..Len(w)
    BY <1>1, <1>2, <1>3
  <2>2. w[j] = q[i] /\ w[k] = q[m]
    BY <1>1, <2>1
  <2> QED BY <2>1, <2>2 DEF Tracks
<1> QED BY <1>5, <1>6, <1>7 DEF Tracks, v

\* Nor does one that leaves it.
LEMMA TracksTailOther ==
    ASSUME NEW S, NEW P \in SUBSET S, NEW w \in Seq(S), NEW q \in Seq(P), NEW n \in Nat,
           Tracks(P, w, q, n), w # <<>>, Head(w) \notin P
    PROVE  Tracks(P, Tail(w), q, n)
<1> DEFINE v == Tail(w)
<1>1. /\ Len(w) \in Nat /\ Len(q) \in Nat /\ Len(v) = Len(w) - 1 /\ Len(w) > 0 /\ Head(w) = w[1]
      /\ \A j \in 1..Len(v) : v[j] = w[j + 1]
      /\ \A i \in 1..Len(q) : q[i] \in P
  OBVIOUS
<1> HIDE DEF v
<1>2. \A i \in (n + 1)..Len(q) : q[i] # w[1]
  BY <1>1
<1>3. \A j \in 1..Len(v) : j + 1 \in 1..Len(w)
  BY <1>1
<1>4. \A j \in 1..Len(w) : j # 1 => j - 1 \in 1..Len(v) /\ v[j - 1] = w[j]
  BY <1>1
<1>5. \A i \in (n + 1)..Len(q) : \E j \in 1..Len(v) : v[j] = q[i]
  <2> SUFFICES ASSUME NEW i \in (n + 1)..Len(q) PROVE \E j \in 1..Len(v) : v[j] = q[i]
    OBVIOUS
  <2>1. PICK j \in 1..Len(w) : w[j] = q[i]
    BY DEF Tracks
  <2> QED BY <1>2, <1>4, <2>1
<1>6. \A j \in 1..Len(v) : v[j] \in P => \E i \in (n + 1)..Len(q) : v[j] = q[i]
  <2> SUFFICES ASSUME NEW j \in 1..Len(v), v[j] \in P PROVE \E i \in (n + 1)..Len(q) : v[j] = q[i]
    OBVIOUS
  <2>1. j + 1 \in 1..Len(w) /\ v[j] = w[j + 1]
    BY <1>1, <1>3
  <2>2. PICK i \in (n + 1)..Len(q) : w[j + 1] = q[i]
    BY <2>1 DEF Tracks
  <2> QED BY <2>1, <2>2
<1>7. \A j, k \in 1..Len(v) : \A i, m \in (n + 1)..Len(q) :
          j < k /\ v[j] = q[i] /\ v[k] = q[m] => i < m
  <2> SUFFICES ASSUME NEW j \in 1..Len(v), NEW k \in 1..Len(v), j < k,
                      NEW i \in (n + 1)..Len(q), NEW m \in (n + 1)..Len(q), v[j] = q[i], v[k] = q[m]
               PROVE  i < m
    OBVIOUS
  <2>1. j + 1 \in 1..Len(w) /\ k + 1 \in 1..Len(w) /\ j + 1 < k + 1
    BY <1>3
  <2>2. w[j + 1] = q[i] /\ w[k + 1] = q[m]
    BY <1>1
  <2> QED BY <2>1, <2>2 DEF Tracks
<1> QED BY <1>5, <1>6, <1>7 DEF Tracks, v

\* The first functor of P to leave the queue is the oldest one still owed.
LEMMA TracksTailPlain ==
    ASSUME NEW S, NEW P \in SUBSET S, NEW w \in Seq(S), NEW q \in Seq(P), NEW n \in Nat,
           Tracks(P, w, q, n), w # <<>>, Head(w) \in P
    PROVE  /\ n + 1 <= Len(q) /\ Head(w) = q[n + 1]
           /\ Tracks(P, Tail(w), q, n + 1)
<1> DEFINE v == Tail(w)
<1>1. /\ Len(w) \in Nat /\ Len(q) \in Nat /\ Len(v) = Len(w) - 1 /\ Len(w) > 0 /\ Head(w) = w[1]
      /\ \A j \in 1..Len(v) : v[j] = w[j + 1]
      /\ \A i \in 1..Len(q) : q[i] \in P
  OBVIOUS
<1> HIDE DEF v
<1>2. 1 \in 1..Len(w) /\ \A i \in (n + 1)..Len(q) : i \in 1..Len(q)
  BY <1>1
<1>3. PICK h \in (n + 1)..Len(q) : w[1] = q[h]
  BY <1>1, <1>2 DEF Tracks
<1>4. n + 1 <= Len(q) /\ n + 1 \in (n + 1)..Len(q) /\ n + 1 <= h
  BY <1>1, <1>3
<1>5. PICK k \in 1..Len(w) : w[k] = q[n + 1]
  BY <1>4 DEF Tracks
<1>6. k = 1
  <2>1. 1 < k => h < n + 1
    BY <1>2, <1>3, <1>4, <1>5 DEF Tracks
  <2> QED BY <1>4, <1>5, <2>1
<1>7. w[1] = q[n + 1]
  BY <1>5, <1>6
<1>8. \A j \in 1..Len(w) : j # 1 => w[j] # q[n + 1]
  <2> SUFFICES ASSUME NEW j \in 1..Len(w), j # 1, w[j] = q[n + 1] PROVE FALSE
    OBVIOUS
  <2>1. 1 < j
    OBVIOUS
  <2>2. n + 1 < n + 1
    BY <1>2, <1>4, <1>7, <2>1 DEF Tracks
  <2> QED BY <2>2
<1>9. \A i \in (n + 1 + 1)..Len(q) : i \in (n + 1)..Len(q) /\ q[i] # w[1]
  <2> SUFFICES ASSUME NEW i \in (n + 1 + 1)..Len(q) PROVE i \in (n + 1)..Len(q) /\ q[i] # w[1]
    OBVIOUS
  <2>1. i \in (n + 1)..Len(q) /\ i # n + 1
    BY <1>1
  <2> QED BY <1>2, <1>4, <1>7, <2>1 DEF Tracks
<1>10. \A j \in 1..Len(v) : j + 1 \in 1..Len(w) /\ j + 1 # 1
  BY <1>1
<1>11. \A j \in 1..Len(w) : j # 1 => j - 1 \in 1..Len(v) /\ v[j - 1] = w[j]
  BY <1>1
<1>12. \A i \in (n + 1 + 1)..Len(q) : \E j \in 1..Len(v) : v[j] = q[i]
  <2> SUFFICES ASSUME NEW i \in (n + 1 + 1)..Len(q) PROVE \E j \in 1..Len(v) : v[j] = q[i]
    OBVIOUS
  <2>1. i \in (n + 1)..Len(q) /\ q[i] # w[1]
    BY <1>9
  <2>2. PICK j \in 1..Len(w) : w[j] = q[i]
    BY <2>1 DEF Tracks
  <2> QED BY <1>11, <2>1, <2>2
<1>13. \A i \in (n + 1)..Len(q) : i # n + 1 => i \in (n + 1 + 1)..Len(q)
  BY <1>1
<1>14. \A j \in 1..Len(v) : v[j] \in P => \E i \in (n + 1 + 1)..Len(q) : v[j] = q[i]
  <2> SUFFICES ASSUME NEW j \in 1..Len(v), v[j] \in P PROVE \E i \in (n + 1 + 1)..Len(q) : v[j] = q[i]
    OBVIOUS
  <2>1. PICK i \in (n + 1)..Len(q) : w[j + 1] = q[i]
    BY <1>1, <1>10 DEF Tracks
  <2> QED BY <1>1, <1>8, <1>10, <1>13, <2>1
<1>15. \A j, k1 \in 1..Len(v) : \A i, m \in (n + 1 + 1)..Len(q) :
          j < k1 /\ v[j] = q[i] /\ v[k1] = q[m] => i < m
  <2> SUFFICES ASSUME NEW j \in 1..Len(v), NEW k1 \in 1..Len(v), j < k1,
                      NEW i \in (n + 1 + 1)..Len(q), NEW m \in (n + 1 + 1)..Len(q), v[j] = q[i], v[k1] = q[m]
               PROVE  i < m
    OBVIOUS
  <2>1. j + 1 \in 1..Len(w) /\ k1 + 1 \in 1..Len(w) /\ j + 1 < k1 + 1
    BY <1>10
  <2>2. w[j + 1] = q[i] /\ w[k1 + 1] = q[m]
    BY <1>1
  <2> QED BY <1>9, <2>1, <2>2 DEF Tracks
<1>17. \A i, j \in 1..Len(q) : q[i] = q[j] => i = j
  BY DEF Tracks
<1>18. Tracks(P, v, q, n + 1)
  BY <1>4, <1>12, <1>14, <1>15, <1>17, Zenon DEF Tracks
<1> QED BY <1>1, <1>4, <1>7, <1>18 DEF v

-----------------------------------------------------------------------------
Plain == Tasks \ Bound

\* What a loop holds: the rest of the batch, then what has been queued since.
Held(l) == batch[l] \o pending[l]

\* The plain functors a loop holds are those it owes, in the order it was handed them.
OrderAt(l) == Tracks(Plain, Held(l), queued[l], Len(begun[l]))

\* Whatever has been recorded as queued or begun has been submitted.
RecordedAt(l) ==
    /\ \A i \in 1..Len(queued[l]) : queued[l][i] \in submitted
    /\ \A i \in 1..Len(begun[l]) : begun[l][i] \in submitted

OrderInv == \A l \in Loops : OrderAt(l) /\ RecordedAt(l)

\* The types the lemmas on Tracks ask for.
LEMMA HeldType ==
    ASSUME TypeOK, NEW l \in Loops
    PROVE  /\ Plain \in SUBSET Functors
           /\ batch[l] \in Seq(Functors) /\ pending[l] \in Seq(Functors)
           /\ Held(l) \in Seq(Functors)
           /\ queued[l] \in Seq(Plain) /\ begun[l] \in Seq(Plain) /\ Len(begun[l]) \in Nat
<1>1. Plain \in SUBSET Functors
  BY DEF Plain, Functors
<1>2. batch[l] \in Seq(Functors) /\ pending[l] \in Seq(Functors)
  BY DEF TypeOK
<1>3. queued[l] \in Seq(Plain) /\ begun[l] \in Seq(Plain)
  BY DEF TypeOK, Plain
<1>4. Held(l) \in Seq(Functors)
  BY <1>2 DEF Held
<1>5. Len(begun[l]) \in Nat
  BY <1>3
<1> QED BY <1>1, <1>2, <1>3, <1>4, <1>5

\* Concatenation and the ends of a queue.
LEMMA ConcatEnds ==
    ASSUME NEW S, NEW s \in Seq(S), NEW t \in Seq(S), NEW e \in S
    PROVE  /\ s \o Append(t, e) = Append(s \o t, e)
           /\ s # <<>> => Tail(s) \o t = Tail(s \o t) /\ Head(s \o t) = Head(s) /\ s \o t # <<>>
           /\ <<>> \o t = t /\ t \o <<>> = t
  OBVIOUS

\* A push adds the functor at the end of what loop m holds.
LEMMA PushHeld ==
    ASSUME TypeOK, NEW t, NEW m \in Loops, NEW f \in Functors, Push(t, m, f),
           NEW l \in Loops, batch'[l] = batch[l]
    PROVE  Held(l)' = IF l = m THEN Append(Held(l), f) ELSE Held(l)
<1>1. pending' = [pending EXCEPT ![m] = Append(pending[m], f)]
  BY DEF Push
<1>2. l = m => pending'[l] = Append(pending[l], f)
  BY <1>1 DEF TypeOK
<1>3. l # m => pending'[l] = pending[l]
  BY <1>1 DEF TypeOK
<1>4. batch[l] \in Seq(Functors) /\ pending[l] \in Seq(Functors)
  BY HeldType
<1> DEFINE b == batch[l]
           p == pending[l]
<1>5. b \in Seq(Functors) /\ p \in Seq(Functors)
  BY <1>4
<1> HIDE DEF b, p
<1>6. b \o Append(p, f) = Append(b \o p, f)
  BY <1>5, ConcatEnds
<1> USE DEF b, p
<1> QED BY <1>2, <1>3, <1>6, Zenon DEF Held

\* A functor that is not plain joins the queue of m.
LEMMA OtherPushed ==
    ASSUME TypeOK, NEW t, NEW m \in Loops, NEW f \in Functors \ Plain, Push(t, m, f),
           NEW l \in Loops, batch'[l] = batch[l], OrderAt(l), UNCHANGED <<queued, begun>>
    PROVE  OrderAt(l)'
<1>1. Held(l)' = IF l = m THEN Append(Held(l), f) ELSE Held(l)
  BY PushHeld
<1>2. Tracks(Plain, Append(Held(l), f), queued[l], Len(begun[l]))
  BY HeldType, TracksAppendOther DEF OrderAt
<1>3. Tracks(Plain, Held(l)', queued[l], Len(begun[l]))
  BY <1>1, <1>2 DEF OrderAt
<1> QED BY <1>3 DEF OrderAt, Plain

\* The functor at the head of the batch leaves what loop m holds.
LEMMA HeadLeaves ==
    ASSUME TypeOK, NEW m \in Loops, batch[m] # <<>>, batch' = [batch EXCEPT ![m] = Tail(@)],
           pending'[m] = pending[m]
    PROVE  /\ Held(m)' = Tail(Held(m)) /\ Held(m) # <<>> /\ Head(Held(m)) = Head(batch[m])
           /\ Head(batch[m]) \in Functors
<1>1. batch'[m] = Tail(batch[m])
  BY DEF TypeOK
<1>2. /\ Tail(batch[m]) \o pending[m] = Tail(batch[m] \o pending[m])
      /\ batch[m] \o pending[m] # <<>> /\ Head(batch[m] \o pending[m]) = Head(batch[m])
      /\ Head(batch[m]) \in Functors
  <2>1. batch[m] \in Seq(Functors) /\ pending[m] \in Seq(Functors)
    BY HeldType
  <2>2. Head(batch[m]) \in Functors
    BY <2>1, TailType
  <2> QED BY <2>1, <2>2, ConcatEnds
<1> QED BY <1>1, <1>2, Zenon DEF Held

\* A functor that is not plain leaves the batch of m.
LEMMA OtherLeaves ==
    ASSUME TypeOK, NEW m \in Loops, batch[m] # <<>>, batch' = [batch EXCEPT ![m] = Tail(@)],
           pending'[m] = pending[m], Head(batch[m]) \notin Plain,
           OrderAt(m), UNCHANGED <<queued, begun>>
    PROVE  OrderAt(m)'
<1>1. Held(m)' = Tail(Held(m)) /\ Held(m) # <<>> /\ Head(Held(m)) = Head(batch[m])
  BY HeadLeaves
<1>2. Tracks(Plain, Tail(Held(m)), queued[m], Len(begun[m]))
  BY <1>1, HeldType, TracksTailOther DEF OrderAt
<1> QED BY <1>1, <1>2, Zenon DEF OrderAt, Plain

\* A step that leaves what loop l holds and its records alone.
LEMMA OrderKept ==
    ASSUME NEW l \in Loops, OrderAt(l), batch'[l] = batch[l], pending'[l] = pending[l],
           queued'[l] = queued[l], begun'[l] = begun[l]
    PROVE  OrderAt(l)'
  BY DEF OrderAt, Held, Plain

\* queueInLoop() hands loop m the functor f.
LEMMA OrderQueued ==
    ASSUME TypeOK, NEW t \in Threads, NEW m \in Loops, NEW f \in Tasks, QueueInLoop(t, m, f),
           NEW l \in Loops, OrderAt(l), RecordedAt(l)
    PROVE  OrderAt(l)' /\ RecordedAt(l)'
<1>1. /\ Push(t, m, f) /\ batch' = batch /\ begun' = begun /\ f \notin submitted
      /\ submitted' = submitted \cup {f} /\ f \in Functors
  BY DEF QueueInLoop, threadVars, Functors
<1>2. CASE f \in Bound
  <2>1. queued' = queued
    BY <1>2 DEF QueueInLoop
  <2>2. f \in Functors \ Plain
    BY <1>1, <1>2 DEF Plain
  <2> QED BY <1>1, <2>1, <2>2, OtherPushed DEF RecordedAt
<1>3. CASE f \notin Bound
  <2>1. queued' = [queued EXCEPT ![m] = Append(queued[m], f)] /\ f \in Plain
    BY <1>3 DEF QueueInLoop, Plain
  <2>2. CASE l # m
    <3>1. queued'[l] = queued[l] /\ pending'[l] = pending[l]
      BY <1>1, <2>1, <2>2 DEF TypeOK, Push
    <3> QED BY <1>1, <3>1, OrderKept DEF RecordedAt
  <2>3. CASE l = m
    <3>1. queued'[l] = Append(queued[l], f)
      BY <2>1, <2>3 DEF TypeOK
    <3>2. Held(l)' = Append(Held(l), f)
      BY <1>1, <2>3, PushHeld
    <3>3. \A i \in 1..Len(queued[l]) : queued[l][i] # f
      BY <1>1 DEF RecordedAt
    <3>4. Tracks(Plain, Append(Held(l), f), Append(queued[l], f), Len(begun[l]))
      BY <2>1, <3>3, HeldType, TracksAppendPlain DEF OrderAt
    <3>5. \A i \in 1..Len(Append(queued[l], f)) :
              Append(queued[l], f)[i] = f \/ (i \in 1..Len(queued[l]) /\ Append(queued[l], f)[i] = queued[l][i])
      BY <2>1, HeldType
    <3>6. OrderAt(l)'
      BY <1>1, <3>1, <3>2, <3>4, Zenon DEF OrderAt, Plain
    <3>7. \A i \in 1..Len(Append(queued[l], f)) : Append(queued[l], f)[i] \in submitted \cup {f}
      BY <3>5 DEF RecordedAt
    <3>8. \A i \in 1..Len(queued'[l]) : queued'[l][i] \in submitted'
      BY <1>1, <3>1, <3>7
    <3> QED BY <1>1, <3>6, <3>8 DEF RecordedAt
  <2> QED BY <2>2, <2>3
<1> QED BY <1>2, <1>3

\* doPendingFunctors() starts the functor at the head of the batch of m: a plain one is
\* the oldest the loop owes.
LEMMA OrderStarted ==
    ASSUME TypeOK, NEW m \in Loops, StartTask(m), OrderAt(m), RecordedAt(m)
    PROVE  /\ OrderAt(m)' /\ RecordedAt(m)'
           /\ Head(batch[m]) \in Plain =>
                  /\ Len(begun[m]) + 1 <= Len(queued[m])
                  /\ Head(batch[m]) = queued[m][Len(begun[m]) + 1]
<1>1. /\ batch[m] # <<>> /\ batch' = [batch EXCEPT ![m] = Tail(@)] /\ pending' = pending
      /\ queued' = queued /\ submitted' = submitted /\ Head(batch[m]) \in Tasks
  BY DEF StartTask, queueVars
<1>2. CASE Head(batch[m]) \in Bound
  <2>1. begun' = begun /\ Head(batch[m]) \notin Plain
    BY <1>2 DEF StartTask, Plain
  <2> QED BY <1>1, <2>1, OtherLeaves DEF RecordedAt
<1>3. CASE Head(batch[m]) \notin Bound
  <2>1. begun'[m] = Append(begun[m], Head(batch[m])) /\ Head(batch[m]) \in Plain
    BY <1>1, <1>3 DEF StartTask, Plain, TypeOK
  <2>2. Held(m)' = Tail(Held(m)) /\ Held(m) # <<>> /\ Head(Held(m)) = Head(batch[m])
    BY <1>1, HeadLeaves
  <2>3. /\ Len(begun[m]) + 1 <= Len(queued[m])
        /\ Head(batch[m]) = queued[m][Len(begun[m]) + 1]
        /\ Tracks(Plain, Tail(Held(m)), queued[m], Len(begun[m]) + 1)
    <3> DEFINE w == Held(m)
               q == queued[m]
               n == Len(begun[m])
    <3>1. Head(w) \in Plain /\ w # <<>> /\ Head(w) = Head(batch[m])
      BY <2>1, <2>2
    <3>2. Plain \in SUBSET Functors /\ w \in Seq(Functors) /\ q \in Seq(Plain) /\ n \in Nat
      BY HeldType
    <3>3. Tracks(Plain, w, q, n)
      BY DEF OrderAt
    <3> HIDE DEF w, q, n
    <3>4. n + 1 <= Len(q) /\ Head(w) = q[n + 1] /\ Tracks(Plain, Tail(w), q, n + 1)
      BY <3>1, <3>2, <3>3, TracksTailPlain
    <3> QED BY <3>1, <3>4 DEF w, q, n
  <2>4. Len(begun'[m]) = Len(begun[m]) + 1
    BY <2>1, HeldType
  <2>5. OrderAt(m)'
    BY <1>1, <2>2, <2>3, <2>4, Zenon DEF OrderAt, Plain
  <2>6. Len(begun[m]) + 1 \in 1..Len(queued[m])
    BY <2>3, HeldType
  <2>7. Head(batch[m]) \in submitted
    BY <2>3, <2>6 DEF RecordedAt
  <2> DEFINE r == Append(begun[m], Head(batch[m]))
  <2>8. \A i \in 1..Len(r) : r[i] = Head(batch[m]) \/ (i \in 1..Len(begun[m]) /\ r[i] = begun[m][i])
    BY <2>1, HeldType
  <2> HIDE DEF r
  <2>9. \A i \in 1..Len(r) : r[i] \in submitted
    BY <2>7, <2>8 DEF RecordedAt
  <2>10. \A i \in 1..Len(begun'[m]) : begun'[m][i] \in submitted'
    BY <1>1, <2>1, <2>9 DEF r
  <2> QED BY <1>1, <2>3, <2>5, <2>10 DEF RecordedAt
<1> QED BY <1>2, <1>3

\* Every step keeps the order.
LEMMA OrderStep ==
    ASSUME TypeOK, HeldInv, OrderInv, [Next]_vars, NEW l \in Loops
    PROVE  OrderAt(l)' /\ RecordedAt(l)'
<1>0. OrderAt(l) /\ RecordedAt(l)
  BY DEF OrderInv
<1> USE DEF queueVars, threadVars, histVars
<1>1. ASSUME NEW t \in Threads, NEW m \in Loops, NEW f \in Tasks, QueueInLoop(t, m, f)
      PROVE  OrderAt(l)' /\ RecordedAt(l)'
  BY <1>0, <1>1, OrderQueued
<1>2. ASSUME UNCHANGED <<queued, begun, submitted>> PROVE RecordedAt(l)'
  BY <1>0, <1>2 DEF RecordedAt
<1>3. ASSUME NEW t \in Threads, StopPush(t) PROVE OrderAt(l)' /\ RecordedAt(l)'
  <2>1. /\ call[t].loop \in Loops /\ Push(t, call[t].loop, StopFn) /\ StopFn \in Functors \ Plain
        /\ UNCHANGED <<batch, queued, begun, submitted>>
    BY <1>3, StopFnAssumption DEF StopPush, TypeOK, Functors, Plain
  <2> QED BY <1>0, <1>2, <2>1, OtherPushed
<1>4. CASE \/ UNCHANGED vars
           \/ \E t \in Threads : CheckNotified(t) \/ SetNotified(t) \/ WritePipe(t) \/ StopSet(t)
           \/ \E t \in Threads, m \in Loops : StopTest(t, m)
  <2>1. UNCHANGED <<batch, pending, queued, begun, submitted>>
    BY <1>4 DEF vars, CheckNotified, SetNotified, WritePipe, StopSet, StopTest
  <2> QED BY <1>0, <1>2, <2>1, OrderKept
<1>5. ASSUME NEW m \in Loops, LoopStep(m) PROVE OrderAt(l)' /\ RecordedAt(l)'
  <2>0. m \in Threads /\ OrderAt(m) /\ RecordedAt(m) /\ HeldAt(m) /\ retry[m] \in Seq(Bound)
    BY DEF Threads, OrderInv, HeldInv, TypeOK
  <2>1. CASE SwapPending(m)
    <3>1. /\ phase[m] = "swap" /\ batch'[m] = pending[m] /\ pending'[m] = <<>>
          /\ \A k \in Loops \ {m} : batch'[k] = batch[k] /\ pending'[k] = pending[k]
          /\ UNCHANGED <<queued, begun, submitted>>
      BY <2>1 DEF SwapPending, AtPhase, TypeOK
    <3>2. CASE l = m
      <4>1. batch[m] = <<>>
        BY <2>0, <3>1 DEF HeldAt
      <4>2. <<>> \o pending[m] = pending[m] \o <<>>
        BY HeldType
      <4>3. Held(m)' = Held(m)
        BY <3>1, <4>1, <4>2, Zenon DEF Held
      <4>4. OrderAt(m)'
        BY <2>0, <3>1, <4>3, Zenon DEF OrderAt, Plain
      <4> QED BY <1>2, <3>1, <3>2, <4>4
    <3>3. CASE l # m
      <4>1. batch'[l] = batch[l] /\ pending'[l] = pending[l]
        BY <3>1, <3>3
      <4> QED BY <1>0, <1>2, <3>1, <4>1, OrderKept
    <3> QED BY <3>2, <3>3
  <2>2. CASE StartTask(m)
    <3>1. CASE l = m
      BY <1>0, <2>2, <3>1, OrderStarted
    <3>2. CASE l # m
      <4>1. /\ batch'[l] = batch[l] /\ pending'[l] = pending[l] /\ queued'[l] = queued[l]
            /\ submitted' = submitted
        BY <2>2, <3>2 DEF StartTask, TypeOK
      <4>2. begun'[l] = begun[l]
        BY <2>2, <3>2 DEF StartTask, TypeOK
      <4> QED BY <1>0, <4>1, <4>2, OrderKept DEF RecordedAt
    <3> QED BY <3>1, <3>2
  <2>3. CASE RunStopFn(m) \/ KeepForRecheck(m)
    <3>1. /\ batch[m] # <<>> /\ batch' = [batch EXCEPT ![m] = Tail(@)]
          /\ UNCHANGED <<pending, queued, begun, submitted>>
      BY <2>3 DEF RunStopFn, KeepForRecheck
    <3>2. Head(batch[m]) \notin Plain
      BY <2>3, StopFnAssumption DEF RunStopFn, KeepForRecheck, Plain
    <3>3. CASE l = m
      BY <1>0, <1>2, <3>1, <3>2, <3>3, OtherLeaves
    <3>4. CASE l # m
      <4>1. batch'[l] = batch[l] /\ pending'[l] = pending[l]
        BY <3>1, <3>4 DEF TypeOK
      <4> QED BY <1>0, <1>2, <3>1, <4>1, OrderKept
    <3> QED BY <3>3, <3>4
  <2>4. CASE Redirect(m)
    <3>1. /\ batch[m] # <<>> /\ batch' = [batch EXCEPT ![m] = Tail(@)]
          /\ owner \in Loops /\ owner # m /\ Push(m, owner, Head(batch[m]))
          /\ UNCHANGED <<queued, begun, submitted>>
      BY <2>4 DEF Redirect
    <3>2. Head(batch[m]) \in Functors \ Plain
      BY <2>4, BoundAssumption DEF Redirect, Plain, Functors
    <3>3. CASE l = m
      <4>1. pending'[m] = pending[m]
        BY <3>1 DEF Push, TypeOK
      <4> QED BY <1>0, <1>2, <3>1, <3>2, <3>3, <4>1, OtherLeaves
    <3>4. CASE l # m
      <4>1. batch'[l] = batch[l]
        BY <3>1, <3>4 DEF TypeOK
      <4> QED BY <1>0, <1>2, <3>1, <3>2, <4>1, OtherPushed
    <3> QED BY <3>3, <3>4
  <2>5. CASE Requeue(m)
    <3>1. Push(m, m, Head(retry[m])) /\ retry[m] # <<>> /\ UNCHANGED <<batch, queued, begun, submitted>>
      BY <2>5 DEF Requeue
    <3>2. Head(retry[m]) \in Functors \ Plain
      BY <2>0, <3>1, TailType, BoundAssumption DEF Functors, Plain
    <3> QED BY <1>0, <1>2, <3>1, <3>2, OtherPushed
  <2>6. CASE \/ Run(m) \/ BeginEvent(m) \/ EndEvent(m) \/ ReadPipe(m) \/ LeaveDispatch(m)
             \/ MoveOwner(m) \/ EndTask(m) \/ EndDrain(m) \/ TestStopped(m) \/ EndPass(m)
    <3>1. UNCHANGED <<batch, pending, queued, begun, submitted>>
      BY <2>6 DEF Run, BeginEvent, EndEvent, ReadPipe, LeaveDispatch, MoveOwner, EndTask,
         EndDrain, TestStopped, EndPass
    <3> QED BY <1>0, <1>2, <3>1, OrderKept
  <2> QED BY <1>5, <2>1, <2>2, <2>3, <2>4, <2>5, <2>6 DEF LoopStep, DrainStep
<1> QED BY <1>1, <1>3, <1>4, <1>5 DEF Next, CallerStep, CallStep

\* The order is kept throughout.
LEMMA OrderAlways == Spec => []OrderInv
<1>1. Init => OrderInv
  <2> SUFFICES ASSUME Init, NEW l \in Loops PROVE OrderAt(l) /\ RecordedAt(l)
    BY DEF OrderInv
  <2>1. batch[l] = <<>> /\ pending[l] = <<>> /\ queued[l] = <<>> /\ begun[l] = <<>>
    BY DEF Init
  <2>2. <<>> \o <<>> = <<>>
    BY ConcatEnds
  <2>3. Held(l) = <<>>
    BY <2>1, <2>2 DEF Held
  <2>4. Tracks(Plain, <<>>, <<>>, 0)
    BY DEF Tracks
  <2>5. Len(begun[l]) = 0
    BY <2>1
  <2> QED BY <2>1, <2>3, <2>4, <2>5 DEF OrderAt, RecordedAt
<1>2. TypeOK /\ HeldInv /\ OrderInv /\ [Next]_vars => OrderInv'
  <2> SUFFICES ASSUME TypeOK, HeldInv, OrderInv, [Next]_vars, NEW l \in Loops
               PROVE  OrderAt(l)' /\ RecordedAt(l)'
    BY DEF OrderInv
  <2> QED BY OrderStep
<1> QED BY <1>1, <1>2, TypeCorrect, HeldByPlace, PTL DEF Spec

\* What a loop owes is what it holds.
LEMMA OwedIsHeld ==
    ASSUME TypeOK, OrderInv
    PROVE  HoldsWhatItOwes
<1> SUFFICES ASSUME NEW l \in Loops
             PROVE  {Owed(l)[i] : i \in DOMAIN Owed(l)}
                        = {Held(l)[i] : i \in {j \in DOMAIN Held(l) : Held(l)[j] \in Plain}}
  BY DEF HoldsWhatItOwes, Held, Plain
<1> DEFINE w == Held(l)
           q == queued[l]
           n == Len(begun[l])
<1>1. Tracks(Plain, w, q, n)
  BY DEF OrderInv, OrderAt
<1>2. /\ w \in Seq(Functors) /\ q \in Seq(Plain) /\ n \in Nat /\ Len(q) \in Nat
      /\ DOMAIN w = 1..Len(w) /\ \A i \in 1..Len(q) : q[i] \in Plain
  BY HeldType
<1>3. DOMAIN Owed(l) = 1..(Len(q) - n) /\ \A i \in 1..(Len(q) - n) : Owed(l)[i] = q[n + i]
  BY DEF Owed
<1> HIDE DEF w, q, n
<1>4. ASSUME NEW i \in 1..(Len(q) - n)
      PROVE  \E j \in {k \in DOMAIN w : w[k] \in Plain} : w[j] = q[n + i]
  <2>1. n + i \in (n + 1)..Len(q) /\ n + i \in 1..Len(q)
    BY <1>2
  <2>2. PICK j \in 1..Len(w) : w[j] = q[n + i]
    BY <1>1, <2>1 DEF Tracks
  <2> QED BY <1>2, <2>1, <2>2
<1>5. ASSUME NEW j \in DOMAIN w, w[j] \in Plain
      PROVE  \E i \in 1..(Len(q) - n) : q[n + i] = w[j]
  <2>1. PICK i \in (n + 1)..Len(q) : w[j] = q[i]
    BY <1>1, <1>2, <1>5 DEF Tracks
  <2>2. i - n \in 1..(Len(q) - n) /\ n + (i - n) = i
    BY <1>2
  <2> QED BY <2>1, <2>2
<1>6. {Owed(l)[i] : i \in DOMAIN Owed(l)} \subseteq {w[i] : i \in {j \in DOMAIN w : w[j] \in Plain}}
  BY <1>3, <1>4
<1>7. {w[i] : i \in {j \in DOMAIN w : w[j] \in Plain}} \subseteq {Owed(l)[i] : i \in DOMAIN Owed(l)}
  BY <1>3, <1>5
<1> QED BY <1>6, <1>7 DEF w

\* What is left of q after its first n.
Rest(q, n) == [i \in 1..(Len(q) - n) |-> q[n + i]]

\* Handing a functor to a loop, seen from outside.
LEMMA OwedGrows ==
    ASSUME NEW S, NEW q \in Seq(S), NEW n \in Nat, n <= Len(q), NEW f \in S
    PROVE  Rest(Append(q, f), n) = Append(Rest(q, n), f)
<1> DEFINE k == Len(q) - n
           p == Append(q, f)
           o == Rest(q, n)
<1>1. k \in Nat /\ \A i \in 1..k : n + i \in 1..Len(q)
  OBVIOUS
<1>2. Len(p) - n = k + 1 /\ p[Len(q) + 1] = f /\ \A i \in 1..Len(q) : p[i] = q[i] /\ q[i] \in S
  OBVIOUS
<1>3. n + (k + 1) = Len(q) + 1
  OBVIOUS
<1>4. o = [i \in 1..k |-> q[n + i]]
  BY DEF Rest
<1> HIDE DEF k, p, o
<1>5. o \in Seq(S) /\ Len(o) = k
  BY <1>1, <1>2, <1>4
<1>6. Append(o, f) = [i \in 1..(k + 1) |-> IF i = k + 1 THEN f ELSE o[i]]
  <2> DEFINE a == Append(o, f)
  <2>1. a \in Seq(S) /\ Len(a) = k + 1 /\ a[k + 1] = f /\ \A i \in 1..k : a[i] = o[i]
    BY <1>5, AppendProperties
  <2> HIDE DEF a
  <2>2. a = [i \in 1..(k + 1) |-> a[i]]
    BY <2>1
  <2>3. ASSUME NEW i \in 1..(k + 1) PROVE a[i] = IF i = k + 1 THEN f ELSE o[i]
    <3>1. i # k + 1 => i \in 1..k
      BY <1>1
    <3> QED BY <2>1, <3>1
  <2>4. a = [i \in 1..(k + 1) |-> IF i = k + 1 THEN f ELSE o[i]]
    BY <2>2, <2>3
  <2> QED BY <2>4 DEF a
<1>7. ASSUME NEW i \in 1..(k + 1) PROVE p[n + i] = IF i = k + 1 THEN f ELSE o[i]
  <2>1. CASE i = k + 1
    BY <1>2, <1>3, <2>1
  <2>2. CASE i # k + 1
    <3>1. i \in 1..k
      BY <1>1, <2>2
    <3> QED BY <1>1, <1>2, <1>4, <2>2, <3>1
  <2> QED BY <2>1, <2>2
<1>8. [i \in 1..(k + 1) |-> p[n + i]] = Append(o, f)
  BY <1>6, <1>7
<1>9. Rest(p, n) = Append(o, f)
  BY <1>2, <1>8 DEF Rest
<1> QED BY <1>9 DEF p, o

\* The oldest functor owed is taken off.
LEMMA OwedShrinks ==
    ASSUME NEW S, NEW q \in Seq(S), NEW n \in Nat, n + 1 <= Len(q)
    PROVE  /\ Rest(q, n) # <<>> /\ Head(Rest(q, n)) = q[n + 1]
           /\ Rest(q, n + 1) = Tail(Rest(q, n))
<1> DEFINE k == Len(q) - n
           o == Rest(q, n)
<1>1. k \in Nat /\ k >= 1 /\ \A i \in 1..k : n + i \in 1..Len(q) /\ q[n + i] \in S
  OBVIOUS
<1>2. Len(q) - (n + 1) = k - 1 /\ n \in Nat /\ k - 1 \in Nat
  OBVIOUS
<1>3. o = [i \in 1..k |-> q[n + i]]
  BY DEF Rest
<1> HIDE DEF k, o
<1>4. o \in Seq(S) /\ Len(o) = k
  BY <1>1, <1>3
<1>5. o # <<>> /\ Head(o) = o[1]
  BY <1>1, <1>4
<1>6. Tail(o) = [i \in 1..(Len(o) - 1) |-> o[i + 1]]
  <2> DEFINE t == Tail(o)
  <2>1. t \in Seq(S) /\ Len(t) = Len(o) - 1 /\ \A i \in 1..Len(t) : t[i] = o[i + 1]
    BY <1>4, <1>5, HeadTailProperties
  <2> HIDE DEF t
  <2>2. t = [i \in 1..Len(t) |-> t[i]]
    BY <2>1
  <2>3. t = [i \in 1..Len(t) |-> o[i + 1]]
    BY <2>1, <2>2
  <2> QED BY <2>1, <2>3 DEF t
<1>7. ASSUME NEW i \in 1..(k - 1) PROVE o[i + 1] = q[n + 1 + i]
  <2>1. i + 1 \in 1..k /\ n + (i + 1) = n + 1 + i
    BY <1>1
  <2> QED BY <1>3, <2>1
<1>8. o[1] = q[n + 1]
  BY <1>1, <1>3
<1>9. [i \in 1..(k - 1) |-> q[n + 1 + i]] = [i \in 1..(k - 1) |-> o[i + 1]]
  BY <1>7
<1>10. Rest(q, n + 1) = [i \in 1..(k - 1) |-> q[n + 1 + i]]
  BY <1>2 DEF Rest
<1>11. Rest(q, n + 1) = Tail(o)
  BY <1>4, <1>6, <1>9, <1>10, Zenon
<1> QED BY <1>5, <1>8, <1>11 DEF o

\* The records of both histories change only in queueInLoop() of a plain functor and
\* in the start of one.
LEMMA RecordingSteps ==
    ASSUME TypeOK, Next, ~UNCHANGED <<queued, begun>>
    PROVE  \/ \E t \in Threads, m \in Loops, f \in Plain : QueueInLoop(t, m, f)
           \/ \E m \in Loops : StartTask(m) /\ Head(batch[m]) \in Plain
<1> USE DEF histVars
<1>1. CASE \E t \in Threads : CallerStep(t)
  BY <1>1 DEF CallerStep, QueueInLoop, StopTest, Plain
<1>2. CASE \E t \in Threads : CallStep(t)
  BY <1>2 DEF CallStep, CheckNotified, SetNotified, WritePipe, StopSet, StopPush
<1>3. CASE \E m \in Loops : LoopStep(m)
  BY <1>3 DEF LoopStep, DrainStep, Run, BeginEvent, EndEvent, ReadPipe, LeaveDispatch, MoveOwner,
     SwapPending, StartTask, EndTask, RunStopFn, KeepForRecheck, Redirect, EndDrain, TestStopped,
     Requeue, EndPass, Plain
<1> QED BY <1>1, <1>2, <1>3 DEF Next

\* Every step of the loops is a step of the queue they promise, or leaves it alone.
LEMMA QueueStep ==
    ASSUME TypeOK, TypeOK', OrderInv, [Next]_vars
    PROVE  [FIFO!Next]_(FIFO!queueVars)
<1> DEFINE O == [l \in Loops |-> Owed(l)]
<1>1. CASE UNCHANGED <<queued, begun>>
  <2>1. O' = O
    BY <1>1 DEF Owed
  <2> QED BY <1>1, <2>1 DEF FIFO!queueVars
<1>2. ASSUME NEW t \in Threads, NEW m \in Loops, NEW f \in Plain, QueueInLoop(t, m, f)
      PROVE  FIFO!Queue(m, f)
  <2>1. /\ begun' = begun /\ f \notin submitted
        /\ queued' = [queued EXCEPT ![m] = Append(queued[m], f)]
    BY <1>2 DEF QueueInLoop, Plain
  <2>2. ASSUME NEW l \in Loops
        PROVE  /\ \A i \in DOMAIN Owed(l) : Owed(l)[i] # f
               /\ \A i \in DOMAIN begun[l] : begun[l][i] # f
    <3>1. RecordedAt(l) /\ queued[l] \in Seq(Plain) /\ begun[l] \in Seq(Plain)
      BY HeldType DEF OrderInv
    <3>2. \A i \in DOMAIN begun[l] : begun[l][i] # f
      BY <2>1, <3>1 DEF RecordedAt
    <3>3. \A i \in 1..(Len(queued[l]) - Len(begun[l])) : Len(begun[l]) + i \in 1..Len(queued[l])
      BY <3>1
    <3>4. \A i \in DOMAIN Owed(l) : Owed(l)[i] # f
      BY <2>1, <3>1, <3>3 DEF RecordedAt, Owed
    <3> QED BY <3>2, <3>4
  <2>3. ASSUME NEW l \in Loops PROVE Owed(l)' = IF l = m THEN Append(Owed(l), f) ELSE Owed(l)
    <3>1. CASE l = m
      <4>1. queued'[l] = Append(queued[l], f)
        BY <2>1, <3>1 DEF TypeOK
      <4>2. queued[l] \in Seq(Plain) /\ Len(begun[l]) \in Nat /\ Len(begun[l]) <= Len(queued[l])
        BY HeldType DEF OrderInv, OrderAt, Tracks
      <4>3. Rest(Append(queued[l], f), Len(begun[l])) = Append(Rest(queued[l], Len(begun[l])), f)
        BY <4>2, OwedGrows
      <4>4. Owed(l) = Rest(queued[l], Len(begun[l])) /\ Owed(l)' = Rest(queued'[l], Len(begun'[l]))
        BY Zenon DEF Owed, Rest
      <4>5. begun'[l] = begun[l]
        BY <2>1
      <4>6. Owed(l)' = Append(Owed(l), f)
        BY <4>1, <4>3, <4>4, <4>5, Zenon
      <4> QED BY <3>1, <4>6
    <3>2. CASE l # m
      <4>1. queued'[l] = queued[l] /\ begun'[l] = begun[l]
        BY <2>1, <3>2 DEF TypeOK
      <4>2. Owed(l)' = Owed(l)
        BY <4>1, Zenon DEF Owed
      <4> QED BY <3>2, <4>2
    <3> QED BY <3>1, <3>2
  <2>4. O' = [O EXCEPT ![m] = Append(@, f)]
    <3>1. O' = [l \in Loops |-> IF l = m THEN Append(Owed(l), f) ELSE Owed(l)]
      BY <2>3
    <3> QED BY <3>1
  <2>5. FIFO!Fresh(f)
    BY <2>2 DEF FIFO!Fresh
  <2> QED BY <2>1, <2>4, <2>5 DEF FIFO!Queue
<1>3. ASSUME NEW m \in Loops, StartTask(m), Head(batch[m]) \in Plain
      PROVE  FIFO!Start(m)
  <2> DEFINE h == Head(batch[m])
  <2>1. /\ queued' = queued /\ begun' = [begun EXCEPT ![m] = Append(begun[m], h)]
    BY <1>3 DEF StartTask, Plain
  <2>2. Len(begun[m]) + 1 <= Len(queued[m]) /\ h = queued[m][Len(begun[m]) + 1]
    BY <1>3, OrderStarted DEF OrderInv
  <2>3. h \in Plain
    BY <1>3
  <2> HIDE DEF h
  <2>4. queued[m] \in Seq(Plain) /\ begun[m] \in Seq(Plain) /\ Len(begun[m]) \in Nat
    BY HeldType
  <2>5. Owed(m) = Rest(queued[m], Len(begun[m])) /\ Owed(m)' = Rest(queued'[m], Len(begun'[m]))
    BY Zenon DEF Owed, Rest
  <2>6. /\ Owed(m) # <<>> /\ Head(Owed(m)) = queued[m][Len(begun[m]) + 1]
        /\ Rest(queued[m], Len(begun[m]) + 1) = Tail(Owed(m))
    BY <2>2, <2>4, <2>5, OwedShrinks
  <2>7. begun'[m] = Append(begun[m], h)
    BY <2>1 DEF TypeOK
  <2>8. Len(begun'[m]) = Len(begun[m]) + 1
    BY <2>3, <2>4, <2>7
  <2>9. Owed(m)' = Tail(Owed(m))
    BY <2>1, <2>5, <2>6, <2>8, Zenon
  <2>10. ASSUME NEW l \in Loops, l # m PROVE Owed(l)' = Owed(l)
    <3>1. begun'[l] = begun[l] /\ queued'[l] = queued[l]
      BY <2>1, <2>10 DEF TypeOK
    <3> QED BY <3>1 DEF Owed
  <2>11. O' = [O EXCEPT ![m] = Tail(@)]
    <3>1. O' = [l \in Loops |-> IF l = m THEN Tail(Owed(l)) ELSE Owed(l)]
      BY <2>9, <2>10
    <3> QED BY <3>1
  <2>12. O[m] # <<>> /\ Head(O[m]) = h
    BY <2>2, <2>6
  <2>13. begun' = [begun EXCEPT ![m] = Append(@, Head(O[m]))]
    BY <2>1, <2>12
  <2> QED BY <2>11, <2>12, <2>13 DEF FIFO!Start
<1>4. CASE ~UNCHANGED <<queued, begun>>
  <2>1. Next
    BY <1>4 DEF vars
  <2>2. CASE \E t \in Threads, m \in Loops, f \in Plain : QueueInLoop(t, m, f)
    BY <1>2, <2>2 DEF FIFO!Next, Plain
  <2>3. CASE \E m \in Loops : StartTask(m) /\ Head(batch[m]) \in Plain
    BY <1>3, <2>3 DEF FIFO!Next
  <2> QED BY <1>4, <2>1, <2>2, <2>3, RecordingSteps
<1> QED BY <1>1, <1>4

\* Refinement: for any number of loops, threads and functors, what the loops do with the
\* functors without expected_cb is what the specification TaskQueue promises: each loop
\* starts them first in, first out, each once, whatever is redirected, rechecked or stopped
\* in between, and holds all it still owes (doPendingFunctors, queueInLoopMaybeRedir).
THEOREM ImplementsTaskQueue == Spec => RunsInOrder
<1>1. Init => FIFO!Init
  <2> SUFFICES ASSUME Init PROVE FIFO!Init
    OBVIOUS
  <2>1. ASSUME NEW l \in Loops PROVE Owed(l) = <<>>
    <3>1. queued[l] = <<>> /\ begun[l] = <<>>
      BY DEF Init
    <3>2. [i \in 1..(Len(<<>>) - Len(<<>>)) |-> <<>>[Len(<<>>) + i]] = <<>>
      OBVIOUS
    <3> QED BY <3>1, <3>2, Zenon DEF Owed
  <2> QED BY <2>1 DEF FIFO!Init, Init
<1>2. TypeOK /\ TypeOK' /\ OrderInv /\ [Next]_vars => [FIFO!Next]_(FIFO!queueVars)
  BY QueueStep
<1>3. TypeOK /\ OrderInv => HoldsWhatItOwes
  BY OwedIsHeld
<1> QED
  BY <1>1, <1>2, <1>3, TypeCorrect, OrderAlways, PTL DEF Spec, RunsInOrder, FIFO!Spec
=============================================================================
