--------------------------- MODULE EventLoopThread ---------------------------
(***************************************************************************)
(* A thread that owns an EventLoop (src/network/EventLoopThread.cpp).  The *)
(* loop is a local variable of the thread's run(): loop_ points to it from *)
(* the moment it may be used until just before it is destroyed, and mutex_ *)
(* protects that pointer.  The module is about the hand-shake of start()   *)
(* with the new thread and about stop() and join() racing with both ends   *)
(* of the loop's life.                                                     *)
(*                                                                         *)
(* EventLoop::run and EventLoop::stop are modelled as far as this class    *)
(* sees them: stopped_ and the FIFO of functors (modules EventLoop and     *)
(* TaskQueue say why a FIFO).                                              *)
(***************************************************************************)
EXTENDS Sequences, TLAPS

CONSTANTS
    Main,        \* the thread that creates, starts and joins the object
    Others,      \* other threads that may call stop()
    LoopThread,  \* the thread that start() creates
    Nobody       \* mutex_ is free

ASSUME ThreadAssumption ==
    /\ Main \notin Others /\ LoopThread \notin Others \cup {Main}
    /\ Nobody \notin Others \cup {Main, LoopThread}

Threads == Others \cup {Main, LoopThread}

VARIABLES
    stopped,      \* EventLoopThread::stopped_
    mutex,        \* who holds mutex_
    loopPtr,      \* loop_ is not null
    life,         \* the EventLoop object itself
    loopStopped,  \* EventLoop::stopped_
    queue,        \* its functors: "notify" and those of EventLoop::stop()
    exitReq,      \* event_base_loopexit() was called
    run,          \* where the new thread is in EventLoopThread::run
    pc            \* where each thread is in start(), stop(), join()

objVars == <<stopped, mutex, loopPtr>>
loopVars == <<life, loopStopped, queue, exitReq>>
vars == <<stopped, mutex, loopPtr, life, loopStopped, queue, exitReq, run, pc>>

RunPoints == {"none", "publish", "queueNotify", "run", "poll", "unpublish",
              "destroy", "done"}

\* "await": about to test loop_ in start(); "waiting": in cond_.wait; "idle": in no
\* call; then the steps of stop() and of join().
CallPoints == {"fresh", "await", "waiting", "idle", "stopFlag", "stopLock", "loopTest",
               "loopSet", "loopPush", "joining", "joined"}

TypeOK ==
    /\ stopped \in BOOLEAN
    /\ mutex \in Threads \cup {Nobody}
    /\ loopPtr \in BOOLEAN
    /\ life \in {"none", "alive", "destroyed"}
    /\ loopStopped \in BOOLEAN
    /\ queue \in Seq({"notify", "stop"})
    /\ exitReq \in BOOLEAN
    /\ run \in RunPoints
    /\ pc \in [Threads -> CallPoints]

Init ==
    /\ stopped = TRUE
    /\ mutex = Nobody
    /\ loopPtr = FALSE
    /\ life = "none"
    /\ loopStopped = TRUE
    /\ queue = <<>>
    /\ exitReq = FALSE
    /\ run = "none"
    /\ pc = [t \in Threads |-> IF t = Main THEN "fresh" ELSE "idle"]

At(t, p) == pc[t] = p
GoTo(t, p) == pc' = [pc EXCEPT ![t] = p]
Free == mutex = Nobody

-----------------------------------------------------------------------------
\* start(), by Main.

\* stopped_ = false and the thread is created; its run() constructs the loop.
Start ==
    /\ At(Main, "fresh")
    /\ stopped' = FALSE
    /\ life' = "alive"
    /\ run' = "publish"
    /\ GoTo(Main, "await")
    /\ UNCHANGED <<mutex, loopPtr, loopStopped, queue, exitReq>>

\* `while (!loop_) cond_.wait(lock)`.
AwaitLoop ==
    /\ At(Main, "await")
    /\ Free
    /\ GoTo(Main, IF loopPtr THEN "idle" ELSE "waiting")
    /\ UNCHANGED <<objVars, loopVars, run>>

\* cond_.wait may return without a notification.
SpuriousWakeUp ==
    /\ At(Main, "waiting")
    /\ GoTo(Main, "await")
    /\ UNCHANGED <<objVars, loopVars, run>>

-----------------------------------------------------------------------------
\* stop(), by any thread, a functor or timer of the loop included.

\* The program calls stop() on an object whose start() has returned: code on the
\* loop's thread gets there through loop(), too.
Started == pc[Main] \notin {"fresh", "await", "waiting"}
MayStop(t) ==
    /\ At(t, "idle")
    /\ t = LoopThread => run = "poll"
    /\ Started

\* `if (!stopped_)`.
Stop(t) ==
    /\ MayStop(t)
    /\ ~stopped
    /\ GoTo(t, "stopFlag")
    /\ UNCHANGED <<objVars, loopVars, run>>

\* `stopped_ = true`.
StopFlag(t) ==
    /\ At(t, "stopFlag")
    /\ stopped' = TRUE
    /\ GoTo(t, "stopLock")
    /\ UNCHANGED <<mutex, loopPtr, loopVars, run>>

\* LockGuard lock(mutex_); if (loop_) loop_->stop().
StopLock(t) ==
    /\ At(t, "stopLock")
    /\ Free
    /\ IF loopPtr THEN mutex' = t /\ GoTo(t, "loopTest")
                  ELSE mutex' = Nobody /\ GoTo(t, "idle")
    /\ UNCHANGED <<stopped, loopPtr, loopVars, run>>

\* EventLoop::stop(), `if (!stopped_)`: on a loop whose run() has not begun it does
\* nothing, and the lock is released.
LoopTest(t) ==
    /\ At(t, "loopTest")
    /\ IF loopStopped THEN mutex' = Nobody /\ GoTo(t, "idle")
                      ELSE mutex' = mutex /\ GoTo(t, "loopSet")
    /\ UNCHANGED <<stopped, loopPtr, loopVars, run>>

\* EventLoop::stop(), `stopped_ = true`; stopInLoop() at once on the loop's thread.
LoopSet(t) ==
    /\ At(t, "loopSet")
    /\ loopStopped' = TRUE
    /\ IF t = LoopThread
       THEN exitReq' = TRUE /\ mutex' = Nobody /\ GoTo(t, "idle")
       ELSE GoTo(t, "loopPush") /\ UNCHANGED <<exitReq, mutex>>
    /\ UNCHANGED <<stopped, loopPtr, life, queue, run>>

\* Mutant of LoopPush: stopInLoop() is not queued.
LoopPushNothing(t) ==
    /\ At(t, "loopPush")
    /\ mutex' = Nobody
    /\ GoTo(t, "idle")
    /\ UNCHANGED <<stopped, loopPtr, loopVars, run>>

\* EventLoop::stop() queues stopInLoop(); the lock is released.
LoopPush(t) ==
    /\ At(t, "loopPush")
    /\ queue' = Append(queue, "stop")
    /\ mutex' = Nobody
    /\ GoTo(t, "idle")
    /\ UNCHANGED <<stopped, loopPtr, life, loopStopped, exitReq, run>>

-----------------------------------------------------------------------------
\* join(), by Main.
Join ==
    /\ At(Main, "idle")
    /\ GoTo(Main, "joining")
    /\ UNCHANGED <<objVars, loopVars, run>>

JoinReturns ==
    /\ At(Main, "joining")
    /\ run = "done"
    /\ GoTo(Main, "joined")
    /\ UNCHANGED <<objVars, loopVars, run>>

-----------------------------------------------------------------------------
\* EventLoopThread::run, by the new thread.

Running(p) == run = p /\ At(LoopThread, "idle")

\* loop_ = &loop, under the lock.
Publish ==
    /\ Running("publish")
    /\ Free
    /\ loopPtr' = TRUE
    /\ run' = "queueNotify"
    /\ UNCHANGED <<stopped, mutex, loopVars, pc>>

\* Mutant of QueueNotify: the waiting start() is not notified.
QueueNoNotify ==
    /\ Running("queueNotify")
    /\ run' = "run"
    /\ UNCHANGED <<objVars, loopVars, pc>>

\* loop.queueInLoop(notify).
QueueNotify ==
    /\ Running("queueNotify")
    /\ queue' = Append(queue, "notify")
    /\ run' = "run"
    /\ UNCHANGED <<objVars, life, loopStopped, exitReq, pc>>

\* EventLoop::run, `stopped_ = false`, and on to the dispatcher.
RunLoop ==
    /\ Running("run")
    /\ loopStopped' = FALSE
    /\ run' = "poll"
    /\ UNCHANGED <<objVars, life, queue, exitReq, pc>>

\* The functor that takes the lock and wakes a waiting start().
RunNotify ==
    /\ Running("poll")
    /\ queue # <<>> /\ Head(queue) = "notify"
    /\ Free
    /\ queue' = Tail(queue)
    /\ pc' = IF At(Main, "waiting") THEN [pc EXCEPT ![Main] = "await"] ELSE pc
    /\ UNCHANGED <<objVars, life, loopStopped, exitReq, run>>

\* The functor of EventLoop::stop().
RunStop ==
    /\ Running("poll")
    /\ queue # <<>> /\ Head(queue) = "stop"
    /\ queue' = Tail(queue)
    /\ exitReq' = TRUE
    /\ UNCHANGED <<objVars, life, loopStopped, run, pc>>

\* EventLoop::run returns once it has run what is queued.
RunReturns ==
    /\ Running("poll")
    /\ exitReq /\ queue = <<>>
    /\ run' = "unpublish"
    /\ UNCHANGED <<objVars, loopVars, pc>>

\* Mutant of Unpublish: loop_ is reset without the lock.
UnpublishUnlocked ==
    /\ Running("unpublish")
    /\ loopPtr' = FALSE
    /\ run' = "destroy"
    /\ UNCHANGED <<stopped, mutex, loopVars, pc>>

\* loop_ = nullptr, under the lock.
Unpublish ==
    /\ Running("unpublish")
    /\ Free
    /\ loopPtr' = FALSE
    /\ run' = "destroy"
    /\ UNCHANGED <<stopped, mutex, loopVars, pc>>

\* run() returns after the destroy callback: the loop is destroyed, the thread ends.
DestroyLoop ==
    /\ Running("destroy")
    /\ life' = "destroyed"
    /\ run' = "done"
    /\ UNCHANGED <<objVars, loopStopped, queue, exitReq, pc>>

-----------------------------------------------------------------------------
StopStep(t) == StopFlag(t) \/ StopLock(t) \/ LoopTest(t) \/ LoopSet(t) \/ LoopPush(t)

RunStep ==
    \/ Publish
    \/ QueueNotify
    \/ RunLoop
    \/ RunNotify
    \/ RunStop
    \/ RunReturns
    \/ Unpublish
    \/ DestroyLoop

Next ==
    \/ Start \/ AwaitLoop \/ SpuriousWakeUp
    \/ \E t \in Threads : Stop(t) \/ StopStep(t)
    \/ Join \/ JoinReturns
    \/ RunStep

Spec == Init /\ [][Next]_vars

\* Threads do not stop inside a call; mutex_ is granted to a thread that keeps
\* asking for it (strong fairness: others may hold it in between); the dispatcher
\* serves its queue.  Nothing forces a call of stop() or a spurious wake-up.
Fairness ==
    /\ SF_vars(AwaitLoop) /\ SF_vars(RunStep) /\ WF_vars(JoinReturns)
    /\ \A t \in Threads : SF_vars(StopStep(t))

FairSpec == Spec /\ Fairness

-----------------------------------------------------------------------------
(* Correctness *)

\* stop() never calls into a loop that its thread has destroyed: whoever has seen
\* loop_ set under mutex_ keeps the thread from leaving run() until it is done with
\* the loop, even when two threads passed `if (!stopped_)` together.
LoopOutlivesStop ==
    \A t \in Threads : pc[t] \in {"loopTest", "loopSet", "loopPush"} => life = "alive"

\* start() returns: the wake-up queued before the loop runs is not lost on a thread
\* that went to sleep before or after loop_ was published.
StartReturns == At(Main, "await") ~> Started

\* Once stop() has marked the loop stopped, the thread ends.
StopEndsThread == (\E t \in Threads : pc[t] = "loopSet") ~> run = "done"

\* join() after stop() returns: resizing a pool right after it grew
\* (EventLoopThreadPool::checkAndStopLoopThread) does not hang.
JoinAfterStopReturns == (At(Main, "joining") /\ stopped) ~> At(Main, "joined")

(***************************************************************************)
(* Proof that stop() never touches a destroyed EventLoop, for any number   *)
(* of threads that call it.  Only the parts of the state the argument      *)
(* needs are typed: who holds mutex_ and where the threads are.            *)
(***************************************************************************)
InLoopStop == {"loopTest", "loopSet", "loopPush"}

PcType == pc \in [Threads -> CallPoints] /\ mutex \in Threads \cup {Nobody}

\* The protocol behind LoopOutlivesStop: a thread inside EventLoop::stop holds mutex_
\* and saw loop_ set; loop_ is set only while the loop is alive, and reset under the
\* lock before the thread may destroy it.
LoopInv ==
    /\ PcType
    /\ \A t \in Threads : pc[t] \in InLoopStop => mutex = t /\ loopPtr
    /\ loopPtr => life = "alive" /\ run \notin {"none", "publish", "destroy", "done"}
    /\ run \notin {"none", "done"} => life = "alive"
    /\ pc[Main] = "fresh" => run = "none"

\* The initial state: no thread is inside stop() and there is no loop.
LEMMA LoopInvInit == Init => LoopInv
BY ThreadAssumption DEF Init, LoopInv, PcType, InLoopStop, CallPoints, Threads

\* Every step of start(), stop(), join() and run() preserves the protocol.
LEMMA LoopInvStep == LoopInv /\ [Next]_vars => LoopInv'
<1> SUFFICES ASSUME LoopInv, [Next]_vars PROVE LoopInv'
  OBVIOUS
<1> USE ThreadAssumption DEF LoopInv, PcType, InLoopStop, At, GoTo, Free
<1>1. CASE Start
  BY <1>1 DEF Start, CallPoints, Threads
<1>2. CASE AwaitLoop
  BY <1>2 DEF AwaitLoop, CallPoints, Threads, objVars, loopVars
<1>3. CASE SpuriousWakeUp
  BY <1>3 DEF SpuriousWakeUp, CallPoints, Threads, objVars, loopVars
<1>4. ASSUME NEW t \in Threads, Stop(t) \/ StopStep(t) PROVE LoopInv'
  <2>1. CASE Stop(t)
    BY <2>1 DEF Stop, MayStop, CallPoints, objVars, loopVars
  <2>2. CASE StopFlag(t)
    BY <2>2 DEF StopFlag, CallPoints, loopVars
  <2>3. CASE StopLock(t)
    BY <2>3 DEF StopLock, CallPoints, loopVars, Threads
  <2>4. CASE LoopTest(t)
    BY <2>4 DEF LoopTest, CallPoints, loopVars, Threads
  <2>5. CASE LoopSet(t)
    BY <2>5 DEF LoopSet, CallPoints, Threads
  <2>6. CASE LoopPush(t)
    BY <2>6 DEF LoopPush, CallPoints, Threads
  <2> QED BY <1>4, <2>1, <2>2, <2>3, <2>4, <2>5, <2>6 DEF StopStep
<1>5. CASE Join \/ JoinReturns
  BY <1>5 DEF Join, JoinReturns, CallPoints, Threads, objVars, loopVars
<1>6. CASE RunStep
  <2> USE DEF Running, objVars, loopVars, Threads
  <2>1. CASE Publish
    BY <2>1 DEF Publish
  <2>2. CASE QueueNotify
    BY <2>2 DEF QueueNotify
  <2>3. CASE RunLoop
    BY <2>3 DEF RunLoop
  <2>4. CASE RunNotify
    BY <2>4 DEF RunNotify, CallPoints
  <2>5. CASE RunStop
    BY <2>5 DEF RunStop
  <2>6. CASE RunReturns
    BY <2>6 DEF RunReturns
  <2>7. CASE Unpublish
    BY <2>7 DEF Unpublish
  <2>8. CASE DestroyLoop
    BY <2>8 DEF DestroyLoop
  <2> QED BY <1>6, <2>1, <2>2, <2>3, <2>4, <2>5, <2>6, <2>7, <2>8 DEF RunStep
<1>7. CASE UNCHANGED vars
  BY <1>7 DEF vars
<1> QED BY <1>1, <1>2, <1>3, <1>4, <1>5, <1>6, <1>7 DEF Next

\* stop() never calls into a loop that its thread has destroyed, however many threads
\* call it and wherever the loop's thread is (EventLoopThread::stop and ::run).
THEOREM StopIsSafe == Spec => []LoopOutlivesStop
<1>1. LoopInv => LoopOutlivesStop
  BY DEF LoopInv, LoopOutlivesStop, InLoopStop
<1> QED BY LoopInvInit, LoopInvStep, <1>1, PTL DEF Spec
=============================================================================
