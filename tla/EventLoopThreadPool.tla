------------------------- MODULE EventLoopThreadPool -------------------------
(* network::EventLoopThreadPool: the loop threads of a server, its rw_lock_,  *)
(* and a resize that stops threads one by one, now and in timers on the base  *)
(* loop.  A thread's functors are abstracted to one that calls back into the  *)
(* pool and so needs the read lock.                                           *)
EXTENDS Integers, FiniteSets

CONSTANTS MAX_THREAD_POOL_SIZE, MaxPoolCalls

ASSUME ThreadPoolSizeAssumption == MAX_THREAD_POOL_SIZE \in Nat \ {0} /\ MaxPoolCalls \in Nat

VARIABLES
    poolStopped,             \* stopped_
    thread_num_, available_thread_num_,
    thread,    \* index -> "none", "running", "stopping" or "exited": threads_ and loops_
    functor,   \* index -> "none", "queued" or "lock" (it runs and wants the read lock)
    writer,    \* holder of the write lock: "none", "check" (checkAndStopLoopThread),
               \* "join" (it waits for a thread), "start"
    idx,       \* i of the loop in checkAndStopLoopThread
    poolTimers,\* timers armed on the base loop
    moving,    \* NetworkStat::getMovingTcpConnCount() > 0
    exitCheck, \* the check the user set: "idle", "always" or "none"
    joiner,    \* the thread in join(): "none", "joining" or "returned"
    poolCalls, \* calls made so far, up to MaxPoolCalls
    misuse,    \* calls the pool does not expect: resize() of a pool that is not running
               \* ("stopped") or to "zero", start() after stop() without join() ("unjoined")
    poolCrash

poolVars == <<poolStopped, thread_num_, available_thread_num_, thread, functor, writer, idx, poolTimers,
              moving, exitCheck, joiner, poolCalls, misuse, poolCrash>>
Indexes == 0 .. MAX_THREAD_POOL_SIZE - 1

PoolInit ==
    /\ poolStopped = TRUE /\ thread_num_ \in 1 .. MAX_THREAD_POOL_SIZE /\ available_thread_num_ = thread_num_
    /\ thread = [i \in Indexes |-> "none"] /\ functor = [i \in Indexes |-> "none"]
    /\ writer = "none" /\ idx = 0 /\ poolTimers = 0 /\ moving = FALSE
    /\ exitCheck \in {"idle", "always", "none"}
    /\ joiner = "none" /\ poolCalls = 0 /\ misuse = {} /\ poolCrash = FALSE

Called == poolCalls < MaxPoolCalls /\ poolCalls' = poolCalls + 1
CanLock == writer = "none" /\ ~poolCrash
\* createLoopThread() for the indexes of S.
CreateLoopThreads(S) == thread' = [i \in Indexes |-> IF i \in S THEN "running" ELSE thread[i]]

(***************************************************************************)
(* start(), stop() and join()                                               *)
(***************************************************************************)
PoolStart ==
    /\ Called /\ CanLock /\ joiner # "joining" /\ poolStopped /\ joiner' = "none"
    /\ IF \E i \in Indexes : thread[i] # "none"     \* runtimeAssert(threads_.empty())
       THEN poolCrash' = TRUE /\ misuse' = misuse \cup {"unjoined"} /\ UNCHANGED <<poolStopped, thread>>
       ELSE /\ poolStopped' = FALSE /\ CreateLoopThreads(0 .. thread_num_ - 1)
            /\ UNCHANGED <<poolCrash, misuse>>
    /\ UNCHANGED <<thread_num_, available_thread_num_, functor, writer, idx, poolTimers, moving, exitCheck>>

PoolStop ==
    /\ Called /\ CanLock
    /\ thread' = IF poolStopped THEN thread
                 ELSE [i \in Indexes |-> IF thread[i] = "running" THEN "stopping" ELSE thread[i]]
    /\ poolStopped' = TRUE /\ thread_num_' = 0 /\ available_thread_num_' = 0
    /\ UNCHANGED <<functor, writer, idx, poolTimers, moving, exitCheck, joiner, misuse, poolCrash>>

\* join() holds the read lock until the last thread has exited; the callers
\* (the destructor, TcpServer) call it after stop().
PoolJoin ==
    /\ Called /\ CanLock /\ poolStopped /\ joiner # "joining" /\ joiner' = "joining"
    /\ UNCHANGED <<poolStopped, thread_num_, available_thread_num_, thread, functor, writer, idx, poolTimers,
                   moving, exitCheck, misuse, poolCrash>>

PoolJoined ==
    /\ joiner = "joining" /\ \A i \in Indexes : thread[i] \in {"none", "exited"}
    /\ joiner' = "returned" /\ thread' = [i \in Indexes |-> "none"]
    /\ UNCHANGED <<poolStopped, thread_num_, available_thread_num_, functor, writer, idx, poolTimers, moving,
                   exitCheck, poolCalls, misuse, poolCrash>>

(***************************************************************************)
(* resizeThreadPoolSize() and checkAndStopLoopThread()                      *)
(***************************************************************************)
\* checkAndStopLoopThread() with n loops to keep and this many other timers:
\* the moving connections are counted once, and what is left is tried again.
BeginCheck(n, others) ==
    IF n < thread_num_ /\ ~moving
    THEN writer' = "check" /\ idx' = thread_num_ - 1 /\ poolTimers' = others
    ELSE poolTimers' = (IF n # thread_num_ THEN others + 1 ELSE others) /\ UNCHANGED <<writer, idx>>

Resize(n) ==
    /\ Called /\ CanLock /\ joiner # "joining" /\ n <= MAX_THREAD_POOL_SIZE
    /\ misuse' = misuse \cup (IF poolStopped THEN {"stopped"} ELSE {}) \cup (IF n = 0 THEN {"zero"} ELSE {})
    /\ available_thread_num_' = n
    /\ IF n > thread_num_
       THEN CreateLoopThreads(thread_num_ .. n - 1) /\ thread_num_' = n /\ UNCHANGED <<writer, idx, poolTimers>>
       ELSE BeginCheck(n, poolTimers) /\ UNCHANGED <<thread, thread_num_>>
    /\ UNCHANGED <<poolStopped, functor, moving, exitCheck, joiner, poolCrash>>

TimerFires ==
    /\ poolTimers > 0 /\ CanLock /\ joiner # "joining" /\ BeginCheck(available_thread_num_, poolTimers - 1)
    /\ UNCHANGED <<poolStopped, thread_num_, available_thread_num_, thread, functor, moving, exitCheck, joiner,
                   poolCalls, misuse, poolCrash>>

\* thread_exit_check_callback_: "idle" is a check of hasPendingTask().
MayExit(i) == exitCheck = "always" \/ (exitCheck = "idle" /\ functor[i] = "none")

\* Mutant of EndCheck: there is no second try.
EndCheckForGood(n) == thread_num_' = n /\ writer' = "none" /\ UNCHANGED poolTimers

\* The end of checkAndStopLoopThread(): thread_num_ becomes n, and what is
\* left is tried again in a second.
EndCheck(n) ==
    /\ thread_num_' = n /\ writer' = "none"
    /\ poolTimers' = IF available_thread_num_ # n THEN poolTimers + 1 ELSE poolTimers

\* One test of the for loop.  i is unsigned: i >= available_thread_num_ always
\* holds when that is 0, and i then indexes loops_ out of range.  On a pool
\* that is not running, loops_ is empty or holds null pointers.
CheckLoop ==
    /\ writer = "check" /\ ~poolCrash
    /\ IF idx >= available_thread_num_ \/ available_thread_num_ = 0
       THEN IF idx < 0 \/ thread[idx] # "running"
            THEN /\ IF exitCheck = "none" THEN EndCheck(idx + 1) /\ UNCHANGED poolCrash
                    ELSE poolCrash' = TRUE /\ UNCHANGED <<writer, thread_num_, poolTimers>>
                 /\ UNCHANGED thread
            ELSE /\ IF MayExit(idx)
                    THEN thread' = [thread EXCEPT ![idx] = "stopping"] /\ writer' = "join" /\ UNCHANGED <<thread_num_, poolTimers>>
                    ELSE EndCheck(idx + 1) /\ UNCHANGED thread
                 /\ UNCHANGED poolCrash
       ELSE EndCheck(idx + 1) /\ UNCHANGED <<thread, poolCrash>>
    /\ UNCHANGED <<poolStopped, available_thread_num_, functor, idx, moving, exitCheck, joiner, poolCalls, misuse>>

\* threads_[i]->join() inside the loop, under the write lock.
CheckJoined ==
    /\ writer = "join" /\ thread[idx] = "exited"
    /\ thread' = [thread EXCEPT ![idx] = "none"] /\ writer' = "check" /\ idx' = idx - 1
    /\ UNCHANGED <<poolStopped, thread_num_, available_thread_num_, functor, poolTimers, moving, exitCheck, joiner,
                   poolCalls, misuse, poolCrash>>

(***************************************************************************)
(* The loop threads, and the calls that give them functors.                 *)
(***************************************************************************)
\* runInNextlLoop() and runInLoopByHash() reach the indexes below
\* available_thread_num_, runInRandomLoop(), runInAllLoop(), queueInAllLoop()
\* and runInChoosedLoop() those below thread_num_.
Reachable(all) == IF poolStopped THEN {} ELSE 0 .. (IF all THEN thread_num_ ELSE available_thread_num_) - 1

RunIn(S) ==
    IF \A i \in S : thread[i] = "running"
    THEN functor' = [i \in Indexes |-> IF i \in S /\ functor[i] = "none" THEN "queued" ELSE functor[i]] /\ UNCHANGED poolCrash
    ELSE poolCrash' = TRUE /\ UNCHANGED functor          \* a null loops_[i]

RunInOneLoop(all) ==
    /\ Called /\ CanLock /\ \E i \in Reachable(all) : RunIn({i})
    /\ UNCHANGED <<poolStopped, thread_num_, available_thread_num_, thread, writer, idx, poolTimers, moving,
                   exitCheck, joiner, misuse>>

RunInAllLoop ==
    /\ Called /\ CanLock /\ Reachable(TRUE) # {} /\ RunIn(Reachable(TRUE))
    /\ UNCHANGED <<poolStopped, thread_num_, available_thread_num_, thread, writer, idx, poolTimers, moving,
                   exitCheck, joiner, misuse>>

FunctorStarts(i) ==
    /\ functor[i] = "queued" /\ thread[i] \in {"running", "stopping"} /\ functor' = [functor EXCEPT ![i] = "lock"]
    /\ UNCHANGED <<poolStopped, thread_num_, available_thread_num_, thread, writer, idx, poolTimers, moving,
                   exitCheck, joiner, poolCalls, misuse, poolCrash>>

\* The functor gets the read lock and ends.
FunctorEnds(i) ==
    /\ functor[i] = "lock" /\ CanLock /\ functor' = [functor EXCEPT ![i] = "none"]
    /\ UNCHANGED <<poolStopped, thread_num_, available_thread_num_, thread, writer, idx, poolTimers, moving,
                   exitCheck, joiner, poolCalls, misuse, poolCrash>>

\* A stopped loop runs what was queued before and then leaves.
ThreadExits(i) ==
    /\ thread[i] = "stopping" /\ functor[i] = "none" /\ thread' = [thread EXCEPT ![i] = "exited"]
    /\ UNCHANGED <<poolStopped, thread_num_, available_thread_num_, functor, writer, idx, poolTimers, moving,
                   exitCheck, joiner, poolCalls, misuse, poolCrash>>

\* A connection begins or ends its move between two loops.
Moves ==
    /\ Called /\ moving' = ~moving
    /\ UNCHANGED <<poolStopped, thread_num_, available_thread_num_, thread, functor, writer, idx, poolTimers,
                   exitCheck, joiner, misuse, poolCrash>>

PoolThreads(i) == FunctorStarts(i) \/ FunctorEnds(i) \/ ThreadExits(i)
PoolNext ==
    \/ PoolStart \/ PoolStop \/ PoolJoin \/ PoolJoined \/ TimerFires \/ CheckLoop \/ CheckJoined \/ Moves
    \/ \E n \in 0 .. MAX_THREAD_POOL_SIZE : Resize(n)
    \/ \E all \in BOOLEAN : RunInOneLoop(all)
    \/ RunInAllLoop \/ \E i \in Indexes : PoolThreads(i)

(***************************************************************************)
(* Properties                                                               *)
(***************************************************************************)
PoolTypeOK ==
    /\ thread \in [Indexes -> {"none", "running", "stopping", "exited"}]
    /\ functor \in [Indexes -> {"none", "queued", "lock"}] /\ idx \in -1 .. MAX_THREAD_POOL_SIZE - 1
    /\ writer \in {"none", "check", "join"} /\ poolTimers \in 0 .. MaxPoolCalls + 1
    /\ available_thread_num_ \in 0 .. thread_num_ /\ thread_num_ \in 0 .. MAX_THREAD_POOL_SIZE

\* However resizes, their timers and the loops' functors interleave, every
\* index the pool may pick names a running loop, and no check reads loops_ out
\* of range: but for a resize to 0 or of a pool that is not running, and a
\* start() after a stop() without join().
PicksLiveLoops ==
    misuse = {} => /\ ~poolCrash
                   /\ ~poolStopped /\ writer = "none" => \A i \in 0 .. thread_num_ - 1 : thread[i] = "running"

\* When join() has returned, no loop thread is left behind.
JoinLeavesNoThread == misuse = {} /\ joiner = "returned" /\ poolStopped => \A i \in Indexes : thread[i] = "none"

\* A resize gives the write lock back, unless the exit check lets a thread go
\* whose functor waits for the lock (hazard at EventLoopThreadPool.cpp:136).
ResizeReturns == exitCheck # "always" => (writer # "none" ~> writer = "none" \/ poolCrash)

\* With a check for idle threads the pool shrinks to the size asked for, once
\* no connection is moving.
ShrinkCompletes ==
    exitCheck = "idle" => (available_thread_num_ < thread_num_ ~> available_thread_num_ = thread_num_ \/ moving \/ poolCrash \/ joiner = "joining")
=============================================================================
