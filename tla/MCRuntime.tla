------------------------------ MODULE MCRuntime ------------------------------
(* TLC instance of the parts under the client: the executors of common/ and   *)
(* the server side of network/.  They share no state, so one of them is       *)
(* chosen in the initial state and the others stand still.                    *)
EXTENDS ThreadPool, ThreadExecutor, CoroutineThread, EventLoopThreadPool, TcpServer, TcpOutput

VARIABLE part

execVars == <<tpVars, exVars, coVars>>
netVars == <<poolVars, srvVars, outVars>>
vars == <<part, execVars, netVars>>

Init ==
    /\ part \in {"threadpool", "executor", "coroutine", "looppool", "server", "output"}
    /\ TpInit /\ ExInit /\ CoInit /\ PoolInit /\ SrvInit /\ OutInit
    /\ part # "looppool" => thread_num_ = 1 /\ exitCheck = "none"
    /\ part # "server" => listen_ip_ports_ = {} /\ ioLoops = {}

InThreadPool(A) == part = "threadpool" /\ A /\ UNCHANGED <<part, exVars, coVars, netVars>>
InExecutor(A) == part = "executor" /\ A /\ UNCHANGED <<part, tpVars, coVars, netVars>>
InCoroutine(A) == part = "coroutine" /\ A /\ UNCHANGED <<part, tpVars, exVars, netVars>>
InLoopPool(A) == part = "looppool" /\ A /\ UNCHANGED <<part, execVars, srvVars, outVars>>
InServer(A) == part = "server" /\ A /\ UNCHANGED <<part, execVars, poolVars, outVars>>
InOutput(A) == part = "output" /\ A /\ UNCHANGED <<part, execVars, poolVars, srvVars>>

Next ==
    \/ InThreadPool(TpNext) \/ InExecutor(ExNext) \/ InCoroutine(CoNext)
    \/ InLoopPool(PoolNext) \/ InServer(SrvNext) \/ InOutput(OutNext)

\* Threads, loops and timers run; callers, peers and connections need not.
Fairness ==
    /\ \A p \in Putters : WF_vars(InThreadPool(PutLocked(p)))
    /\ \A w \in Workers : WF_vars(InThreadPool(LoopTest(w) \/ Take(w) \/ RunTask(w)))
    /\ WF_vars(InThreadPool(StopDrain)) /\ \A p \in Adders : WF_vars(InExecutor(TestCapacity(p) \/ Push(p)))
    /\ WF_vars(InExecutor(ExThread)) /\ WF_vars(InExecutor(ExJoined))
    /\ \A p \in CoPutters : WF_vars(InCoroutine(CoPush(p)))
    /\ WF_vars(InCoroutine(CoWork)) /\ WF_vars(InCoroutine(CoJoined))
    /\ WF_vars(InLoopPool(CheckLoop \/ CheckJoined)) /\ SF_vars(InLoopPool(TimerFires))
    /\ WF_vars(InLoopPool(PoolJoined)) /\ \A i \in Indexes : SF_vars(InLoopPool(PoolThreads(i)))
    /\ WF_vars(InServer(RunBaseFunctor \/ \E f \in Fds : StopVisits(f) \/ StopCloses(f)))
    /\ \A l \in IOLoops : WF_vars(InServer(RunIOFunctor(l))) /\ \A f \in Fds : WF_vars(InServer(DetachFromLoop(f)))

Spec == Init /\ [][Next]_vars /\ Fairness

\* The executors run what they accepted and nothing twice: the thread pool
\* within its limit and before stop() returns, the executor without sleeping
\* over a task, the coroutine thread on stacks that are still there.
ExecutorsAreSafe ==
    /\ TpTypeOK /\ QueueWithinLimit /\ StopRunsEarlierTasks
    /\ ExTypeOK /\ RunsAsAccepted /\ NoSleepOverTask /\ CapacityOverrun
    /\ CoTypeOK /\ EveryCoroutineIsAlive /\ StopWaitsForCoroutines

\* stop() returns in every executor; waiting for room ends in the thread pool, but
\* for a producer that stop() leaves waiting, and in the executor; a coroutine's
\* task that was accepted ends, if stop() does not come first.
ExecutorsFinish == PutReturns /\ TpStopReturns /\ ExPutReturns /\ ExStopReturns /\ CoTasksEnd

\* The server side over resizes, moves and closes: loops are picked among live
\* ones, join() leaves no thread, a connection is removed once, and the pool
\* is there as long as a connection is.
ServerSideIsSafe ==
    /\ PoolTypeOK /\ PicksLiveLoops /\ JoinLeavesNoThread
    /\ SrvTypeOK /\ RemovedOnce /\ PoolOutlivesConnections /\ MovingIsCounted

\* A resize gives its lock back and ends, and so does a stop of the server.
ServerSideFinishes == ResizeReturns /\ ShrinkCompletes /\ StopCompletes
=============================================================================
