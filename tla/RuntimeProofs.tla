---------------------------- MODULE RuntimeProofs ----------------------------
(* The threads and connections around a client, for any number of them and     *)
(* any interleaving.  The server side of network/: the loops of                *)
(* EventLoopThreadPool, the life of TcpServer's connections and the bytes of   *)
(* TcpConnection's output.  The executors of common/: ThreadPool,              *)
(* ThreadExecutor and CoroutineThread keep what they accept.                   *)
EXTENDS MCRuntime, SequenceTheorems, FiniteSetTheorems, TLAPS

(***************************************************************************)
(* EventLoopThreadPool                                                     *)
(***************************************************************************)
\* The numbers of the pool, and the place of a check in the indexes it may still stop.
PoolNumbers ==
    /\ thread \in [Indexes -> {"none", "running", "stopping", "exited"}]
    /\ functor \in [Indexes -> {"none", "queued", "lock"}]
    /\ idx \in Int /\ writer \in {"none", "check", "join"}
    /\ poolTimers \in Nat /\ poolCalls \in Nat
    /\ poolCalls <= MaxPoolCalls /\ poolTimers + (IF writer = "none" THEN 0 ELSE 1) <= poolCalls
    /\ available_thread_num_ \in Nat /\ thread_num_ \in Nat
    /\ available_thread_num_ <= thread_num_ /\ thread_num_ <= MAX_THREAD_POOL_SIZE
    /\ idx >= -1 /\ idx < MAX_THREAD_POOL_SIZE
    /\ writer # "none" => /\ idx < thread_num_ /\ available_thread_num_ <= idx + 1
                          /\ available_thread_num_ < thread_num_
    /\ writer = "join" => available_thread_num_ <= idx /\ idx >= 0

\* Without misuse: the loops a check has not passed yet are running; a pool that is not
\* running has nothing to stop; only a stopped pool is joined.
PoolLoops ==
    /\ poolStopped \in BOOLEAN /\ poolCrash \in BOOLEAN
    /\ joiner # "none" => poolStopped
    /\ misuse = {} =>
          /\ ~poolCrash
          /\ ~poolStopped => \A i \in Indexes : i < (CASE writer = "none" -> thread_num_
                                                       [] writer = "check" -> idx + 1
                                                       [] writer = "join" -> idx) => thread[i] = "running"
          /\ poolStopped => available_thread_num_ = thread_num_ /\ writer # "join"
          /\ poolStopped /\ writer = "check" => idx = thread_num_ - 1
          /\ available_thread_num_ = 0 => thread_num_ = 0
          /\ joiner = "returned" => \A i \in Indexes : thread[i] = "none"

PoolInv == PoolNumbers /\ PoolLoops

\* A pool not yet started satisfies its inductive invariant.
LEMMA PoolBegins == PoolInit => PoolInv
<1> SUFFICES ASSUME PoolInit PROVE PoolInv
  OBVIOUS
<1>1. PoolNumbers
  BY ThreadPoolSizeAssumption DEF PoolInit, PoolNumbers
<1>2. PoolLoops
  BY ThreadPoolSizeAssumption DEF PoolInit, PoolLoops
<1> QED BY <1>1, <1>2 DEF PoolInv

\* The invariant implies the safety properties of EventLoopThreadPool.
LEMMA PoolImplies ==
    ASSUME PoolInv
    PROVE  PoolTypeOK /\ PicksLiveLoops /\ JoinLeavesNoThread
<1>1. PoolTypeOK
  BY ThreadPoolSizeAssumption DEF PoolInv, PoolNumbers, PoolTypeOK
<1>2. PicksLiveLoops
  <2> SUFFICES ASSUME misuse = {} PROVE ~poolCrash /\ (~poolStopped /\ writer = "none" => \A i \in 0 .. thread_num_ - 1 : thread[i] = "running")
    BY DEF PicksLiveLoops
  <2>1. \A i \in 0 .. thread_num_ - 1 : i \in Indexes /\ i < thread_num_
    BY ThreadPoolSizeAssumption DEF PoolInv, PoolNumbers, Indexes
  <2> QED BY <2>1 DEF PoolInv, PoolLoops
<1>3. JoinLeavesNoThread
  BY DEF PoolInv, PoolLoops, JoinLeavesNoThread
<1> QED BY <1>1, <1>2, <1>3

\* The counters of the pool stay in range and in step with its threads.
LEMMA PoolNumbersStep ==
    ASSUME PoolNumbers, PoolNext \/ UNCHANGED poolVars
    PROVE  PoolNumbers'
<1> USE ThreadPoolSizeAssumption DEF PoolNumbers
<1>1. CASE PoolStart
  <2>1. Called /\ UNCHANGED <<thread_num_, available_thread_num_, functor, writer, idx, poolTimers>>
    BY <1>1 DEF PoolStart
  <2>2. thread' \in [Indexes -> {"none", "running", "stopping", "exited"}]
    BY <1>1 DEF PoolStart, CreateLoopThreads
  <2> QED BY <2>1, <2>2 DEF Called
<1>2. CASE PoolStop
  BY <1>2 DEF PoolStop, Called, CanLock
<1>3. CASE PoolJoin
  BY <1>3 DEF PoolJoin, Called
<1>4. CASE PoolJoined
  BY <1>4 DEF PoolJoined
<1>5. CASE TimerFires
  BY <1>5 DEF TimerFires, CanLock, BeginCheck
<1>6. ASSUME CheckLoop PROVE PoolNumbers'
  <2>1. /\ UNCHANGED <<available_thread_num_, functor, idx, poolCalls>> /\ writer = "check"
    BY <1>6 DEF CheckLoop
  <2>2. CASE EndCheck(idx + 1) /\ UNCHANGED thread
    BY <2>1, <2>2 DEF EndCheck
  <2>3. CASE UNCHANGED <<writer, thread_num_, poolTimers, thread>>
    BY <2>1, <2>3
  <2>4. CASE /\ available_thread_num_ <= idx /\ idx >= 0 /\ thread' = [thread EXCEPT ![idx] = "stopping"]
             /\ writer' = "join" /\ UNCHANGED <<thread_num_, poolTimers>>
    BY <2>1, <2>4
  <2>5. \/ EndCheck(idx + 1) /\ UNCHANGED thread
        \/ UNCHANGED <<writer, thread_num_, poolTimers, thread>>
        \/ /\ available_thread_num_ <= idx /\ idx >= 0 /\ thread' = [thread EXCEPT ![idx] = "stopping"]
           /\ writer' = "join" /\ UNCHANGED <<thread_num_, poolTimers>>
    BY <1>6 DEF CheckLoop
  <2> QED BY <2>2, <2>3, <2>4, <2>5
<1>7. CASE CheckJoined
  <2>1. /\ UNCHANGED <<thread_num_, available_thread_num_, functor, poolTimers, poolCalls>>
        /\ writer = "join" /\ writer' = "check" /\ idx' = idx - 1
    BY <1>7 DEF CheckJoined
  <2>2. thread' \in [Indexes -> {"none", "running", "stopping", "exited"}]
    BY <1>7 DEF CheckJoined
  <2> QED BY <2>1, <2>2
<1>8. CASE Moves
  BY <1>8 DEF Moves, Called
<1>9. ASSUME NEW n \in 0 .. MAX_THREAD_POOL_SIZE, Resize(n) PROVE PoolNumbers'
  <2>1. /\ Called /\ writer = "none" /\ available_thread_num_' = n /\ UNCHANGED functor
    BY <1>9 DEF Resize, CanLock
  <2>2. CASE n > thread_num_
    BY <1>9, <2>1, <2>2 DEF Resize, CreateLoopThreads, Called
  <2>3. CASE n = thread_num_
    BY <1>9, <2>1, <2>3 DEF Resize, Called, BeginCheck
  <2>4. CASE n < thread_num_
    BY <1>9, <2>1, <2>4 DEF Resize, Called, BeginCheck
  <2> QED BY <2>2, <2>3, <2>4
<1>10. ASSUME (\E all \in BOOLEAN : RunInOneLoop(all)) \/ RunInAllLoop PROVE PoolNumbers'
  <2>1. Called /\ UNCHANGED <<thread_num_, available_thread_num_, thread, writer, idx, poolTimers>>
    BY <1>10 DEF RunInOneLoop, RunInAllLoop
  <2>2. functor' \in [Indexes -> {"none", "queued", "lock"}]
    BY <1>10 DEF RunInOneLoop, RunInAllLoop, RunIn
  <2> QED BY <2>1, <2>2 DEF Called
<1>11. ASSUME NEW i \in Indexes, PoolThreads(i) PROVE PoolNumbers'
  BY <1>11 DEF PoolThreads, FunctorStarts, FunctorEnds, ThreadExits
<1>12. CASE UNCHANGED poolVars
  BY <1>12 DEF poolVars
<1> QED BY <1>1, <1>2, <1>3, <1>4, <1>5, <1>6, <1>7, <1>8, <1>9, <1>10, <1>11, <1>12 DEF PoolNext

\* Without misuse the loops the pool hands out are running, after every step.
LEMMA PoolLoopsStep ==
    ASSUME PoolInv, PoolNext \/ UNCHANGED poolVars
    PROVE  PoolLoops'
<1> USE ThreadPoolSizeAssumption DEF PoolInv
<1>a. /\ thread \in [Indexes -> {"none", "running", "stopping", "exited"}]
      /\ idx \in Int /\ writer \in {"none", "check", "join"} /\ available_thread_num_ \in Nat /\ thread_num_ \in Nat
      /\ available_thread_num_ <= thread_num_ /\ thread_num_ <= MAX_THREAD_POOL_SIZE
      /\ idx >= -1 /\ idx < MAX_THREAD_POOL_SIZE
      /\ writer # "none" => /\ idx < thread_num_ /\ available_thread_num_ <= idx + 1
                            /\ available_thread_num_ < thread_num_
      /\ writer = "join" => available_thread_num_ <= idx /\ idx >= 0
  BY DEF PoolNumbers
<1>1. CASE PoolStart
  <2>1. /\ writer = "none" /\ poolStopped /\ joiner' = "none" /\ UNCHANGED <<thread_num_, available_thread_num_, writer, idx>>
    BY <1>1 DEF PoolStart, CanLock
  <2>2. CASE \E i \in Indexes : thread[i] # "none"
    <3>1. misuse' # {} /\ poolCrash' = TRUE /\ UNCHANGED poolStopped
      BY <1>1, <2>2 DEF PoolStart
    <3> QED BY <2>1, <3>1 DEF PoolLoops
  <2>3. CASE ~ \E i \in Indexes : thread[i] # "none"
    <3>1. poolStopped' = FALSE /\ UNCHANGED <<poolCrash, misuse>> /\ CreateLoopThreads(0 .. thread_num_ - 1)
      BY <1>1, <2>3 DEF PoolStart
    <3>2. \A i \in Indexes : i < thread_num_ => thread'[i] = "running"
      BY <1>a, <3>1 DEF CreateLoopThreads, Indexes
    <3> QED BY <2>1, <3>1, <3>2 DEF PoolLoops
  <2> QED BY <2>2, <2>3
<1>2. CASE PoolStop
  <2>1. /\ writer = "none" /\ poolStopped' = TRUE /\ thread_num_' = 0 /\ available_thread_num_' = 0
        /\ UNCHANGED <<writer, idx, joiner, misuse, poolCrash>>
    BY <1>2 DEF PoolStop, CanLock
  <2>2. joiner = "returned" => UNCHANGED thread
    BY <1>2 DEF PoolStop, PoolLoops
  <2> QED BY <2>1, <2>2 DEF PoolLoops
<1>3. CASE PoolJoin
  BY <1>3 DEF PoolJoin, PoolLoops
<1>4. CASE PoolJoined
  <2>1. /\ joiner = "joining" /\ joiner' = "returned" /\ \A i \in Indexes : thread'[i] = "none"
        /\ UNCHANGED <<poolStopped, thread_num_, available_thread_num_, writer, idx, misuse, poolCrash>>
    BY <1>4 DEF PoolJoined
  <2>2. poolStopped
    BY <2>1 DEF PoolLoops
  <2> QED BY <2>1, <2>2 DEF PoolLoops
<1>5. CASE TimerFires
  <2>1. /\ writer = "none" /\ (writer' = "none" \/ (writer' = "check" /\ idx' = thread_num_ - 1))
        /\ UNCHANGED <<poolStopped, thread_num_, available_thread_num_, thread, joiner, misuse, poolCrash>>
    BY <1>5 DEF TimerFires, CanLock, BeginCheck
  <2>2. writer' = "check" => idx' + 1 = thread_num_
    BY <1>a, <2>1
  <2> QED BY <2>1, <2>2 DEF PoolLoops
<1>6. ASSUME CheckLoop PROVE PoolLoops'
  <2>1. /\ UNCHANGED <<poolStopped, available_thread_num_, idx, joiner, misuse>> /\ writer = "check"
    BY <1>6 DEF CheckLoop
  <2>2. CASE EndCheck(idx + 1) /\ UNCHANGED <<thread, poolCrash>>
    <3>1. thread_num_' = idx + 1 /\ writer' = "none" /\ UNCHANGED <<thread, poolCrash>>
      BY <2>2 DEF EndCheck
    <3>2. misuse = {} /\ poolStopped => thread_num_' = thread_num_
      BY <1>a, <2>1, <3>1 DEF PoolLoops
    <3>3. misuse = {} /\ available_thread_num_ = 0 => thread_num_' = 0
      BY <1>a, <2>1, <3>1 DEF PoolLoops
    <3> QED BY <2>1, <3>1, <3>2, <3>3 DEF PoolLoops
  <2>3. CASE /\ available_thread_num_ < thread_num_ /\ (idx >= available_thread_num_ \/ available_thread_num_ = 0)
             /\ (idx < 0 \/ thread[idx] # "running")
    <3>1. misuse # {}
      <4> SUFFICES ASSUME misuse = {} PROVE FALSE
        OBVIOUS
      <4>1. available_thread_num_ # 0 /\ ~poolStopped
        BY <1>a, <2>3 DEF PoolLoops
      <4>2. idx \in Indexes /\ idx < idx + 1
        BY <1>a, <2>3, <4>1 DEF Indexes
      <4>3. thread[idx] = "running"
        BY <2>1, <4>1, <4>2 DEF PoolLoops
      <4> QED BY <1>a, <2>3, <4>1, <4>3
    <3>2. poolCrash' \in BOOLEAN
      BY <1>6 DEF CheckLoop, PoolLoops
    <3> QED BY <2>1, <3>1, <3>2 DEF PoolLoops
  <2>4. CASE /\ available_thread_num_ < thread_num_ /\ idx \in Indexes /\ thread[idx] = "running"
             /\ thread' = [thread EXCEPT ![idx] = "stopping"] /\ writer' = "join"
             /\ UNCHANGED <<thread_num_, poolCrash>>
    <3>1. misuse = {} => ~poolStopped /\ joiner = "none"
      BY <1>a, <2>4 DEF PoolLoops
    <3>2. \A i \in Indexes : i < idx => i < idx + 1 /\ thread'[i] = thread[i]
      BY <1>a, <2>4 DEF Indexes
    <3> QED BY <2>1, <2>4, <3>1, <3>2 DEF PoolLoops
  <2>5. \/ EndCheck(idx + 1) /\ UNCHANGED <<thread, poolCrash>>
        \/ /\ available_thread_num_ < thread_num_ /\ (idx >= available_thread_num_ \/ available_thread_num_ = 0)
           /\ (idx < 0 \/ thread[idx] # "running")
        \/ /\ available_thread_num_ < thread_num_ /\ idx \in Indexes /\ thread[idx] = "running"
           /\ thread' = [thread EXCEPT ![idx] = "stopping"] /\ writer' = "join"
           /\ UNCHANGED <<thread_num_, poolCrash>>
    BY <1>6, <1>a DEF CheckLoop, Indexes
  <2> QED BY <2>2, <2>3, <2>4, <2>5
<1>7. CASE CheckJoined
  <2>1. /\ UNCHANGED <<poolStopped, thread_num_, available_thread_num_, joiner, misuse, poolCrash>>
        /\ writer = "join" /\ writer' = "check" /\ idx' = idx - 1
        /\ thread' = [thread EXCEPT ![idx] = "none"]
    BY <1>7 DEF CheckJoined
  <2>2. \A i \in Indexes : i < idx' + 1 => i < idx /\ thread'[i] = thread[i]
    BY <1>a, <2>1 DEF Indexes
  <2>3. joiner = "returned" => misuse # {}
    BY <2>1 DEF PoolLoops
  <2> QED BY <2>1, <2>2, <2>3 DEF PoolLoops
<1>8. CASE Moves
  BY <1>8 DEF Moves, PoolLoops
<1>9. ASSUME NEW n \in 0 .. MAX_THREAD_POOL_SIZE, Resize(n) PROVE PoolLoops'
  <2>1. /\ writer = "none" /\ available_thread_num_' = n /\ UNCHANGED <<poolStopped, joiner, poolCrash>>
        /\ misuse' = misuse \cup (IF poolStopped THEN {"stopped"} ELSE {}) \cup (IF n = 0 THEN {"zero"} ELSE {})
    BY <1>9 DEF Resize, CanLock
  <2>2. CASE misuse' # {}
    BY <2>1, <2>2 DEF PoolLoops
  <2>3. CASE misuse' = {}
    <3>1. misuse = {} /\ ~poolStopped /\ n # 0
      BY <2>1, <2>3
    <3>2. joiner = "none" /\ ~poolCrash /\ \A i \in Indexes : i < thread_num_ => thread[i] = "running"
      BY <2>1, <3>1 DEF PoolLoops
    <3>3. CASE n > thread_num_
      <4>1. CreateLoopThreads(thread_num_ .. n - 1) /\ thread_num_' = n /\ UNCHANGED <<writer, idx>>
        BY <1>9, <3>3 DEF Resize
      <4>2. \A i \in Indexes : i < n => thread'[i] = "running"
        BY <1>a, <3>2, <4>1 DEF CreateLoopThreads, Indexes
      <4> QED BY <2>1, <3>1, <3>2, <4>1, <4>2 DEF PoolLoops
    <3>4. CASE n = thread_num_
      <4>1. UNCHANGED <<thread, thread_num_, writer, idx>>
        BY <1>9, <1>a, <3>4 DEF Resize, BeginCheck
      <4> QED BY <2>1, <3>1, <3>2, <4>1 DEF PoolLoops
    <3>5. CASE n < thread_num_
      <4>1. UNCHANGED <<thread, thread_num_>> /\ (writer' = "none" \/ (writer' = "check" /\ idx' = thread_num_ - 1))
        BY <1>9, <1>a, <2>1, <3>5 DEF Resize, BeginCheck
      <4>2. writer' = "check" => idx' + 1 = thread_num_
        BY <1>a, <4>1
      <4> QED BY <2>1, <3>1, <3>2, <4>1, <4>2 DEF PoolLoops
    <3> QED BY <1>a, <3>3, <3>4, <3>5
  <2> QED BY <2>2, <2>3
<1>10. ASSUME NEW S, RunIn(S), CanLock, ~poolStopped, \A i \in S : i \in Indexes /\ i < thread_num_,
              UNCHANGED <<poolStopped, thread_num_, available_thread_num_, thread, writer, idx, joiner, misuse>>
       PROVE  PoolLoops'
  <2>1. writer = "none"
    BY <1>10 DEF CanLock
  <2>2. misuse = {} => \A i \in S : thread[i] = "running"
    BY <1>10, <2>1 DEF PoolLoops
  <2>3. poolCrash' \in BOOLEAN /\ (misuse = {} => UNCHANGED poolCrash)
    BY <1>10, <2>2 DEF RunIn, PoolLoops
  <2> QED BY <1>10, <2>3 DEF PoolLoops
<1>11. ASSUME NEW all \in BOOLEAN, RunInOneLoop(all) PROVE PoolLoops'
  <2>1. PICK i \in Reachable(all) : RunIn({i})
    BY <1>11 DEF RunInOneLoop
  <2>2. ~poolStopped /\ i \in Indexes /\ i < thread_num_
    BY <1>a, <2>1 DEF Reachable, Indexes
  <2> QED BY <1>10, <1>11, <2>1, <2>2 DEF RunInOneLoop
<1>12. ASSUME RunInAllLoop PROVE PoolLoops'
  <2>1. ~poolStopped /\ \A i \in Reachable(TRUE) : i \in Indexes /\ i < thread_num_
    BY <1>a, <1>12 DEF Reachable, Indexes, RunInAllLoop
  <2> QED BY <1>10, <1>12, <2>1 DEF RunInAllLoop
<1>13. ASSUME NEW i \in Indexes, PoolThreads(i) PROVE PoolLoops'
  <2>1. /\ UNCHANGED <<poolStopped, thread_num_, available_thread_num_, writer, idx, joiner, misuse, poolCrash>>
        /\ UNCHANGED thread \/ (thread[i] = "stopping" /\ thread' = [thread EXCEPT ![i] = "exited"])
    BY <1>13 DEF PoolThreads, FunctorStarts, FunctorEnds, ThreadExits
  <2>2. \A j \in Indexes : thread[j] \in {"running", "none"} => thread'[j] = thread[j]
    BY <1>a, <2>1
  <2> QED BY <2>1, <2>2 DEF PoolLoops
<1>14. CASE UNCHANGED poolVars
  BY <1>14 DEF poolVars, PoolLoops
<1> QED BY <1>1, <1>2, <1>3, <1>4, <1>5, <1>6, <1>7, <1>8, <1>9, <1>11, <1>12, <1>13, <1>14 DEF PoolNext

\* Every step of EventLoopThreadPool keeps its inductive invariant.
LEMMA PoolStep ==
    ASSUME PoolInv, PoolNext \/ UNCHANGED poolVars
    PROVE  PoolInv'
BY PoolNumbersStep, PoolLoopsStep DEF PoolInv

(***************************************************************************)
(* TcpServer: the invariant                                                *)
(***************************************************************************)
\* The functors of the loops: which there are, and where.
IOFunctors == {"attach", "reattach", "close"} \X Fds
BaseFunctors == ({"remove"} \X Fds) \cup {<<"stop", 0>>}
AreQueues(q) ==
    /\ q = [l \in SrvLoops |-> q[l]] /\ q[Base] \in Seq(BaseFunctors)
    /\ \A l \in IOLoops : q[l] \in Seq(IOFunctors)
Has(q, e) == \E l \in SrvLoops : \E i \in DOMAIN q[l] : q[l][i] = e
Once(q, e) ==
    \A l, m \in SrvLoops : \A i \in DOMAIN q[l] : \A j \in DOMAIN q[m] :
        q[l][i] = e /\ q[m][j] = e => l = m /\ i = j

\* A connection, its functors and the thread of its loop agree; with no close by two
\* threads at once, its remove comes once and finds it in connections_.
FdOK(f) ==
    /\ Has(queue, <<"attach", f>>) => status[f] = "connecting" /\ Once(queue, <<"attach", f>>)
    /\ status[f] = "connecting" => connLoop[f] = NoLoop
    /\ status[f] \in {"connecting", "connected"} => f \in connections_
    /\ Has(queue, <<"reattach", f>>) => /\ f \in connections_ /\ connLoop[f] = NoLoop
                                    /\ status[f] \in {"connected", "disconnecting"}
                                    /\ Once(queue, <<"reattach", f>>)
    /\ f \in movers => /\ f \in connections_ /\ connLoop[f] \in IOLoops
                       /\ status[f] \in {"connected", "disconnecting"}
    /\ Has(queue, <<"remove", f>>) => /\ status[f] \in {"disconnecting", "disconnected"}
                                  /\ connLoop[f] \in IOLoops /\ f \notin movers
    /\ Has(queue, <<"close", f>>) => status[f] \in {"disconnecting", "disconnected"} /\ connLoop[f] # Base
    /\ raced = {} =>
          /\ Has(queue, <<"remove", f>>) => /\ f \in connections_ /\ status[f] = "disconnected"
                                        /\ Once(queue, <<"remove", f>>)
          /\ f \in closing => status[f] = "connected"
          /\ status[f] = "disconnecting" => f \in connections_

SrvTypes ==
    /\ listen_ip_ports_ \subseteq Ports /\ acceptors_ \subseteq Ports /\ connections_ \subseteq Fds
    /\ toClose \subseteq Fds /\ closing \subseteq toClose /\ movers \subseteq Fds
    /\ status \in [Fds -> {"none", "connecting", "connected", "disconnecting", "disconnected"}]
    /\ connLoop \in [Fds -> SrvLoops \cup {NoLoop}] /\ AreQueues(queue) /\ ioLoops \subseteq IOLoops
    /\ srvStopped \in BOOLEAN /\ movingCount \in 0 .. Cardinality(Fds)

\* A server whose pool is gone is stopped and empty, and a stopped one accepts nothing.
SrvPool ==
    /\ pool = "gone" => srvStopped /\ connections_ = {}
    /\ srvStopped => acceptors_ = {}

SrvInv == SrvTypes /\ SrvPool /\ RemovedOnce /\ MovingIsCounted /\ \A f \in Fds : FdOK(f)

(***************************************************************************)
(* TcpServer: the functors of the loops                                    *)
(***************************************************************************)
Allowed(l) == IF l = Base THEN BaseFunctors ELSE IOFunctors

\* The elements of the queue of a loop, its head and its rest.
LEMMA QueueTypes ==
    ASSUME NEW q, AreQueues(q), NEW l \in SrvLoops
    PROVE  /\ q[l] \in Seq(Allowed(l)) /\ DOMAIN q[l] = 1 .. Len(q[l]) /\ Len(q[l]) \in Nat
           /\ q[l] # <<>> => /\ Head(q[l]) \in Allowed(l) /\ Head(q[l]) = q[l][1] /\ Len(q[l]) >= 1
                             /\ Tail(q[l]) \in Seq(Allowed(l)) /\ Len(Tail(q[l])) = Len(q[l]) - 1
                             /\ DOMAIN Tail(q[l]) = 1 .. Len(q[l]) - 1
                             /\ \A i \in 1 .. Len(q[l]) - 1 : Tail(q[l])[i] = q[l][i + 1]
<1>1. q[l] \in Seq(Allowed(l))
  BY DEF AreQueues, SrvLoops, Allowed
<1> HIDE DEF Allowed
<1>2. DOMAIN q[l] = 1 .. Len(q[l]) /\ Len(q[l]) \in Nat
  BY <1>1, LenProperties
<1>3. ASSUME q[l] # <<>>
      PROVE  /\ Head(q[l]) \in Allowed(l) /\ Tail(q[l]) \in Seq(Allowed(l)) /\ Len(Tail(q[l])) = Len(q[l]) - 1
             /\ \A i \in 1 .. Len(q[l]) - 1 : Tail(q[l])[i] = q[l][i + 1]
  BY <1>1, <1>3, HeadTailProperties
<1>4. ASSUME q[l] # <<>> PROVE Len(q[l]) >= 1 /\ Head(q[l]) = q[l][1]
  BY <1>1, <1>2, <1>4, EmptySeq
<1>5. ASSUME q[l] # <<>> PROVE DOMAIN Tail(q[l]) = 1 .. Len(q[l]) - 1
  BY <1>3, <1>5, LenProperties
<1> QED BY <1>1, <1>2, <1>3, <1>4, <1>5

\* Replacing one queue by a well-formed one leaves well-formed queues.
LEMMA Rebuilt ==
    ASSUME NEW q, AreQueues(q), NEW l \in SrvLoops, NEW s, NEW r, r = [q EXCEPT ![l] = s], r[l] \in Seq(Allowed(l))
    PROVE  AreQueues(r)
<1>1. r = [m \in SrvLoops |-> r[m]]
  BY DEF AreQueues
<1>2. \A m \in SrvLoops : m # l => r[m] = q[m]
  BY DEF AreQueues
<1>3. \A m \in SrvLoops : r[m] \in Seq(Allowed(m))
  BY <1>2, QueueTypes
<1>4. Base \in SrvLoops /\ \A m \in IOLoops : m \in SrvLoops /\ Allowed(m) = IOFunctors
  BY TcpServerAssumption DEF SrvLoops, Allowed
<1>5. Allowed(Base) = BaseFunctors
  BY DEF Allowed
<1> QED BY <1>1, <1>3, <1>4, <1>5 DEF AreQueues

PutQ(q, l, e) == [q EXCEPT ![l] = Append(@, e)]
DropQ(q, l) == [q EXCEPT ![l] = Tail(@)]

\* A functor put at the end of a queue is one more.
LEMMA QueueMore ==
    ASSUME NEW q, AreQueues(q), NEW l \in SrvLoops, NEW e \in Allowed(l)
    PROVE  /\ AreQueues(PutQ(q, l, e))
           /\ \A d : Has(PutQ(q, l, e), d) <=> Has(q, d) \/ d = e
           /\ \A d : Once(q, d) /\ ~(d = e /\ Has(q, d)) => Once(PutQ(q, l, e), d)
<1> DEFINE r == PutQ(q, l, e)
<1> DEFINE n == Len(q[l]) + 1
<1>1. /\ q[l] \in Seq(Allowed(l)) /\ DOMAIN q[l] = 1 .. Len(q[l]) /\ Len(q[l]) \in Nat
  BY QueueTypes
<1>2. DOMAIN q = SrvLoops
  BY DEF AreQueues
<1>3. r[l] = Append(q[l], e) /\ \A m \in SrvLoops : m # l => r[m] = q[m]
  BY <1>2 DEF PutQ
<1>r. r = [q EXCEPT ![l] = Append(q[l], e)]
  BY DEF PutQ
<1> HIDE DEF r
<1>4. /\ r[l] \in Seq(Allowed(l)) /\ DOMAIN r[l] = 1 .. n /\ r[l][n] = e /\ n \notin DOMAIN q[l]
      /\ \A i \in DOMAIN q[l] : i \in DOMAIN r[l] /\ r[l][i] = q[l][i]
      /\ \A i \in DOMAIN r[l] : i = n \/ i \in DOMAIN q[l]
  BY <1>1, <1>3, AppendProperties, LenProperties
<1>5. AreQueues(r)
  BY <1>r, <1>4, Rebuilt
<1>6. n \in DOMAIN r[l] /\ r[l][n] = e
  BY <1>1, <1>4
<1> HIDE DEF n
<1>7. \A m \in SrvLoops : \A i \in DOMAIN r[m] : (m = l /\ i = n) \/ (i \in DOMAIN q[m] /\ r[m][i] = q[m][i])
  BY <1>3, <1>4
<1>8. \A m \in SrvLoops : \A i \in DOMAIN q[m] : i \in DOMAIN r[m] /\ r[m][i] = q[m][i]
  BY <1>3, <1>4
<1>9. ASSUME NEW d PROVE Has(r, d) <=> Has(q, d) \/ d = e
  <2>1. ASSUME Has(r, d) PROVE Has(q, d) \/ d = e
    BY <1>6, <1>7, <2>1 DEF Has
  <2>2. ASSUME Has(q, d) PROVE Has(r, d)
    BY <1>8, <2>2 DEF Has
  <2>3. ASSUME d = e PROVE Has(r, d)
    BY <1>6, <2>3 DEF Has
  <2> QED BY <2>1, <2>2, <2>3
<1>10. ASSUME NEW d, Once(q, d), ~(d = e /\ Has(q, d)) PROVE Once(r, d)
  <2>1. ASSUME NEW m \in SrvLoops, NEW p \in SrvLoops, NEW i \in DOMAIN r[m], NEW j \in DOMAIN r[p],
               r[m][i] = d, r[p][j] = d
        PROVE  m = p /\ i = j
    <3>1. CASE i \in DOMAIN q[m] /\ r[m][i] = q[m][i] /\ j \in DOMAIN q[p] /\ r[p][j] = q[p][j]
      BY <1>10, <2>1, <3>1 DEF Once
    <3>2. CASE m = l /\ i = n /\ j \in DOMAIN q[p] /\ r[p][j] = q[p][j]
      BY <1>6, <1>10, <2>1, <3>2 DEF Has
    <3>3. CASE p = l /\ j = n /\ i \in DOMAIN q[m] /\ r[m][i] = q[m][i]
      BY <1>6, <1>10, <2>1, <3>3 DEF Has
    <3>4. CASE m = l /\ i = n /\ p = l /\ j = n
      BY <3>4
    <3> QED BY <1>7, <3>1, <3>2, <3>3, <3>4
  <2> QED BY <2>1 DEF Once
<1> QED BY <1>5, <1>9, <1>10 DEF r

\* The first functor of a queue is taken out.
LEMMA QueueLess ==
    ASSUME NEW q, AreQueues(q), NEW l \in SrvLoops, q[l] # <<>>
    PROVE  /\ AreQueues(DropQ(q, l)) /\ Has(q, Head(q[l]))
           /\ \A d : Has(DropQ(q, l), d) => Has(q, d)
           /\ \A d : Once(q, d) => Once(DropQ(q, l), d)
           /\ Once(q, Head(q[l])) => ~Has(DropQ(q, l), Head(q[l]))
<1> DEFINE r == DropQ(q, l)
<1> DEFINE e == Head(q[l])
<1>1. /\ DOMAIN q[l] = 1 .. Len(q[l]) /\ Len(q[l]) \in Nat /\ Len(q[l]) >= 1 /\ q[l][1] = e
      /\ Tail(q[l]) \in Seq(Allowed(l)) /\ DOMAIN Tail(q[l]) = 1 .. Len(q[l]) - 1
      /\ \A i \in 1 .. Len(q[l]) - 1 : Tail(q[l])[i] = q[l][i + 1]
  BY QueueTypes
<1>2. DOMAIN q = SrvLoops
  BY DEF AreQueues
<1>3. r[l] = Tail(q[l]) /\ \A m \in SrvLoops : m # l => r[m] = q[m]
  BY <1>2 DEF DropQ
<1>r. r = [q EXCEPT ![l] = Tail(q[l])]
  BY DEF DropQ
<1> HIDE DEF r
<1>4. AreQueues(r)
  BY <1>r, <1>1, <1>3, Rebuilt
<1>5. 1 \in DOMAIN q[l] /\ q[l][1] = e
  BY <1>1
<1>6. \A i \in DOMAIN r[l] : i + 1 \in DOMAIN q[l] /\ r[l][i] = q[l][i + 1] /\ i + 1 # 1 /\ i \in Int
  <2>1. DOMAIN r[l] = 1 .. Len(q[l]) - 1 /\ \A i \in 1 .. Len(q[l]) - 1 : r[l][i] = q[l][i + 1]
    BY <1>1, <1>3, Zenon
  <2> QED BY <1>1, <2>1
<1> HIDE DEF e
<1>7. Has(q, e)
  BY <1>5 DEF Has
<1>8. ASSUME NEW d, Has(r, d) PROVE Has(q, d)
  BY <1>3, <1>6, <1>8 DEF Has
<1>9. ASSUME NEW d, Once(q, d) PROVE Once(r, d)
  <2>1. ASSUME NEW m \in SrvLoops, NEW p \in SrvLoops, NEW i \in DOMAIN r[m], NEW j \in DOMAIN r[p],
               r[m][i] = d, r[p][j] = d
        PROVE  m = p /\ i = j
    <3>1. PICK a \in DOMAIN q[m] : q[m][a] = d /\ a = (IF m = l THEN i + 1 ELSE i)
      BY <1>3, <1>6, <2>1
    <3>2. PICK b \in DOMAIN q[p] : q[p][b] = d /\ b = (IF p = l THEN j + 1 ELSE j)
      BY <1>3, <1>6, <2>1
    <3>3. m = p /\ a = b
      BY <1>9, <3>1, <3>2 DEF Once
    <3> QED BY <1>6, <3>1, <3>2, <3>3
  <2> QED BY <2>1 DEF Once
<1>10. ASSUME Once(q, e), Has(r, e) PROVE FALSE
  <2>1. PICK m \in SrvLoops : \E i \in DOMAIN r[m] : r[m][i] = e
    BY <1>10 DEF Has
  <2>2. PICK i \in DOMAIN r[m] : r[m][i] = e
    BY <2>1
  <2>3. CASE m = l
    <3>1. i + 1 \in DOMAIN q[l] /\ q[l][i + 1] = e /\ i + 1 # 1
      BY <1>6, <2>2, <2>3
    <3> QED BY <1>5, <1>10, <3>1 DEF Once
  <2>4. CASE m # l
    BY <1>3, <1>5, <1>10, <2>2, <2>4 DEF Once
  <2> QED BY <2>3, <2>4
<1> QED BY <1>4, <1>7, <1>8, <1>9, <1>10 DEF e, r

(***************************************************************************)
(* TcpServer: the steps                                                    *)
(***************************************************************************)
MovingFds == {f \in connections_ : connLoop[f] = NoLoop /\ status[f] # "connecting"}

\* A connection that a step leaves alone.
LEMMA FdFrame ==
    ASSUME NEW f \in Fds, FdOK(f), status'[f] = status[f], connLoop'[f] = connLoop[f],
           f \in connections_' <=> f \in connections_, f \in movers' => f \in movers,
           raced' = {} => raced = {}, f \in closing' => f \in closing,
           \A k \in {"attach", "reattach", "remove", "close"} : Has(queue', <<k, f>>) => Has(queue, <<k, f>>),
           \A k \in {"attach", "reattach", "remove"} : Once(queue, <<k, f>>) => Once(queue', <<k, f>>)
    PROVE  FdOK(f)'
BY DEF FdOK

\* Any set of connections can be counted.
LEMMA SomeFds ==
    ASSUME NEW S \in SUBSET Fds
    PROVE  IsFiniteSet(S) /\ Cardinality(S) \in 0 .. Cardinality(Fds) /\ Cardinality(S) \in Nat
<1>1. IsFiniteSet(S) /\ Cardinality(S) <= Cardinality(Fds)
  BY FS_Subset, TcpServerAssumption
<1> QED BY <1>1, FS_CardinalityType, TcpServerAssumption

\* A new TcpServer satisfies the inductive invariant.
LEMMA SrvBegins == SrvInit => SrvInv
<1> SUFFICES ASSUME SrvInit PROVE SrvInv
  OBVIOUS
<1>1. AreQueues(queue)
  <2>1. \A l \in SrvLoops : queue[l] = <<>>
    BY DEF SrvInit
  <2> QED BY <2>1 DEF SrvInit, AreQueues, SrvLoops
<1>2. \A e : ~Has(queue, e)
  BY DEF SrvInit, Has
<1>3. Cardinality(Fds) \in Nat
  BY FS_CardinalityType, TcpServerAssumption
<1>4. SrvTypes
  BY <1>1, <1>3 DEF SrvInit, SrvTypes
<1>5. \A f \in Fds : FdOK(f)
  BY <1>2 DEF SrvInit, FdOK
<1>6. MovingIsCounted
  <2>1. {f \in connections_ : connLoop[f] = NoLoop /\ status[f] # "connecting"} = {}
    BY DEF SrvInit
  <2> QED BY <2>1, FS_EmptySet DEF MovingIsCounted, SrvInit
<1> QED BY <1>4, <1>5, <1>6 DEF SrvInv, SrvPool, RemovedOnce, SrvInit

\* It implies the safety properties of TcpServer.
LEMMA SrvImplies ==
    ASSUME SrvInv
    PROVE  SrvTypeOK /\ RemovedOnce /\ PoolOutlivesConnections /\ MovingIsCounted
<1>1. SrvTypeOK
  BY DEF SrvInv, SrvTypes, SrvTypeOK
<1>2. PoolOutlivesConnections
  BY DEF SrvInv, SrvTypes, SrvPool, FdOK, PoolOutlivesConnections
<1> QED BY <1>1, <1>2 DEF SrvInv

\* handleClose() on loop l of a connection of that loop; q are the functors left.
LEMMA CloseStep ==
    ASSUME SrvTypes, \A g \in Fds : FdOK(g), RemovedOnce, SrvUp,
           NEW f \in Fds, NEW l \in SrvLoops, NEW q, HandleClose(f, l, q), connLoop[f] = l, f \notin movers,
           AreQueues(q), \A d : Has(q, d) => Has(queue, d), \A d : Once(queue, d) => Once(q, d),
           UNCHANGED <<connLoop, movers>>, closing' \subseteq closing,
           raced' = {} => raced = {} /\ f \notin closing' /\ status[f] \in {"connected", "disconnecting", "disconnected"}
    PROVE  /\ \A g \in Fds : FdOK(g)'
           /\ AreQueues(queue') /\ connections_' \subseteq connections_
           /\ status' \in [Fds -> {"none", "connecting", "connected", "disconnecting", "disconnected"}]
           /\ RemovedOnce' /\ MovingFds' = MovingFds
           /\ UNCHANGED pool \/ (pool' = "gone" /\ srvStopped /\ connections_' = {})
<1>a. /\ connections_ \subseteq Fds /\ connLoop \in [Fds -> SrvLoops \cup {NoLoop}]
      /\ status \in [Fds -> {"none", "connecting", "connected", "disconnecting", "disconnected"}]
  BY DEF SrvTypes
<1>b. l # NoLoop /\ (l = Base \/ l \in IOLoops) /\ NoLoop # Base
  BY TcpServerAssumption DEF SrvLoops, NoLoop, Base
<1>c. status[f] # "connecting"
  BY <1>b DEF FdOK
<1>d. \A g \in Fds : ~Has(queue, <<"attach", f>>) /\ ~Has(queue, <<"reattach", f>>)
  BY <1>b, <1>c DEF FdOK
<1>1. CASE status[f] = "disconnected"
  <2>1. queue' = q /\ UNCHANGED <<status, connections_, pool, srvCrash>>
    BY <1>1 DEF HandleClose
  <2>2. \A g \in Fds : FdOK(g)'
    BY <2>1, FdFrame
  <2>3. MovingFds' = MovingFds
    BY <2>1 DEF MovingFds
  <2> QED BY <1>a, <2>1, <2>2, <2>3 DEF RemovedOnce
<1>2. CASE status[f] # "disconnected" /\ l = Base
  <2>1. /\ status' = [status EXCEPT ![f] = "disconnected"] /\ RemoveConnectionInLoop(f) /\ queue' = q
    BY <1>2 DEF HandleClose, RemoveConnection
  <2>2. /\ connections_' \subseteq connections_ /\ \A g \in Fds : g # f => (g \in connections_' <=> g \in connections_)
        /\ UNCHANGED pool \/ (pool' = "gone" /\ srvStopped /\ connections_' = {})
    BY <2>1 DEF RemoveConnectionInLoop
  <2>3. RemovedOnce'
    <3> SUFFICES ASSUME raced' = {} PROVE srvCrash' # "assert"
      BY DEF RemovedOnce
    <3>1. f \in connections_
      BY <1>2 DEF FdOK
    <3> QED BY <2>1, <3>1 DEF RemoveConnectionInLoop, RemovedOnce, SrvUp
  <2>4. ~Has(queue, <<"remove", f>>) /\ ~Has(queue, <<"close", f>>)
    BY <1>2, <1>b, TcpServerAssumption DEF FdOK
  <2>5. \A g \in Fds : FdOK(g)'
    <3> SUFFICES ASSUME NEW g \in Fds PROVE FdOK(g)'
      OBVIOUS
    <3>1. CASE g # f
      BY <1>a, <2>1, <2>2, <3>1, FdFrame
    <3>2. CASE g = f
      <4>1. status'[f] = "disconnected"
        BY <1>a, <2>1
      <4> QED BY <1>d, <2>1, <2>4, <3>2, <4>1 DEF FdOK
    <3> QED BY <3>1, <3>2
  <2>6. MovingFds' = MovingFds
    BY <1>a, <1>b, <2>1, <2>2 DEF MovingFds
  <2>7. status' \in [Fds -> {"none", "connecting", "connected", "disconnecting", "disconnected"}]
    BY <1>a, <2>1
  <2> QED BY <2>1, <2>2, <2>3, <2>5, <2>6, <2>7
<1>3. CASE status[f] # "disconnected" /\ l # Base
  <2>1. /\ status' = [status EXCEPT ![f] = "disconnected"] /\ UNCHANGED <<connections_, pool, srvCrash>>
        /\ queue' = [q EXCEPT ![Base] = Append(@, <<"remove", f>>)]
    BY <1>3 DEF HandleClose, RemoveConnection
  <2>2. <<"remove", f>> \in Allowed(Base) /\ Base \in SrvLoops
    BY DEF Allowed, BaseFunctors, SrvLoops
  <2>3. /\ AreQueues(queue')
        /\ \A d : Has(queue', d) <=> Has(q, d) \/ d = <<"remove", f>>
        /\ \A d : Once(q, d) /\ ~(d = <<"remove", f>> /\ Has(q, d)) => Once(queue', d)
    <3> DEFINE e == <<"remove", f>>
    <3>1. e \in Allowed(Base) /\ queue' = PutQ(q, Base, e)
      BY <2>1, <2>2 DEF PutQ
    <3> HIDE DEF e
    <3>2. /\ AreQueues(PutQ(q, Base, e)) /\ \A d : Has(PutQ(q, Base, e), d) <=> Has(q, d) \/ d = e
          /\ \A d : Once(q, d) /\ ~(d = e /\ Has(q, d)) => Once(PutQ(q, Base, e), d)
      BY <2>2, <3>1, QueueMore
    <3> QED BY <3>1, <3>2, Zenon DEF e
  <2>4. \A g \in Fds : FdOK(g)'
    <3> SUFFICES ASSUME NEW g \in Fds PROVE FdOK(g)'
      OBVIOUS
    <3>1. CASE g # f
      <4>1. \A k : <<k, g>> # <<"remove", f>>
        BY <3>1
      <4>2. \A k : Has(queue', <<k, g>>) => Has(queue, <<k, g>>)
        BY <2>3, <4>1
      <4>3. \A k : Once(queue, <<k, g>>) => Once(queue', <<k, g>>)
        BY <2>3, <4>1
      <4> QED BY <1>a, <2>1, <3>1, <4>2, <4>3, FdFrame
    <3>2. CASE g = f
      <4>1. status'[f] = "disconnected" /\ connLoop'[f] \in IOLoops
        BY <1>a, <1>b, <1>3, <2>1
      <4>2. ~Has(queue', <<"attach", f>>) /\ ~Has(queue', <<"reattach", f>>)
        BY <1>d, <2>3
      <4>3. raced' = {} => f \in connections_' /\ Once(queue', <<"remove", f>>)
        <5> SUFFICES ASSUME raced' = {} PROVE f \in connections_' /\ Once(queue', <<"remove", f>>)
          OBVIOUS
        <5>1. f \in connections_ /\ ~Has(queue, <<"remove", f>>)
          BY <1>3 DEF FdOK
        <5>2. Once(q, <<"remove", f>>) /\ ~Has(q, <<"remove", f>>)
          BY <5>1 DEF Has, Once
        <5> QED BY <2>1, <2>3, <5>1, <5>2
      <4>4. connLoop'[f] # Base
        BY <4>1, TcpServerAssumption
      <4> QED BY <3>2, <4>1, <4>2, <4>3, <4>4 DEF FdOK
    <3> QED BY <3>1, <3>2
  <2>5. MovingFds' = MovingFds
    BY <1>a, <1>b, <2>1 DEF MovingFds
  <2>6. status' \in [Fds -> {"none", "connecting", "connected", "disconnecting", "disconnected"}]
    BY <1>a, <2>1
  <2> QED BY <2>1, <2>3, <2>4, <2>5, <2>6 DEF RemovedOnce
<1> QED BY <1>1, <1>2, <1>3

\* Steps that leave the connections and their functors alone.
LEMMA QuietStep ==
    ASSUME SrvInv, SrvUp,
           UNCHANGED <<status, connLoop, connections_, queue, movers, movingCount, raced>>,
           closing' \subseteq closing
    PROVE  MovingIsCounted' /\ \A f \in Fds : FdOK(f)'
<1>1. \A f \in Fds : FdOK(f)'
  BY FdFrame DEF SrvInv
<1>2. MovingIsCounted'
  BY DEF SrvInv, MovingIsCounted, SrvUp
<1> QED BY <1>1, <1>2

\* start(), stop() and the listen addresses.
LEMMA SrvControlStep ==
    ASSUME SrvInv, SrvStart \/ SrvStop \/ \E a \in Ports : AddListenIpPort(a) \/ RemoveListenIpPort(a)
    PROVE  SrvInv'
<1>1. CASE SrvStart
  <2>1. /\ SrvUp /\ UNCHANGED <<movers, listen_ip_ports_, queue, toClose, closing, raced, ioLoops>>
        /\ UNCHANGED <<connections_, status, connLoop, movingCount>>
    BY <1>1 DEF SrvStart, stopState, connState
  <2>2. /\ srvStopped' \in BOOLEAN /\ acceptors_' \subseteq Ports /\ SrvPool' /\ RemovedOnce'
    <3>1. CASE pool = "gone"
      BY <1>1, <2>1, <3>1 DEF SrvStart, SrvInv, SrvTypes, SrvPool, RemovedOnce
    <3>2. CASE pool # "gone"
      BY <1>1, <2>1, <3>2 DEF SrvStart, SrvInv, SrvTypes, SrvPool, RemovedOnce
    <3> QED BY <3>1, <3>2
  <2>3. SrvTypes'
    BY <2>1, <2>2 DEF SrvInv, SrvTypes
  <2> QED BY <2>1, <2>2, <2>3, QuietStep DEF SrvInv
<1>2. ASSUME NEW a \in Ports, AddListenIpPort(a) \/ RemoveListenIpPort(a) PROVE SrvInv'
  <2>1. /\ SrvUp /\ UNCHANGED <<movers, queue, toClose, closing, raced, ioLoops, pool, srvCrash, srvStopped>>
        /\ UNCHANGED <<connections_, status, connLoop, movingCount>>
    BY <1>2 DEF AddListenIpPort, RemoveListenIpPort, stopState, connState
  <2>2. listen_ip_ports_' \subseteq Ports /\ acceptors_' \subseteq Ports /\ (srvStopped => acceptors_' = acceptors_)
    BY <1>2 DEF AddListenIpPort, RemoveListenIpPort, SrvInv, SrvTypes
  <2>3. SrvTypes'
    BY <2>1, <2>2 DEF SrvInv, SrvTypes
  <2>4. SrvPool' /\ RemovedOnce'
    BY <2>1, <2>2 DEF SrvInv, SrvPool, RemovedOnce
  <2> QED BY <2>1, <2>3, <2>4, QuietStep DEF SrvInv
<1>3. CASE SrvStop
  <2> DEFINE e == <<"stop", 0>>
  <2>1. /\ SrvUp /\ UNCHANGED <<movers, listen_ip_ports_, acceptors_, toClose, closing, raced, ioLoops, pool, srvCrash, srvStopped>>
        /\ UNCHANGED <<connections_, status, connLoop, movingCount>>
    BY <1>3 DEF SrvStop, stopState, connState
  <2>2. Base \in SrvLoops /\ e \in Allowed(Base) /\ queue' = PutQ(queue, Base, e) /\ AreQueues(queue)
    BY <1>3 DEF SrvStop, Queued, PutQ, Allowed, BaseFunctors, SrvLoops, SrvInv, SrvTypes
  <2>3. /\ AreQueues(queue') /\ \A d : Has(queue', d) <=> Has(queue, d) \/ d = e
        /\ \A d : Once(queue, d) /\ ~(d = e /\ Has(queue, d)) => Once(queue', d)
    <3> HIDE DEF e
    <3>1. /\ AreQueues(PutQ(queue, Base, e)) /\ \A d : Has(PutQ(queue, Base, e), d) <=> Has(queue, d) \/ d = e
          /\ \A d : Once(queue, d) /\ ~(d = e /\ Has(queue, d)) => Once(PutQ(queue, Base, e), d)
      BY <2>2, QueueMore
    <3> QED BY <2>2, <3>1, Zenon
  <2>4. ASSUME NEW f \in Fds PROVE FdOK(f)'
    <3>1. \A k \in {"attach", "reattach", "remove", "close"} : <<k, f>> # e
      OBVIOUS
    <3>2. \A k \in {"attach", "reattach", "remove", "close"} : 
             (Has(queue', <<k, f>>) => Has(queue, <<k, f>>)) /\ (Once(queue, <<k, f>>) => Once(queue', <<k, f>>))
      BY <2>3, <3>1
    <3> QED BY <2>1, <3>2, FdFrame DEF SrvInv
  <2>5. SrvTypes'
    BY <2>1, <2>3 DEF SrvInv, SrvTypes
  <2>6. SrvPool' /\ RemovedOnce' /\ MovingIsCounted'
    BY <2>1 DEF SrvInv, SrvPool, RemovedOnce, MovingIsCounted, SrvUp
  <2> QED BY <2>4, <2>5, <2>6 DEF SrvInv
<1> QED BY <1>1, <1>2, <1>3

\* Accepting a connection keeps it.
LEMMA SrvAcceptStep ==
    ASSUME SrvInv, NEW f \in Fds, HandleAccept(f)
    PROVE  SrvInv'
<1>a. /\ connections_ \subseteq Fds /\ connLoop \in [Fds -> SrvLoops \cup {NoLoop}] /\ ioLoops \subseteq IOLoops
      /\ status \in [Fds -> {"none", "connecting", "connected", "disconnecting", "disconnected"}]
      /\ AreQueues(queue) /\ \A g \in Fds : FdOK(g)
  BY DEF SrvInv, SrvTypes
<1>b. /\ SrvUp /\ ~srvStopped /\ closing = {} /\ f \notin connections_ /\ f \notin movers
      /\ UNCHANGED <<movers, srvStopped, listen_ip_ports_, acceptors_, movingCount, toClose, closing, raced, ioLoops, pool, srvCrash>>
      /\ connections_' = connections_ \cup {f}
  <2>1. f \notin connections_
    BY DEF HandleAccept, Unused
  <2> QED BY <1>a, <2>1 DEF HandleAccept, HandleNewConnection, BaseFree, stopState, SrvInv, SrvPool, FdOK
<1>c. \A k : ~Has(queue, <<k, f>>)
  BY DEF HandleAccept, Unused, Has
<1>d. Base # NoLoop /\ Base \in SrvLoops
  BY DEF Base, NoLoop, SrvLoops
<1>1. ASSUME AreQueues(queue'), \A g \in Fds : FdOK(g)',
             connLoop' \in [Fds -> SrvLoops \cup {NoLoop}],
             status' \in [Fds -> {"none", "connecting", "connected", "disconnecting", "disconnected"}],
             MovingFds' = MovingFds
      PROVE  SrvInv'
  <2>1. SrvTypes'
    BY <1>1, <1>b DEF SrvInv, SrvTypes
  <2>2. SrvPool' /\ RemovedOnce'
    BY <1>b DEF SrvInv, SrvPool, RemovedOnce
  <2>3. MovingIsCounted'
    BY <1>1, <1>b DEF SrvInv, MovingIsCounted, MovingFds, SrvUp
  <2> QED BY <1>1, <2>1, <2>2, <2>3 DEF SrvInv
<1>2. CASE ioLoops = {}
  <2>1. Attach(f, Base) /\ UNCHANGED queue
    BY <1>2 DEF HandleAccept, HandleNewConnection
  <2>2. /\ connLoop' \in [Fds -> SrvLoops \cup {NoLoop}] /\ connLoop'[f] = Base /\ status'[f] = "connected"
        /\ status' \in [Fds -> {"none", "connecting", "connected", "disconnecting", "disconnected"}]
        /\ \A g \in Fds : g # f => connLoop'[g] = connLoop[g] /\ status'[g] = status[g]
    BY <1>a, <1>d, <2>1 DEF Attach
  <2>3. MovingFds' = MovingFds
    BY <1>a, <1>b, <1>d, <2>2 DEF MovingFds
  <2>4. ASSUME NEW g \in Fds, g # f PROVE FdOK(g)'
    BY <1>a, <1>b, <2>1, <2>2, <2>4, FdFrame
  <2>5. FdOK(f)'
    BY <1>b, <1>c, <2>1, <2>2 DEF FdOK
  <2> QED BY <1>1, <1>a, <2>1, <2>2, <2>3, <2>4, <2>5
<1>3. CASE ioLoops # {}
  <2> DEFINE e == <<"attach", f>>
  <2>1. PICK l \in ioLoops : queue' = Queued(l, "attach", f)
    BY <1>3 DEF HandleAccept, HandleNewConnection
  <2>2. /\ connLoop' \in [Fds -> SrvLoops \cup {NoLoop}] /\ connLoop'[f] = NoLoop /\ status'[f] = "connecting"
        /\ status' \in [Fds -> {"none", "connecting", "connected", "disconnecting", "disconnected"}]
        /\ \A g \in Fds : g # f => connLoop'[g] = connLoop[g] /\ status'[g] = status[g]
    BY <1>a, <1>3 DEF HandleAccept, HandleNewConnection
  <2>3. MovingFds' = MovingFds
    BY <1>a, <1>b, <1>d, <2>2 DEF MovingFds
  <2>4. l \in SrvLoops /\ e \in Allowed(l) /\ queue' = PutQ(queue, l, e)
    BY <1>a, <2>1, TcpServerAssumption DEF SrvLoops, Allowed, IOFunctors, PutQ, Queued
  <2>5. /\ AreQueues(queue') /\ \A d : Has(queue', d) <=> Has(queue, d) \/ d = e
        /\ \A d : Once(queue, d) /\ ~(d = e /\ Has(queue, d)) => Once(queue', d)
    <3> HIDE DEF e
    <3>1. /\ AreQueues(PutQ(queue, l, e)) /\ \A d : Has(PutQ(queue, l, e), d) <=> Has(queue, d) \/ d = e
          /\ \A d : Once(queue, d) /\ ~(d = e /\ Has(queue, d)) => Once(PutQ(queue, l, e), d)
      BY <1>a, <2>4, QueueMore
    <3> QED BY <2>4, <3>1, Zenon
  <2>6. ASSUME NEW g \in Fds, g # f PROVE FdOK(g)'
    <3>1. \A k : <<k, g>> # e
      BY <2>6
    <3>2. \A k : (Has(queue', <<k, g>>) => Has(queue, <<k, g>>)) /\ (Once(queue, <<k, g>>) => Once(queue', <<k, g>>))
      BY <2>5, <3>1
    <3> QED BY <1>a, <1>b, <2>2, <2>6, <3>2, FdFrame
  <2>7. FdOK(f)'
    <3>1. Once(queue, e) /\ ~Has(queue, e)
      BY <1>c DEF Has, Once
    <3>2. Once(queue', <<"attach", f>>)
      BY <2>5, <3>1
    <3>3. ~Has(queue', <<"reattach", f>>) /\ ~Has(queue', <<"remove", f>>) /\ ~Has(queue', <<"close", f>>)
      BY <1>c, <2>5
    <3> QED BY <1>b, <2>2, <3>2, <3>3 DEF FdOK
  <2> QED BY <1>1, <1>a, <2>2, <2>3, <2>5, <2>6, <2>7
<1> QED BY <1>2, <1>3

\* The close of a connection by its loop, in the whole state.
LEMMA ClosedStep ==
    ASSUME SrvInv, SrvUp, NEW f \in Fds, NEW l \in SrvLoops, NEW q, HandleClose(f, l, q), connLoop[f] = l, f \notin movers,
           AreQueues(q), \A d : Has(q, d) => Has(queue, d), \A d : Once(queue, d) => Once(q, d),
           UNCHANGED <<connLoop, movers, srvStopped, listen_ip_ports_, acceptors_, movingCount, ioLoops>>,
           closing' \subseteq closing, toClose' \subseteq toClose, closing' \subseteq toClose',
           raced' = {} => raced = {} /\ f \notin closing' /\ status[f] \in {"connected", "disconnecting", "disconnected"}
    PROVE  SrvInv'
<1>1. /\ \A g \in Fds : FdOK(g)'
      /\ AreQueues(queue') /\ connections_' \subseteq connections_
      /\ status' \in [Fds -> {"none", "connecting", "connected", "disconnecting", "disconnected"}]
      /\ RemovedOnce' /\ MovingFds' = MovingFds
      /\ UNCHANGED pool \/ (pool' = "gone" /\ srvStopped /\ connections_' = {})
  <2>1. SrvTypes /\ RemovedOnce /\ \A g \in Fds : FdOK(g)
    BY DEF SrvInv
  <2> HIDE DEF SrvInv
  <2> QED BY <2>1, CloseStep
<1>2. SrvTypes'
  BY <1>1 DEF SrvInv, SrvTypes
<1>3. SrvPool'
  BY <1>1 DEF SrvInv, SrvPool
<1>4. MovingIsCounted'
  BY <1>1 DEF SrvInv, MovingIsCounted, SrvUp, MovingFds
<1> QED BY <1>1, <1>2, <1>3, <1>4 DEF SrvInv

\* handleError() of a connection keeps it.
LEMMA SrvErrorStep ==
    ASSUME SrvInv, NEW f \in Fds, HandleError(f)
    PROVE  SrvInv'
<1>1. /\ SrvUp /\ HandleClose(f, connLoop[f], queue) /\ raced' = IF f \in closing THEN raced \cup {f} ELSE raced
      /\ connLoop[f] # NoLoop /\ status[f] \in {"connected", "disconnecting"} /\ LoopFree(connLoop[f])
      /\ UNCHANGED <<movers, srvStopped, listen_ip_ports_, acceptors_, connLoop, movingCount, toClose, closing, ioLoops>>
  BY DEF HandleError
<1>2. connLoop[f] \in SrvLoops /\ AreQueues(queue) /\ closing \subseteq toClose
  BY <1>1 DEF SrvInv, SrvTypes
<1>3. f \notin movers
  BY <1>1 DEF LoopFree
<1>4. raced' = {} => raced = {} /\ f \notin closing'
  BY <1>1
<1> HIDE DEF SrvInv
<1> QED BY <1>1, <1>2, <1>3, <1>4, ClosedStep

\* Detaching a connection and moving it to another loop keep it.
LEMMA SrvMoveStep ==
    ASSUME SrvInv, NEW f \in Fds, MoveToNewLoop(f) \/ DetachFromLoop(f)
    PROVE  SrvInv'
<1>a. /\ connections_ \subseteq Fds /\ connLoop \in [Fds -> SrvLoops \cup {NoLoop}] /\ ioLoops \subseteq IOLoops
      /\ status \in [Fds -> {"none", "connecting", "connected", "disconnecting", "disconnected"}]
      /\ AreQueues(queue) /\ \A g \in Fds : FdOK(g)
  BY DEF SrvInv, SrvTypes
<1>1. CASE MoveToNewLoop(f)
  <2>1. /\ SrvUp /\ movers' = movers \cup {f} /\ status[f] = "connected" /\ connLoop[f] \in IOLoops
        /\ UNCHANGED <<srvStopped, listen_ip_ports_, acceptors_, connections_, status, connLoop, movingCount>>
        /\ UNCHANGED <<queue, toClose, closing, raced, ioLoops, pool, srvCrash>>
    BY <1>1, <1>a DEF MoveToNewLoop, connState, stopState
  <2>2. ASSUME NEW g \in Fds, g # f PROVE FdOK(g)'
    BY <1>a, <2>1, <2>2, FdFrame
  <2>3. FdOK(f)'
    BY <1>a, <2>1 DEF FdOK
  <2>4. SrvTypes'
    BY <2>1 DEF SrvInv, SrvTypes
  <2>5. SrvPool' /\ RemovedOnce' /\ MovingIsCounted'
    BY <2>1 DEF SrvInv, SrvPool, RemovedOnce, MovingIsCounted, SrvUp
  <2> QED BY <2>2, <2>3, <2>4, <2>5 DEF SrvInv
<1>2. CASE DetachFromLoop(f)
  <2> DEFINE e == <<"reattach", f>>
  <2>1. /\ SrvUp /\ f \in movers /\ movers' = movers \ {f}
        /\ movingCount' = movingCount + 1 /\ connLoop' = [connLoop EXCEPT ![f] = NoLoop]
        /\ UNCHANGED <<srvStopped, listen_ip_ports_, acceptors_, connections_, status>>
        /\ UNCHANGED <<toClose, closing, raced, ioLoops, pool, srvCrash>>
    BY <1>2 DEF DetachFromLoop, stopState
  <2>2. PICK l \in ioLoops : queue' = Queued(l, "reattach", f)
    BY <1>2 DEF DetachFromLoop
  <2>3. l \in SrvLoops /\ e \in Allowed(l) /\ queue' = PutQ(queue, l, e)
    BY <1>a, <2>2, TcpServerAssumption DEF SrvLoops, Allowed, IOFunctors, PutQ, Queued
  <2>4. /\ AreQueues(queue') /\ \A d : Has(queue', d) <=> Has(queue, d) \/ d = e
        /\ \A d : Once(queue, d) /\ ~(d = e /\ Has(queue, d)) => Once(queue', d)
    <3> HIDE DEF e
    <3>1. /\ AreQueues(PutQ(queue, l, e)) /\ \A d : Has(PutQ(queue, l, e), d) <=> Has(queue, d) \/ d = e
          /\ \A d : Once(queue, d) /\ ~(d = e /\ Has(queue, d)) => Once(PutQ(queue, l, e), d)
      BY <1>a, <2>3, QueueMore
    <3> QED BY <2>3, <3>1, Zenon
  <2>5. /\ connLoop' \in [Fds -> SrvLoops \cup {NoLoop}] /\ connLoop'[f] = NoLoop
        /\ \A g \in Fds : g # f => connLoop'[g] = connLoop[g]
    BY <1>a, <2>1
  <2>6. /\ f \in connections_ /\ connLoop[f] \in IOLoops /\ status[f] \in {"connected", "disconnecting"}
        /\ ~Has(queue, <<"attach", f>>) /\ ~Has(queue, <<"reattach", f>>) /\ ~Has(queue, <<"remove", f>>)
    BY <1>a, <2>1, TcpServerAssumption DEF FdOK
  <2>7. ASSUME NEW g \in Fds, g # f PROVE FdOK(g)'
    <3>1. \A k : <<k, g>> # e
      BY <2>7
    <3>2. \A k : (Has(queue', <<k, g>>) => Has(queue, <<k, g>>)) /\ (Once(queue, <<k, g>>) => Once(queue', <<k, g>>))
      BY <2>4, <3>1
    <3> QED BY <1>a, <2>1, <2>5, <2>7, <3>2, FdFrame
  <2>8. FdOK(f)'
    <3>1. Once(queue, e)
      BY <2>6 DEF Has, Once
    <3>2. Once(queue', <<"reattach", f>>)
      BY <2>4, <2>6, <3>1
    <3>3. ~Has(queue', <<"attach", f>>) /\ ~Has(queue', <<"remove", f>>) /\ (Has(queue', <<"close", f>>) => Has(queue, <<"close", f>>))
      BY <2>4, <2>6
    <3>4. NoLoop # Base
      BY DEF NoLoop, Base
    <3> QED BY <1>a, <2>1, <2>5, <2>6, <3>2, <3>3, <3>4 DEF FdOK
  <2>9. MovingFds' = MovingFds \cup {f} /\ f \notin MovingFds /\ MovingFds \in SUBSET Fds /\ MovingFds' \in SUBSET Fds
    BY <1>a, <2>1, <2>5, <2>6, TcpServerAssumption DEF MovingFds
  <2>10. movingCount' = Cardinality(MovingFds')
    <3>1. movingCount = Cardinality(MovingFds)
      BY <2>1 DEF SrvInv, MovingIsCounted, MovingFds
    <3>2. Cardinality(MovingFds \cup {f}) = Cardinality(MovingFds) + 1
      BY <2>9, SomeFds, FS_AddElement
    <3> QED BY <2>1, <2>9, <3>1, <3>2
  <2>11. movingCount' \in 0 .. Cardinality(Fds)
    BY <2>9, <2>10, SomeFds
  <2>12. SrvTypes'
    BY <2>1, <2>4, <2>5, <2>11 DEF SrvInv, SrvTypes
  <2>13. SrvPool' /\ RemovedOnce'
    BY <2>1 DEF SrvInv, SrvPool, RemovedOnce
  <2>14. MovingIsCounted'
    BY <2>10 DEF MovingIsCounted, MovingFds
  <2> QED BY <2>7, <2>8, <2>12, <2>13, <2>14 DEF SrvInv
<1> QED BY <1>1, <1>2

\* stop() visiting the next connection keeps it.
LEMMA SrvVisitStep ==
    ASSUME SrvInv, NEW f \in Fds, StopVisits(f)
    PROVE  SrvInv'
<1>1. /\ SrvUp /\ closing = {} /\ f \in toClose
      /\ UNCHANGED <<movers, srvStopped, listen_ip_ports_, acceptors_, connections_, status, connLoop, movingCount>>
      /\ UNCHANGED <<queue, pool, srvCrash, raced, ioLoops>>
  BY DEF StopVisits, connState
<1>2. /\ toClose' \subseteq toClose /\ closing' \subseteq {f} /\ closing' \subseteq toClose'
      /\ f \in closing' => status[f] = "connected"
  <2>1. CASE status[f] = "connected"
    BY <1>1, <2>1 DEF StopVisits
  <2>2. CASE status[f] # "connected"
    BY <1>1, <2>2 DEF StopVisits
  <2> QED BY <2>1, <2>2
<1>3. SrvTypes'
  BY <1>1, <1>2 DEF SrvInv, SrvTypes
<1>4. SrvPool' /\ RemovedOnce' /\ MovingIsCounted'
  BY <1>1 DEF SrvInv, SrvPool, RemovedOnce, MovingIsCounted, SrvUp
<1>5. ASSUME NEW g \in Fds PROVE FdOK(g)'
  <2>1. FdOK(g)
    BY DEF SrvInv
  <2>2. CASE g # f
    BY <1>1, <1>2, <2>1, <2>2, FdFrame
  <2>3. CASE g = f
    BY <1>1, <1>2, <2>1, <2>3 DEF FdOK
  <2> QED BY <2>2, <2>3
<1> QED BY <1>3, <1>4, <1>5 DEF SrvInv

\* stop() closing the connection it visits keeps it.
LEMMA SrvCloseStep ==
    ASSUME SrvInv, NEW f \in Fds, StopCloses(f)
    PROVE  SrvInv'
<1>a. /\ connections_ \subseteq Fds /\ connLoop \in [Fds -> SrvLoops \cup {NoLoop}] /\ closing \subseteq toClose
      /\ status \in [Fds -> {"none", "connecting", "connected", "disconnecting", "disconnected"}]
      /\ AreQueues(queue) /\ \A g \in Fds : FdOK(g)
  BY DEF SrvInv, SrvTypes
<1>b. /\ SrvUp /\ f \in closing /\ closing' = {} /\ toClose' = toClose \ {f}
      /\ UNCHANGED <<movers, srvStopped, listen_ip_ports_, acceptors_, connLoop, movingCount, raced, ioLoops>>
  BY DEF StopCloses
<1>c. raced = {} => status[f] = "connected"
  BY <1>a, <1>b DEF FdOK
<1>1. CASE connLoop[f] = NoLoop
  <2>1. srvCrash' = "null" /\ UNCHANGED <<status, connections_, queue, pool>>
    BY <1>1 DEF StopCloses, Base, NoLoop
  <2>2. SrvTypes'
    BY <1>b, <2>1 DEF SrvInv, SrvTypes
  <2>3. SrvPool' /\ RemovedOnce'
    BY <1>b, <2>1 DEF SrvInv, SrvPool, RemovedOnce
  <2> QED BY <1>b, <2>1, <2>2, <2>3, QuietStep DEF SrvInv
<1>2. CASE connLoop[f] = Base
  <2>1. HandleClose(f, Base, queue)
    BY <1>2 DEF StopCloses, Base, NoLoop
  <2>2. Base \in SrvLoops /\ f \notin movers
    BY <1>2, <1>a, TcpServerAssumption DEF SrvLoops, FdOK
  <2>3. toClose' \subseteq toClose /\ closing' \subseteq closing /\ closing' \subseteq toClose'
    BY <1>b
  <2>4. raced' = {} => raced = {} /\ f \notin closing' /\ status[f] \in {"connected", "disconnecting", "disconnected"}
    BY <1>b, <1>c
  <2> HIDE DEF SrvInv
  <2> QED BY <1>2, <1>a, <1>b, <2>1, <2>2, <2>3, <2>4, ClosedStep
<1>3. CASE connLoop[f] # NoLoop /\ connLoop[f] # Base
  <2> DEFINE e == <<"close", f>>
             l == connLoop[f]
  <2>1. /\ status' = [status EXCEPT ![f] = "disconnecting"]
        /\ queue' = Queued(l, "close", f) /\ UNCHANGED <<connections_, pool, srvCrash>>
    BY <1>3 DEF StopCloses
  <2>2. l \in IOLoops /\ l \in SrvLoops /\ e \in Allowed(l) /\ queue' = PutQ(queue, l, e)
    BY <1>a, <1>3, <2>1 DEF SrvLoops, Allowed, IOFunctors, PutQ, Queued
  <2>3. /\ AreQueues(queue') /\ \A d : Has(queue', d) <=> Has(queue, d) \/ d = e
        /\ \A d : Once(queue, d) /\ ~(d = e /\ Has(queue, d)) => Once(queue', d)
    <3> HIDE DEF e, l
    <3>1. /\ AreQueues(PutQ(queue, l, e)) /\ \A d : Has(PutQ(queue, l, e), d) <=> Has(queue, d) \/ d = e
          /\ \A d : Once(queue, d) /\ ~(d = e /\ Has(queue, d)) => Once(PutQ(queue, l, e), d)
      BY <1>a, <2>2, QueueMore
    <3> QED BY <2>2, <3>1, Zenon
  <2>4. /\ status'[f] = "disconnecting" /\ \A g \in Fds : g # f => status'[g] = status[g]
        /\ status' \in [Fds -> {"none", "connecting", "connected", "disconnecting", "disconnected"}]
    BY <1>a, <2>1
  <2>5. ASSUME NEW g \in Fds, g # f PROVE FdOK(g)'
    <3>1. \A k : <<k, g>> # e
      BY <2>5
    <3>2. \A k : (Has(queue', <<k, g>>) => Has(queue, <<k, g>>)) /\ (Once(queue, <<k, g>>) => Once(queue', <<k, g>>))
      BY <2>3, <3>1
    <3> QED BY <1>a, <1>b, <2>1, <2>4, <2>5, <3>2, FdFrame
  <2>6. FdOK(f)'
    <3>1. ~Has(queue', <<"attach", f>>) /\ ~Has(queue', <<"reattach", f>>) /\ (Has(queue', <<"remove", f>>) => Has(queue, <<"remove", f>>))
      BY <1>3, <1>a, <2>3 DEF FdOK
    <3>2. raced = {} => f \in connections_ /\ ~Has(queue, <<"remove", f>>)
      BY <1>a, <1>c DEF FdOK
    <3> QED BY <1>3, <1>a, <1>b, <2>1, <2>4, <3>1, <3>2 DEF FdOK
  <2>7. MovingFds' = MovingFds
    BY <1>3, <1>a, <1>b, <2>1, <2>4 DEF MovingFds
  <2>8. SrvTypes'
    BY <1>b, <2>1, <2>3, <2>4 DEF SrvInv, SrvTypes
  <2>9. SrvPool' /\ RemovedOnce'
    BY <1>b, <2>1 DEF SrvInv, SrvPool, RemovedOnce
  <2>10. MovingIsCounted'
    BY <1>b, <2>1, <2>7 DEF SrvInv, MovingIsCounted, SrvUp, MovingFds
  <2> QED BY <2>5, <2>6, <2>8, <2>9, <2>10 DEF SrvInv
<1> QED BY <1>1, <1>2, <1>3

\* Every functor of the base loop keeps it.
LEMMA SrvBaseStep ==
    ASSUME SrvInv, RunBaseFunctor
    PROVE  SrvInv'
<1> DEFINE e == Head(queue[Base])
<1>a. /\ connections_ \subseteq Fds /\ connLoop \in [Fds -> SrvLoops \cup {NoLoop}]
      /\ AreQueues(queue) /\ Base \in SrvLoops /\ queue[Base] # <<>> /\ \A g \in Fds : FdOK(g)
  BY DEF SrvInv, SrvTypes, SrvLoops, RunBaseFunctor
<1>b. /\ SrvUp /\ toClose = {} /\ closing = {}
      /\ UNCHANGED <<movers, listen_ip_ports_, status, connLoop, movingCount, closing, raced, ioLoops>>
  BY DEF RunBaseFunctor, BaseFree
<1>c. /\ AreQueues(queue') /\ Has(queue, e) /\ \A d : Has(queue', d) => Has(queue, d)
      /\ \A d : Once(queue, d) => Once(queue', d)
      /\ Once(queue, e) => ~Has(queue', e)
  <2>1. queue' = DropQ(queue, Base)
    BY DEF RunBaseFunctor, DropQ
  <2>2. /\ AreQueues(DropQ(queue, Base)) /\ Has(queue, e) /\ \A d : Has(DropQ(queue, Base), d) => Has(queue, d)
        /\ \A d : Once(queue, d) => Once(DropQ(queue, Base), d)
        /\ Once(queue, e) => ~Has(DropQ(queue, Base), e)
    BY <1>a, QueueLess
  <2> QED BY <2>1, <2>2, Zenon
<1>d. e = <<"stop", 0>> \/ \E f \in Fds : e = <<"remove", f>>
  <2>1. e \in Allowed(Base)
    BY <1>a, QueueTypes
  <2> QED BY <2>1 DEF Allowed, BaseFunctors
<1>1. CASE e = <<"stop", 0>>
  <2>1. StopInLoop /\ UNCHANGED <<connections_, srvCrash>>
    BY <1>1 DEF RunBaseFunctor
  <2>2. srvStopped' = TRUE /\ toClose' \subseteq connections_ /\ acceptors_' = {} /\ (pool' = "gone" => pool = "gone" \/ connections_ = {})
    BY <1>b, <2>1 DEF StopInLoop, SrvInv, SrvPool, SrvTypes
  <2>3. SrvTypes'
    BY <1>a, <1>b, <1>c, <2>1, <2>2 DEF SrvInv, SrvTypes
  <2>4. SrvPool' /\ RemovedOnce' /\ MovingIsCounted'
    BY <1>b, <2>1, <2>2 DEF SrvInv, SrvPool, RemovedOnce, MovingIsCounted, SrvUp
  <2>5. \A g \in Fds : FdOK(g)'
    BY <1>a, <1>b, <1>c, <2>1, FdFrame
  <2> QED BY <2>3, <2>4, <2>5 DEF SrvInv
<1>2. ASSUME NEW f \in Fds, e = <<"remove", f>> PROVE SrvInv'
  <2>1. RemoveConnectionInLoop(f) /\ UNCHANGED <<srvStopped, acceptors_, toClose>>
    BY <1>2 DEF RunBaseFunctor
  <2>2. /\ status[f] \in {"disconnecting", "disconnected"} /\ connLoop[f] \in IOLoops /\ f \notin movers
        /\ raced = {} => f \in connections_ /\ status[f] = "disconnected" /\ ~Has(queue', <<"remove", f>>)
    <3>1. Has(queue, <<"remove", f>>) /\ (Once(queue, <<"remove", f>>) => ~Has(queue', <<"remove", f>>))
      BY <1>c, <1>2
    <3> QED BY <1>a, <3>1 DEF FdOK
  <2>3. /\ connections_' \subseteq connections_ /\ \A g \in Fds : g # f => (g \in connections_' <=> g \in connections_)
        /\ UNCHANGED pool \/ (pool' = "gone" /\ srvStopped /\ connections_' = {})
    BY <2>1 DEF RemoveConnectionInLoop
  <2>4. RemovedOnce'
    BY <1>b, <2>1, <2>2 DEF RemoveConnectionInLoop, RemovedOnce, SrvInv
  <2>5. ASSUME NEW g \in Fds, g # f PROVE FdOK(g)'
    BY <1>a, <1>b, <1>c, <2>3, <2>5, FdFrame
  <2>6. FdOK(f)'
    <3>1. ~Has(queue', <<"attach", f>>) /\ ~Has(queue', <<"reattach", f>>) /\ (Has(queue', <<"remove", f>>) => Has(queue, <<"remove", f>>))
          /\ (Has(queue', <<"close", f>>) => Has(queue, <<"close", f>>))
      BY <1>a, <1>c, <2>2, TcpServerAssumption DEF FdOK
    <3> QED BY <1>a, <1>b, <2>2, <3>1 DEF FdOK
  <2>7. MovingFds' = MovingFds
    BY <1>a, <1>b, <2>2, <2>3, TcpServerAssumption DEF MovingFds
  <2>8. SrvTypes'
    BY <1>a, <1>b, <1>c, <2>1, <2>3 DEF SrvInv, SrvTypes
  <2>9. SrvPool'
    BY <2>1, <2>3 DEF SrvInv, SrvPool
  <2>10. MovingIsCounted'
    BY <1>b, <2>7 DEF SrvInv, MovingIsCounted, MovingFds
  <2> QED BY <2>4, <2>5, <2>6, <2>8, <2>9, <2>10 DEF SrvInv
<1> QED BY <1>d, <1>1, <1>2

\* Every functor of an I/O loop keeps it.
LEMMA SrvIOStep ==
    ASSUME SrvInv, NEW l \in IOLoops, RunIOFunctor(l)
    PROVE  SrvInv'
<1> DEFINE e == Head(queue[l])
           remain == DropQ(queue, l)
<1>a. /\ connections_ \subseteq Fds /\ connLoop \in [Fds -> SrvLoops \cup {NoLoop}]
      /\ status \in [Fds -> {"none", "connecting", "connected", "disconnecting", "disconnected"}]
      /\ AreQueues(queue) /\ l \in SrvLoops /\ l # Base /\ l # NoLoop /\ \A g \in Fds : FdOK(g)
  BY TcpServerAssumption DEF SrvInv, SrvTypes, SrvLoops
<1>b. /\ SrvUp /\ queue[l] # <<>> /\ LoopFree(l)
      /\ UNCHANGED <<movers, srvStopped, listen_ip_ports_, acceptors_, toClose, closing, raced, ioLoops>>
  BY DEF RunIOFunctor, stopState
<1>c. /\ AreQueues(remain) /\ Has(queue, e) /\ \A d : Has(remain, d) => Has(queue, d)
      /\ \A d : Once(queue, d) => Once(remain, d)
      /\ Once(queue, e) => ~Has(remain, e)
  BY <1>a, <1>b, QueueLess
<1>d. PICK k \in {"attach", "reattach", "close"}, f \in Fds : e = <<k, f>>
  <2>1. e \in Allowed(l)
    BY <1>a, <1>b, QueueTypes
  <2> QED BY <1>a, <2>1 DEF Allowed, IOFunctors
<1>e. /\ remain = [queue EXCEPT ![l] = Tail(@)] /\ k = e[1] /\ f = e[2] /\ e = Head(queue[l])
  BY <1>d DEF DropQ
<1> HIDE DEF remain, e
<1>1. ASSUME AreQueues(queue'), \A g \in Fds : FdOK(g)', UNCHANGED <<connections_, pool, srvCrash>>,
             connLoop' \in [Fds -> SrvLoops \cup {NoLoop}],
             status' \in [Fds -> {"none", "connecting", "connected", "disconnecting", "disconnected"}],
             movingCount' = Cardinality(MovingFds')
      PROVE  SrvInv'
  <2>1. MovingFds' \in SUBSET Fds
    BY <1>a, <1>1 DEF MovingFds
  <2>2. movingCount' \in 0 .. Cardinality(Fds)
    BY <1>1, <2>1, SomeFds
  <2>3. SrvTypes'
    BY <1>1, <1>b, <2>2 DEF SrvInv, SrvTypes
  <2>4. SrvPool' /\ RemovedOnce'
    BY <1>1, <1>b DEF SrvInv, SrvPool, RemovedOnce
  <2>5. MovingIsCounted'
    BY <1>1 DEF MovingIsCounted, MovingFds
  <2> QED BY <1>1, <2>3, <2>4, <2>5 DEF SrvInv
<1>f. movingCount = Cardinality(MovingFds) /\ MovingFds \in SUBSET Fds
  BY <1>a, <1>b DEF SrvInv, MovingIsCounted, MovingFds
<1>2. CASE k = "attach"
  <2>1. Attach(f, l) /\ queue' = remain /\ UNCHANGED <<movingCount, connections_, pool, srvCrash>>
    BY <1>2, <1>e DEF RunIOFunctor
  <2>2. /\ connLoop' \in [Fds -> SrvLoops \cup {NoLoop}] /\ connLoop'[f] = l /\ status'[f] = "connected"
        /\ status' \in [Fds -> {"none", "connecting", "connected", "disconnecting", "disconnected"}]
        /\ \A g \in Fds : g # f => connLoop'[g] = connLoop[g] /\ status'[g] = status[g]
    BY <1>a, <2>1 DEF Attach
  <2>3. Has(queue, <<"attach", f>>) /\ (Once(queue, <<"attach", f>>) => ~Has(remain, <<"attach", f>>))
    BY <1>2, <1>c, <1>d
  <2>4. status[f] = "connecting" /\ connLoop[f] = NoLoop /\ f \in connections_ /\ ~Has(remain, <<"attach", f>>)
    BY <1>a, <2>3 DEF FdOK
  <2>5. ASSUME NEW g \in Fds, g # f PROVE FdOK(g)'
    BY <1>a, <1>b, <1>c, <2>1, <2>2, <2>5, FdFrame
  <2>6. FdOK(f)'
    <3>1. ~Has(queue', <<"attach", f>>) /\ ~Has(queue', <<"reattach", f>>) /\ ~Has(queue', <<"remove", f>>) /\ ~Has(queue', <<"close", f>>)
      BY <1>a, <1>c, <2>1, <2>4 DEF FdOK
    <3>2. f \notin movers
      BY <1>a, <2>4 DEF FdOK
    <3> QED BY <1>a, <1>b, <2>1, <2>2, <2>4, <3>1, <3>2 DEF FdOK
  <2>7. MovingFds' = MovingFds
    BY <1>a, <2>1, <2>2, <2>4 DEF MovingFds
  <2> QED BY <1>1, <1>c, <1>f, <2>1, <2>2, <2>5, <2>6, <2>7
<1>3. CASE k = "reattach"
  <2>1. Reattach(f, l) /\ queue' = remain /\ UNCHANGED <<connections_, pool, srvCrash>>
    BY <1>3, <1>e DEF RunIOFunctor
  <2>2. /\ connLoop' \in [Fds -> SrvLoops \cup {NoLoop}] /\ connLoop'[f] = l /\ UNCHANGED status
        /\ \A g \in Fds : g # f => connLoop'[g] = connLoop[g]
    BY <1>a, <2>1 DEF Reattach
  <2>3. Has(queue, <<"reattach", f>>) /\ (Once(queue, <<"reattach", f>>) => ~Has(remain, <<"reattach", f>>))
    BY <1>3, <1>c, <1>d
  <2>4. /\ status[f] \in {"connected", "disconnecting"} /\ connLoop[f] = NoLoop /\ f \in connections_
        /\ ~Has(remain, <<"reattach", f>>) /\ f \notin movers
    BY <1>a, <2>3, TcpServerAssumption DEF FdOK
  <2>5. ASSUME NEW g \in Fds, g # f PROVE FdOK(g)'
    BY <1>a, <1>b, <1>c, <2>1, <2>2, <2>5, FdFrame
  <2>6. FdOK(f)'
    <3>1. ~Has(queue', <<"attach", f>>) /\ ~Has(queue', <<"reattach", f>>) /\ ~Has(queue', <<"remove", f>>)
          /\ (Has(queue', <<"close", f>>) => Has(queue, <<"close", f>>))
      BY <1>a, <1>c, <2>1, <2>4, TcpServerAssumption DEF FdOK
    <3> QED BY <1>a, <1>b, <2>1, <2>2, <2>4, <3>1 DEF FdOK
  <2>7. MovingFds' = MovingFds \ {f} /\ f \in MovingFds
    BY <1>a, <2>1, <2>2, <2>4 DEF MovingFds
  <2>8. movingCount' = Cardinality(MovingFds')
    <3>1. Cardinality(MovingFds \ {f}) = Cardinality(MovingFds) - 1
      BY <1>f, <2>7, SomeFds, FS_RemoveElement
    <3>2. movingCount' = movingCount - 1
      BY <2>1 DEF Reattach
    <3> QED BY <1>f, <2>7, <3>1, <3>2
  <2>9. status' \in [Fds -> {"none", "connecting", "connected", "disconnecting", "disconnected"}]
    BY <1>a, <2>2
  <2> QED BY <1>1, <1>c, <2>1, <2>2, <2>5, <2>6, <2>8, <2>9
<1>4. CASE k = "close" /\ connLoop[f] = l
  <2>1. HandleClose(f, l, remain) /\ UNCHANGED <<connLoop, movingCount>>
    BY <1>4, <1>e DEF RunIOFunctor
  <2>2. f \notin movers
    BY <1>4, <1>b DEF LoopFree
  <2>3. Has(queue, <<"close", f>>)
    BY <1>4, <1>c, <1>d
  <2>4. raced' = {} => raced = {} /\ f \notin closing' /\ status[f] \in {"connected", "disconnecting", "disconnected"}
    BY <1>a, <1>b, <2>3 DEF FdOK
  <2>5. closing' \subseteq closing /\ toClose' \subseteq toClose /\ closing' \subseteq toClose'
    BY <1>b DEF SrvInv, SrvTypes
  <2> HIDE DEF SrvInv
  <2> QED BY <1>4, <1>a, <1>b, <1>c, <2>1, <2>2, <2>4, <2>5, ClosedStep
<1>5. CASE k = "close" /\ connLoop[f] # l
  <2> DEFINE m == IF connLoop[f] = NoLoop THEN l ELSE connLoop[f]
  <2>1. /\ queue' = [remain EXCEPT ![m] = Append(@, <<k, f>>)]
        /\ UNCHANGED <<connLoop, movingCount, status, connections_, pool, srvCrash>>
    BY <1>5, <1>e DEF RunIOFunctor
  <2>2. Has(queue, <<"close", f>>)
    BY <1>5, <1>c, <1>d
  <2>3. m \in SrvLoops /\ m # Base
    BY <1>a, <2>2 DEF FdOK
  <2>4. queue' = PutQ(remain, m, e) /\ e \in Allowed(m)
    BY <1>d, <1>5, <2>1, <2>3 DEF PutQ, Allowed, IOFunctors
  <2> HIDE DEF m
  <2>5. /\ AreQueues(queue') /\ \A d : Has(queue', d) <=> Has(remain, d) \/ d = e
        /\ \A d : Once(remain, d) /\ ~(d = e /\ Has(remain, d)) => Once(queue', d)
    <3>1. /\ AreQueues(PutQ(remain, m, e)) /\ \A d : Has(PutQ(remain, m, e), d) <=> Has(remain, d) \/ d = e
          /\ \A d : Once(remain, d) /\ ~(d = e /\ Has(remain, d)) => Once(PutQ(remain, m, e), d)
      BY <1>c, <2>3, <2>4, QueueMore
    <3> QED BY <2>4, <3>1, Zenon
  <2>6. ASSUME NEW g \in Fds PROVE FdOK(g)'
    <3>1. \A j \in {"attach", "reattach", "remove"} : <<j, g>> # e
      BY <1>d, <1>5
    <3>2. \A d : Has(queue', d) => Has(queue, d)
      BY <1>c, <2>5
    <3>3. \A j \in {"attach", "reattach", "remove"} : Once(queue, <<j, g>>) => Once(queue', <<j, g>>)
      BY <1>c, <2>5, <3>1
    <3> QED BY <1>a, <1>b, <2>1, <3>2, <3>3, FdFrame
  <2>7. MovingFds' = MovingFds
    BY <2>1 DEF MovingFds
  <2> QED BY <1>1, <1>a, <1>f, <2>1, <2>5, <2>6, <2>7
<1> QED BY <1>2, <1>3, <1>4, <1>5

\* Every step of TcpServer keeps it.
LEMMA SrvStep ==
    ASSUME SrvInv, SrvNext \/ UNCHANGED srvVars
    PROVE  SrvInv'
<1>1. CASE SrvNext
  BY <1>1, SrvControlStep, SrvAcceptStep, SrvErrorStep, SrvMoveStep, SrvVisitStep, SrvCloseStep,
     SrvBaseStep, SrvIOStep DEF SrvNext
<1>2. CASE UNCHANGED srvVars
  <2>1. UNCHANGED <<srvStopped, listen_ip_ports_, acceptors_, connections_, status, connLoop, queue, toClose, closing,
             ioLoops, pool, movers, movingCount, srvCrash, raced>>
    BY <1>2 DEF srvVars
  <2>2. SrvTypes' /\ SrvPool' /\ RemovedOnce' /\ MovingIsCounted'
    BY <2>1 DEF SrvInv, SrvTypes, SrvPool, RemovedOnce, MovingIsCounted, SrvUp
  <2>3. \A f \in Fds : FdOK(f)'
    BY <2>1, FdFrame DEF SrvInv
  <2> QED BY <2>2, <2>3 DEF SrvInv
<1> QED BY <1>1, <1>2

(***************************************************************************)
(* TcpOutput                                                               *)
(***************************************************************************)
\* The bytes m + 1 to m + n.
LEMMA BytesType ==
    ASSUME NEW m \in Nat, NEW n \in Nat
    PROVE  /\ Bytes(m, m + n) \in Seq(Nat) /\ Len(Bytes(m, m + n)) = n
           /\ \A i \in 1 .. n : Bytes(m, m + n)[i] = m + i
<1>1. Bytes(m, m + n) = [i \in 1 .. n |-> m + i]
  BY DEF Bytes
<1>2. [i \in 1 .. n |-> m + i] \in Seq(Nat) /\ Len([i \in 1 .. n |-> m + i]) = n
  OBVIOUS
<1> QED BY <1>1, <1>2

\* A sequence cut in two.
LEMMA CutInTwo ==
    ASSUME NEW S, NEW s \in Seq(S), NEW k \in 0 .. Len(s)
    PROVE  /\ SubSeq(s, 1, k) \o From(s, k) = s
           /\ SubSeq(s, 1, k) \in Seq(S) /\ From(s, k) \in Seq(S)
           /\ Len(SubSeq(s, 1, k)) = k /\ Len(From(s, k)) = Len(s) - k
           /\ \A i \in 1 .. k : SubSeq(s, 1, k)[i] = s[i]
<1>1. Len(s) \in Nat
  BY LenProperties
<1>2. 1 \in 1 .. Len(s) + 1 /\ k \in 1 - 1 .. Len(s) /\ Len(s) \in k .. Len(s)
  BY <1>1
<1>3. SubSeq(s, 1, k) \o SubSeq(s, k + 1, Len(s)) = SubSeq(s, 1, Len(s))
  BY <1>2, ConcatAdjacentSubSeq
<1>4. SubSeq(s, 1, Len(s)) = s
  BY SubSeqFull
<1>5. SubSeq(s, 1, k) \in Seq(S) /\ Len(SubSeq(s, 1, k)) = k /\ \A i \in 1 .. k : SubSeq(s, 1, k)[i] = s[i]
  BY <1>1
<1>6. SubSeq(s, k + 1, Len(s)) \in Seq(S) /\ Len(SubSeq(s, k + 1, Len(s))) = Len(s) - k
  BY <1>1
<1> QED BY <1>3, <1>4, <1>5, <1>6 DEF From

\* The order of OutputInOrder, of one sequence and between two.
Elems(s) == {s[i] : i \in 1 .. Len(s)}
Behind(u, v, pas) == u < v \/ v \in pas[u]             \* u may leave before v
Ordered(s, pas) == \A i, j \in 1 .. Len(s) : i < j => Behind(s[i], s[j], pas)
Apart(s, t, pas) == \A u \in Elems(s), v \in Elems(t) : Behind(u, v, pas)

\* The elements of two sequences one after the other.
LEMMA ElemsJoin ==
    ASSUME NEW s \in Seq(Nat), NEW t \in Seq(Nat)
    PROVE  /\ s \o t \in Seq(Nat)
           /\ Elems(s \o t) = Elems(s) \cup Elems(t)
<1>1. /\ s \o t \in Seq(Nat) /\ Len(s \o t) = Len(s) + Len(t)
      /\ \A i \in 1 .. Len(s) + Len(t) : (s \o t)[i] = IF i <= Len(s) THEN s[i] ELSE t[i - Len(s)]
  BY ConcatProperties
<1>2. PICK m \in Nat, n \in Nat : Len(s) = m /\ Len(t) = n
  BY LenProperties
<1>3. ASSUME NEW x, x \in Elems(s \o t) PROVE x \in Elems(s) \cup Elems(t)
  <2>1. PICK i \in 1 .. m + n : x = (s \o t)[i]
    BY <1>1, <1>2, <1>3 DEF Elems
  <2>2. CASE i <= m
    BY <1>1, <1>2, <2>1, <2>2 DEF Elems
  <2>3. CASE ~(i <= m)
    <3>1. i - m \in 1 .. n
      BY <2>1, <2>3
    <3>2. x = t[i - m]
      BY <1>1, <1>2, <2>1, <2>3
    <3> QED BY <1>2, <3>1, <3>2 DEF Elems
  <2> QED BY <2>2, <2>3
<1>4. ASSUME NEW x, x \in Elems(s) PROVE x \in Elems(s \o t)
  <2>1. PICK i \in 1 .. m : x = s[i]
    BY <1>2, <1>4 DEF Elems
  <2>2. i \in 1 .. m + n /\ i <= m
    OBVIOUS
  <2> QED BY <1>1, <1>2, <2>1, <2>2 DEF Elems
<1>5. ASSUME NEW x, x \in Elems(t) PROVE x \in Elems(s \o t)
  <2>1. PICK i \in 1 .. n : x = t[i]
    BY <1>2, <1>5 DEF Elems
  <2>2. i + m \in 1 .. m + n /\ ~(i + m <= m) /\ (i + m) - m = i
    OBVIOUS
  <2>3. (s \o t)[i + m] = t[i]
    BY <1>1, <1>2, <2>2
  <2> QED BY <1>1, <1>2, <2>1, <2>2, <2>3 DEF Elems
<1> QED BY <1>1, <1>3, <1>4, <1>5

\* Two sequences one after the other are ordered if each is and the first is behind nothing of the second.
LEMMA OrderedJoin ==
    ASSUME NEW s \in Seq(Nat), NEW t \in Seq(Nat), NEW pas
    PROVE  Ordered(s \o t, pas) <=> Ordered(s, pas) /\ Ordered(t, pas) /\ Apart(s, t, pas)
<1>1. /\ s \o t \in Seq(Nat) /\ Len(s \o t) = Len(s) + Len(t)
      /\ \A i \in 1 .. Len(s) + Len(t) : (s \o t)[i] = IF i <= Len(s) THEN s[i] ELSE t[i - Len(s)]
  BY ConcatProperties
<1>2. PICK m \in Nat, n \in Nat : Len(s) = m /\ Len(t) = n
  BY LenProperties
<1>3. \A i \in 1 .. m : i \in 1 .. m + n /\ (s \o t)[i] = s[i]
  BY <1>1, <1>2
<1>4. \A i \in 1 .. n : i + m \in m + 1 .. m + n /\ (s \o t)[i + m] = t[i]
  <2> SUFFICES ASSUME NEW i \in 1 .. n PROVE i + m \in m + 1 .. m + n /\ (s \o t)[i + m] = t[i]
    OBVIOUS
  <2>1. i + m \in 1 .. m + n /\ ~(i + m <= m) /\ (i + m) - m = i
    OBVIOUS
  <2> QED BY <1>1, <1>2, <2>1
<1>5. ASSUME Ordered(s \o t, pas) PROVE Ordered(s, pas) /\ Ordered(t, pas) /\ Apart(s, t, pas)
  <2>1. \A i, j \in 1 .. m + n : i < j => Behind((s \o t)[i], (s \o t)[j], pas)
    BY <1>1, <1>2, <1>5, Zenon DEF Ordered
  <2>2. Ordered(s, pas)
    BY <1>2, <1>3, <2>1, Zenon DEF Ordered
  <2>3. Ordered(t, pas)
    <3> SUFFICES ASSUME NEW i \in 1 .. n, NEW j \in 1 .. n, i < j PROVE Behind(t[i], t[j], pas)
      BY <1>2 DEF Ordered
    <3>1. i + m \in 1 .. m + n /\ j + m \in 1 .. m + n /\ i + m < j + m
      OBVIOUS
    <3>2. Behind((s \o t)[i + m], (s \o t)[j + m], pas)
      BY <2>1, <3>1
    <3> QED BY <1>4, <3>2, Zenon
  <2>4. Apart(s, t, pas)
    <3> SUFFICES ASSUME NEW i \in 1 .. m, NEW j \in 1 .. n PROVE Behind(s[i], t[j], pas)
      BY <1>2, Zenon DEF Apart, Elems
    <3>1. i \in 1 .. m + n /\ j + m \in 1 .. m + n /\ i < j + m
      OBVIOUS
    <3>2. Behind((s \o t)[i], (s \o t)[j + m], pas)
      BY <2>1, <3>1
    <3> QED BY <1>3, <1>4, <3>2, Zenon
  <2> QED BY <2>2, <2>3, <2>4
<1>6. ASSUME Ordered(s, pas), Ordered(t, pas), Apart(s, t, pas) PROVE Ordered(s \o t, pas)
  <2> SUFFICES ASSUME NEW i \in 1 .. m + n, NEW j \in 1 .. m + n, i < j
               PROVE  Behind((s \o t)[i], (s \o t)[j], pas)
    BY <1>1, <1>2, Zenon DEF Ordered
  <2>1. CASE j <= m
    <3>1. i \in 1 .. m /\ j \in 1 .. m
      BY <2>1
    <3> QED BY <1>2, <1>3, <1>6, <3>1, Zenon DEF Ordered
  <2>2. CASE ~(j <= m) /\ i <= m
    <3>1. i \in 1 .. m
      BY <2>2
    <3>2. PICK b \in 1 .. n : j = b + m
      <4>1. j - m \in 1 .. n /\ j = (j - m) + m
        BY <2>2
      <4> QED BY <4>1
    <3>3. s[i] \in Elems(s) /\ t[b] \in Elems(t)
      BY <1>2, <3>1, <3>2 DEF Elems
    <3>4. Behind(s[i], t[b], pas)
      BY <1>6, <3>3, Zenon DEF Apart
    <3> QED BY <1>3, <1>4, <3>1, <3>2, <3>4, Zenon
  <2>3. CASE ~(i <= m)
    <3>1. PICK a \in 1 .. n, b \in 1 .. n : i = a + m /\ j = b + m /\ a < b
      <4>1. /\ i - m \in 1 .. n /\ i = (i - m) + m /\ j - m \in 1 .. n /\ j = (j - m) + m
            /\ i - m < j - m
        BY <2>3
      <4> QED BY <4>1
    <3>2. Behind(t[a], t[b], pas)
      BY <1>2, <1>6, <3>1, Zenon DEF Ordered
    <3> QED BY <1>4, <3>1, <3>2, Zenon
  <2> QED BY <2>1, <2>2, <2>3
<1> QED BY <1>5, <1>6

\* Putting three sequences one after the other.
LEMMA Associates ==
    ASSUME NEW s \in Seq(Nat), NEW t \in Seq(Nat), NEW u \in Seq(Nat)
    PROVE  (s \o t) \o u = s \o (t \o u)
OBVIOUS

\* Bytes handed over go before those that calls in progress hold, whom they pass.
LEMMA Inserted ==
    ASSUME NEW a \in Seq(Nat), NEW b \in Seq(Nat), NEW h \in Nat, NEW n \in Nat, NEW ref \in SUBSET (1 .. h),
           NEW pas, NEW new, Elems(a \o b) = (1 .. h) \ ref, Ordered(a \o b, pas),
           \A u \in 1 .. h : new[u] = pas[u], \A u \in h + 1 .. h + n : new[u] = Elems(b)
    PROVE  /\ Elems(a \o (Bytes(h, h + n) \o b)) = (1 .. h + n) \ ref
           /\ Ordered(a \o (Bytes(h, h + n) \o b), new)
<1>1. PICK s : s = Bytes(h, h + n)
  OBVIOUS
<1>2. s \in Seq(Nat) /\ Len(s) = n /\ \A i \in 1 .. n : s[i] = h + i
  BY <1>1, BytesType
<1>3. Elems(s) = h + 1 .. h + n
  <2>1. ASSUME NEW x \in h + 1 .. h + n PROVE x \in Elems(s)
    <3>1. x - h \in 1 .. n /\ h + (x - h) = x
      OBVIOUS
    <3> QED BY <1>2, <3>1 DEF Elems
  <2>2. ASSUME NEW x \in Elems(s) PROVE x \in h + 1 .. h + n
    BY <1>2, <2>2 DEF Elems
  <2> QED BY <2>1, <2>2
<1>4. /\ s \o b \in Seq(Nat) /\ Elems(s \o b) = Elems(s) \cup Elems(b)
      /\ Elems(a \o (s \o b)) = Elems(a) \cup Elems(s \o b) /\ Elems(a \o b) = Elems(a) \cup Elems(b)
  BY <1>2, ElemsJoin
<1>5. Elems(a \o (s \o b)) = (1 .. h + n) \ ref
  BY <1>3, <1>4
<1>6. Elems(a) \subseteq 1 .. h /\ Elems(b) \subseteq 1 .. h
  BY <1>4
<1>7. Ordered(a, pas) /\ Ordered(b, pas) /\ Apart(a, b, pas)
  BY OrderedJoin
<1>8. \A u \in 1 .. h : \A v : Behind(u, v, pas) => Behind(u, v, new)
  BY DEF Behind
<1>9. Ordered(a, new) /\ Ordered(b, new) /\ Apart(a, b, new)
  <2>1. \A i \in 1 .. Len(a) : a[i] \in 1 .. h
    BY <1>6 DEF Elems
  <2>2. \A i \in 1 .. Len(b) : b[i] \in 1 .. h
    BY <1>6 DEF Elems
  <2> QED BY <1>6, <1>7, <1>8, <2>1, <2>2, Zenon DEF Ordered, Apart
<1>10. Ordered(s, new)
  BY <1>2 DEF Ordered, Behind
<1>11. Apart(s, b, new)
  BY <1>3 DEF Apart, Behind
<1>12. Apart(a, s, new)
  BY <1>3, <1>6 DEF Apart, Behind
<1>13. Ordered(s \o b, new)
  BY <1>2, <1>9, <1>10, <1>11, OrderedJoin
<1>14. Apart(a, s \o b, new)
  BY <1>4, <1>9, <1>12, Zenon DEF Apart
<1>15. Ordered(a \o (s \o b), new)
  BY <1>4, <1>9, <1>13, <1>14, OrderedJoin
<1> QED BY <1>1, <1>5, <1>15

\* Bytes that are dropped leave the others as they were.
LEMMA Removed ==
    ASSUME NEW a \in Seq(Nat), NEW x \in Seq(Nat), NEW b \in Seq(Nat), NEW d \in SUBSET Nat, NEW pas,
           Elems(a \o (x \o b)) = d, Ordered(a \o (x \o b), pas), \A u \in d : u \notin pas[u]
    PROVE  Elems(a \o b) = d \ Elems(x) /\ Ordered(a \o b, pas)
<1>1. /\ x \o b \in Seq(Nat) /\ Elems(x \o b) = Elems(x) \cup Elems(b)
      /\ Elems(a \o (x \o b)) = Elems(a) \cup Elems(x \o b) /\ Elems(a \o b) = Elems(a) \cup Elems(b)
  BY ElemsJoin
<1>2. Ordered(a, pas) /\ Ordered(x \o b, pas) /\ Apart(a, x \o b, pas)
  BY <1>1, OrderedJoin
<1>3. Ordered(x, pas) /\ Ordered(b, pas) /\ Apart(x, b, pas)
  BY <1>2, OrderedJoin
<1>4. \A u \in d : ~Behind(u, u, pas)
  BY DEF Behind
<1>5. \A u \in Elems(a) : u \notin Elems(x)
  BY <1>1, <1>2, <1>4, Zenon DEF Apart
<1>6. \A u \in Elems(b) : u \notin Elems(x)
  BY <1>1, <1>3, <1>4, Zenon DEF Apart
<1>7. Apart(a, b, pas)
  BY <1>1, <1>2, Zenon DEF Apart
<1>8. Ordered(a \o b, pas)
  BY <1>2, <1>3, <1>7, OrderedJoin
<1>9. Elems(a \o b) = d \ Elems(x)
  BY <1>1, <1>5, <1>6
<1> QED BY <1>8, <1>9

\* The stack of calls: each holds bytes of rest before those of the calls around
\* it, and a flush holds none.
Sends == {"before", "written", "high"}
Flushes == {"may", "flushed", "complete", "ask"}
CallTypes == [at : Sends \cup Flushes, below : Nat, watch : BOOLEAN]
Within(call, n) == call \in CallTypes /\ call.below <= n /\ (call.at \in Flushes => call.below = n)
Stacked(cs, n) ==
    /\ \A i \in 1 .. Len(cs) : Within(cs[i], IF i = 1 THEN n ELSE cs[i - 1].below)
    /\ IF cs = <<>> THEN n = 0 ELSE cs[Len(cs)].below = 0

\* A call that begins inside the innermost one.
LEMMA Pushed ==
    ASSUME NEW cs \in Seq(CallTypes), NEW n \in Nat, NEW m \in Nat, n <= m, Stacked(cs, n),
           NEW call \in CallTypes, call.below = n, Within(call, m)
    PROVE  /\ <<call>> \o cs \in Seq(CallTypes) /\ Len(<<call>> \o cs) = Len(cs) + 1 /\ (<<call>> \o cs)[1] = call
           /\ Stacked(<<call>> \o cs, m)
<1>1. PICK k \in Nat : k = Len(cs)
  BY LenProperties
<1>2. /\ <<call>> \o cs \in Seq(CallTypes) /\ Len(<<call>> \o cs) = k + 1 /\ (<<call>> \o cs)[1] = call
      /\ \A i \in 2 .. k + 1 : (<<call>> \o cs)[i] = cs[i - 1]
  <2>1. <<call>> \in Seq(CallTypes) /\ Len(<<call>>) = 1 /\ <<call>>[1] = call
    OBVIOUS
  <2>2. /\ <<call>> \o cs \in Seq(CallTypes) /\ Len(<<call>> \o cs) = 1 + k
        /\ \A i \in 1 .. 1 + k : (<<call>> \o cs)[i] = IF i <= 1 THEN <<call>>[i] ELSE cs[i - 1]
    BY <1>1, <2>1, ConcatProperties
  <2> QED BY <2>1, <2>2
<1>3. PICK ns : ns = <<call>> \o cs
  OBVIOUS
<1>4. ASSUME NEW i \in 1 .. k + 1 PROVE Within(ns[i], IF i = 1 THEN m ELSE ns[i - 1].below)
  <2>1. CASE i = 1
    BY <1>2, <1>3, <2>1
  <2>2. CASE i = 2
    <3>1. ns[2] = cs[1] /\ ns[1] = call /\ 1 \in 1 .. k
      BY <1>2, <1>3, <2>2
    <3>2. Within(cs[1], n)
      BY <1>1, <3>1 DEF Stacked
    <3> QED BY <2>2, <3>1, <3>2
  <2>3. CASE i \notin {1, 2}
    <3>1. PICK j \in 2 .. k : i = j + 1
      <4>1. i - 1 \in 2 .. k /\ i = (i - 1) + 1
        BY <2>3
      <4> QED BY <4>1
    <3>2. ns[i] = cs[j] /\ ns[i - 1] = cs[j - 1]
      BY <1>2, <1>3, <3>1
    <3>3. Within(cs[j], cs[j - 1].below)
      BY <1>1, <3>1 DEF Stacked
    <3> QED BY <2>3, <3>2, <3>3
  <2> QED BY <2>1, <2>2, <2>3
<1>5. ns # <<>> /\ Len(ns) = k + 1 /\ ns[k + 1].below = 0
  <2>1. ns # <<>> /\ Len(ns) = k + 1
    BY <1>2, <1>3, EmptySeq
  <2>2. CASE k = 0
    <3>1. cs = <<>>
      BY <1>1, <2>2, EmptySeq
    <3>2. n = 0
      BY <3>1 DEF Stacked
    <3> QED BY <1>2, <1>3, <2>1, <2>2, <3>2
  <2>3. CASE k # 0
    <3>1. cs # <<>> /\ ns[k + 1] = cs[k]
      <4>1. k + 1 \in 2 .. k + 1 /\ (k + 1) - 1 = k
        BY <2>3
      <4> QED BY <1>1, <1>2, <1>3, <2>3, <4>1, EmptySeq
    <3> QED BY <1>1, <2>1, <3>1 DEF Stacked
  <2> QED BY <2>2, <2>3
<1> QED BY <1>1, <1>2, <1>3, <1>4, <1>5 DEF Stacked

\* The innermost call returns.
LEMMA Popped ==
    ASSUME NEW cs \in Seq(CallTypes), cs # <<>>, NEW n \in Nat, Stacked(cs, n)
    PROVE  /\ Within(cs[1], n) /\ cs[1].below \in Nat
           /\ Tail(cs) \in Seq(CallTypes) /\ Len(cs) \in Nat \ {0} /\ Len(Tail(cs)) = Len(cs) - 1
           /\ Stacked(Tail(cs), cs[1].below)
<1>1. PICK k \in Nat : Len(cs) = k + 1
  <2>1. Len(cs) \in Nat \ {0}
    BY EmptySeq, LenProperties
  <2>2. Len(cs) - 1 \in Nat /\ Len(cs) = (Len(cs) - 1) + 1
    BY <2>1
  <2> QED BY <2>2
<1>2. PICK t : t = Tail(cs)
  OBVIOUS
<1>3. t \in Seq(CallTypes) /\ Len(t) = k /\ \A i \in 1 .. k : t[i] = cs[i + 1]
  <2>1. /\ t \in Seq(CallTypes) /\ Len(t) = Len(cs) - 1 /\ \A i \in 1 .. Len(t) : t[i] = cs[i + 1]
    BY <1>2, HeadTailProperties
  <2> QED BY <1>1, <2>1
<1>4. Within(cs[1], n) /\ cs[1].below \in Nat
  <2>1. 1 \in 1 .. Len(cs)
    BY <1>1
  <2>2. Within(cs[1], n)
    BY <2>1 DEF Stacked
  <2> QED BY <2>2 DEF Within, CallTypes
<1>5. ASSUME NEW i \in 1 .. k PROVE Within(t[i], IF i = 1 THEN cs[1].below ELSE t[i - 1].below)
  <2>1. i + 1 \in 1 .. k + 1 /\ i + 1 # 1 /\ (i + 1) - 1 = i /\ t[i] = cs[i + 1]
    BY <1>3
  <2>2. Within(cs[i + 1], cs[i].below)
    BY <1>1, <2>1 DEF Stacked
  <2>3. CASE i = 1
    BY <2>1, <2>2, <2>3
  <2>4. CASE i # 1
    <3>1. i - 1 \in 1 .. k /\ (i - 1) + 1 = i
      BY <2>4
    <3>2. t[i - 1] = cs[i]
      BY <1>3, <3>1
    <3> QED BY <2>1, <2>2, <2>4, <3>2
  <2> QED BY <2>3, <2>4
<1>6. cs[k + 1].below = 0
  BY <1>1 DEF Stacked
<1>7. IF t = <<>> THEN cs[1].below = 0 ELSE t[k].below = 0
  <2>1. CASE k = 0
    BY <1>3, <1>6, <2>1, EmptySeq
  <2>2. CASE k # 0
    <3>1. t[k] = cs[k + 1] /\ t # <<>>
      BY <1>3, <2>2, EmptySeq
    <3> QED BY <1>6, <3>1
  <2> QED BY <2>1, <2>2
<1>8. Stacked(t, cs[1].below)
  BY <1>3, <1>5, <1>7 DEF Stacked
<1> QED BY <1>1, <1>2, <1>3, <1>4, <1>8

\* The innermost call goes on to another callback.
LEMMA WentOn ==
    ASSUME NEW cs \in Seq(CallTypes), cs # <<>>, NEW n \in Nat, Stacked(cs, n), NEW m \in Nat, cs[1].below <= m,
           NEW at \in Sends \cup Flushes, at \in Flushes => cs[1].below = m
    PROVE  /\ [cs EXCEPT ![1].at = at] \in Seq(CallTypes) /\ Len([cs EXCEPT ![1].at = at]) = Len(cs)
           /\ [cs EXCEPT ![1].at = at][1] = [cs[1] EXCEPT !.at = at]
           /\ Stacked([cs EXCEPT ![1].at = at], m)
<1>1. PICK k \in Nat : Len(cs) = k + 1
  <2>1. Len(cs) \in Nat \ {0}
    BY EmptySeq, LenProperties
  <2>2. Len(cs) - 1 \in Nat /\ Len(cs) = (Len(cs) - 1) + 1
    BY <2>1
  <2> QED BY <2>2
<1>2. cs[1] \in CallTypes /\ 1 \in 1 .. k + 1
  BY <1>1 DEF Stacked, Within
<1>3. PICK c : c = [cs[1] EXCEPT !.at = at]
  OBVIOUS
<1>4. c \in CallTypes /\ c.below = cs[1].below /\ c.at = at
  BY <1>2, <1>3 DEF CallTypes
<1>5. PICK ns : ns = [cs EXCEPT ![1] = c]
  OBVIOUS
<1>6. ns = [cs EXCEPT ![1].at = at]
  BY <1>3, <1>5
<1>7. ns \in Seq(CallTypes) /\ Len(ns) = k + 1 /\ ns[1] = c /\ \A i \in 2 .. k + 1 : ns[i] = cs[i]
  BY <1>1, <1>2, <1>4, <1>5
<1>8. ASSUME NEW i \in 1 .. k + 1 PROVE Within(ns[i], IF i = 1 THEN m ELSE ns[i - 1].below)
  <2>1. CASE i = 1
    BY <1>4, <1>7, <2>1 DEF Within
  <2>2. CASE i # 1
    <3>1. Within(cs[i], cs[i - 1].below)
      BY <1>1, <2>2 DEF Stacked
    <3>2. ns[i] = cs[i] /\ ns[i - 1].below = cs[i - 1].below
      BY <1>4, <1>7, <2>2
    <3> QED BY <2>2, <3>1, <3>2
  <2> QED BY <2>1, <2>2
<1>9. ns # <<>> /\ ns[k + 1].below = 0
  <2>1. cs[k + 1].below = 0
    BY <1>1 DEF Stacked
  <2>2. ns[k + 1].below = cs[k + 1].below
    BY <1>4, <1>7
  <2>3. ns # <<>>
    BY <1>7, EmptySeq
  <2> QED BY <2>1, <2>2, <2>3
<1>10. Stacked(ns, m)
  BY <1>7, <1>8, <1>9 DEF Stacked
<1> QED BY <1>1, <1>3, <1>6, <1>7, <1>10

OutTypes ==
    /\ wire \in Seq(Nat) /\ output_buffer_ \in Seq(Nat) /\ rest \in Seq(Nat) /\ calls \in Seq(CallTypes)
    /\ handed \in 0 .. MaxBytes /\ refused \in SUBSET (1 .. handed) /\ DOMAIN passes = 1 .. MaxBytes
    /\ \A b \in 1 .. MaxBytes : passes[b] \subseteq 1 .. b - 1
    /\ writeEvent \in BOOLEAN /\ outConnected \in BOOLEAN /\ outCrash \in BOOLEAN /\ highCalls \in Nat
    /\ unasked \in BOOLEAN /\ appended \in BOOLEAN /\ nested \in BOOLEAN /\ endedInside \in BOOLEAN

OutTidy ==
    /\ Elems((wire \o output_buffer_) \o rest) = (1 .. handed) \ refused
    /\ Ordered((wire \o output_buffer_) \o rest, passes)

\* With no call inside another: what the high water callback was called for.
HighOnce ==
    ~nested =>
        /\ Len(calls) <= 1
        /\ ~appended =>
              IF In("high")
              THEN /\ highCalls = 1 /\ Len(output_buffer_) < high_water_mark_
                   /\ Len(output_buffer_) + Left >= high_water_mark_
              ELSE highCalls = IF Len(output_buffer_) >= high_water_mark_ THEN 1 ELSE 0

EndsSeen == (~outConnected /\ calls # <<>> => endedInside) /\ FreedEventIsUsedInsideOnly

OutInv == OutTypes /\ OutTidy /\ Stacked(calls, Len(rest)) /\ WaitingIsWatched /\ HighOnce /\ EndsSeen

\* What the inductive invariant gives.
LEMMA OutImplies == OutInv => OutputIsWhole
<1> SUFFICES ASSUME OutInv PROVE OutputIsWhole
  OBVIOUS
<1>1. OutputInOrder
  <2>1. calls = <<>> => rest = <<>>
    BY EmptySeq DEF OutInv, OutTypes, Stacked
  <2>2. /\ {Stream[i] : i \in 1 .. Len(Stream)} = (1 .. handed) \ refused
        /\ \A i, j \in 1 .. Len(Stream) : i < j => Stream[i] < Stream[j] \/ Stream[j] \in passes[Stream[i]]
    BY Zenon DEF OutInv, OutTidy, Stream, Elems, Ordered, Behind
  <2>3. \A b \in 1 .. MaxBytes : passes[b] \subseteq 1 .. b - 1
    BY DEF OutInv, OutTypes
  <2> QED BY <2>1, <2>2, <2>3, Zenon DEF OutputInOrder
<1>2. HighWaterOnce
  BY DEF OutInv, HighOnce, HighWaterOnce, In
<1> QED BY <1>1, <1>2 DEF OutInv, EndsSeen, OutputIsWhole

\* A new connection has sent nothing and owes nothing.
LEMMA OutStart == OutInit => OutInv
<1> SUFFICES ASSUME OutInit PROVE OutInv
  OBVIOUS
<1>1. (wire \o output_buffer_) \o rest = <<>>
  BY DEF OutInit
<1>2. Elems(<<>>) = {} /\ Ordered(<<>>, passes)
  BY DEF Elems, Ordered
<1>3. OutTidy
  <2>1. handed = 0 /\ refused = {} /\ (1 .. 0) \ {} = {}
    BY DEF OutInit
  <2> QED BY <1>1, <1>2, <2>1 DEF OutTidy
<1>4. OutTypes
  <2>1. <<>> \in Seq(Nat) /\ <<>> \in Seq(CallTypes) /\ MaxBytes \in Nat
    BY HighWaterAssumption
  <2>2. DOMAIN passes = 1 .. MaxBytes /\ \A b \in 1 .. MaxBytes : passes[b] = {}
    BY DEF OutInit
  <2>3. handed \in 0 .. MaxBytes /\ refused \in SUBSET (1 .. handed)
    BY <2>1 DEF OutInit
  <2> QED BY <2>1, <2>2, <2>3 DEF OutInit, OutTypes
<1>5. Stacked(calls, Len(rest)) /\ HighOnce
  BY HighWaterAssumption DEF OutInit, Stacked, HighOnce, In
<1> QED BY <1>3, <1>4, <1>5 DEF OutInv, OutInit, WaitingIsWatched, EndsSeen, FreedEventIsUsedInsideOnly

\* The user hands over n bytes: nothing that was handed over before is touched.
LEMMA HandedOver ==
    ASSUME OutTypes, OutTidy, NEW n \in 1 .. 3, Hand(n)
    PROVE  /\ handed' = handed + n /\ handed' \in 0 .. MaxBytes /\ refused' \in SUBSET (1 .. handed')
           /\ DOMAIN passes' = 1 .. MaxBytes /\ \A b \in 1 .. MaxBytes : passes'[b] \subseteq 1 .. b - 1
           /\ Elems(rest) \subseteq 1 .. handed
           /\ Elems((wire \o output_buffer_) \o (Bytes(handed, handed + n) \o rest)) = (1 .. handed') \ refused'
           /\ Ordered((wire \o output_buffer_) \o (Bytes(handed, handed + n) \o rest), passes')
<1>1. handed \in Nat /\ handed' = handed + n /\ handed' \in 0 .. MaxBytes /\ MaxBytes \in Nat /\ UNCHANGED <<wire, refused>>
  BY HighWaterAssumption DEF OutTypes, Hand
<1>2. /\ DOMAIN passes' = 1 .. MaxBytes
      /\ \A b \in 1 .. MaxBytes : passes'[b] = IF b \in handed + 1 .. handed + n THEN Elems(rest) ELSE passes[b]
  BY DEF Hand, Held, Elems
<1>3. wire \o output_buffer_ \in Seq(Nat) /\ rest \in Seq(Nat)
  BY ConcatProperties DEF OutTypes
<1>4. Elems(rest) \subseteq 1 .. handed
  <2>1. Elems((wire \o output_buffer_) \o rest) = Elems(wire \o output_buffer_) \cup Elems(rest)
    BY <1>3, ElemsJoin
  <2> QED BY <2>1 DEF OutTidy
<1>5. \A b \in 1 .. MaxBytes : passes'[b] \subseteq 1 .. b - 1
  <2> SUFFICES ASSUME NEW b \in 1 .. MaxBytes PROVE passes'[b] \subseteq 1 .. b - 1
    OBVIOUS
  <2>1. CASE b \in handed + 1 .. handed + n
    BY <1>1, <1>2, <1>4, <2>1
  <2>2. CASE b \notin handed + 1 .. handed + n
    BY <1>2, <2>2 DEF OutTypes
  <2> QED BY <2>1, <2>2
<1>6. (\A u \in 1 .. handed : passes'[u] = passes[u]) /\ \A u \in handed + 1 .. handed + n : passes'[u] = Elems(rest)
  BY <1>1, <1>2
<1>7. /\ Elems((wire \o output_buffer_) \o (Bytes(handed, handed + n) \o rest)) = (1 .. handed + n) \ refused
      /\ Ordered((wire \o output_buffer_) \o (Bytes(handed, handed + n) \o rest), passes')
  <2>1. n \in Nat /\ refused \in SUBSET (1 .. handed)
    BY DEF OutTypes
  <2>2. PICK a \in Seq(Nat), b \in Seq(Nat) : a = wire \o output_buffer_ /\ b = rest
    BY <1>3
  <2>3. PICK old, new : old = passes /\ new = passes'
    OBVIOUS
  <2>4. /\ Elems(a \o b) = (1 .. handed) \ refused /\ Ordered(a \o b, old)
        /\ (\A u \in 1 .. handed : new[u] = old[u]) /\ \A u \in handed + 1 .. handed + n : new[u] = Elems(b)
    BY <1>6, <2>2, <2>3 DEF OutTidy
  <2>5. /\ Elems(a \o (Bytes(handed, handed + n) \o b)) = (1 .. handed + n) \ refused
        /\ Ordered(a \o (Bytes(handed, handed + n) \o b), new)
    BY <1>1, <2>1, <2>4, Inserted
  <2> QED BY <2>2, <2>3, <2>5
<1> QED BY <1>1, <1>2, <1>4, <1>5, <1>7 DEF OutTypes

\* A send whose bytes are dropped.
LEMMA Dropped ==
    ASSUME OutTypes, OutTidy, NEW k \in 0 .. Len(rest)
    PROVE  /\ refused \cup {rest[i] : i \in 1 .. k} \in SUBSET (1 .. handed)
           /\ From(rest, k) \in Seq(Nat) /\ Len(From(rest, k)) = Len(rest) - k
           /\ Elems((wire \o output_buffer_) \o From(rest, k)) = (1 .. handed) \ (refused \cup {rest[i] : i \in 1 .. k})
           /\ Ordered((wire \o output_buffer_) \o From(rest, k), passes)
<1>1. PICK x, b : x = SubSeq(rest, 1, k) /\ b = From(rest, k)
  OBVIOUS
<1>2. /\ x \o b = rest /\ x \in Seq(Nat) /\ b \in Seq(Nat) /\ Len(x) = k /\ Len(b) = Len(rest) - k
      /\ \A i \in 1 .. k : x[i] = rest[i]
  BY <1>1, CutInTwo DEF OutTypes
<1>3. Elems(x) = {rest[i] : i \in 1 .. k}
  BY <1>2 DEF Elems
<1>4. PICK a \in Seq(Nat) : a = wire \o output_buffer_
  BY ConcatProperties DEF OutTypes
<1>5. \A u \in (1 .. handed) \ refused : u \notin passes[u]
  <2> SUFFICES ASSUME NEW u \in 1 .. handed PROVE u \notin passes[u]
    OBVIOUS
  <2>1. u \in 1 .. MaxBytes /\ passes[u] \subseteq 1 .. u - 1
    BY HighWaterAssumption DEF OutTypes
  <2> QED BY <2>1
<1>6. Elems(a \o (x \o b)) = (1 .. handed) \ refused /\ Ordered(a \o (x \o b), passes)
  BY <1>2, <1>4 DEF OutTidy
<1>7. PICK d \in SUBSET Nat : d = (1 .. handed) \ refused
  <2>1. (1 .. handed) \ refused \in SUBSET Nat
    BY DEF OutTypes
  <2> QED BY <2>1
<1>8. Elems(a \o b) = d \ Elems(x) /\ Ordered(a \o b, passes)
  <2>1. PICK pas : pas = passes
    OBVIOUS
  <2>2. Elems(a \o (x \o b)) = d /\ Ordered(a \o (x \o b), pas) /\ \A u \in d : u \notin pas[u]
    BY <1>5, <1>6, <1>7, <2>1
  <2>3. Elems(a \o b) = d \ Elems(x) /\ Ordered(a \o b, pas)
    <3>1. a \in Seq(Nat) /\ x \in Seq(Nat) /\ b \in Seq(Nat) /\ d \in SUBSET Nat
      BY <1>2
    <3>2. /\ Elems(a \o (x \o b)) = d => (Ordered(a \o (x \o b), pas)
             => ((\A u \in d : u \notin pas[u]) => Elems(a \o b) = d \ Elems(x) /\ Ordered(a \o b, pas)))
      BY <3>1, Removed, Zenon
    <3> QED BY <2>2, <3>2, Zenon
  <2> QED BY <2>1, <2>3
<1>9. Elems(x) \subseteq 1 .. handed
  <2>1. x \o b \in Seq(Nat) /\ Elems(x \o b) = Elems(x) \cup Elems(b)
    BY <1>2, ElemsJoin
  <2>2. Elems(a \o (x \o b)) = Elems(a) \cup Elems(x \o b)
    BY <2>1, ElemsJoin
  <2> QED BY <1>6, <2>1, <2>2
<1> QED BY <1>1, <1>2, <1>3, <1>4, <1>7, <1>8, <1>9 DEF OutTypes

\* The innermost call, and the stack without it.
LEMMA CallOnTop ==
    ASSUME OutInv, calls # <<>>
    PROVE  /\ Within(calls[1], Len(rest)) /\ calls[1] \in CallTypes /\ calls[1].below \in Nat
           /\ Left \in Nat /\ Left <= Len(rest) /\ Len(rest) \in Nat /\ Len(rest) - Left = calls[1].below
           /\ Len(calls) \in Nat \ {0} /\ Tail(calls) \in Seq(CallTypes) /\ Len(Tail(calls)) = Len(calls) - 1
           /\ Stacked(Tail(calls), calls[1].below) /\ (calls[1].at \in Flushes => Left = 0)
<1>1. Len(rest) \in Nat
  BY LenProperties DEF OutInv, OutTypes
<1>2. PICK n \in Nat : n = Len(rest)
  BY <1>1
<1>3. calls \in Seq(CallTypes) /\ Stacked(calls, n)
  BY <1>2 DEF OutInv, OutTypes
<1>4. /\ Within(calls[1], n) /\ calls[1].below \in Nat
      /\ Tail(calls) \in Seq(CallTypes) /\ Len(calls) \in Nat \ {0} /\ Len(Tail(calls)) = Len(calls) - 1
      /\ Stacked(Tail(calls), calls[1].below)
  BY <1>3, Popped
<1>5. calls[1] \in CallTypes /\ calls[1].below <= n /\ (calls[1].at \in Flushes => calls[1].below = n)
  BY <1>4 DEF Within
<1> QED BY <1>2, <1>4, <1>5 DEF Left

\* What a step that returns from the innermost call does to the stack and to what is recorded.
LEMMA Returned ==
    ASSUME OutInv, calls # <<>>, Return
    PROVE  /\ calls' \in Seq(CallTypes) /\ Stacked(calls', calls[1].below)
           /\ Len(calls') <= Len(calls) /\ (calls' # <<>> => Len(calls) > 1 /\ nested)
           /\ ~nested => calls' = <<>> /\ Len(calls') = 0 /\ ~In("high")'
<1>1. /\ Tail(calls) \in Seq(CallTypes) /\ Len(Tail(calls)) = Len(calls) - 1 /\ Len(calls) \in Nat \ {0}
      /\ Stacked(Tail(calls), calls[1].below)
  BY CallOnTop
<1>2. calls' = Tail(calls)
  BY DEF Return
<1>3. Tail(calls) # <<>> => Len(Tail(calls)) # 0
  BY <1>1, EmptySeq
<1>4. ~nested => Len(calls) <= 1
  BY DEF OutInv, HighOnce
<1>5. calls' # <<>> => Len(calls) > 1 /\ nested
  BY <1>1, <1>2, <1>3, <1>4
<1>6. ~nested => calls' = <<>> /\ Len(calls') = 0
  BY <1>1, <1>2, <1>3, <1>4
<1> QED BY <1>1, <1>2, <1>5, <1>6 DEF In

\* What a step inside the innermost call does to the stack.
LEMMA GoneOn ==
    ASSUME OutInv, calls # <<>>, NEW at \in Sends \cup Flushes, Go(at),
           NEW m \in Nat, calls[1].below <= m, at \in Flushes => calls[1].below = m
    PROVE  /\ calls' \in Seq(CallTypes) /\ Stacked(calls', m) /\ calls' # <<>> /\ Len(calls') = Len(calls)
           /\ calls'[1].at = at /\ calls'[1].below = calls[1].below
<1>1. PICK n \in Nat : n = Len(rest)
  BY LenProperties DEF OutInv, OutTypes
<1>2. calls \in Seq(CallTypes) /\ Stacked(calls, n)
  BY <1>1 DEF OutInv, OutTypes
<1>3. PICK cs : cs = [calls EXCEPT ![1].at = at]
  OBVIOUS
<1>4. cs \in Seq(CallTypes) /\ Len(cs) = Len(calls) /\ cs[1] = [calls[1] EXCEPT !.at = at] /\ Stacked(cs, m)
  BY <1>2, <1>3, WentOn
<1>5. calls[1] \in CallTypes /\ Len(calls) \in Nat \ {0}
  BY CallOnTop
<1>6. cs # <<>> /\ cs[1].at = at /\ cs[1].below = calls[1].below
  BY <1>4, <1>5, EmptySeq DEF CallTypes
<1> QED BY <1>3, <1>4, <1>6 DEF Go

\* The bytes a call keeps for the loop to write.
LEMMA KeepStep ==
    ASSUME OutInv, calls # <<>>, Keep, UNCHANGED highCalls,
           ~nested /\ ~appended => highCalls = IF Len(output_buffer_) + Left >= high_water_mark_ THEN 1 ELSE 0
    PROVE  OutInv'
<1>1. /\ Left \in Nat /\ Left \in 0 .. Len(rest) /\ Len(rest) - Left = calls[1].below
  BY CallOnTop
<1>2. /\ output_buffer_' = output_buffer_ \o SubSeq(rest, 1, Left) /\ rest' = From(rest, Left)
      /\ Return /\ writeEvent' = (writeEvent \/ outConnected) /\ outCrash' = (~writeEvent /\ ~outConnected)
      /\ UNCHANGED <<outConnected, wire, handed, refused, passes, appended, nested, endedInside>> /\ unasked' = FALSE
  BY DEF Keep, Watch
<1>3. /\ output_buffer_' \in Seq(Nat) /\ Len(output_buffer_') = Len(output_buffer_) + Left
      /\ rest' \in Seq(Nat) /\ Len(rest') = calls[1].below
      /\ (wire' \o output_buffer_') \o rest' = (wire \o output_buffer_) \o rest
  <2>1. PICK x, y, k : x = SubSeq(rest, 1, k) /\ y = From(rest, k) /\ k = Left
    OBVIOUS
  <2>2. wire \in Seq(Nat) /\ output_buffer_ \in Seq(Nat) /\ rest \in Seq(Nat)
    BY DEF OutInv, OutTypes
  <2>3. x \o y = rest /\ x \in Seq(Nat) /\ y \in Seq(Nat) /\ Len(x) = k /\ Len(y) = Len(rest) - k
    BY <1>1, <2>1, <2>2, CutInTwo
  <2>4. output_buffer_ \o x \in Seq(Nat) /\ Len(output_buffer_ \o x) = Len(output_buffer_) + k
    BY <2>2, <2>3, ConcatProperties
  <2>5. (wire \o (output_buffer_ \o x)) \o y = (wire \o output_buffer_) \o (x \o y)
    <3>1. PICK w, b, u, v : w = wire /\ b = output_buffer_ /\ u = x /\ v = y
      OBVIOUS
    <3>2. w \in Seq(Nat) /\ b \in Seq(Nat) /\ u \in Seq(Nat) /\ v \in Seq(Nat)
      BY <2>2, <2>3, <3>1
    <3>3. (w \o (b \o u)) \o v = (w \o b) \o (u \o v)
      BY ONLY <3>2, SMTT(30)
    <3> QED BY <3>1, <3>3
  <2>6. output_buffer_' = output_buffer_ \o x /\ rest' = y /\ wire' = wire /\ Len(rest) - k = calls[1].below
    BY <1>1, <1>2, <2>1
  <2> QED BY <2>1, <2>3, <2>4, <2>5, <2>6
<1>4. /\ calls' \in Seq(CallTypes) /\ Stacked(calls', calls[1].below)
      /\ calls' # <<>> => Len(calls) > 1 /\ nested
      /\ ~nested => calls' = <<>> /\ Len(calls') = 0 /\ ~In("high")'
  BY <1>2, Returned
<1>5. OutTypes'
  BY <1>2, <1>3, <1>4 DEF OutInv, OutTypes
<1>6. OutTidy'
  BY <1>2, <1>3, Zenon DEF OutInv, OutTidy
<1>7. Stacked(calls', Len(rest'))
  BY <1>3, <1>4
<1>8. WaitingIsWatched'
  BY <1>2 DEF WaitingIsWatched
<1>9. HighOnce'
  BY <1>2, <1>3, <1>4 DEF HighOnce
<1>10. EndsSeen'
  BY <1>2, <1>4 DEF OutInv, EndsSeen, FreedEventIsUsedInsideOnly
<1> QED BY <1>5, <1>6, <1>7, <1>8, <1>9, <1>10 DEF OutInv

\* A step that leaves the bytes where they are and returns, or goes on in the call.
LEMMA OutGoesOn ==
    ASSUME OutInv, calls # <<>>, UNCHANGED <<outBytes, outConnected, outCrash, unasked, appended, nested, endedInside>>,
           writeEvent' \in BOOLEAN, writeEvent' = writeEvent \/ output_buffer_ = <<>>, highCalls' \in Nat,
           \/ Return /\ UNCHANGED highCalls /\ ~In("high") /\ Left = 0
           \/ \E at \in {"complete", "ask"} : Go(at) /\ UNCHANGED highCalls /\ ~In("high") /\ Left = 0
           \/ /\ Go("high") /\ highCalls' = highCalls + 1 /\ Len(output_buffer_) < high_water_mark_
              /\ Len(output_buffer_) + Left >= high_water_mark_ /\ ~In("high")
    PROVE  OutInv'
<1>1. PICK n \in Nat : n = Len(rest) /\ calls[1].below <= n /\ (Left = 0 => calls[1].below = n)
  BY CallOnTop
<1>2. UNCHANGED <<output_buffer_, wire, rest, handed, refused, passes>>
  BY DEF outBytes
<1>3. calls' \in Seq(CallTypes) /\ Stacked(calls', n)
  <2>1. CASE Return /\ Left = 0
    BY <1>1, <2>1, Returned
  <2>2. ASSUME NEW at \in {"complete", "ask"}, Go(at), Left = 0 PROVE calls' \in Seq(CallTypes) /\ Stacked(calls', n)
    <3>1. at \in Sends \cup Flushes /\ calls[1].below = n
      BY <1>1, <2>2 DEF Flushes
    <3> QED BY <1>1, <2>2, <3>1, GoneOn
  <2>3. CASE Go("high")
    <3>1. "high" \in Sends \cup Flushes /\ "high" \notin Flushes
      BY DEF Sends, Flushes
    <3> QED BY <1>1, <2>3, <3>1, GoneOn
  <2> QED BY <2>1, <2>2, <2>3
<1>4. OutTypes'
  BY <1>2, <1>3 DEF OutInv, OutTypes
<1>5. OutTidy' /\ Stacked(calls', Len(rest'))
  BY <1>1, <1>2, <1>3 DEF OutInv, OutTidy
<1>6. WaitingIsWatched' /\ EndsSeen'
  <2>1. WaitingIsWatched'
    BY <1>2 DEF OutInv, WaitingIsWatched
  <2>2. EndsSeen'
    BY DEF OutInv, EndsSeen, FreedEventIsUsedInsideOnly
  <2> QED BY <2>1, <2>2
<1>7. HighOnce'
  <2> SUFFICES ASSUME ~nested PROVE HighOnce'
    BY DEF HighOnce
  <2>0. /\ Len(calls) <= 1
        /\ ~appended /\ ~In("high") => highCalls = IF Len(output_buffer_) >= high_water_mark_ THEN 1 ELSE 0
    BY DEF OutInv, HighOnce
  <2>1. CASE Return /\ UNCHANGED highCalls /\ ~In("high") /\ Left = 0
    <3>1. Len(calls') = 0 /\ ~In("high")'
      BY <2>1, Returned
    <3> QED BY <1>2, <2>0, <2>1, <3>1 DEF HighOnce
  <2>2. ASSUME NEW at \in {"complete", "ask"}, Go(at), UNCHANGED highCalls, ~In("high"), Left = 0
        PROVE  HighOnce'
    <3>1. at \in Sends \cup Flushes /\ at # "high" /\ calls[1].below = n
      BY <1>1, <2>2 DEF Flushes
    <3>2. Len(calls') = Len(calls) /\ calls'[1].at = at
      BY <1>1, <2>2, <3>1, GoneOn
    <3>3. ~In("high")'
      BY <3>1, <3>2 DEF In
    <3> QED BY <1>2, <2>0, <2>2, <3>2, <3>3 DEF HighOnce
  <2>3. CASE /\ Go("high") /\ highCalls' = highCalls + 1 /\ Len(output_buffer_) < high_water_mark_
             /\ Len(output_buffer_) + Left >= high_water_mark_ /\ ~In("high")
    <3>1. Len(calls') = Len(calls) /\ calls'[1].below = calls[1].below /\ calls'[1].at = "high" /\ calls' # <<>>
      <4>1. "high" \in Sends \cup Flushes /\ "high" \notin Flushes
        BY DEF Sends, Flushes
      <4> QED BY <1>1, <2>3, <4>1, GoneOn
    <3>2. Left' = Left
      BY <1>2, <3>1 DEF Left
    <3>3. ~appended => highCalls' = 1
      <4>1. ~appended => highCalls = IF Len(output_buffer_) >= high_water_mark_ THEN 1 ELSE 0
        BY <2>0, <2>3
      <4>2. ~(Len(output_buffer_) >= high_water_mark_)
        BY <2>3, LenProperties, HighWaterAssumption DEF OutInv, OutTypes
      <4> QED BY <2>3, <4>1, <4>2
    <3>4. In("high")'
      BY <3>1 DEF In
    <3>5. /\ Len(output_buffer_)' < high_water_mark_ /\ Len(output_buffer_)' + Left' >= high_water_mark_
          /\ Len(calls)' <= 1
      BY <1>2, <2>0, <2>3, <3>1, <3>2
    <3> QED BY <3>3, <3>4, <3>5 DEF HighOnce
  <2> QED BY <2>1, <2>2, <2>3
<1> QED BY <1>4, <1>5, <1>6, <1>7 DEF OutInv

\* A call begins in a callback, maybe inside another call's.
LEMMA EnterStep ==
    ASSUME OutInv, NEW call \in CallTypes, call.below = Len(rest), call.at # "high", Enter(call),
           UNCHANGED <<output_buffer_, writeEvent, outConnected, outCrash>>,
           \/ UNCHANGED outBytes
           \/ call.at \notin Flushes /\ \E n \in 1 .. 3 : Hand(n) /\ rest' = Bytes(handed, handed + n) \o rest
    PROVE  OutInv'
<1>1. PICK m \in Nat : m = Len(rest)
  BY LenProperties DEF OutInv, OutTypes
<1>2. /\ calls' = <<call>> \o calls /\ nested' = (nested \/ calls # <<>>) /\ outConnected
      /\ UNCHANGED <<highCalls, unasked, appended, endedInside>>
  BY DEF Enter
<1>3. /\ wire' \in Seq(Nat) /\ rest' \in Seq(Nat) /\ Len(rest') \in Nat /\ m <= Len(rest')
      /\ handed' \in 0 .. MaxBytes /\ refused' \in SUBSET (1 .. handed') /\ DOMAIN passes' = 1 .. MaxBytes
      /\ \A b \in 1 .. MaxBytes : passes'[b] \subseteq 1 .. b - 1
      /\ OutTidy'
  <2>1. CASE UNCHANGED outBytes
    BY <1>1, <2>1 DEF outBytes, OutInv, OutTypes, OutTidy
  <2>2. ASSUME NEW n \in 1 .. 3, Hand(n), rest' = Bytes(handed, handed + n) \o rest
        PROVE  /\ wire' \in Seq(Nat) /\ rest' \in Seq(Nat) /\ Len(rest') \in Nat /\ m <= Len(rest')
               /\ handed' \in 0 .. MaxBytes /\ refused' \in SUBSET (1 .. handed') /\ DOMAIN passes' = 1 .. MaxBytes
               /\ \A b \in 1 .. MaxBytes : passes'[b] \subseteq 1 .. b - 1
               /\ OutTidy'
    <3>1. /\ handed' \in 0 .. MaxBytes /\ refused' \in SUBSET (1 .. handed')
          /\ DOMAIN passes' = 1 .. MaxBytes /\ \A b \in 1 .. MaxBytes : passes'[b] \subseteq 1 .. b - 1
          /\ Elems((wire \o output_buffer_) \o (Bytes(handed, handed + n) \o rest)) = (1 .. handed') \ refused'
          /\ Ordered((wire \o output_buffer_) \o (Bytes(handed, handed + n) \o rest), passes')
      BY <2>2, HandedOver DEF OutInv
    <3>2. PICK s : s = Bytes(handed, handed + n)
      OBVIOUS
    <3>3. s \in Seq(Nat) /\ Len(s) = n
      <4>1. handed \in Nat /\ n \in Nat
        BY DEF OutInv, OutTypes
      <4> QED BY <3>2, <4>1, BytesType
    <3>4. s \o rest \in Seq(Nat) /\ Len(s \o rest) = n + m
      BY <1>1, <3>3, ConcatProperties DEF OutInv, OutTypes
    <3>5. UNCHANGED wire
      BY <2>2 DEF Hand
    <3>6. OutTidy'
      BY <2>2, <3>1, <3>5 DEF OutTidy
    <3> QED BY <1>1, <2>2, <3>1, <3>2, <3>4, <3>5, <3>6 DEF OutInv, OutTypes
  <2> QED BY <2>1, <2>2
<1>4. /\ calls' \in Seq(CallTypes) /\ Len(calls') = Len(calls) + 1 /\ calls'[1] = call
      /\ Stacked(calls', Len(rest'))
  <2>1. PICK n \in Nat : n = Len(rest')
    BY <1>3
  <2>2. calls \in Seq(CallTypes) /\ Stacked(calls, m) /\ m <= n /\ call.below = m /\ Within(call, n)
    <3>1. call.at \in Flushes => n = m
      BY <1>1, <2>1 DEF outBytes
    <3> QED BY <1>1, <1>3, <2>1, <3>1 DEF OutInv, OutTypes, Within
  <2>3. /\ <<call>> \o calls \in Seq(CallTypes) /\ Len(<<call>> \o calls) = Len(calls) + 1
        /\ (<<call>> \o calls)[1] = call /\ Stacked(<<call>> \o calls, n)
    BY <2>2, Pushed
  <2> QED BY <1>2, <2>1, <2>3
<1>5. OutTypes'
  BY <1>2, <1>3, <1>4 DEF OutInv, OutTypes
<1>6. HighOnce'
  <2> SUFFICES ASSUME ~nested' PROVE HighOnce'
    BY DEF HighOnce
  <2>1. calls = <<>> /\ Len(calls) = 0 /\ ~nested /\ ~In("high")
    BY <1>2 DEF OutInv, OutTypes, In
  <2>2. ~In("high")' /\ Len(calls') = 1
    BY <1>4, <2>1 DEF In
  <2>3. ~appended => highCalls = IF Len(output_buffer_) >= high_water_mark_ THEN 1 ELSE 0
    BY <2>1 DEF OutInv, HighOnce
  <2> QED BY <1>2, <2>2, <2>3 DEF HighOnce
<1>7. WaitingIsWatched' /\ EndsSeen'
  BY <1>2 DEF OutInv, WaitingIsWatched, EndsSeen, FreedEventIsUsedInsideOnly
<1> QED BY <1>3, <1>4, <1>5, <1>6, <1>7 DEF OutInv

\* The connection ends: what is in progress goes on.
LEMMA EndStep ==
    ASSUME OutInv, NEW inside \in BOOLEAN, End(inside), calls' \in Seq(CallTypes), Stacked(calls', Len(rest')),
           calls' # <<>> => inside, Len(calls') <= Len(calls),
           \/ UNCHANGED outBytes
           \/ /\ rest' \in Seq(Nat) /\ refused' \in SUBSET (1 .. handed) /\ OutTidy'
              /\ UNCHANGED <<output_buffer_, wire, handed, passes>>,
           \/ calls' = calls /\ UNCHANGED rest
           \/ ~In("high") /\ (~nested => calls' = <<>>)
    PROVE  OutInv'
<1>1. /\ outConnected' = FALSE /\ writeEvent' = FALSE /\ endedInside' = (endedInside \/ inside)
      /\ UNCHANGED <<outCrash, highCalls, unasked, appended, nested>>
  BY DEF End
<1>2. /\ UNCHANGED <<output_buffer_, wire, handed, passes>> /\ rest' \in Seq(Nat) /\ refused' \in SUBSET (1 .. handed)
      /\ OutTidy'
  BY DEF outBytes, OutInv, OutTypes, OutTidy
<1>3. OutTypes'
  BY <1>1, <1>2 DEF OutInv, OutTypes
<1>4. HighOnce'
  <2> SUFFICES ASSUME ~nested' PROVE HighOnce'
    BY DEF HighOnce
  <2>0. ~nested /\ Len(calls) <= 1
    BY <1>1 DEF OutInv, HighOnce
  <2>1. CASE calls' = calls /\ UNCHANGED rest
    <3>1. (In("high"))' <=> In("high")
      BY <2>1 DEF In
    <3>2. Left' = Left
      BY <2>1 DEF Left
    <3> QED BY <1>1, <1>2, <2>0, <2>1, <3>1, <3>2 DEF OutInv, HighOnce
  <2>2. CASE ~In("high") /\ (~nested => calls' = <<>>)
    <3>1. ~In("high")' /\ Len(calls') = 0
      BY <2>0, <2>2 DEF In
    <3> QED BY <1>1, <1>2, <2>0, <2>2, <3>1 DEF OutInv, HighOnce
  <2> QED BY <2>1, <2>2
<1>5. WaitingIsWatched' /\ EndsSeen'
  BY <1>1 DEF OutInv, WaitingIsWatched, EndsSeen, FreedEventIsUsedInsideOnly
<1> QED BY <1>2, <1>3, <1>4, <1>5 DEF OutInv

\* Every step of TcpOutput keeps the order of the bytes, what waits watched and what the user was told.
LEMMA OutStep ==
    ASSUME OutInv, OutNext \/ UNCHANGED outVars
    PROVE  OutInv'
<1>0. Len(output_buffer_) \in Nat /\ Len(rest) \in Nat /\ high_water_mark_ \in Nat /\ high_water_mark_ > 0
  BY LenProperties, HighWaterAssumption DEF OutInv, OutTypes
<1>1. ASSUME NEW n \in 1 .. 3, SendInLoop(n) PROVE OutInv'
  <2>1. PICK m \in Nat : m = Len(rest)
    BY <1>0
  <2>2. PICK call : call = Call("before", m, FALSE)
    OBVIOUS
  <2>3. call \in CallTypes /\ call.below = m /\ call.at # "high" /\ call.at \notin Flushes
    BY <2>2 DEF Call, CallTypes, Sends, Flushes
  <2>4. /\ Hand(n) /\ rest' = Bytes(handed, handed + n) \o rest /\ Enter(call)
        /\ UNCHANGED <<output_buffer_, writeEvent, outConnected, outCrash>>
    BY <1>1, <2>1, <2>2 DEF SendInLoop
  <2> QED BY <2>1, <2>3, <2>4, EnterStep
<1>2. ASSUME NEW n \in 1 .. 3, AppendDirectly(n) PROVE OutInv'
  <2>1. /\ Hand(n) /\ output_buffer_' = output_buffer_ \o Bytes(handed, handed + n)
        /\ unasked' = (unasked \/ ~writeEvent) /\ appended' = TRUE
        /\ UNCHANGED <<rest, calls, writeEvent, outConnected, outCrash, highCalls, nested, endedInside>>
    BY <1>2 DEF AppendDirectly
  <2>2. UNCHANGED wire
    BY <2>1 DEF Hand
  <2>3. /\ handed' \in 0 .. MaxBytes /\ refused' \in SUBSET (1 .. handed')
        /\ DOMAIN passes' = 1 .. MaxBytes /\ \A b \in 1 .. MaxBytes : passes'[b] \subseteq 1 .. b - 1
        /\ Elems((wire \o output_buffer_) \o (Bytes(handed, handed + n) \o rest)) = (1 .. handed') \ refused'
        /\ Ordered((wire \o output_buffer_) \o (Bytes(handed, handed + n) \o rest), passes')
    BY <2>1, HandedOver DEF OutInv
  <2>4. PICK s : s = Bytes(handed, handed + n)
    OBVIOUS
  <2>5. s \in Seq(Nat)
    <3>1. handed \in Nat /\ n \in Nat
      BY DEF OutInv, OutTypes
    <3> QED BY <2>4, <3>1, BytesType
  <2>6. wire \in Seq(Nat) /\ output_buffer_ \in Seq(Nat) /\ rest \in Seq(Nat)
    BY DEF OutInv, OutTypes
  <2>7. (wire \o (output_buffer_ \o s)) \o rest = (wire \o output_buffer_) \o (s \o rest)
    <3>1. PICK v \in Seq(Nat) : v = wire \o output_buffer_
      BY <2>6, ConcatProperties
    <3>2. wire \o (output_buffer_ \o s) = (wire \o output_buffer_) \o s
      BY <2>5, <2>6, Associates
    <3>3. (v \o s) \o rest = v \o (s \o rest)
      BY <2>5, <2>6, Associates
    <3> QED BY <3>1, <3>2, <3>3, Zenon
  <2>8. output_buffer_ \o s \in Seq(Nat)
    BY <2>5, <2>6, ConcatProperties
  <2>9. OutTidy'
    BY <2>1, <2>2, <2>3, <2>4, <2>7, Zenon DEF OutTidy
  <2>10. OutTypes'
    BY <2>1, <2>2, <2>3, <2>4, <2>8 DEF OutInv, OutTypes
  <2>11. Stacked(calls', Len(rest')) /\ HighOnce' /\ WaitingIsWatched' /\ EndsSeen'
    BY <2>1 DEF OutInv, HighOnce, WaitingIsWatched, EndsSeen, FreedEventIsUsedInsideOnly
  <2> QED BY <2>9, <2>10, <2>11 DEF OutInv
<1>3. ASSUME Close PROVE OutInv'
  <2>1. /\ End(calls # <<>>) /\ UNCHANGED outBytes /\ calls' = calls /\ UNCHANGED rest
    BY <1>3 DEF Close, outBytes
  <2>2. PICK inside \in BOOLEAN : inside = (calls # <<>>)
    OBVIOUS
  <2>3. calls' \in Seq(CallTypes) /\ Stacked(calls', Len(rest')) /\ Len(calls') <= Len(calls)
    BY <2>1, LenProperties DEF OutInv, OutTypes
  <2> QED BY <2>1, <2>2, <2>3, EndStep
<1>4. ASSUME WriteEvent \/ SendOutputBuffer PROVE OutInv'
  <2>1. PICK m \in Nat, watch \in BOOLEAN : m = Len(rest) /\ Enter(Call("may", m, watch))
                                              /\ UNCHANGED <<outBytes, writeEvent, outConnected, outCrash>>
    <3>1. CASE WriteEvent
      BY <1>0, <3>1 DEF WriteEvent
    <3>2. CASE SendOutputBuffer
      BY <1>0, <3>2 DEF SendOutputBuffer
    <3> QED BY <1>4, <3>1, <3>2
  <2>2. PICK call : call = Call("may", m, watch)
    OBVIOUS
  <2>3. call \in CallTypes /\ call.below = Len(rest) /\ call.at # "high" /\ Enter(call)
        /\ UNCHANGED <<output_buffer_, writeEvent, outConnected, outCrash>> /\ UNCHANGED outBytes
    BY <2>1, <2>2 DEF Call, CallTypes, Sends, Flushes, outBytes
  <2> QED BY <2>1, <2>3, EnterStep
<1>5. ASSUME BeforeRefuses PROVE OutInv'
  <2>1. /\ calls # <<>> /\ calls[1].at = "before" /\ refused' = refused \cup {rest[i] : i \in 1 .. Left}
        /\ rest' = From(rest, Left) /\ Return
        /\ UNCHANGED <<output_buffer_, wire, handed, passes, writeEvent, outConnected, outCrash, outLog>>
    BY <1>5 DEF BeforeRefuses, In
  <2>2. Left \in 0 .. Len(rest) /\ Len(rest) - Left = calls[1].below
    BY <2>1, CallOnTop
  <2>3. /\ refused' \in SUBSET (1 .. handed) /\ rest' \in Seq(Nat) /\ Len(rest') = calls[1].below /\ OutTidy'
    <3>1. PICK k \in 0 .. Len(rest) : k = Left
      BY <2>2
    <3>2. /\ refused \cup {rest[i] : i \in 1 .. k} \in SUBSET (1 .. handed)
          /\ From(rest, k) \in Seq(Nat) /\ Len(From(rest, k)) = Len(rest) - k
          /\ Elems((wire \o output_buffer_) \o From(rest, k)) = (1 .. handed) \ (refused \cup {rest[i] : i \in 1 .. k})
          /\ Ordered((wire \o output_buffer_) \o From(rest, k), passes)
      BY Dropped DEF OutInv
    <3>3. refused' = refused \cup {rest[i] : i \in 1 .. k} /\ rest' = From(rest, k)
      BY <2>1, <3>1
    <3>4. OutTidy'
      BY <2>1, <3>2, <3>3 DEF OutTidy
    <3> QED BY <2>2, <3>1, <3>2, <3>3, <3>4
  <2>4. /\ calls' \in Seq(CallTypes) /\ Stacked(calls', calls[1].below) /\ (calls' # <<>> => calls # <<>>)
        /\ ~nested => calls' = <<>> /\ Len(calls') = 0 /\ ~In("high")'
    BY <2>1, Returned
  <2>5. OutTypes'
    BY <2>1, <2>3, <2>4 DEF OutInv, OutTypes, outLog
  <2>6. HighOnce'
    BY <2>1, <2>4 DEF OutInv, HighOnce, In, outLog
  <2>7. WaitingIsWatched' /\ EndsSeen'
    BY <2>1, <2>4 DEF OutInv, WaitingIsWatched, EndsSeen, FreedEventIsUsedInsideOnly, outLog
  <2> QED BY <2>3, <2>4, <2>5, <2>6, <2>7 DEF OutInv
<1>6. ASSUME In("before") \/ In("written"), Rest PROVE OutInv'
  <2>1. calls # <<>> /\ ~In("high")
    BY <1>6 DEF In
  <2>2. CASE Left = 0 /\ Return /\ UNCHANGED <<outBytes, writeEvent, outConnected, outCrash, outLog>>
    <3>1. UNCHANGED writeEvent /\ writeEvent \in BOOLEAN /\ highCalls \in Nat
      BY <2>2 DEF OutInv, OutTypes
    <3> QED BY <2>1, <2>2, <3>1, OutGoesOn DEF outLog
  <2>3. CASE /\ Left > 0 /\ Len(output_buffer_) < high_water_mark_ /\ Len(output_buffer_) + Left >= high_water_mark_
             /\ highCalls' = highCalls + 1 /\ Go("high")
             /\ UNCHANGED <<outBytes, writeEvent, outConnected, outCrash, unasked, appended, nested, endedInside>>
    <3>1. writeEvent \in BOOLEAN /\ highCalls' \in Nat
      BY <2>3 DEF OutInv, OutTypes
    <3> QED BY <2>1, <2>3, <3>1, OutGoesOn
  <2>4. CASE /\ ~(Len(output_buffer_) < high_water_mark_ /\ Len(output_buffer_) + Left >= high_water_mark_)
             /\ Keep /\ UNCHANGED highCalls
    <3>1. Left \in Nat
      BY <2>1, CallOnTop
    <3>2. ~nested /\ ~appended => highCalls = IF Len(output_buffer_) + Left >= high_water_mark_ THEN 1 ELSE 0
      <4>1. ~nested /\ ~appended => highCalls = IF Len(output_buffer_) >= high_water_mark_ THEN 1 ELSE 0
        BY <2>1 DEF OutInv, HighOnce
      <4> QED BY <1>0, <2>4, <3>1, <4>1
    <3> QED BY <2>1, <2>4, <3>2, KeepStep
  <2> QED BY <1>6, <2>2, <2>3, <2>4 DEF Rest
<1>7. ASSUME In("before"), SocketBreaks PROVE OutInv'
  <2>1. /\ calls # <<>> /\ ~In("high") /\ End(Len(calls) > 1) /\ Return
        /\ refused' = refused \cup {rest[i] : i \in 1 .. Left} /\ rest' = From(rest, Left)
        /\ UNCHANGED <<output_buffer_, wire, handed, passes>>
    BY <1>7 DEF SocketBreaks, Broken, In
  <2>2. Left \in 0 .. Len(rest) /\ Len(rest) - Left = calls[1].below
    BY <2>1, CallOnTop
  <2>3. /\ refused' \in SUBSET (1 .. handed) /\ rest' \in Seq(Nat) /\ Len(rest') = calls[1].below /\ OutTidy'
    <3>1. PICK k \in 0 .. Len(rest) : k = Left
      BY <2>2
    <3>2. /\ refused \cup {rest[i] : i \in 1 .. k} \in SUBSET (1 .. handed)
          /\ From(rest, k) \in Seq(Nat) /\ Len(From(rest, k)) = Len(rest) - k
          /\ Elems((wire \o output_buffer_) \o From(rest, k)) = (1 .. handed) \ (refused \cup {rest[i] : i \in 1 .. k})
          /\ Ordered((wire \o output_buffer_) \o From(rest, k), passes)
      BY Dropped DEF OutInv
    <3>3. refused' = refused \cup {rest[i] : i \in 1 .. k} /\ rest' = From(rest, k)
      BY <2>1, <3>1
    <3>4. OutTidy'
      BY <2>1, <3>2, <3>3 DEF OutTidy
    <3> QED BY <2>2, <3>1, <3>2, <3>3, <3>4
  <2>4. /\ calls' \in Seq(CallTypes) /\ Stacked(calls', Len(rest')) /\ (calls' # <<>> => Len(calls) > 1)
        /\ Len(calls') <= Len(calls) /\ (~nested => calls' = <<>>)
    BY <2>1, <2>3, Returned
  <2>5. PICK inside \in BOOLEAN : inside = (Len(calls) > 1)
    <3>1. PICK l \in Nat : l = Len(calls)
      BY <2>1, CallOnTop
    <3>2. (l > 1) \in BOOLEAN
      OBVIOUS
    <3> QED BY <3>1, <3>2
  <2> QED BY <2>1, <2>3, <2>4, <2>5, EndStep
<1>8. ASSUME In("before"), NEW k \in 1 .. Left, SocketTakes(k) PROVE OutInv'
  <2>1. /\ calls # <<>> /\ ~In("high") /\ output_buffer_ = <<>> /\ wire' = wire \o SubSeq(rest, 1, k)
        /\ rest' = From(rest, k) /\ Go("written")
        /\ UNCHANGED <<output_buffer_, handed, refused, passes, writeEvent, outConnected, outCrash, outLog>>
    BY <1>8 DEF SocketTakes, Direct, In
  <2>2. k \in 0 .. Len(rest) /\ calls[1].below \in Nat /\ calls[1].below <= Len(rest) - k
    BY <2>1, CallOnTop
  <2>3. PICK x, y : x = SubSeq(rest, 1, k) /\ y = From(rest, k)
    OBVIOUS
  <2>4. wire \in Seq(Nat) /\ rest \in Seq(Nat)
    BY DEF OutInv, OutTypes
  <2>5. x \o y = rest /\ x \in Seq(Nat) /\ y \in Seq(Nat) /\ Len(y) = Len(rest) - k
    BY <2>2, <2>3, <2>4, CutInTwo
  <2>6. wire \o x \in Seq(Nat) /\ (wire \o x) \o y = wire \o (x \o y)
    BY <2>4, <2>5, Associates, ConcatProperties, Zenon
  <2>7. (wire' \o output_buffer_') \o rest' = (wire \o output_buffer_) \o rest
    <3>1. wire \o <<>> = wire /\ (wire \o x) \o <<>> = wire \o x
      BY <2>4, <2>6, ConcatEmptySeq
    <3>2. output_buffer_ = <<>> /\ output_buffer_' = <<>>
      BY <2>1
    <3>3. wire' = wire \o x /\ rest' = y
      BY <2>1, <2>3
    <3>4. (wire' \o output_buffer_') \o rest' = ((wire \o x) \o <<>>) \o y
      BY <3>2, <3>3
    <3>5. (wire \o output_buffer_) \o rest = (wire \o <<>>) \o (x \o y)
      BY <2>5, <3>2
    <3> QED BY <2>6, <3>1, <3>4, <3>5, Zenon
  <2>8. /\ calls' \in Seq(CallTypes) /\ Stacked(calls', Len(rest')) /\ calls' # <<>> /\ Len(calls') = Len(calls)
        /\ ~In("high")'
    <3>1. PICK m \in Nat : m = Len(rest) - k /\ calls[1].below <= m
      <4>1. Len(rest) - k \in Nat
        BY <1>0, <2>2
      <4> QED BY <2>2, <4>1
    <3>2. "written" \in Sends \cup Flushes /\ "written" \notin Flushes
      BY DEF Sends, Flushes
    <3>3. /\ calls' \in Seq(CallTypes) /\ Stacked(calls', m) /\ calls' # <<>> /\ Len(calls') = Len(calls)
          /\ calls'[1].at = "written"
      BY <2>1, <3>1, <3>2, GoneOn
    <3> QED BY <2>1, <2>3, <2>5, <3>1, <3>3 DEF In
  <2>9. OutTypes'
    BY <2>1, <2>3, <2>5, <2>6, <2>8 DEF OutInv, OutTypes, outLog
  <2>10. OutTidy'
    BY <2>1, <2>7, Zenon DEF OutInv, OutTidy
  <2>11. HighOnce'
    BY <2>1, <2>8 DEF OutInv, HighOnce, outLog
  <2>12. WaitingIsWatched' /\ EndsSeen'
    BY <2>1 DEF OutInv, WaitingIsWatched, EndsSeen, FreedEventIsUsedInsideOnly, outLog
  <2> QED BY <2>8, <2>9, <2>10, <2>11, <2>12 DEF OutInv
<1>9. ASSUME AfterHigh PROVE OutInv'
  <2>1. calls # <<>> /\ In("high") /\ Keep /\ UNCHANGED highCalls
    BY <1>9 DEF AfterHigh, In
  <2>2. ~nested /\ ~appended => highCalls = IF Len(output_buffer_) + Left >= high_water_mark_ THEN 1 ELSE 0
    BY <2>1 DEF OutInv, HighOnce
  <2> QED BY <2>1, <2>2, KeepStep
<1>10. ASSUME NEW at \in Flushes, In(at), WriteReturns, writeEvent' \in BOOLEAN, writeEvent' = writeEvent \/ output_buffer_ = <<>>
       PROVE  OutInv'
  <2>1. calls # <<>> /\ ~In("high") /\ Left = 0
    <3>1. calls # <<>> /\ calls[1].at \in Flushes /\ calls[1].at # "high"
      BY <1>10 DEF In, Flushes
    <3> QED BY <3>1, CallOnTop DEF In
  <2>2. UNCHANGED <<outBytes, outConnected, outCrash, outLog>> /\ (Go("ask") \/ Return)
    BY <1>10 DEF WriteReturns
  <2>3. highCalls' \in Nat
    BY <2>2 DEF OutInv, OutTypes, outLog
  <2> QED BY <1>10, <2>1, <2>2, <2>3, OutGoesOn DEF outLog
<1>11. ASSUME In("may"), Broken, UNCHANGED outBytes PROVE OutInv'
  <2>1. calls # <<>> /\ ~In("high") /\ End(Len(calls) > 1) /\ Return /\ UNCHANGED rest
    BY <1>11 DEF Broken, In, outBytes
  <2>2. Left = 0 /\ Len(rest) = calls[1].below
    <3>1. calls[1].at \in Flushes
      BY <1>11 DEF In, Flushes
    <3> QED BY <2>1, <3>1, CallOnTop
  <2>3. /\ calls' \in Seq(CallTypes) /\ Stacked(calls', Len(rest')) /\ (calls' # <<>> => Len(calls) > 1)
        /\ Len(calls') <= Len(calls) /\ (~nested => calls' = <<>>)
    BY <2>1, <2>2, Returned
  <2>4. PICK inside \in BOOLEAN : inside = (Len(calls) > 1)
    <3>1. PICK l \in Nat : l = Len(calls)
      BY <2>1, CallOnTop
    <3>2. (l > 1) \in BOOLEAN
      OBVIOUS
    <3> QED BY <3>1, <3>2
  <2> QED BY <1>11, <2>1, <2>3, <2>4, EndStep
<1>12. ASSUME In("may"), NEW k \in 1 .. Len(output_buffer_),
              wire' = wire \o SubSeq(output_buffer_, 1, k), output_buffer_' = From(output_buffer_, k),
              highCalls' = (IF Len(output_buffer_') >= high_water_mark_ THEN highCalls ELSE 0),
              unasked' = (unasked /\ k < Len(output_buffer_)), Go("flushed"),
              UNCHANGED <<rest, handed, refused, passes, writeEvent, outConnected, outCrash, appended, nested, endedInside>>
       PROVE  OutInv'
  <2>1. calls # <<>> /\ ~In("high") /\ calls[1].at \in Flushes
    BY <1>12 DEF In, Flushes
  <2>2. Len(rest) = calls[1].below /\ Len(rest) \in Nat
    BY <2>1, CallOnTop
  <2>3. PICK x, y : x = SubSeq(output_buffer_, 1, k) /\ y = From(output_buffer_, k)
    OBVIOUS
  <2>4. wire \in Seq(Nat) /\ output_buffer_ \in Seq(Nat) /\ k \in 0 .. Len(output_buffer_)
    BY <1>0 DEF OutInv, OutTypes
  <2>5. x \o y = output_buffer_ /\ x \in Seq(Nat) /\ y \in Seq(Nat) /\ Len(y) = Len(output_buffer_) - k
    BY <2>3, <2>4, CutInTwo
  <2>6. wire \o x \in Seq(Nat) /\ (wire \o x) \o y = wire \o (x \o y)
    BY <2>4, <2>5, Associates, ConcatProperties, Zenon
  <2>7. (wire' \o output_buffer_') = (wire \o output_buffer_)
    BY <1>12, <2>3, <2>5, <2>6, Zenon
  <2>8. OutTidy'
    <3>1. UNCHANGED <<rest, handed, refused, passes>>
      BY <1>12
    <3> QED BY <2>7, <3>1 DEF OutInv, OutTidy
  <2>9. /\ calls' \in Seq(CallTypes) /\ Stacked(calls', Len(rest')) /\ calls' # <<>> /\ Len(calls') = Len(calls)
        /\ ~In("high")'
    <3>1. PICK m \in Nat : m = Len(rest) /\ calls[1].below = m
      BY <2>2
    <3>2. "flushed" \in Sends \cup Flushes
      BY DEF Flushes
    <3>3. /\ calls' \in Seq(CallTypes) /\ Stacked(calls', m) /\ calls' # <<>> /\ Len(calls') = Len(calls)
          /\ calls'[1].at = "flushed"
      BY <1>12, <2>1, <3>1, <3>2, GoneOn
    <3> QED BY <1>12, <3>1, <3>3 DEF In
  <2>10. /\ wire' \in Seq(Nat) /\ output_buffer_' \in Seq(Nat) /\ highCalls' \in Nat /\ unasked' \in BOOLEAN
         /\ Len(output_buffer_') \in Nat /\ Len(output_buffer_') < Len(output_buffer_)
         /\ output_buffer_' # <<>> => k < Len(output_buffer_)
    <3>1. wire' = wire \o x /\ output_buffer_' = y
      BY <1>12, <2>3
    <3>2. highCalls' \in Nat /\ unasked' \in BOOLEAN
      BY <1>12 DEF OutInv, OutTypes
    <3>3. Len(y) \in Nat /\ Len(y) < Len(output_buffer_) /\ (y # <<>> => Len(y) # 0)
      BY <1>0, <2>4, <2>5, LenProperties, EmptySeq
    <3>4. y # <<>> => k < Len(output_buffer_)
      BY <1>0, <2>4, <2>5, <3>3
    <3> QED BY <2>5, <2>6, <3>1, <3>2, <3>3, <3>4
  <2>11. OutTypes'
    BY <1>12, <2>9, <2>10 DEF OutInv, OutTypes
  <2>12. HighOnce'
    <3> SUFFICES ASSUME ~nested PROVE HighOnce'
      BY <1>12 DEF HighOnce
    <3>1. Len(calls') <= 1
      BY <2>9 DEF OutInv, HighOnce
    <3>2. ~appended => highCalls = IF Len(output_buffer_) >= high_water_mark_ THEN 1 ELSE 0
      BY <2>1 DEF OutInv, HighOnce
    <3>3. ~appended => highCalls' = IF Len(output_buffer_') >= high_water_mark_ THEN 1 ELSE 0
      BY <1>0, <1>12, <2>10, <3>2
    <3> QED BY <1>12, <2>9, <3>1, <3>3 DEF HighOnce
  <2>13. WaitingIsWatched' /\ EndsSeen'
    <3>1. WaitingIsWatched'
      <4>1. outConnected' /\ output_buffer_' # <<>> => output_buffer_ # <<>> /\ (unasked => unasked')
        <5>1. output_buffer_ # <<>>
          BY <1>0, <2>4, EmptySeq
        <5>2. output_buffer_' # <<>> /\ unasked => unasked'
          BY <1>12, <2>10, Zenon
        <5> QED BY <5>1, <5>2
      <4> QED BY <1>12, <4>1 DEF OutInv, WaitingIsWatched
    <3>2. EndsSeen'
      BY <1>12, <2>1 DEF OutInv, EndsSeen, FreedEventIsUsedInsideOnly
    <3> QED BY <3>1, <3>2
  <2> QED BY <2>8, <2>9, <2>11, <2>12, <2>13 DEF OutInv
<1>13. ASSUME Flushed PROVE OutInv'
  <2>1. calls # <<>> /\ In("flushed") /\ "flushed" \in Flushes
    BY <1>13 DEF Flushed, In, Flushes
  <2>2. CASE output_buffer_ = <<>>
    <3>1. writeEvent' = FALSE /\ Go("complete") /\ UNCHANGED <<outBytes, outConnected, outCrash, outLog>>
      BY <1>13, <2>2 DEF Flushed
    <3>2. calls[1].at \in Flushes /\ ~In("high")
      BY <2>1 DEF In
    <3>3. Left = 0 /\ highCalls' \in Nat
      BY <2>1, <3>1, <3>2, CallOnTop DEF OutInv, OutTypes, outLog
    <3> QED BY <2>1, <2>2, <3>1, <3>2, <3>3, OutGoesOn DEF outLog
  <2>3. CASE output_buffer_ # <<>>
    <3>1. WriteReturns /\ UNCHANGED writeEvent /\ writeEvent \in BOOLEAN
      BY <1>13, <2>3 DEF Flushed, OutInv, OutTypes
    <3> QED BY <1>10, <2>1, <3>1
  <2> QED BY <2>2, <2>3
<1>14. ASSUME MayRefuses \/ Completed \/ (In("may") /\ WriteReturns /\ UNCHANGED writeEvent) PROVE OutInv'
  <2>1. PICK at \in {"may", "complete"} : In(at) /\ WriteReturns /\ UNCHANGED writeEvent
    BY <1>14 DEF MayRefuses, Completed
  <2>2. at \in Flushes /\ writeEvent \in BOOLEAN
    BY DEF Flushes, OutInv, OutTypes
  <2> QED BY <1>10, <2>1, <2>2
<1>15. ASSUME AskRefused PROVE OutInv'
  <2>1. /\ calls # <<>> /\ calls[1].at = "ask" /\ Return
        /\ UNCHANGED <<outBytes, writeEvent, outConnected, outCrash, outLog>>
    BY <1>15 DEF AskRefused, In
  <2>2. Left = 0 /\ ~In("high") /\ writeEvent \in BOOLEAN /\ highCalls \in Nat
    <3>1. calls[1].at \in Flushes
      BY <2>1 DEF Flushes
    <3>2. Left = 0
      BY <2>1, <3>1, CallOnTop
    <3> QED BY <2>1, <3>2 DEF In, OutInv, OutTypes
  <2> QED BY <2>1, <2>2, OutGoesOn DEF outLog
<1>16. ASSUME AskAllowed PROVE OutInv'
  <2>1. /\ calls # <<>> /\ calls[1].at = "ask" /\ Return /\ unasked' = FALSE
        /\ writeEvent' = (writeEvent \/ outConnected) /\ outCrash' = (~writeEvent /\ ~outConnected)
        /\ UNCHANGED <<output_buffer_, wire, rest, handed, refused, passes, outConnected, highCalls, appended, nested, endedInside>>
    BY <1>16 DEF AskAllowed, In, Watch, outBytes
  <2>2. Len(rest) = calls[1].below /\ ~In("high")
    <3>1. calls[1].at \in Flushes
      BY <2>1 DEF Flushes
    <3> QED BY <2>1, <3>1, CallOnTop DEF In
  <2>3. /\ calls' \in Seq(CallTypes) /\ Stacked(calls', Len(rest')) /\ (calls' # <<>> => Len(calls) > 1)
        /\ (~nested => calls' = <<>> /\ Len(calls') = 0 /\ ~In("high")')
    BY <2>1, <2>2, Returned
  <2>4. OutTypes'
    BY <2>1, <2>3 DEF OutInv, OutTypes
  <2>5. OutTidy'
    BY <2>1 DEF OutInv, OutTidy
  <2>6. HighOnce'
    BY <2>1, <2>2, <2>3 DEF OutInv, HighOnce
  <2>7. WaitingIsWatched' /\ EndsSeen'
    <3>1. WaitingIsWatched'
      BY <2>1 DEF WaitingIsWatched
    <3>2. EndsSeen'
      BY <2>1, <2>3 DEF OutInv, EndsSeen, FreedEventIsUsedInsideOnly
    <3> QED BY <3>1, <3>2
  <2> QED BY <2>3, <2>4, <2>5, <2>6, <2>7 DEF OutInv
<1>17. ASSUME UNCHANGED outVars PROVE OutInv'
  <2>1. UNCHANGED <<output_buffer_, wire, rest, handed, refused, passes, calls, writeEvent, outConnected, outCrash,
                    highCalls, unasked, appended, nested, endedInside>>
    BY <1>17 DEF outVars, outBytes, outLog
  <2>2. OutTypes' /\ OutTidy' /\ Stacked(calls', Len(rest'))
    BY <2>1 DEF OutInv, OutTypes, OutTidy
  <2>3. HighOnce'
    BY <2>1 DEF OutInv, HighOnce, In, Left
  <2>4. WaitingIsWatched' /\ EndsSeen'
    BY <2>1 DEF OutInv, WaitingIsWatched, EndsSeen, FreedEventIsUsedInsideOnly
  <2> QED BY <2>2, <2>3, <2>4 DEF OutInv
<1>18. ASSUME BeforeAllows PROVE OutInv'
  BY <1>6, <1>7, <1>8, <1>18 DEF BeforeAllows
<1>19. ASSUME AfterWritten PROVE OutInv'
  BY <1>6, <1>19 DEF AfterWritten
<1>20. ASSUME MayAllows PROVE OutInv'
  BY <1>11, <1>12, <1>14, <1>20, Zenon DEF MayAllows
<1> QED
  BY <1>1, <1>2, <1>3, <1>4, <1>5, <1>9, <1>13, <1>14, <1>15, <1>16, <1>17, <1>18, <1>19, <1>20 DEF OutNext

(***************************************************************************)
(* The composition                                                         *)
(***************************************************************************)
LEMMA ServerStep ==
    ASSUME [Next]_vars
    PROVE  /\ PoolNext \/ UNCHANGED poolVars
           /\ SrvNext \/ UNCHANGED srvVars
           /\ OutNext \/ UNCHANGED outVars
BY DEF Next, vars, netVars, InThreadPool, InExecutor, InCoroutine, InLoopPool, InServer, InOutput

\* Over every order of resizes, moves between loops, peers' closes and stop():
\* functors are only given to live loops, join() leaves no thread, a connection
\* is removed once unless two threads close it at the same time, the pool is
\* there as long as a connection is, and the moving connections are counted.
THEOREM ServerSideStaysSafe == Spec => []ServerSideIsSafe
<1>1. Init => PoolInv /\ SrvInv
  BY PoolBegins, SrvBegins DEF Init
<1>2. PoolInv /\ SrvInv /\ [Next]_vars => PoolInv' /\ SrvInv'
  BY ServerStep, PoolStep, SrvStep
<1>3. PoolInv /\ SrvInv => ServerSideIsSafe
  BY PoolImplies, SrvImplies DEF ServerSideIsSafe
<1> QED BY <1>1, <1>2, <1>3, PTL DEF Spec

\* However the socket cuts the writes, the bytes of a connection leave once and
\* in the order of the sends, those that wait are watched, and the high water
\* callback is called once for each time the mark is reached.
THEOREM OutputStaysWhole == Spec => []OutputIsWhole
<1>1. Init => OutInv
  BY OutStart DEF Init
<1>2. OutInv /\ [Next]_vars => OutInv'
  BY ServerStep, OutStep
<1>3. OutInv => OutputIsWhole
  BY OutImplies
<1> QED BY <1>1, <1>2, <1>3, PTL DEF Spec

(***************************************************************************)
(* ThreadPool                                                              *)
(***************************************************************************)
\* What a task is found at when it has been put and not run: the queue, or a worker.
TpTasks == Putters \X Nat
InTpQueue(t) == \E i \in DOMAIN tpQueue : tpQueue[i] = t
AtWorker(t) == \E w \in Workers : worker[w] = "run" /\ task[w] = t

TpInv ==
    /\ TpTypeOK /\ put \in [Putters -> Nat] /\ tpQueue \in Seq(TpTasks)
    /\ task \in [Workers -> TpTasks \cup {NoTask}]
    /\ QueueWithinLimit /\ StopRunsEarlierTasks
    /\ \A t \in early : t \in tpRan \/ InTpQueue(t) \/ AtWorker(t)

\* Every step of ThreadPool keeps its inductive invariant.
LEMMA TpStep ==
    ASSUME TpInv, TpNext \/ UNCHANGED tpVars
    PROVE  TpInv'
<1> USE DEF TpInv, TpTypeOK
<1>1. ASSUME NEW p \in Putters, PutTask(p) PROVE TpInv'
  <2>1. /\ put' \in [Putters -> Nat] /\ putter' \in [Putters -> {"idle", "enter", "notFull"}]
        /\ tpRan \subseteq tpRan'
    <3>1. CASE tpStopped
      BY <1>1, <3>1 DEF PutTask
    <3>2. CASE ~tpStopped
      BY <1>1, <3>2 DEF PutTask
    <3> QED BY <3>1, <3>2
  <2>2. UNCHANGED <<tpStopped, tpQueue, worker, task, tpStop, early>>
    BY <1>1 DEF PutTask
  <2> QED BY <2>1, <2>2 DEF QueueWithinLimit, StopRunsEarlierTasks, InTpQueue, AtWorker
<1>2. ASSUME NEW p \in Putters, PutLocked(p) PROVE TpInv'
  <2>0. UNCHANGED <<tpStopped, task, tpStop, tpRan>>
    BY <1>2 DEF PutLocked
  <2>1. CASE MaxQueueSize > 0 /\ Len(tpQueue) >= MaxQueueSize
    <3>1. UNCHANGED <<tpQueue, put, early, worker>> /\ putter' \in [Putters -> {"idle", "enter", "notFull"}]
      BY <1>2, <2>1 DEF PutLocked
    <3> QED BY <2>0, <3>1 DEF QueueWithinLimit, StopRunsEarlierTasks, InTpQueue, AtWorker
  <2>2. CASE ~(MaxQueueSize > 0 /\ Len(tpQueue) >= MaxQueueSize)
    <3>1. Enqueue(p)
      BY <1>2, <2>2 DEF PutLocked
    <3>2. NewTask(p) \in TpTasks
      BY DEF NewTask, TpTasks
    <3>3. /\ tpQueue' = Append(tpQueue, NewTask(p)) /\ put' \in [Putters -> Nat]
          /\ putter' \in [Putters -> {"idle", "enter", "notFull"}]
          /\ early' = IF tpStop = "none" THEN early \cup {NewTask(p)} ELSE early
      BY <3>1 DEF Enqueue
    <3>4. /\ tpQueue' \in Seq(TpTasks) /\ Len(tpQueue') = Len(tpQueue) + 1
          /\ Len(tpQueue) \in Nat
      BY <3>2, <3>3, AppendProperties, LenProperties
    <3>5. /\ \E i \in DOMAIN tpQueue' : tpQueue'[i] = NewTask(p)
          /\ \A i \in DOMAIN tpQueue : i \in DOMAIN tpQueue' /\ tpQueue'[i] = tpQueue[i]
      <4>1. /\ DOMAIN tpQueue = 1 .. Len(tpQueue) /\ DOMAIN tpQueue' = 1 .. Len(tpQueue) + 1
            /\ tpQueue'[Len(tpQueue) + 1] = NewTask(p)
            /\ \A i \in 1 .. Len(tpQueue) : tpQueue'[i] = tpQueue[i]
        BY <3>2, <3>3, <3>4, AppendProperties, LenProperties
      <4> QED BY <3>4, <4>1
    <3>6. /\ worker' \in [Workers -> {"loop", "take", "notEmpty", "run", "exited"}]
          /\ \A w \in Workers : worker[w] = "run" => worker'[w] = "run"
      BY <3>1 DEF Enqueue, WakeOneWorker
    <3>7. QueueWithinLimit'
      <4>1. MaxQueueSize > 0 => Len(tpQueue') <= MaxQueueSize
        BY <2>2, <3>4, ThreadPoolAssumption
      <4> QED BY <4>1 DEF QueueWithinLimit
    <3>8. \A t \in early' : t \in tpRan' \/ InTpQueue(t)' \/ AtWorker(t)'
      <4> SUFFICES ASSUME NEW t \in early', t \notin tpRan PROVE InTpQueue(t)' \/ AtWorker(t)'
        BY <2>0
      <4>1. t = NewTask(p) \/ t \in early
        BY <3>3
      <4>2. CASE t = NewTask(p)
        BY <3>5, <4>2 DEF InTpQueue
      <4>3. CASE t \in early /\ InTpQueue(t)
        BY <3>5, <4>3 DEF InTpQueue
      <4>4. CASE t \in early /\ AtWorker(t)
        BY <2>0, <3>6, <4>4 DEF AtWorker
      <4> QED BY <4>1, <4>2, <4>3, <4>4
    <3>9. StopRunsEarlierTasks'
      BY <2>0, <3>3 DEF StopRunsEarlierTasks
    <3> QED BY <2>0, <3>3, <3>4, <3>6, <3>7, <3>8, <3>9
  <2> QED BY <2>1, <2>2
<1>3. ASSUME NEW w \in Workers, LoopTest(w) PROVE TpInv'
  <2>1. /\ worker' \in [Workers -> {"loop", "take", "notEmpty", "run", "exited"}]
        /\ \A u \in Workers : worker[u] = "run" => worker'[u] = "run"
        /\ UNCHANGED <<tpStopped, tpQueue, putter, put, task, tpStop, tpRan, early>>
    BY <1>3 DEF LoopTest
  <2> QED BY <2>1 DEF QueueWithinLimit, StopRunsEarlierTasks, InTpQueue, AtWorker
<1>4. ASSUME NEW w \in Workers, Take(w) PROVE TpInv'
  <2>0. UNCHANGED <<tpStopped, put, tpStop, tpRan, early>> /\ worker[w] = "take"
    BY <1>4 DEF Take
  <2>1. CASE tpQueue = <<>>
    <3>1. /\ worker' \in [Workers -> {"loop", "take", "notEmpty", "run", "exited"}]
          /\ \A u \in Workers : worker[u] = "run" => worker'[u] = "run"
          /\ UNCHANGED <<tpQueue, task, putter>>
      BY <1>4, <2>1 DEF Take
    <3> QED BY <2>0, <3>1 DEF QueueWithinLimit, StopRunsEarlierTasks, InTpQueue, AtWorker
  <2>2. CASE tpQueue # <<>>
    <3>1. /\ Head(tpQueue) \in TpTasks /\ Tail(tpQueue) \in Seq(TpTasks)
          /\ Len(Tail(tpQueue)) = Len(tpQueue) - 1 /\ Len(tpQueue) \in Nat
      BY <2>2, HeadTailProperties, LenProperties
    <3>2. /\ tpQueue' = Tail(tpQueue) /\ task' = [task EXCEPT ![w] = Head(tpQueue)]
          /\ worker' = [worker EXCEPT ![w] = "run"]
      BY <1>4, <2>2 DEF Take
    <3>3. putter' \in [Putters -> {"idle", "enter", "notFull"}]
      BY <1>4, <2>2 DEF Take, WakeOnePutter
    <3>4. \A i \in DOMAIN tpQueue : tpQueue[i] = Head(tpQueue) \/ \E j \in DOMAIN Tail(tpQueue) : Tail(tpQueue)[j] = tpQueue[i]
      <4> SUFFICES ASSUME NEW i \in DOMAIN tpQueue, i # 1 PROVE \E j \in DOMAIN Tail(tpQueue) : Tail(tpQueue)[j] = tpQueue[i]
        BY <2>2
      <4>1. i - 1 \in DOMAIN Tail(tpQueue) /\ Tail(tpQueue)[i - 1] = tpQueue[i]
        BY <2>2, <3>1
      <4> QED BY <4>1
    <3>5. \A t \in early' : t \in tpRan' \/ InTpQueue(t)' \/ AtWorker(t)'
      <4> SUFFICES ASSUME NEW t \in early, t \notin tpRan PROVE InTpQueue(t)' \/ AtWorker(t)'
        BY <2>0
      <4>1. CASE InTpQueue(t)
        BY <3>2, <3>4, <4>1 DEF InTpQueue, AtWorker
      <4>2. CASE AtWorker(t)
        BY <2>0, <3>2, <4>2 DEF AtWorker
      <4> QED BY <4>1, <4>2
    <3>6. QueueWithinLimit'
      BY <3>1, <3>2, ThreadPoolAssumption DEF QueueWithinLimit
    <3>7. task' \in [Workers -> TpTasks \cup {NoTask}]
      BY <3>1, <3>2
    <3>8. worker' \in [Workers -> {"loop", "take", "notEmpty", "run", "exited"}]
      BY <3>2
    <3> QED BY <2>0, <3>1, <3>2, <3>3, <3>5, <3>6, <3>7, <3>8 DEF StopRunsEarlierTasks
  <2> QED BY <2>1, <2>2
<1>5. ASSUME NEW w \in Workers, RunTask(w) PROVE TpInv'
  <2>1. /\ tpRan' = tpRan \cup {task[w]} /\ task' = [task EXCEPT ![w] = NoTask]
        /\ worker' = [worker EXCEPT ![w] = "loop"]
        /\ UNCHANGED <<tpStopped, tpQueue, putter, put, tpStop, early>>
    BY <1>5 DEF RunTask
  <2>2. \A t \in early' : t \in tpRan' \/ InTpQueue(t)' \/ AtWorker(t)'
    BY <2>1 DEF InTpQueue, AtWorker
  <2> QED BY <2>1, <2>2 DEF QueueWithinLimit, StopRunsEarlierTasks
<1>6. ASSUME StopSet PROVE TpInv'
  <2>1. /\ worker' \in [Workers -> {"loop", "take", "notEmpty", "run", "exited"}]
        /\ \A u \in Workers : worker[u] = "run" => worker'[u] = "run"
        /\ tpStop' = "joining" /\ tpStopped' = TRUE
        /\ UNCHANGED <<tpQueue, putter, put, task, tpRan, early>>
    BY <1>6 DEF StopSet
  <2> QED BY <2>1 DEF QueueWithinLimit, StopRunsEarlierTasks, InTpQueue, AtWorker
<1>7. ASSUME StopDrain PROVE TpInv'
  <2>1. /\ \A w \in Workers : worker[w] = "exited"
        /\ tpStop' = "returned" /\ tpQueue' = <<>>
        /\ tpRan' = tpRan \cup {tpQueue[i] : i \in DOMAIN tpQueue}
        /\ UNCHANGED <<tpStopped, putter, put, worker, task, early>>
    BY <1>7 DEF StopDrain
  <2>2. \A t \in early : t \in tpRan'
    BY <2>1 DEF InTpQueue, AtWorker
  <2>3. QueueWithinLimit'
    BY <2>1, ThreadPoolAssumption DEF QueueWithinLimit
  <2>4. tpQueue' \in Seq(TpTasks)
    BY <2>1
  <2> QED BY <2>1, <2>2, <2>3, <2>4 DEF StopRunsEarlierTasks
<1>8. ASSUME UNCHANGED tpVars PROVE TpInv'
  BY <1>8 DEF tpVars, QueueWithinLimit, StopRunsEarlierTasks, InTpQueue, AtWorker
<1> QED BY <1>1, <1>2, <1>3, <1>4, <1>5, <1>6, <1>7, <1>8 DEF TpNext, TpWork

\* A new ThreadPool satisfies it.
LEMMA TpStart == TpInit => TpInv
<1> SUFFICES ASSUME TpInit PROVE TpInv
  OBVIOUS
<1>1. /\ tpQueue \in Seq(TpTasks) /\ Len(tpQueue) = 0
      /\ put \in [Putters -> Nat] /\ task \in [Workers -> TpTasks \cup {NoTask}]
  BY DEF TpInit
<1>2. TpTypeOK /\ early = {} /\ tpStop = "none"
  BY DEF TpInit, TpTypeOK
<1>3. QueueWithinLimit
  BY <1>1, ThreadPoolAssumption DEF QueueWithinLimit
<1> QED BY <1>1, <1>2, <1>3 DEF TpInv, StopRunsEarlierTasks

(***************************************************************************)
(* ThreadExecutor                                                          *)
(***************************************************************************)
ExTasks == Adders \X Nat
SpinSlots == {i \in DOMAIN exQueue : exQueue[i][1] \in Spinners}
AtPush == {p \in Spinners : adder[p] = "push"}

\* The data of the executor: types, and what is run or waits to be run is what was accepted.
ExData ==
    /\ ExTypeOK /\ added \in [Adders -> Nat]
    /\ exQueue \in Seq(ExTasks) /\ tmp_queue \in Seq(ExTasks) /\ exRan \in Seq(ExTasks)
    /\ runner # "run" => tmp_queue = <<>>
    /\ RunsAsAccepted
\* While the thread waits it is notified, or the next push will do it.
ExWakes == runner = "waiting" => notified \/ (need_notify_ /\ exQueue = <<>>)
\* Every producer past its test of the capacity is a task to come.
ExRoom == Capacity > 0 => Cardinality(SpinSlots) + Cardinality(AtPush) <= Capacity + Cardinality(Spinners)

ExInv == ExData /\ ExWakes /\ ExRoom

\* Running the first task of the batch leaves run, batch and queue together the same.
LEMMA MoveOver ==
    ASSUME NEW S, NEW r \in Seq(S), NEW s \in Seq(S), NEW q \in Seq(S), s # <<>>
    PROVE  /\ Append(r, Head(s)) \o Tail(s) \o q = r \o s \o q
           /\ Append(r, Head(s)) \in Seq(S) /\ Tail(s) \in Seq(S)
<1>1. Head(s) \in S /\ Tail(s) \in Seq(S) /\ s \in Seq(S)
  BY HeadTailProperties
<1>2. Append(r, Head(s)) = r \o <<Head(s)>> /\ <<Head(s)>> \in Seq(S)
  BY <1>1, AppendIsConcat
<1>3. s = <<Head(s)>> \o Tail(s)
  BY <1>1
<1>4. (r \o <<Head(s)>>) \o Tail(s) = r \o (<<Head(s)>> \o Tail(s))
  <2>1. r \in Seq(S) /\ <<Head(s)>> \in Seq(S) /\ Tail(s) \in Seq(S)
    BY <1>1, <1>2
  <2> QED BY ONLY <2>1, SMT
<1> QED BY <1>1, <1>2, <1>3, <1>4, AppendProperties

\* A push appends to what is run, in the batch and queued.
LEMMA PushBack ==
    ASSUME NEW S, NEW r \in Seq(S), NEW s \in Seq(S), NEW q \in Seq(S), NEW e \in S
    PROVE  r \o s \o Append(q, e) = Append(r \o s \o q, e)
<1>1. r \o s \in Seq(S) /\ r \o s \o q \in Seq(S) /\ <<e>> \in Seq(S)
  BY ConcatProperties
<1>2. Append(q, e) = q \o <<e>> /\ Append(r \o s \o q, e) = (r \o s \o q) \o <<e>>
  BY <1>1, AppendIsConcat
<1>3. (r \o s \o q) \o <<e>> = r \o s \o (q \o <<e>>)
  <2>1. r \o s \in Seq(S) /\ q \in Seq(S) /\ <<e>> \in Seq(S)
    BY <1>1
  <2> QED BY ONLY <2>1, SMT
<1> QED BY <1>2, <1>3

\* ThreadExecutor: tasks submitted are run, running or queued, in order, after every step.
LEMMA ExDataStep ==
    ASSUME ExData, ExNext \/ UNCHANGED exVars
    PROVE  ExData'
<1> USE DEF ExData, ExTypeOK
<1>1. ASSUME NEW p \in Adders, ExPutTask(p) PROVE ExData'
  <2>1. UNCHANGED <<exStopped, exQueue, need_notify_, tmp_queue, runner, notified, exStop, accepted, exRan>>
    BY <1>1 DEF ExPutTask
  <2>2. added' \in [Adders -> Nat] /\ adder' \in [Adders -> {"idle", "test", "push"}]
    <3>1. CASE exStopped
      BY <1>1, <3>1 DEF ExPutTask
    <3>2. CASE ~exStopped
      BY <1>1, <3>2 DEF ExPutTask
    <3> QED BY <3>1, <3>2
  <2> QED BY <2>1, <2>2 DEF RunsAsAccepted
<1>2. ASSUME NEW p \in Adders, TestCapacity(p) PROVE ExData'
  <2>1. UNCHANGED <<exStopped, exQueue, need_notify_, tmp_queue, runner, notified, exStop, accepted, exRan>>
    BY <1>2 DEF TestCapacity
  <2>2. added' \in [Adders -> Nat] /\ adder' \in [Adders -> {"idle", "test", "push"}]
    <3>1. CASE Len(exQueue) > Capacity
      BY <1>2, <3>1 DEF TestCapacity
    <3>2. CASE ~(Len(exQueue) > Capacity)
      BY <1>2, <3>2 DEF TestCapacity
    <3> QED BY <3>1, <3>2
  <2> QED BY <2>1, <2>2 DEF RunsAsAccepted
<1>3. ASSUME NEW p \in Adders, Push(p) PROVE ExData'
  <2> DEFINE e == <<p, added[p]>>
  <2>1. /\ exQueue' = Append(exQueue, e) /\ accepted' = Append(accepted, e)
        /\ need_notify_' = FALSE /\ UNCHANGED <<exStopped, tmp_queue, runner, exStop, exRan>>
    BY <1>3 DEF Push
  <2>2. notified' \in BOOLEAN
    BY <1>3 DEF Push
  <2>3. added' \in [Adders -> Nat] /\ adder' \in [Adders -> {"idle", "test", "push"}]
    BY <1>3 DEF Push
  <2>4. e \in ExTasks
    BY DEF ExTasks
  <2>5. exQueue' \in Seq(ExTasks)
    BY <2>1, <2>4, AppendProperties
  <2>6. exRan \o tmp_queue \o Append(exQueue, e) = Append(accepted, e)
    <3>1. exRan \o tmp_queue \o Append(exQueue, e) = Append(exRan \o tmp_queue \o exQueue, e)
      BY <2>4, PushBack, SMTT(30)
    <3> QED BY <3>1, Zenon DEF RunsAsAccepted
  <2>7. RunsAsAccepted'
    BY <2>1, <2>6, Zenon DEF RunsAsAccepted
  <2> QED BY <2>1, <2>2, <2>3, <2>5, <2>7
<1>4. ASSUME Top PROVE ExData'
  <2>1. /\ runner' \in {"exited", "lock"} /\ runner = "top"
        /\ UNCHANGED <<exStopped, exQueue, need_notify_, tmp_queue, adder, added, notified, exStop, accepted, exRan>>
    BY <1>4 DEF Top
  <2> QED BY <2>1 DEF RunsAsAccepted
<1>5. ASSUME Swap, runner # "run", notified' \in BOOLEAN, need_notify_' \in BOOLEAN,
             UNCHANGED <<exStopped, adder, added, exStop, accepted, exRan>>
      PROVE  ExData'
  <2>1. tmp_queue' = exQueue /\ exQueue' = <<>> /\ runner' = "run" /\ tmp_queue = <<>>
    BY <1>5 DEF Swap
  <2>2. exRan \o exQueue \o <<>> = exRan \o tmp_queue \o exQueue
    <3>1. exRan \o tmp_queue = exRan /\ exRan \o exQueue \in Seq(ExTasks)
      BY <2>1, ConcatEmptySeq, ConcatProperties
    <3>2. (exRan \o exQueue) \o <<>> = exRan \o exQueue
      BY <3>1, ConcatEmptySeq
    <3> QED BY <3>1, <3>2
  <2>3. RunsAsAccepted'
    BY <1>5, <2>1, <2>2, Zenon DEF RunsAsAccepted
  <2>4. exQueue' \in Seq(ExTasks)
    BY <2>1
  <2> QED BY <1>5, <2>1, <2>3, <2>4
<1>6. ASSUME LockQueue PROVE ExData'
  <2>0. runner = "lock" /\ UNCHANGED <<exStopped, adder, added, exStop, accepted, exRan>>
    BY <1>6 DEF LockQueue
  <2>1. CASE exQueue = <<>>
    <3>1. need_notify_' = TRUE /\ runner' = "waiting" /\ notified' = FALSE /\ UNCHANGED <<exQueue, tmp_queue>>
      BY <1>6, <2>1 DEF LockQueue
    <3> QED BY <2>0, <3>1 DEF RunsAsAccepted
  <2>2. CASE exQueue # <<>>
    <3>1. Swap /\ UNCHANGED <<need_notify_, notified>>
      BY <1>6, <2>2 DEF LockQueue
    <3> QED BY <2>0, <3>1, <1>5
  <2> QED BY <2>1, <2>2
<1>7. ASSUME Awake PROVE ExData'
  BY <1>5, <1>7 DEF Awake
<1>8. ASSUME RunSwapped PROVE ExData'
  <2>0. runner = "run" /\ UNCHANGED <<exStopped, exQueue, need_notify_, adder, added, notified, exStop, accepted>>
    BY <1>8 DEF RunSwapped
  <2>1. CASE tmp_queue = <<>>
    <3>1. runner' = "top" /\ UNCHANGED <<tmp_queue, exRan>>
      BY <1>8, <2>1 DEF RunSwapped
    <3> QED BY <2>0, <2>1, <3>1 DEF RunsAsAccepted
  <2>2. CASE tmp_queue # <<>>
    <3>1. exRan' = Append(exRan, Head(tmp_queue)) /\ tmp_queue' = Tail(tmp_queue) /\ UNCHANGED runner
      BY <1>8, <2>2 DEF RunSwapped
    <3>2. /\ Append(exRan, Head(tmp_queue)) \o Tail(tmp_queue) \o exQueue = exRan \o tmp_queue \o exQueue
          /\ Append(exRan, Head(tmp_queue)) \in Seq(ExTasks) /\ Tail(tmp_queue) \in Seq(ExTasks)
      BY <2>2, MoveOver
    <3>3. RunsAsAccepted'
      BY <2>0, <3>1, <3>2, Zenon DEF RunsAsAccepted
    <3> QED BY <2>0, <3>1, <3>2, <3>3
  <2> QED BY <2>1, <2>2
<1>9. ASSUME ExStopSet PROVE ExData'
  <2>1. /\ exStopped' = TRUE
        /\ UNCHANGED <<exQueue, need_notify_, tmp_queue, adder, added, runner, accepted, exRan>>
    BY <1>9 DEF ExStopSet
  <2>2. notified' \in BOOLEAN
    BY <1>9 DEF ExStopSet
  <2> QED BY <2>1, <2>2 DEF RunsAsAccepted
<1>10. ASSUME ExJoined \/ UNCHANGED exVars PROVE ExData'
  BY <1>10 DEF ExJoined, exVars, RunsAsAccepted
<1> QED BY <1>1, <1>2, <1>3, <1>4, <1>6, <1>7, <1>8, <1>9, <1>10 DEF ExNext, ExThread

\* While the thread waits it is notified, or the next push will do it, after every step.
LEMMA ExWakesStep ==
    ASSUME ExData, ExWakes, ExNext \/ UNCHANGED exVars
    PROVE  ExWakes'
<1> USE DEF ExData, ExTypeOK, ExWakes
<1>1. ASSUME NEW p \in Adders, ExPutTask(p) PROVE ExWakes'
  BY <1>1 DEF ExPutTask
<1>2. ASSUME NEW p \in Adders, TestCapacity(p) PROVE ExWakes'
  BY <1>2 DEF TestCapacity
<1>3. ASSUME NEW p \in Adders, Push(p) PROVE ExWakes'
  BY <1>3 DEF Push
<1>4. ASSUME Top PROVE ExWakes'
  BY <1>4 DEF Top
<1>5. ASSUME LockQueue PROVE ExWakes'
  <2>1. CASE exQueue = <<>>
    <3>1. need_notify_' = TRUE /\ exQueue' = <<>>
      BY <1>5, <2>1 DEF LockQueue
    <3> QED BY <3>1
  <2>2. CASE exQueue # <<>>
    <3>1. runner' = "run"
      BY <1>5, <2>2 DEF LockQueue, Swap
    <3> QED BY <3>1
  <2> QED BY <2>1, <2>2
<1>6. ASSUME Awake PROVE ExWakes'
  BY <1>6 DEF Awake, Swap
<1>7. ASSUME RunSwapped PROVE ExWakes'
  BY <1>7 DEF RunSwapped
<1>8. ASSUME ExStopSet PROVE ExWakes'
  BY <1>8 DEF ExStopSet
<1>9. ASSUME ExJoined \/ UNCHANGED exVars PROVE ExWakes'
  BY <1>9 DEF ExJoined, exVars
<1> QED BY <1>1, <1>2, <1>3, <1>4, <1>5, <1>6, <1>7, <1>8, <1>9 DEF ExNext, ExThread

\* The cardinality of 1 .. n.
LEMMA CountTo ==
    ASSUME NEW n \in Nat
    PROVE  IsFiniteSet(1 .. n) /\ Cardinality(1 .. n) = n
<1>1. /\ IsFiniteSet(1 .. n)
      /\ Cardinality(1 .. n) = IF 1 > n THEN 0 ELSE n - 1 + 1
  BY FS_Interval, 1 \in Int, n \in Int, Zenon
<1> QED BY <1>1

\* The slots and the producers that ExRoom counts are finitely many.
LEMMA SpinSlotsFinite ==
    ASSUME ExData
    PROVE  /\ IsFiniteSet(SpinSlots) /\ Cardinality(SpinSlots) \in Nat
           /\ Cardinality(SpinSlots) <= Len(exQueue) /\ Len(exQueue) \in Nat
           /\ IsFiniteSet(AtPush) /\ Cardinality(AtPush) \in Nat
           /\ Cardinality(AtPush) <= Cardinality(Spinners) /\ Cardinality(Spinners) \in Nat
<1>1. DOMAIN exQueue = 1 .. Len(exQueue) /\ Len(exQueue) \in Nat
  BY LenProperties DEF ExData
<1>2. IsFiniteSet(1 .. Len(exQueue)) /\ Cardinality(1 .. Len(exQueue)) = Len(exQueue)
  BY <1>1, CountTo
<1>3. SpinSlots \in SUBSET (1 .. Len(exQueue))
  BY <1>1 DEF SpinSlots
<1>4. IsFiniteSet(SpinSlots) /\ Cardinality(SpinSlots) <= Len(exQueue)
  BY <1>2, <1>3, FS_Subset
<1>5. AtPush \in SUBSET Spinners
  BY DEF AtPush
<1>6. IsFiniteSet(AtPush) /\ Cardinality(AtPush) <= Cardinality(Spinners)
  BY <1>5, FS_Subset, ThreadExecutorAssumption
<1> QED BY <1>1, <1>4, <1>6, FS_CardinalityType, ThreadExecutorAssumption

\* The capacity is overrun by one task of each spinning producer at most, after every step.
LEMMA ExRoomStep ==
    ASSUME ExData, ExData', ExRoom, ExNext \/ UNCHANGED exVars
    PROVE  ExRoom'
<1> USE DEF ExData, ExTypeOK
<1>0. SUFFICES ASSUME Capacity > 0
               PROVE  Cardinality(SpinSlots') + Cardinality(AtPush') <= Capacity + Cardinality(Spinners)
  BY DEF ExRoom
<1>a. /\ Cardinality(SpinSlots) + Cardinality(AtPush) <= Capacity + Cardinality(Spinners)
      /\ Cardinality(SpinSlots) \in Nat /\ Cardinality(AtPush) \in Nat /\ Cardinality(Spinners) \in Nat
      /\ IsFiniteSet(SpinSlots) /\ IsFiniteSet(AtPush) /\ Cardinality(SpinSlots) <= Len(exQueue) /\ Len(exQueue) \in Nat
  BY <1>0, SpinSlotsFinite DEF ExRoom
<1>b. Cardinality(AtPush') <= Cardinality(Spinners) /\ Cardinality(AtPush') \in Nat
  <2>1. AtPush' \in SUBSET Spinners
    BY DEF AtPush
  <2> QED BY <2>1, FS_Subset, FS_CardinalityType, ThreadExecutorAssumption
<1>c. Capacity \in Nat
  BY ThreadExecutorAssumption
<1>d. ASSUME UNCHANGED exQueue, AtPush' = AtPush PROVE Cardinality(SpinSlots') + Cardinality(AtPush') <= Capacity + Cardinality(Spinners)
  BY <1>a, <1>d DEF SpinSlots
<1>e. ASSUME exQueue' = <<>> PROVE Cardinality(SpinSlots') + Cardinality(AtPush') <= Capacity + Cardinality(Spinners)
  <2>1. SpinSlots' = {}
    BY <1>e DEF SpinSlots
  <2> QED BY <2>1, <1>a, <1>b, <1>c, FS_EmptySet
<1>1. ASSUME NEW p \in Adders, ExPutTask(p) PROVE Cardinality(SpinSlots') + Cardinality(AtPush') <= Capacity + Cardinality(Spinners)
  <2>1. UNCHANGED exQueue
    BY <1>1 DEF ExPutTask
  <2>2. AtPush' = AtPush
    <3>1. \A q \in Spinners : adder'[q] = "push" <=> adder[q] = "push"
      <4>0. Spinners \subseteq Adders
        BY DEF Adders
      <4>1. CASE exStopped
        BY <1>1, <4>1 DEF ExPutTask
      <4>2. CASE ~exStopped
        <5>1. adder' = [adder EXCEPT ![p] = IF p \in Forcers \/ Capacity = 0 THEN "push" ELSE "test"] /\ adder[p] = "idle"
          BY <1>1, <4>2 DEF ExPutTask
        <5>2. p \in Spinners => adder'[p] = "test"
          BY <5>1, <1>0, <1>c, ThreadExecutorAssumption
        <5> QED BY <4>0, <5>1, <5>2
      <4> QED BY <4>1, <4>2
    <3> QED BY <3>1 DEF AtPush
  <2> QED BY <2>1, <2>2, <1>d
<1>2. ASSUME NEW p \in Adders, TestCapacity(p) PROVE Cardinality(SpinSlots') + Cardinality(AtPush') <= Capacity + Cardinality(Spinners)
  <2>1. UNCHANGED exQueue /\ adder[p] = "test"
    BY <1>2 DEF TestCapacity
  <2>2. SpinSlots' = SpinSlots
    BY <2>1 DEF SpinSlots
  <2>3. CASE Len(exQueue) > Capacity
    <3>1. adder' = [adder EXCEPT ![p] = "idle"]
      BY <1>2, <2>3 DEF TestCapacity
    <3>2. AtPush' = AtPush
      BY <2>1, <3>1 DEF AtPush, Adders
    <3> QED BY <2>1, <3>2, <1>d
  <2>4. CASE ~(Len(exQueue) > Capacity)
    BY <2>2, <2>4, <1>a, <1>b, <1>c, SMTT(30)
  <2> QED BY <2>3, <2>4
<1>3. ASSUME NEW p \in Adders, Push(p) PROVE Cardinality(SpinSlots') + Cardinality(AtPush') <= Capacity + Cardinality(Spinners)
  <2> DEFINE e == <<p, added[p]>>
             n == Len(exQueue) + 1
  <2>1. exQueue' = Append(exQueue, e) /\ adder[p] = "push" /\ adder' = [adder EXCEPT ![p] = "idle"]
    BY <1>3 DEF Push
  <2>2. e \in ExTasks /\ e[1] = p
    BY DEF ExTasks
  <2>3. /\ DOMAIN exQueue = 1 .. Len(exQueue) /\ DOMAIN exQueue' = 1 .. n /\ exQueue'[n] = e
        /\ \A i \in 1 .. Len(exQueue) : exQueue'[i] = exQueue[i]
    BY <2>1, <2>2, AppendProperties, LenProperties
  <2>4. n \notin SpinSlots
    BY <1>a, <2>3 DEF SpinSlots
  <2>5. CASE p \in Spinners
    <3>1. SpinSlots' = SpinSlots \cup {n}
      BY <1>a, <2>2, <2>3, <2>5 DEF SpinSlots
    <3>2. AtPush' = AtPush \ {p} /\ p \in AtPush
      BY <2>1, <2>5 DEF AtPush, Adders
    <3>3. Cardinality(SpinSlots') = Cardinality(SpinSlots) + 1
      BY <1>a, <2>4, <3>1, FS_AddElement
    <3>4. Cardinality(AtPush') = Cardinality(AtPush) - 1
      BY <1>a, <3>2, FS_RemoveElement
    <3> QED BY <1>a, <1>c, <3>3, <3>4
  <2>6. CASE p \notin Spinners
    <3>1. SpinSlots' = SpinSlots
      BY <1>a, <2>2, <2>3, <2>6 DEF SpinSlots
    <3>2. AtPush' = AtPush
      BY <2>1, <2>6 DEF AtPush, Adders
    <3> QED BY <1>a, <3>1, <3>2
  <2> QED BY <2>5, <2>6
<1>4. ASSUME Top \/ RunSwapped \/ ExStopSet \/ ExJoined \/ UNCHANGED exVars
      PROVE  Cardinality(SpinSlots') + Cardinality(AtPush') <= Capacity + Cardinality(Spinners)
  <2>1. UNCHANGED <<exQueue, adder>>
    BY <1>4 DEF Top, RunSwapped, ExStopSet, ExJoined, exVars
  <2> QED BY <2>1, <1>d DEF AtPush
<1>5. ASSUME LockQueue \/ Awake PROVE Cardinality(SpinSlots') + Cardinality(AtPush') <= Capacity + Cardinality(Spinners)
  <2>1. exQueue' = <<>> \/ UNCHANGED <<exQueue, adder>>
    BY <1>5 DEF LockQueue, Awake, Swap
  <2> QED BY <2>1, <1>d, <1>e DEF AtPush
<1> QED BY <1>1, <1>2, <1>3, <1>4, <1>5 DEF ExNext, ExThread

\* A new ThreadExecutor satisfies the inductive invariant.
LEMMA ExStart == ExInit => ExInv
<1> SUFFICES ASSUME ExInit PROVE ExInv
  OBVIOUS
<1>1. ExTypeOK /\ added \in [Adders -> Nat]
  BY DEF ExInit, ExTypeOK
<1>2. /\ exQueue = <<>> /\ tmp_queue = <<>> /\ exRan = <<>> /\ accepted = <<>> /\ runner = "top"
      /\ AtPush = {}
  BY DEF ExInit, AtPush, Adders
<1>3. /\ exQueue \in Seq(ExTasks) /\ tmp_queue \in Seq(ExTasks) /\ exRan \in Seq(ExTasks)
  BY <1>2
<1>4. <<>> \o <<>> \o <<>> = <<>>
  BY ConcatEmptySeq, EmptySeq
<1>5. RunsAsAccepted
  BY <1>2, <1>4, Zenon DEF RunsAsAccepted
<1>6. SpinSlots = {}
  BY <1>2 DEF SpinSlots
<1>7. ExRoom
  BY <1>2, <1>6, FS_EmptySet, FS_CardinalityType, ThreadExecutorAssumption DEF ExRoom
<1> QED BY <1>1, <1>2, <1>3, <1>5, <1>7 DEF ExInv, ExData, ExWakes

\* It implies the safety properties of ThreadExecutor.
LEMMA ExImplies ==
    ASSUME ExInv
    PROVE  ExTypeOK /\ RunsAsAccepted /\ NoSleepOverTask /\ CapacityOverrun
<1>1. CapacityOverrun
  BY SpinSlotsFinite, ThreadExecutorAssumption DEF ExInv, ExRoom, CapacityOverrun, SpinSlots
<1> QED BY <1>1 DEF ExInv, ExData, ExWakes, NoSleepOverTask

\* Every step of ThreadExecutor keeps it.
LEMMA ExStep ==
    ASSUME ExInv, ExNext \/ UNCHANGED exVars
    PROVE  ExInv'
<1>1. ExData /\ ExWakes /\ ExRoom
  BY DEF ExInv
<1>2. ExData'
  BY <1>1, ExDataStep
<1>3. ExWakes' /\ ExRoom'
  BY <1>1, <1>2, ExWakesStep, ExRoomStep
<1> QED BY <1>2, <1>3 DEF ExInv

(***************************************************************************)
(* CoroutineThread                                                         *)
(***************************************************************************)
Items(s) == {s[i] : i \in DOMAIN s}
Distinct(s) == \A i, j \in DOMAIN s : i # j => s[i] # s[j]

\* What a queue holds when a task is appended.
LEMMA ItemsAppend ==
    ASSUME NEW S, NEW s \in Seq(S), NEW e \in S
    PROVE  /\ Append(s, e) \in Seq(S) /\ Len(Append(s, e)) = Len(s) + 1
           /\ Items(Append(s, e)) = Items(s) \cup {e}
           /\ Distinct(s) /\ e \notin Items(s) => Distinct(Append(s, e))
<1>1. /\ DOMAIN s = 1 .. Len(s) /\ Len(s) \in Nat /\ DOMAIN Append(s, e) = 1 .. Len(s) + 1
      /\ Append(s, e) \in Seq(S) /\ Len(Append(s, e)) = Len(s) + 1
      /\ Append(s, e)[Len(s) + 1] = e /\ \A i \in 1 .. Len(s) : Append(s, e)[i] = s[i]
  BY AppendProperties, LenProperties
<1>2. Items(Append(s, e)) = Items(s) \cup {e}
  BY <1>1 DEF Items
<1>3. ASSUME Distinct(s), e \notin Items(s) PROVE Distinct(Append(s, e))
  BY <1>1, <1>3 DEF Items, Distinct
<1> QED BY <1>1, <1>2, <1>3

\* What it holds when a task is put in front.
LEMMA ItemsFront ==
    ASSUME NEW S, NEW s \in Seq(S), NEW e \in S
    PROVE  /\ <<e>> \o s \in Seq(S) /\ Len(<<e>> \o s) = Len(s) + 1
           /\ Items(<<e>> \o s) = Items(s) \cup {e}
           /\ Distinct(s) /\ e \notin Items(s) => Distinct(<<e>> \o s)
<1> DEFINE t == <<e>> \o s
<1>1. /\ DOMAIN s = 1 .. Len(s) /\ Len(s) \in Nat /\ DOMAIN t = 1 .. Len(s) + 1
      /\ t \in Seq(S) /\ Len(t) = Len(s) + 1
      /\ t[1] = e /\ \A i \in 1 .. Len(s) : t[i + 1] = s[i]
  <2>1. <<e>> \in Seq(S) /\ Len(<<e>>) = 1 /\ <<e>>[1] = e
    OBVIOUS
  <2>2. t \in Seq(S) /\ Len(t) = 1 + Len(s)
    BY <2>1, ConcatProperties
  <2>3. \A i \in 1 .. 1 + Len(s) : t[i] = IF i <= 1 THEN <<e>>[i] ELSE s[i - 1]
    BY <2>1, ConcatProperties
  <2> QED BY <2>1, <2>2, <2>3, LenProperties
<1> HIDE DEF t
<1>2. \A i \in DOMAIN t : i = 1 \/ (i - 1 \in DOMAIN s /\ t[i] = s[i - 1])
  BY <1>1
<1>3. Items(t) = Items(s) \cup {e}
  <2>1. 1 \in DOMAIN t /\ t[1] = e
    BY <1>1
  <2>2. \A i \in DOMAIN s : i + 1 \in DOMAIN t /\ t[i + 1] = s[i]
    BY <1>1
  <2>3. Items(t) \subseteq Items(s) \cup {e}
    BY <1>2, <2>1, ZenonT(60) DEF Items
  <2>4. Items(s) \cup {e} \subseteq Items(t)
    BY <2>1, <2>2, Zenon DEF Items
  <2> QED BY <2>3, <2>4
<1>4. ASSUME Distinct(s), e \notin Items(s) PROVE Distinct(t)
  BY <1>1, <1>2, <1>4, SMTT(30) DEF Items, Distinct
<1> QED BY <1>1, <1>3, <1>4 DEF t

\* What it holds when its first task is taken.
LEMMA ItemsTail ==
    ASSUME NEW S, NEW s \in Seq(S), s # <<>>
    PROVE  /\ Head(s) \in S /\ Head(s) \in Items(s)
           /\ Tail(s) \in Seq(S) /\ Len(Tail(s)) = Len(s) - 1
           /\ Len(s) \in Nat
           /\ Items(s) = Items(Tail(s)) \cup {Head(s)}
           /\ Distinct(s) => Distinct(Tail(s)) /\ Head(s) \notin Items(Tail(s))
<1> DEFINE t == Tail(s)
<1>1. /\ DOMAIN s = 1 .. Len(s) /\ Len(s) \in Nat \ {0} /\ DOMAIN t = 1 .. Len(s) - 1
      /\ t \in Seq(S) /\ Len(t) = Len(s) - 1 /\ Head(s) = s[1] /\ Head(s) \in S
      /\ \A i \in 1 .. Len(t) : t[i] = s[i + 1]
  BY HeadTailProperties, LenProperties, EmptySeq
<1> HIDE DEF t
<1>2. \A i \in DOMAIN s : i = 1 \/ (i - 1 \in DOMAIN t /\ s[i] = t[i - 1])
  BY <1>1
<1>3. \A i \in DOMAIN t : i + 1 \in DOMAIN s /\ t[i] = s[i + 1] /\ i + 1 # 1 /\ i \in Int
  BY <1>1
<1>4. Head(s) \in Items(s)
  BY <1>1 DEF Items
<1>5. Items(s) = Items(t) \cup {Head(s)}
  <2>1. \A x \in Items(s) : x \in Items(t) \cup {Head(s)}
    BY <1>1, <1>2 DEF Items
  <2>2. \A x \in Items(t) : x \in Items(s)
    BY <1>3 DEF Items
  <2> QED BY <1>4, <2>1, <2>2
<1>6. ASSUME Distinct(s) PROVE Distinct(t) /\ Head(s) \notin Items(t)
  <2>1. Distinct(t)
    BY <1>3, <1>6 DEF Distinct
  <2>2. ASSUME NEW i \in DOMAIN t, t[i] = Head(s) PROVE FALSE
    BY <1>1, <1>3, <1>6, <2>2 DEF Distinct
  <2> QED BY <2>1, <2>2 DEF Items
<1> QED BY <1>1, <1>4, <1>5, <1>6 DEF t

CoTasks == CoPutters \X Nat
\* A task is in the queue, a coroutine or ended, in one of them and once; its number is below
\* that of the call the caller is in.
CoData ==
    /\ CoTypeOK
    /\ coPut \in [CoPutters -> Nat] /\ coPutter \in [CoPutters -> {"idle", "push"}]
    /\ coQueue \in Seq(CoTasks) /\ coroutines_ \in Seq(CoTasks) /\ coAccepted \subseteq CoTasks
    /\ Distinct(coQueue) /\ Distinct(coroutines_)
    /\ Items(coQueue) \subseteq coAccepted /\ Items(coroutines_) \subseteq coAccepted
    /\ Items(coQueue) \cap (Items(coroutines_) \cup coEnded) = {}
    /\ \A t \in coAccepted : t[2] <= coPut[t[1]] /\ (coPutter[t[1]] = "push" => t[2] # coPut[t[1]])
    /\ IsFiniteSet(co_start_times_) /\ EveryCoroutineIsAlive

CoExit ==
    /\ coStop = "returned" => coThread = "exited"
    /\ coThread = "exited" => coroutines_ = <<>>

CoInv == CoData /\ CoExit

\* A new CoroutineThread satisfies its inductive invariant.
LEMMA CoStart == CoInit => CoInv
<1> SUFFICES ASSUME CoInit PROVE CoInv
  OBVIOUS
<1>1. CoTypeOK
  BY CoroutineThreadAssumption DEF CoInit, CoTypeOK
<1>2. /\ coQueue = <<>> /\ coroutines_ = <<>> /\ Items(<<>>) = {} /\ Distinct(<<>>)
      /\ coAccepted = {} /\ co_start_times_ = {} /\ coEnded = {} /\ Len(<<>>) = 0
      /\ coPut \in [CoPutters -> Nat] /\ coPutter \in [CoPutters -> {"idle", "push"}]
  BY DEF CoInit, Items, Distinct
<1>3. <<>> \in Seq(CoTasks)
  OBVIOUS
<1>4. EveryCoroutineIsAlive /\ IsFiniteSet(co_start_times_)
  BY <1>2, FS_EmptySet, CoroutineThreadAssumption DEF EveryCoroutineIsAlive, Items
<1>5. CoExit
  BY DEF CoInit, CoExit
<1> QED BY <1>1, <1>2, <1>3, <1>4, <1>5 DEF CoInv, CoData

\* The thread exits without coroutines and stop() returns after it, in every step.
LEMMA CoExitStep ==
    ASSUME CoData, CoExit, CoNext \/ UNCHANGED coVars
    PROVE  CoExit'
<1> USE DEF CoExit
<1>1. ASSUME NEW p \in CoPutters, CoPutTask(p) PROVE CoExit'
  BY <1>1 DEF CoPutTask
<1>2. ASSUME NEW p \in CoPutters, CoPush(p) PROVE CoExit'
  BY <1>2 DEF CoPush
<1>3. ASSUME CoTop PROVE CoExit'
  BY <1>3 DEF CoTop
<1>4. ASSUME CoTake PROVE CoExit'
  BY <1>4 DEF CoTake
<1>5. ASSUME CoTimeout PROVE CoExit'
  BY <1>5 DEF CoTimeout
<1>6. ASSUME ResumeCoroutine PROVE CoExit'
  BY <1>6 DEF ResumeCoroutine
<1>7. ASSUME CoStopSet PROVE CoExit'
  BY <1>7 DEF CoStopSet
<1>8. ASSUME CoJoined \/ UNCHANGED coVars PROVE CoExit'
  BY <1>8 DEF CoJoined, coVars
<1> QED BY <1>1, <1>2, <1>3, <1>4, <1>5, <1>6, <1>7, <1>8 DEF CoNext, CoWork

\* A task is queued, in one coroutine or ended, once, after every step.
LEMMA CoDataStep ==
    ASSUME CoData, CoNext \/ UNCHANGED coVars
    PROVE  CoData'
<1> USE DEF CoData
<1>a. /\ co_start_times_ = Items(coroutines_) /\ Len(coroutines_) = Cardinality(co_start_times_)
      /\ co_start_times_ \cap coEnded = {}
      /\ MaxCoroutine > 0 => Len(coroutines_) <= MaxCoroutine + 1
  BY DEF EveryCoroutineIsAlive, Items
<1>b. Len(coroutines_) \in Nat /\ MaxCoroutine \in Nat
  BY LenProperties, CoroutineThreadAssumption
<1>1. ASSUME NEW p \in CoPutters, CoPutTask(p) PROVE CoData'
  <2>1. /\ UNCHANGED <<coStopped, coQueue, coroutines_, co_start_times_, coThread, yields, coAccepted, coEnded, coStop>>
        /\ coPut' = [coPut EXCEPT ![p] = @ + 1]
    BY <1>1 DEF CoPutTask
  <2>2. coPutter' \in [CoPutters -> {"idle", "push"}] /\ \A q \in CoPutters : q # p => coPutter'[q] = coPutter[q]
    BY <1>1 DEF CoPutTask
  <2>3. \A t \in coAccepted : t[2] <= coPut'[t[1]] /\ (coPutter'[t[1]] = "push" => t[2] # coPut'[t[1]])
    <3> SUFFICES ASSUME NEW t \in coAccepted
                 PROVE  t[2] <= coPut'[t[1]] /\ (coPutter'[t[1]] = "push" => t[2] # coPut'[t[1]])
      OBVIOUS
    <3>1. t[1] \in CoPutters /\ t[2] \in Nat /\ t[2] <= coPut[t[1]]
      BY DEF CoTasks
    <3>2. CASE t[1] = p
      BY <2>1, <3>1, <3>2
    <3>3. CASE t[1] # p
      BY <2>1, <2>2, <3>1, <3>3
    <3> QED BY <3>2, <3>3
  <2>4. coPut' \in [CoPutters -> Nat]
    BY <2>1
  <2>5. EveryCoroutineIsAlive' /\ CoTypeOK'
    BY <2>1 DEF CoTypeOK, EveryCoroutineIsAlive
  <2> QED BY <2>1, <2>2, <2>3, <2>4, <2>5
<1>2. ASSUME NEW p \in CoPutters, CoPush(p) PROVE CoData'
  <2> DEFINE e == <<p, coPut[p]>>
  <2>1. /\ UNCHANGED <<coStopped, coroutines_, co_start_times_, coPut, yields, coEnded, coStop>>
        /\ coPutter[p] = "push" /\ coPutter' = [coPutter EXCEPT ![p] = "idle"]
    BY <1>2 DEF CoPush
  <2>2. coThread' \in {"top", "take", "waiting", "resume", "exited"}
    BY <1>2 DEF CoPush, CoTypeOK
  <2>3. EveryCoroutineIsAlive'
    BY <2>1 DEF EveryCoroutineIsAlive
  <2>4. CASE UNCHANGED <<coQueue, coAccepted>>
    <3>1. \A t \in coAccepted : coPutter'[t[1]] = "push" => coPutter[t[1]] = "push"
      BY <2>1 DEF CoTasks
    <3> QED BY <2>1, <2>2, <2>3, <2>4, <3>1 DEF CoTypeOK
  <2>5. CASE coQueue' = Append(coQueue, e) /\ coAccepted' = coAccepted \cup {e}
    <3>1. e \in CoTasks /\ e[1] = p /\ e[2] = coPut[p]
      BY DEF CoTasks
    <3>2. e \notin coAccepted
      BY <2>1, <3>1
    <3>3. /\ Append(coQueue, e) \in Seq(CoTasks) /\ Items(Append(coQueue, e)) = Items(coQueue) \cup {e}
          /\ Distinct(Append(coQueue, e))
      <4>1. e \notin Items(coQueue)
        BY <3>2
      <4>2. e \in CoTasks /\ coQueue \in Seq(CoTasks) /\ Distinct(coQueue)
        BY <3>1
      <4> HIDE DEF e, CoData
      <4> QED BY <4>1, <4>2, ItemsAppend, ZenonT(60)
    <3>4. coQueue' \in Seq(CoTasks) /\ Items(coQueue)' = Items(coQueue) \cup {e} /\ Distinct(coQueue)'
      BY <2>5, <3>3, ZenonT(60) DEF Items, Distinct
    <3>5. e \notin Items(coroutines_) /\ e \notin coEnded
      BY <3>2 DEF CoTypeOK
    <3>6. Items(coroutines_)' = Items(coroutines_) /\ Distinct(coroutines_)'
      BY <2>1 DEF Items, Distinct
    <3>7. \A t \in coAccepted' : t[2] <= coPut'[t[1]] /\ (coPutter'[t[1]] = "push" => t[2] # coPut'[t[1]])
      <4> SUFFICES ASSUME NEW t \in coAccepted'
                   PROVE  t[2] <= coPut'[t[1]] /\ (coPutter'[t[1]] = "push" => t[2] # coPut'[t[1]])
        OBVIOUS
      <4>1. CASE t = e
        BY <2>1, <3>1, <4>1
      <4>2. CASE t \in coAccepted
        BY <2>1, <4>2 DEF CoTasks
      <4> QED BY <2>5, <4>1, <4>2
    <3>8. CoTypeOK'
      BY <2>1, <2>2, <2>5 DEF CoTypeOK
    <3>9. coPut' \in [CoPutters -> Nat] /\ coPutter' \in [CoPutters -> {"idle", "push"}] /\ coroutines_' \in Seq(CoTasks)
      BY <2>1
    <3>10. coAccepted' \subseteq CoTasks /\ IsFiniteSet(co_start_times_)'
      BY <2>1, <2>5, <3>1
    <3>11. /\ Items(coQueue)' \subseteq coAccepted' /\ Items(coroutines_)' \subseteq coAccepted'
           /\ Items(coQueue)' \cap (Items(coroutines_)' \cup coEnded') = {}
      BY <2>1, <2>5, <3>4, <3>5, <3>6
    <3> QED BY <2>3, <3>4, <3>6, <3>7, <3>8, <3>9, <3>10, <3>11
  <2>6. UNCHANGED <<coQueue, coAccepted>> \/ (coQueue' = Append(coQueue, e) /\ coAccepted' = coAccepted \cup {e})
    BY <1>2 DEF CoPush
  <2> QED BY <2>4, <2>5, <2>6
<1>3. ASSUME coThread' \in {"top", "take", "waiting", "resume", "exited"}, coStop' \in {"none", "joining", "returned"},
             UNCHANGED <<coQueue, coroutines_, co_start_times_, coPutter, coPut, yields, coAccepted, coEnded>>
      PROVE  CoData'
  <2>1. EveryCoroutineIsAlive' /\ CoTypeOK'
    BY <1>3 DEF CoTypeOK, EveryCoroutineIsAlive
  <2> QED BY <1>3, <2>1
<1>4. ASSUME CoTop \/ CoTimeout \/ CoStopSet \/ CoJoined \/ UNCHANGED coVars PROVE CoData'
  <2>1. /\ coThread' \in {"top", "take", "waiting", "resume", "exited"} /\ coStop' \in {"none", "joining", "returned"}
        /\ UNCHANGED <<coQueue, coroutines_, co_start_times_, coPutter, coPut, yields, coAccepted, coEnded>>
    BY <1>4 DEF CoTop, CoTimeout, CoStopSet, CoJoined, coVars, CoTypeOK
  <2> QED BY <2>1, <1>3
<1>5. ASSUME CoTake PROVE CoData'
  <2>1. /\ coThread' \in {"waiting", "resume"}
        /\ UNCHANGED <<coStopped, coPutter, coPut, yields, coAccepted, coEnded, coStop>>
    BY <1>5 DEF CoTake
  <2>2. CASE UNCHANGED <<coQueue, coroutines_, co_start_times_>>
    BY <2>1, <2>2, <1>3 DEF CoTypeOK
  <2>3. CASE /\ coQueue # <<>> /\ ~(MaxCoroutine > 0 /\ Len(coroutines_) > MaxCoroutine)
             /\ CreateCoroutine(Head(coQueue)) /\ coQueue' = Tail(coQueue)
    <3> DEFINE e == Head(coQueue)
    <3>1. /\ e \in CoTasks /\ e \in Items(coQueue) /\ Tail(coQueue) \in Seq(CoTasks)
          /\ Items(coQueue) = Items(Tail(coQueue)) \cup {e} /\ Distinct(Tail(coQueue)) /\ e \notin Items(Tail(coQueue))
      BY <2>3, ItemsTail
    <3>2. e \notin Items(coroutines_) /\ e \notin coEnded /\ e \in coAccepted
      BY <3>1
    <3>3. /\ <<e>> \o coroutines_ \in Seq(CoTasks) /\ Len(<<e>> \o coroutines_) = Len(coroutines_) + 1
          /\ Items(<<e>> \o coroutines_) = Items(coroutines_) \cup {e} /\ Distinct(<<e>> \o coroutines_)
      BY <3>1, <3>2, ItemsFront
    <3>4. coroutines_' = <<e>> \o coroutines_ /\ co_start_times_' = co_start_times_ \cup {e} /\ coQueue' = Tail(coQueue)
      BY <2>3 DEF CreateCoroutine
    <3>5. /\ coroutines_' \in Seq(CoTasks) /\ Len(coroutines_') = Len(coroutines_) + 1
          /\ Items(coroutines_)' = Items(coroutines_) \cup {e} /\ Distinct(coroutines_)'
      BY <3>3, <3>4, ZenonT(60) DEF Items, Distinct
    <3>6. coQueue' \in Seq(CoTasks) /\ Items(coQueue)' = Items(Tail(coQueue)) /\ Distinct(coQueue)'
      BY <3>1, <3>4
    <3>7. IsFiniteSet(co_start_times_') /\ Cardinality(co_start_times_') = Cardinality(co_start_times_) + 1
      BY <1>a, <3>2, <3>4, FS_AddElement
    <3>8. MaxCoroutine > 0 => Len(coroutines_') <= MaxCoroutine + 1
      BY <1>b, <2>3, <3>5
    <3>9. EveryCoroutineIsAlive'
      <4>1. co_start_times_' = Items(coroutines_)' /\ co_start_times_' \cap coEnded' = {}
        BY <1>a, <2>1, <3>2, <3>4, <3>5
      <4>2. Len(coroutines_') = Cardinality(co_start_times_')
        BY <1>a, <3>5, <3>7
      <4> QED BY <3>8, <4>1, <4>2 DEF EveryCoroutineIsAlive, Items
    <3>10. CoTypeOK'
      BY <2>1 DEF CoTypeOK
    <3>11. /\ Items(coQueue)' \subseteq coAccepted' /\ Items(coroutines_)' \subseteq coAccepted'
           /\ Items(coQueue)' \cap (Items(coroutines_)' \cup coEnded') = {}
      BY <2>1, <3>1, <3>2, <3>5, <3>6
    <3> QED BY <2>1, <3>5, <3>6, <3>7, <3>9, <3>10, <3>11
  <2>4. \/ UNCHANGED <<coQueue, coroutines_, co_start_times_>>
        \/ /\ coQueue # <<>> /\ ~(MaxCoroutine > 0 /\ Len(coroutines_) > MaxCoroutine)
           /\ CreateCoroutine(Head(coQueue)) /\ coQueue' = Tail(coQueue)
    BY <1>5 DEF CoTake
  <2> QED BY <2>2, <2>3, <2>4
<1>6. ASSUME ResumeCoroutine PROVE CoData'
  <2>1. coThread' = "top" /\ UNCHANGED <<coStopped, coQueue, coPutter, coPut, coAccepted, coStop>>
    BY <1>6 DEF ResumeCoroutine
  <2>2. CASE coroutines_ = <<>>
    <3>1. UNCHANGED <<coroutines_, co_start_times_, coEnded, yields>>
      BY <1>6, <2>2 DEF ResumeCoroutine
    <3> QED BY <2>1, <3>1, <1>3 DEF CoTypeOK
  <2>3. CASE coroutines_ # <<>>
    <3> DEFINE e == Head(coroutines_)
    <3>1. /\ e \in CoTasks /\ e \in Items(coroutines_) /\ Tail(coroutines_) \in Seq(CoTasks)
          /\ Len(Tail(coroutines_)) = Len(coroutines_) - 1
          /\ Items(coroutines_) = Items(Tail(coroutines_)) \cup {e}
          /\ Distinct(Tail(coroutines_)) /\ e \notin Items(Tail(coroutines_))
      BY <2>3, ItemsTail
    <3>2. Items(coQueue)' = Items(coQueue) /\ Distinct(coQueue)'
      BY <2>1 DEF Items, Distinct
    <3>3. CASE /\ coroutines_' = Tail(coroutines_) /\ co_start_times_' = co_start_times_ \ {e}
               /\ coEnded' = coEnded \cup {e} /\ UNCHANGED yields
      <4>1. /\ coroutines_' \in Seq(CoTasks) /\ Len(coroutines_') = Len(coroutines_) - 1
            /\ Items(coroutines_)' = Items(Tail(coroutines_)) /\ Distinct(coroutines_)'
        BY <3>1, <3>3
      <4>2. IsFiniteSet(co_start_times_') /\ Cardinality(co_start_times_') = Cardinality(co_start_times_) - 1
        BY <1>a, <3>1, <3>3, FS_RemoveElement
      <4>3. EveryCoroutineIsAlive'
        <5>1. co_start_times_' = Items(coroutines_)' /\ co_start_times_' \cap coEnded' = {}
          BY <1>a, <3>1, <3>3, <4>1
        <5>2. Len(coroutines_') = Cardinality(co_start_times_')
          BY <1>a, <4>1, <4>2
        <5>3. MaxCoroutine > 0 => Len(coroutines_') <= MaxCoroutine + 1
          BY <1>a, <1>b, <4>1
        <5> QED BY <5>1, <5>2, <5>3 DEF EveryCoroutineIsAlive, Items
      <4>4. CoTypeOK'
        BY <2>1, <3>1, <3>3 DEF CoTypeOK
      <4>5. /\ Items(coQueue)' \subseteq coAccepted' /\ Items(coroutines_)' \subseteq coAccepted'
            /\ Items(coQueue)' \cap (Items(coroutines_)' \cup coEnded') = {}
        BY <2>1, <3>1, <3>2, <3>3, <4>1
      <4> QED BY <2>1, <3>2, <4>1, <4>2, <4>3, <4>4, <4>5
    <3>4. CASE /\ yields < MaxYields /\ yields' = yields + 1
               /\ coroutines_' = Append(Tail(coroutines_), e) /\ UNCHANGED <<co_start_times_, coEnded>>
      <4>0. /\ Append(Tail(coroutines_), e) \in Seq(CoTasks)
            /\ Len(Append(Tail(coroutines_), e)) = Len(coroutines_)
            /\ Items(Append(Tail(coroutines_), e)) = Items(coroutines_) /\ Distinct(Append(Tail(coroutines_), e))
        <5>1. Len(Tail(coroutines_)) + 1 = Len(coroutines_)
          BY <1>b, <3>1
        <5> HIDE DEF e, CoData
        <5>2. /\ Append(Tail(coroutines_), e) \in Seq(CoTasks)
              /\ Len(Append(Tail(coroutines_), e)) = Len(Tail(coroutines_)) + 1
              /\ Items(Append(Tail(coroutines_), e)) = Items(Tail(coroutines_)) \cup {e}
              /\ Distinct(Append(Tail(coroutines_), e))
          <6> DEFINE tl == Tail(coroutines_)
          <6>1. tl \in Seq(CoTasks) /\ e \in CoTasks /\ Distinct(tl) /\ e \notin Items(tl)
            BY <3>1
          <6> HIDE DEF tl
          <6>2. /\ Append(tl, e) \in Seq(CoTasks) /\ Len(Append(tl, e)) = Len(tl) + 1
                /\ Items(Append(tl, e)) = Items(tl) \cup {e} /\ Distinct(Append(tl, e))
            BY <6>1, ItemsAppend, ZenonT(60)
          <6> QED BY <6>2 DEF tl
        <5> QED BY <3>1, <5>1, <5>2
      <4>1. /\ coroutines_' \in Seq(CoTasks) /\ Len(coroutines_') = Len(coroutines_)
            /\ Items(coroutines_)' = Items(coroutines_) /\ Distinct(coroutines_)'
        <5> DEFINE x == Append(Tail(coroutines_), e)
        <5>1. coroutines_' = x
          BY <3>4
        <5>2. x \in Seq(CoTasks) /\ Len(x) = Len(coroutines_) /\ Items(x) = Items(coroutines_) /\ Distinct(x)
          BY <4>0
        <5> HIDE DEF x
        <5> QED BY ONLY <5>1, <5>2
      <4>2. EveryCoroutineIsAlive'
        BY <1>a, <3>4, <4>1 DEF EveryCoroutineIsAlive, Items
      <4>3. CoTypeOK'
        BY <2>1, <3>4, CoroutineThreadAssumption DEF CoTypeOK
      <4> QED BY <2>1, <3>2, <3>4, <4>1, <4>2, <4>3
    <3>5. \/ /\ coroutines_' = Tail(coroutines_) /\ co_start_times_' = co_start_times_ \ {e}
             /\ coEnded' = coEnded \cup {e} /\ UNCHANGED yields
          \/ /\ yields < MaxYields /\ yields' = yields + 1
             /\ coroutines_' = Append(Tail(coroutines_), e) /\ UNCHANGED <<co_start_times_, coEnded>>
      BY <1>6, <2>3 DEF ResumeCoroutine
    <3> QED BY <3>3, <3>4, <3>5
  <2> QED BY <2>2, <2>3
<1> QED BY <1>1, <1>2, <1>4, <1>5, <1>6 DEF CoNext, CoWork

\* Every step of CoroutineThread keeps its inductive invariant.
LEMMA CoStep ==
    ASSUME CoInv, CoNext \/ UNCHANGED coVars
    PROVE  CoInv'
BY CoDataStep, CoExitStep DEF CoInv

(***************************************************************************)
(* The composition                                                         *)
(***************************************************************************)
LEMMA ExecutorStep ==
    ASSUME TpInv, ExInv, CoInv, [Next]_vars
    PROVE  TpInv' /\ ExInv' /\ CoInv'
<1>1. /\ TpNext \/ UNCHANGED tpVars
      /\ ExNext \/ UNCHANGED exVars
      /\ CoNext \/ UNCHANGED coVars
  BY DEF Next, vars, execVars, InThreadPool, InExecutor, InCoroutine, InLoopPool, InServer, InOutput
<1> QED BY <1>1, TpStep, ExStep, CoStep

\* In every interleaving of producers, workers and stop(): the queue of a thread
\* pool stays within its limit and what was put before stop() has run when it
\* returns; an executor runs each task once, in order, and never sleeps over
\* one; a coroutine thread never loses or repeats a task nor frees a stack in use.
THEOREM ExecutorsKeepTheirTasks == Spec => []ExecutorsAreSafe
<1>1. Init => TpInv /\ ExInv /\ CoInv
  BY TpStart, ExStart, CoStart DEF Init
<1>2. TpInv /\ ExInv /\ CoInv /\ [Next]_vars => TpInv' /\ ExInv' /\ CoInv'
  BY ExecutorStep
<1>3. TpInv /\ ExInv /\ CoInv => ExecutorsAreSafe
  <2> SUFFICES ASSUME TpInv, ExInv, CoInv PROVE ExecutorsAreSafe
    OBVIOUS
  <2>1. TpTypeOK /\ QueueWithinLimit /\ StopRunsEarlierTasks
    BY DEF TpInv
  <2>2. ExTypeOK /\ RunsAsAccepted /\ NoSleepOverTask /\ CapacityOverrun
    BY ExImplies
  <2>3. CoTypeOK /\ EveryCoroutineIsAlive /\ StopWaitsForCoroutines
    BY DEF CoInv, CoData, CoExit, StopWaitsForCoroutines
  <2> QED BY <2>1, <2>2, <2>3 DEF ExecutorsAreSafe
<1> QED BY <1>1, <1>2, <1>3, PTL DEF Spec
=============================================================================
