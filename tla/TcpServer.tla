------------------------------ MODULE TcpServer ------------------------------
(* network::TcpServer with its Acceptors and the life of its TcpConnections:  *)
(* accepted on the base loop, attached to an IO loop, moved between IO loops, *)
(* closed by the peer or by stop(), and removed on the base loop.             *)
EXTENDS Integers, Sequences, FiniteSets

CONSTANTS NPorts, Fds, IOLoops, MaxServerCalls

VARIABLES
    srvStopped,        \* stopped_
    listen_ip_ports_, acceptors_,
    connections_,      \* the fds in connections_; conn_count_ is its size
    status,            \* fd -> status_ of its TcpConnection
    connLoop,          \* fd -> loop_: a loop, or NoLoop
    queue,             \* loop -> its functors
    toClose,           \* the connections stopInLoop() has still to visit
    closing,           \* the fds close() has tested on the base loop and not set yet
    ioLoops,           \* the loops of the pool's threads: none, or IOLoops
    pool,              \* loop_thread_pool_: "idle", "running" or "gone"
    movers,            \* the fds whose loop is inside moveToNewLoopInLoop()
    movingCount,       \* NetworkStat::getMovingTcpConnCount()
    srvCalls,          \* calls and peer events so far, up to MaxServerCalls
    srvCrash,          \* "none", "assert" or "null"
    skipped, raced     \* history: what stop() passed over, fds closed by two threads at once

srvVars == <<srvStopped, listen_ip_ports_, acceptors_, connections_, status, connLoop, queue, toClose, closing,
             ioLoops, pool, movers, movingCount, srvCalls, srvCrash, skipped, raced>>
Ports == 1 .. NPorts      \* listen addresses, in the order of the set
NoLoop == "null"
Base == "base"
SrvLoops == IOLoops \cup {Base}

\* The base loop is none of the pool's, and no loop is the null pointer.
ASSUME TcpServerAssumption == IsFiniteSet(Fds) /\ Base \notin IOLoops /\ NoLoop \notin IOLoops

SrvInit ==
    /\ srvStopped = TRUE /\ listen_ip_ports_ \in SUBSET Ports /\ acceptors_ = {} /\ connections_ = {}
    /\ status = [f \in Fds |-> "none"] /\ connLoop = [f \in Fds |-> NoLoop]
    /\ queue = [l \in SrvLoops |-> <<>>] /\ toClose = {} /\ closing = {} /\ pool = "idle"
    /\ ioLoops \in {{}, IOLoops}
    /\ movers = {} /\ movingCount = 0 /\ srvCalls = 0 /\ srvCrash = "none" /\ skipped = {} /\ raced = {}

SrvCalled == srvCalls < MaxServerCalls /\ srvCalls' = srvCalls + 1
SrvUp == srvCrash = "none"
\* The base loop's thread is not inside stopInLoop().
BaseFree == SrvUp /\ toClose = {} /\ closing = {}
\* The thread of loop l is not inside moveToNewLoopInLoop().
LoopFree(l) == \A f \in movers : connLoop[f] # l
Queued(l, k, f) == [queue EXCEPT ![l] = Append(@, <<k, f>>)]
connState == <<connections_, status, connLoop, movingCount>>
stopState == <<toClose, closing, skipped, raced, ioLoops>>

(***************************************************************************)
(* start(), addListenIpPort() and removeListenIpPort()                      *)
(***************************************************************************)
\* Every address is listened to, until one fails: start() then returns false
\* and leaves the server running with the ones before it.
SrvStart ==
    /\ SrvCalled /\ SrvUp /\ srvStopped
    /\ IF pool = "gone" THEN srvCrash' = "null" /\ UNCHANGED <<srvStopped, acceptors_, pool>>
       ELSE /\ srvStopped' = FALSE /\ pool' = "running" /\ UNCHANGED srvCrash
            /\ \E n \in 0 .. NPorts : acceptors_' = {a \in listen_ip_ports_ : a <= n}
    /\ UNCHANGED <<movers, listen_ip_ports_, connState, queue, stopState>>

AddListenIpPort(a) ==
    /\ SrvCalled /\ SrvUp /\ a \notin listen_ip_ports_ /\ listen_ip_ports_' = listen_ip_ports_ \cup {a}
    /\ acceptors_' = IF srvStopped THEN acceptors_ ELSE acceptors_ \cup {a}
    /\ UNCHANGED <<movers, srvStopped, connState, queue, stopState, pool, srvCrash>>

RemoveListenIpPort(a) ==
    /\ SrvCalled /\ SrvUp /\ a \in listen_ip_ports_ /\ listen_ip_ports_' = listen_ip_ports_ \ {a}
    /\ acceptors_' = IF srvStopped THEN acceptors_ ELSE acceptors_ \ {a}
    /\ UNCHANGED <<movers, srvStopped, connState, queue, stopState, pool, srvCrash>>

(***************************************************************************)
(* handleAccept() and handleNewConnection(), on the base loop               *)
(***************************************************************************)
Unused(f) == f \notin connections_ /\ \A l \in SrvLoops : \A i \in DOMAIN queue[l] : queue[l][i][2] # f

\* The connection is attached in a functor of a loop of the pool, or here if
\* the pool has no thread: runInNextlLoop() or runInLoopByHash().
Attach(f, l) == status' = [status EXCEPT ![f] = "connected"] /\ connLoop' = [connLoop EXCEPT ![f] = l]

HandleNewConnection(f) ==
    /\ connections_' = connections_ \cup {f}
    /\ IF ioLoops = {} THEN Attach(f, Base) /\ UNCHANGED queue
       ELSE /\ status' = [status EXCEPT ![f] = "connecting"] /\ connLoop' = [connLoop EXCEPT ![f] = NoLoop]
            /\ \E l \in ioLoops : queue' = Queued(l, "attach", f)
    /\ UNCHANGED <<movers, srvStopped, listen_ip_ports_, acceptors_, movingCount, stopState, pool, srvCrash>>

\* An accept() that fails, or a socket that cannot be set up, changes nothing.
HandleAccept(f) == SrvCalled /\ BaseFree /\ acceptors_ # {} /\ Unused(f) /\ HandleNewConnection(f)

(***************************************************************************)
(* Closing: handleClose() and removeConnection()                            *)
(***************************************************************************)
\* stopThreadPool(): stop(), join() and reset() of the pool.
\* Mutant of RemoveConnectionInLoop: the pool is stopped with the first one.
RemoveFirst(f) ==
    IF f \notin connections_ THEN srvCrash' = "assert" /\ UNCHANGED <<connections_, pool>>
    ELSE /\ connections_' = connections_ \ {f} /\ UNCHANGED srvCrash
         /\ pool' = IF srvStopped THEN "gone" ELSE pool

RemoveConnectionInLoop(f) ==
    IF f \notin connections_ THEN srvCrash' = "assert" /\ UNCHANGED <<connections_, pool>>
    ELSE /\ connections_' = connections_ \ {f} /\ UNCHANGED srvCrash
         /\ pool' = IF srvStopped /\ connections_' = {} THEN "gone" ELSE pool

\* The close callback of a connection whose handleClose() runs on loop l; q
\* are the functors of the loops then.
RemoveConnection(f, l, q) ==
    IF l = Base THEN RemoveConnectionInLoop(f) /\ queue' = q
    ELSE queue' = [q EXCEPT ![Base] = Append(@, <<"remove", f>>)] /\ UNCHANGED <<connections_, pool, srvCrash>>

HandleClose(f, l, q) ==
    IF status[f] = "disconnected" THEN queue' = q /\ UNCHANGED <<status, connections_, pool, srvCrash>>
    ELSE status' = [status EXCEPT ![f] = "disconnected"] /\ RemoveConnection(f, l, q)

\* The peer closes, or an error: handleRead() or handleWrite() on the
\* connection's loop calls handleError(), which sets kDisconnecting itself.
HandleError(f) ==
    /\ SrvCalled /\ SrvUp /\ connLoop[f] # NoLoop /\ status[f] \in {"connected", "disconnecting"}
    /\ LoopFree(connLoop[f]) /\ (connLoop[f] = Base => toClose = {})
    /\ raced' = IF f \in closing THEN raced \cup {f} ELSE raced
    /\ HandleClose(f, connLoop[f], queue)
    /\ UNCHANGED <<movers, srvStopped, listen_ip_ports_, acceptors_, connLoop, movingCount, toClose, closing, skipped, ioLoops>>

(***************************************************************************)
(* moveToNewLoop(), on the connection's own loop                            *)
(***************************************************************************)
\* The loop's thread has tested status_ and not detached the connection yet.
MoveToNewLoop(f) ==
    /\ SrvCalled /\ SrvUp /\ status[f] = "connected" /\ connLoop[f] \in ioLoops /\ LoopFree(connLoop[f])
    /\ movers' = movers \cup {f}
    /\ UNCHANGED <<srvStopped, listen_ip_ports_, acceptors_, connState, queue, stopState, pool, srvCrash>>

DetachFromLoop(f) ==
    /\ SrvUp /\ f \in movers /\ movers' = movers \ {f}
    /\ movingCount' = movingCount + 1 /\ connLoop' = [connLoop EXCEPT ![f] = NoLoop]
    /\ \E l \in ioLoops : queue' = Queued(l, "reattach", f)
    /\ UNCHANGED <<srvStopped, listen_ip_ports_, acceptors_, connections_, status, stopState, pool, srvCalls, srvCrash>>

(***************************************************************************)
(* stop() and stopInLoop()                                                  *)
(***************************************************************************)
SrvStop ==
    /\ SrvCalled /\ SrvUp /\ ~srvStopped /\ queue' = Queued(Base, "stop", 0)
    /\ UNCHANGED <<movers, srvStopped, listen_ip_ports_, acceptors_, connState, stopState, pool, srvCrash>>

StopInLoop ==
    IF srvStopped THEN UNCHANGED <<srvStopped, acceptors_, pool, toClose>>
    ELSE /\ srvStopped' = TRUE /\ acceptors_' = {} /\ toClose' = connections_
         /\ pool' = IF connections_ = {} THEN "gone" ELSE pool

\* isConnected(), then the test at the start of close().
StopVisits(f) ==
    /\ SrvUp /\ closing = {} /\ f \in toClose
    /\ IF status[f] = "connected" THEN closing' = {f} /\ UNCHANGED <<toClose, skipped>>
       ELSE /\ toClose' = toClose \ {f} /\ UNCHANGED closing
            /\ skipped' = IF status[f] = "connecting" THEN skipped \cup {f} ELSE skipped
    /\ UNCHANGED <<movers, srvStopped, listen_ip_ports_, acceptors_, connState, queue, pool, srvCalls, srvCrash, raced, ioLoops>>

\* The rest of close(): kDisconnecting is set whatever the status is by now.
StopCloses(f) ==
    /\ SrvUp /\ f \in closing /\ closing' = {} /\ toClose' = toClose \ {f}
    /\ CASE connLoop[f] = NoLoop ->
              srvCrash' = "null" /\ UNCHANGED <<status, connections_, queue, pool>>
         [] connLoop[f] = Base -> HandleClose(f, Base, queue)
         [] OTHER -> /\ status' = [status EXCEPT ![f] = "disconnecting"]
                     /\ queue' = Queued(connLoop[f], "close", f) /\ UNCHANGED <<connections_, pool, srvCrash>>
    /\ UNCHANGED <<movers, srvStopped, listen_ip_ports_, acceptors_, connLoop, movingCount, srvCalls, skipped, raced, ioLoops>>

(***************************************************************************)
(* The functors of the loops                                                *)
(***************************************************************************)
RunBaseFunctor ==
    /\ BaseFree /\ queue[Base] # <<>> /\ queue' = [queue EXCEPT ![Base] = Tail(@)]
    /\ IF Head(queue[Base])[1] = "stop" THEN StopInLoop /\ UNCHANGED <<connections_, srvCrash>>
       ELSE RemoveConnectionInLoop(Head(queue[Base])[2]) /\ UNCHANGED <<srvStopped, acceptors_, toClose>>
    /\ UNCHANGED <<movers, listen_ip_ports_, status, connLoop, movingCount, closing, skipped, raced, srvCalls, ioLoops>>

Reattach(f, l) == connLoop' = [connLoop EXCEPT ![f] = l] /\ movingCount' = movingCount - 1 /\ UNCHANGED status

\* A functor of an IO loop.  A "close" follows its connection: it waits while
\* that has no loop, and is sent on when it has another one.
RunIOFunctor(l) ==
    LET k == Head(queue[l])[1]
        f == Head(queue[l])[2]
        rest == [queue EXCEPT ![l] = Tail(@)]
    IN  /\ SrvUp /\ pool = "running" /\ LoopFree(l) /\ queue[l] # <<>>
        /\ CASE k = "attach" ->
                  Attach(f, l) /\ queue' = rest /\ UNCHANGED <<movingCount, connections_, pool, srvCrash>>
             [] k = "reattach" -> Reattach(f, l) /\ queue' = rest /\ UNCHANGED <<connections_, pool, srvCrash>>
             [] k = "close" /\ connLoop[f] = l ->
                  HandleClose(f, l, rest) /\ UNCHANGED <<connLoop, movingCount>>
             [] OTHER -> /\ queue' = [rest EXCEPT ![IF connLoop[f] = NoLoop THEN l ELSE connLoop[f]] = Append(@, <<k, f>>)]
                         /\ UNCHANGED <<connLoop, movingCount, status, connections_, pool, srvCrash>>
        /\ UNCHANGED <<movers, srvStopped, listen_ip_ports_, acceptors_, stopState, srvCalls>>

SrvNext ==
    \/ SrvStart \/ SrvStop \/ RunBaseFunctor
    \/ \E a \in Ports : AddListenIpPort(a) \/ RemoveListenIpPort(a)
    \/ \E f \in Fds : HandleAccept(f) \/ HandleError(f) \/ MoveToNewLoop(f) \/ DetachFromLoop(f)
                      \/ StopVisits(f) \/ StopCloses(f)
    \/ \E l \in IOLoops : RunIOFunctor(l)

(***************************************************************************)
(* Properties                                                               *)
(***************************************************************************)
SrvTypeOK ==
    /\ acceptors_ \subseteq Ports /\ connections_ \subseteq Fds /\ toClose \subseteq Fds
    /\ status \in [Fds -> {"none", "connecting", "connected", "disconnecting", "disconnected"}]
    /\ connLoop \in [Fds -> SrvLoops \cup {NoLoop}] /\ movingCount \in 0 .. Cardinality(Fds)

\* The close callback of a connection comes once, so the assertion of
\* removeConnectionInLoop() holds: unless the peer's close falls between the
\* test and the assignment of a close() by stop() (TcpConnection.cpp:92-95).
RemovedOnce == raced = {} => srvCrash # "assert"

\* The loop threads outlive the connections attached to them.
PoolOutlivesConnections ==
    pool = "gone" /\ raced = {} => connections_ = {} /\ \A f \in Fds : status[f] \in {"none", "disconnected"}

\* The count that holds back the shrinking of the pool is the number of
\* connections between two loops.
MovingIsCounted ==
    SrvUp => movingCount = Cardinality({f \in connections_ : connLoop[f] = NoLoop /\ status[f] # "connecting"})

\* A stopped server closes its connections and stops its threads, unless
\* stop() met one that was accepted and not attached yet (TcpServer.cpp:229)
\* or on its way to another loop (TcpServer.cpp:230), or start() is called
\* again before the last connection is gone.
StopCompletes == srvStopped /\ pool = "running" ~> pool = "gone" \/ ~srvStopped \/ skipped # {} \/ ~SrvUp
=============================================================================
