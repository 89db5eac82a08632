# tair-client in TLA+

Models of tair-client (C++, `src/src/`) from the event loop up to the command methods:
the reactor and its threads, connections, the server, the pipelined client and the clients
built on it, the codecs, and the executors and data structures of `common/`. TLC checks
them on small instances; TLAPS proves the most important invariants for every value of the
constants.

Contents: [inventory](#inventory) · [modules](#modules) · [runs](#runs) ·
[what the runs show](#what-the-runs-show) · [proofs](#proofs) ·
[what is only model-checked](#what-is-only-model-checked) ·
[not modelled](#not-modelled) · [plan](#plan)

## Inventory

| part | state | operations | talks to |
|---|---|---|---|
| `network/EventLoop`, `EventWatcher` | `pending_functors_`, `pending_notified_`, `stopped_`, `do_pending_`, the wake-up socketpair, libevent's base | `queueInLoop`, `queueInLoopMaybeRedir`, `runInLoop`, timers, `run`, `stop`, `hasPendingTask` | any thread, through the queue; other loops, by redirecting functors |
| `network/EventLoopThread` | `loop_` (points to a local of `run()`), `stopped_`, `mutex_`, `cond_` | `start`, `stop`, `join`, `detach`, `run` | its EventLoop; pool and client above |
| `network/EventLoopThreadPool` | thread list, sizes, reader/writer lock, round-robin index | `start`, `stop`, `resize`, `nextLoop`, `runInNextLoop` | EventLoopThread, TcpServer |
| `network/Connector`, `TcpClient` | `status_`, timers, fd, retry delay; `connector_`, `connection_`, `auto_reconnect_` | `connect`, `cancel`, `handleWrite`, `handleError`, retry; `disconnect`, `onNewConnection`, `onCloseConnection` | EventLoop, TcpConnection, the client's callbacks |
| `network/TcpConnection`, `TlsConnection` | `status_`, `loop_`, buffers, water marks | `send`, `close`, `handleRead/Write/Close/Error`, `moveToNewLoop` | EventLoop (functors bound to `loop_`), user callbacks |
| `network/TcpServer`, `Acceptor` | listening sockets, connection map | accept, attach, `stop`, resize | thread pool, TcpConnection |
| `client/TairBaseClient` | `callbacks_`, `tcp_client_`, `codec_`, `auth_promise_`, `reconnect_timer_id_`, two time stamps | `connect`, `disconnect`, `sendCommand`, `onConnection`, `onMessage`, `clearCallbacks`, `clientCron` | EventLoop, TcpClient, the program |
| `client/TairSubscribeClient`, `TairTransactionClient`, `TairClusterAsyncClient` | maps of message callbacks; `cmd_stack_`; slot table and node clients | subscribe and resubscribe; MULTI/EXEC/DISCARD; routing, fan-out | TairBaseClient |
| `client/TairClient`, wrapper | variant of the clients | init, destroy, one method per command | the clients above |
| `protocol/` codecs | parse state across partial reads | encode, decode | Buffer |
| `common/` executors and queues | task queues, stop flags | put, take, stop, join | threads |
| `common/` data structures | token bucket, LRU map, slot bitmap, key hash, trie | pure or nearly pure | - |

What is hard in this code, and what makes each part correct:

* **EventLoop.** The flag that saves wake-ups is tested and set outside the lock of the
  queue it is about; the queue is swapped out in batches; functors bound to a connection
  follow it from loop to loop; `stop()` comes from any thread. Correct means: no functor
  is left in the queue without a wake-up, a bound functor is neither lost nor doubled on
  its way from loop to loop, plain functors run once and in order, and nothing queued before `stop()` is lost.
* **EventLoopThread.** The loop lives on the stack of another thread. Correct means:
  `stop()` never touches a destroyed loop, `start()` and `join()` return.
* **TairBaseClient.** Replies are matched to commands by position only. Correct means: a
  callback gets the reply to its own command or `nullptr`, exactly once; `connect()` is
  answered; the connection comes back; no null pointer is used on the way.
* **Pool and server.** Growing, shrinking and stopping against live connections: every
  call returns, no loop is used after its thread has gone.
* **Executors.** Tasks accepted are run, `stop()` returns, producers are not left asleep.
* **Clients above TairBaseClient.** State that outlives a connection (subscriptions,
  queued transactions, slots) agrees with the server after a reconnection; some 200 methods
  in four layers send the right command to the right node and give its reply, or its error,
  to the caller once.
* **Codecs, Buffer, TLS, Channel.** What is cut into pieces, kept half-parsed, moved inside
  an array or interrupted by OpenSSL comes out as it was sent; callbacks that close or move
  the object they are called from find it intact.
* **Data structures and algorithms.** They compute what they are meant to, at their limits
  and, where they are shared, under concurrent use.

`PROJECT.json` lists the hazards that matter most at their lines, with the properties that
cover them or why none does. Where the code does go wrong, the property that would say so
excepts exactly that case: such a hazard is shown by the model, not caught by a run, and its
note says so.

## Modules

| module | models | notes |
|---|---|---|
| `TaskQueue` | what a loop promises for plain functors | abstract specification: a FIFO per loop |
| `EventLoop` | `EventLoop.{hpp,cpp}`, `PipeEventWatcher`, what `TcpConnection::moveToNewLoop` does to bound functors | implements `TaskQueue` |
| `EventLoopThread` | `EventLoopThread.cpp` with the part of `EventLoop::run/stop` it sees | the loop is a FIFO, as `EventLoop` shows it to be |
| `EventLoopThreadPool` | the pool, its reader/writer lock, resize and its timers | |
| `TcpServer` | `TcpServer`, `Acceptor`, the life of `TcpConnection` on the server's loops | |
| `TcpOutput` | the output side of one `TcpConnection` | |
| `TlsConnection`, `Channel`, `Buffer`, `DnsResolver` | the classes of these names | OpenSSL, libevent and evdns are external |
| `TairBaseClient` | `TairBaseClient.cpp` with TcpClient, Connector and TcpConnection as it drives them, its loop's queue, the server | |
| `TairReply` → `TairCommands` → `TairRoutes` → `TairClient` | reply decoding; a row per command method; wrapper, facade and cluster routing per method; init, destroy and one command on its way down and back | each extends the one before |
| `TairSubscribeClient`, `TairTransactionClient`, `ClusterFanout` | publish/subscribe, MULTI/EXEC, the cluster's `keys()` and its other fan-outs | |
| `CommandParams` | `client/params/` against a server that parses the words | |
| `RespCodec`, `MemcachedCodec` | incremental decoding of RESP2/RESP3 replies and of memcached requests | |
| `ThreadPool`, `ThreadExecutor`, `CoroutineThread`, `BlockingQueue` | the classes of these names | |
| `ConcurrentHashMap`, `LRUMap`, `TokenBucket`, `SlotsBitset`, `CidrTrieTree` | the classes of these names | |
| `StringMatch`, `NumberParse`, `Stralgo` | `StringUtil::matchLen`, `string2ll`/`string2ull`, `Stralgo::lcs` | each against a reference definition |
| `NetworkObjects` | buffer, TLS layer, channel and resolver of a connection side by side | they share no state |
| `EventLoopProofs`, `TairBaseClientProofs`, `TairClientProofs`, `TairExtrasProofs`, `RuntimeProofs`, `NetworkObjectProofs`, `ContainerProofs` | theorems | `EventLoopThread` holds its own |
| `MCTairBaseClient`, `MCTairClient`, `MCTairExtras`, `MCRuntime`, `MCData` | instances for TLC | |

`MCTairExtras`, `MCRuntime` and `MCData` hold several components that share no state: the
initial state chooses one, the others stand still. Every component is explored in full, and
the number of states is the sum, not the product. Where components do interact the module
composes them: `TcpServer` has the loops, the pool and its connections; `TairClient` the
four layers; `TairBaseClient` connection, connector and loop.

### EventLoop

A loop and its thread are one value. `pending`, `notified`, `pipe`, `stopped` and
`doPending` are the members of those names; `phase` is where the loop's thread is in
`run()`/`doPendingFunctors()`, `batch` and `retry` are the locals `functors` and
`next_loop_functors`; `call` is where any thread is inside `queueInLoopMaybeRedir()` or
`stop()`; `owner` is what an `expected_cb` returns. One critical section, one access to an
atomic flag, one read or write of the pipe is one action: `Push` is the locked append,
`CheckNotified`, `SetNotified`, `WritePipe` the rest of the call; a full pipe drops the
byte. `MoveOwner` is the bound connection detaching from its loop and attaching to
another, done on the loop it lives on; between the two `expected_cb` returns null, which is the
recheck case. `BeginEvent`/`EndEvent` are an I/O or timer callback, inside which the
program may queue functors or call `stop()`.
`submitted`, `late`, `ran`, and, per loop, `queued` and `begun` (the plain functors handed
over and started, in order) are history variables.

### EventLoopThread

`run` is the new thread's place in `EventLoopThread::run` (publish `loop_`, queue the
notification, run, unpublish, destroy); `pc` is each thread's place in `start()`, `stop()`
(flag, lock, then the three steps of `EventLoop::stop`) or `join()`. `mutex` has an owner
because `stop()` holds it across `EventLoop::stop`. `SpuriousWakeUp` is one of `cond_.wait`.

### TairBaseClient

`callbacks` is `callbacks_`, as the commands the entries belong to; `link` is the state of
Connector and TcpConnection together; `inbox` the functors other threads have queued on the
loop; `out` and `in` the commands the server has not answered and the replies not yet read.
`answer[r]` is what the callback of `r` was given: `"null"` for `nullptr`, or the command
whose reply it was. Everything but `Connect`, `Disconnect` and `IssueFromThread` happens on
the loop's thread, so a handler with everything it calls is one action: a failed write
inside `sendCommandInLoop` closes the connection, answers all callbacks and starts the
reconnection before it returns (`SendFails`). A null dereference or a failing
`runtimeAssert` sets `crash` and ends the behaviour.

`Contexts` says where the program issues commands: `"thread"` (any thread, any time),
`"loop"` (on the loop's thread after testing `isConnected()`), `"callback"` (inside another
command's callback). `InitWait` says what it waits for first.

Abstractions: a command or a reply is a model value; a write succeeds or fails as a whole
(a partial write only delays it, in order); times are counted in ticks up to `Interval`,
which is all `clientCron()` compares; a reply read in the tick of the last command has the
same time stamp; `ReplaceClient` is the destruction of a TcpClient with the start of its
successor. A `disconnect()` in the retry delay leaves the old Connector's timer behind; its
client is gone, so the socket it may open is closed at once and the model leaves it out.

### The command layers

`TairCommands` has a row for every method of `TairAsyncClient` (command, fixed words, which
arguments are keys, whether a list follows, which helper decodes the reply), `TairRoutes`
the test the facade makes before it forwards a method and the way the cluster client routes
it. `TairReply` translates `TairResultHelper` on packets whose payloads are numbers.
`TairClient` takes one command at a time: `call` is the method, its keys (as slots), the
node it went to, the reply and the result, and the number of times the callback was called.
`InitEmptyAddr`, `InitStandalone` and `InitCluster` are `TairClient::init` on the next of its
addresses. In cluster mode the answer to `CLUSTER NODES` is parsed in steps, kept in `parse`:
`ParseLine` takes a line and connects its node, `ParseItem` takes a range of its slots,
`ParseEnds` tests the slot table, and `AttemptFails` goes on to the next address with what the
failed attempt leaves behind; `stale` says that `client_map_` was emptied while
`slot_to_clients_` kept a client.

### Publish/subscribe, transactions, fan-out

`TairSubscribeClient`: `callbacks_` and `sub_callbacks_` are the members (the two maps as one
function), `toServer`/`toClient` the wire, `serverSubs` the server. `Lose` is a lost
connection with `clearCallbacks()`; a pending request is then given a null packet, which the
handler casts: `crashed`. `TairTransactionClient`: `cmd_stack_` is the member, `functors` what
an `exec()` off the loop thread has queued, `Cut` a replaced connection. `ClusterFanout`: the
calling thread, the latch and the loop thread, with the callback of a reply in two steps,
since `keys()` counts down before it appends.

### Pool, server, connection

`EventLoopThreadPool`: `thread` is `threads_`/`loops_`, `writer` the holder of `rw_lock_`
(`join()` on a thread keeps it), `functor` one functor per loop that may need the read lock,
`poolTimers` the checks armed on the base loop. `misuse` records the calls the class does not
guard against (below). `TcpServer`: `queue` holds the functors of the base loop and the IO
loops, `status`/`connLoop` the fields of each connection, `closing` a `close()` between its
test and its assignment, `movers` a connection between two loops.

`TcpOutput` numbers bytes in the order they are handed over. `calls` is the stack of the calls
of `sendInLoop()`, `handleWrite()` and `sendOutputBuffer()` in progress, each in one of its
callbacks (before and after the write, high water, write complete), where the user may send,
flush, append through `getOutputBufferForWrite()` or close before the call goes on; `rest`
holds the bytes these calls have not given away yet. A `close()` off the loop is a functor
and so comes between calls. The close callbacks themselves are not modelled.

In `TlsConnection` and `Channel` a handler is an operator from a state to the set of states it
may leave, because callbacks inside it may close, move or disable the object. A TLS callback
that is asked before a read or a write may allow it (`Allows`), having closed the connection or
not, or refuse it (`Refuses`, up to `MaxRefusals` times); callbacks that send are left to
`TcpOutput`. `handleEvent()` of a channel is two steps, `BeginEvent` with the read callback and
`EndEvent` with the second test of `attached_` and the write callback: in between the thread of
another loop may run the attach that the read callback has queued there (`OwnerMoves`).
`event_add()` and `event_del()` may fail.

### Executors

One action per critical section or access to an atomic flag. `ThreadPool`: `putter`,
`worker`, `tpStop` are the places of the threads; `early` remembers what was queued before
`stop()`. `ThreadExecutor`: the spinning test of the capacity and the push are two actions;
`accepted` and `exRan` are histories. `CoroutineThread`: a coroutine yields up to `MaxYields`
times; new ones go in front, as in the code.

### Data

`Buffer` keeps the array and its indexes in `b` and, beside it, `content`: what ought to be
readable. `RespCodec` keeps a stack `frames` of half-parsed packets; a byte is a string and a
number in the stream is one byte. `MemcachedCodec` splits a request into words, separators
and bytes; a peer of the text protocol waits for the answer of a command without data block
(see below). A binary header counts its body by itself, so its lengths may disagree, and what
is left for the value is computed modulo `LENGTH_MOD` as in the code. `NumberParse` takes the width as a constant, so that the limits are reached by
short texts. `ConcurrentHashMap` takes one lock per step; `always`, `ever` and `old` are
histories.

## Runs

| run | bounds | checks |
|---|---|---|
| `loop_safety` | 2 loops that hand each other work and may stop each other or themselves, 1 plain and 1 bound functor, pipe of 1 byte | `TypeOK`, `NoLostWakeUp`, `StopKeepsEarlierTasks`, `NoPendingTaskMeansNone`, `BoundKeptOnce` |
| `loop_liveness` | 1 loop, 2 callers of which one may stop it, 2 plain and 1 bound functor, pipe of 1 byte | `TaskRuns`, `StopTerminates`, `RunsInOrder` (refinement of `TaskQueue`) |
| `thread_stop` | main, 3 others and the loop's thread call `stop()` | `LoopOutlivesStop`, `StartReturns`, `StopEndsThread` |
| `thread_lost_stop` (violation) | main and the loop's thread | `JoinAfterStopReturns` |
| `client_on_loop` | 4 commands, 3 `connect()`, bytes that do not decode, no password, no timer | `TypeOK`, `ResponseMatches`, `InLockstep` |
| `client_any_use` | 3 commands from every context at any time, 2 `connect()`, password, timer, bad bytes | `EveryReplyExpected`, `WaitingIsHeld`, `LeftoversComeFirst`, `AnsweredOnce` |
| `client_liveness` | 2 commands, 2 `connect()`, a server that answers and can be reached | `EveryCommandAnswered`, `ConnectResolves`, `ReconnectsByItself` |
| `client_mispair` (violation) | 2 commands from a thread, after a successful `connect()` | `ResponseMatches` |
| `client_commands` | every method, 2 nodes, 2 slots, lists of up to 2, up to 3 addresses, 6 answers to CLUSTER NODES, 7 raw commands | `CallbackCalledOnce`; `AnswersArrive` (`NoCrashOnceReady`, `ErrorsAreReported`, `RepliesAreDelivered`); `RequestsReachTheirNode` (`ReadyClusterIsWhole`, `RoutedToOwner`, `EnoughWords`) |
| `client_extras` | 1 channel, 1 pattern, 2 callbacks, 3 requests, 2 losses; 3 commands, 5 calls, 2 cuts; 3 nodes | `SubscriptionsAgree` (`RepliesPairUp`, `MessagesFindTheirCallback`, `QuietAgree`), `PubSubEventuallyAgrees`; `TransactionIsWhole` (`ExecRunsItsBatch`, `NothingOutsideMulti`); `KeysMissesAtMostTheLast`, `FanoutReturns` |
| `runtime` | 2 producers of 2 tasks and 2 workers, queue of 1; 2 spinning and 1 forcing producer; 1 coroutine, 2 yields; pool of up to 2 threads, 5 calls; 2 connections, 2 IO loops, 6 calls; 3 bytes, mark 2, a call inside a callback of another | `ExecutorsAreSafe` (`QueueWithinLimit`, `StopRunsEarlierTasks`; `RunsAsAccepted`, `NoSleepOverTask`, `CapacityOverrun`; `EveryCoroutineIsAlive`, `StopWaitsForCoroutines`), `ExecutorsFinish` (`PutReturns`, `TpStopReturns`, `ExPutReturns`, `ExStopReturns`, `CoTasksEnd`); `ServerSideIsSafe` (`PicksLiveLoops`, `JoinLeavesNoThread`; `RemovedOnce`, `PoolOutlivesConnections`, `MovingIsCounted`), `ServerSideFinishes` (`ResizeReturns`, `ShrinkCompletes`, `StopCompletes`); `OutputIsWhole` (`OutputInOrder`, `WaitingIsWatched`, `HighWaterOnce`, `FreedEventIsUsedInsideOnly`) |
| `data` | see `Data.cfg`: pairs of replies and of requests in every cut of up to 3 bytes, arrays of up to 5 bytes, 3 starts of the resolver, 3 takers and 4 elements, patterns of up to 4 characters over 9, strings of up to 4 letters over 2, numbers of up to 4 bytes around a limit of 255, ... | `CodecsAgree` (`DecodesWhatWasSent`, `NothingIsLeftOver`, `JunkIsRefused`; `RequestsAreReadBack`; `ServerReadsWhatWasSet`); `NetworkObjectsAreSafe` (`IndexesInOrder`, `HoldsItsContent`, `UnreadIsThere`; `NoUseOfFreedSsl`, `TlsKeepsItsBytes`, `TlsWaitsAreWatched`; `WatchedAsRecorded`, `CallbacksFindTheChannel`, `ClosedCanBeDestroyed`; `DnsAssertionsHold`, `OneAnswerEach`), `NetworkFinishes` (`TlsDrains`, `EveryStartIsAnswered`); `NoSleepingTakerBesideElement`; `WholeMapCalls` (`ScanSeesWhatStays`, `ClearTakesWhatWasThere`); `ComputesAsDefined` (`KeepsTheLastUsed`, `GrantedWithinRate`, `TextIsReadBack`, `RangesAreTheRuns`, `SearchFindsTheWidest`; `MatchesAsMeant`, `LongestCommonSubsequence`, `RangesSpellTheMatch`, `ParsesExactly`) |

In the last four rows a run checks one property per group of components; the names in
brackets are its conjuncts, each stated and explained in the module of its component (the
type invariants are conjuncts too).

Why the bounds are enough for what they ask. A lost wake-up needs one queue, the flag and
two threads; redirection needs two loops and one object that moves between them while its
functor is on the way, and the last pass of `run()` matters when a loop stops itself with
work queued; an order needs two plain functors; a pipe of one byte makes the full pipe the common case. A race of
`stop()` with itself needs two callers beside the loop's own thread. A shifted reply needs
two commands and one broken connection; three and four commands, two and three `connect()`
calls put several breaks in one behaviour. The number of reconnections by the client itself
is not bounded. Functors and commands are issued once each, which bounds every queue; a
loop that has drained its queue is in a state it has been in before. A fan-out needs three
nodes for two of them to be missing; a lost re-subscription needs a second loss; a task past
the drain needs a producer that is past its test when `stop()` comes; a byte out of order
needs a partial write with a second message behind it, or a message sent from a callback of
the first (both fit in three bytes and a depth of two); a shrinking pool needs a thread that
stays, a connection on the move and a timer. A slot table that
`init()` finds complete while some of its clients are gone takes up to three addresses: one
that fills a part of it, one whose node does not answer, one that fills the rest. The codecs see every pair of packets of every
type, an aggregate inside an aggregate, and a cut at every byte. A write callback on the wrong
thread needs two loops and one descriptor. The pool's behaviours are cut at five calls and
those of the server at six: enough for a shrink, a second resize, a timer and a stop in one.

Fairness. `EventLoop`: threads do not stop inside a call, functors and callbacks return
(weak fairness); the dispatcher does not pass over a readable pipe or a requested exit for
ever in favour of other events (strong fairness, because a callback in between disables
them; libevent collects all ready events in each round). `EventLoopThread`: a thread that
keeps asking for `mutex_` gets it (strong fairness), nothing forces a call of `stop()` or a
spurious wake-up. `TairBaseClient`: the loop serves queue, timers and sockets, and an
attempt to connect ends, because Connector arms a timeout for it (weak fairness). Only
`client_liveness` also assumes a server: one that answers what it receives (weak) and is
reached if it is tried again and again (strong on `ConnectSucceeds`).

`client_extras`: the loop serves its socket, the server answers, a lost connection comes
back (weak); nothing forces a user's call. `runtime`: threads in a call go on, loops run
their functors (weak); a timer that is re-armed and a loop thread that competes for the lock
get their turn (strong). A producer's tasks are finitely many, so that a spinning producer
of `ThreadExecutor` cannot be overtaken for ever; its spinning test alone does not exclude it.
`data`: the loop serves what is ready, the peer ends a handshake
and a full socket drains (weak); the DNS timer fires.

Deadlock checking is off in every run but `client_commands`, which can always go on: each of
the other systems may rest, an exited loop, a joined thread, or a client whose commands are
all answered.

## What the runs show

Two runs expect a violation; each is a `findings` entry with the line and the statement it
contradicts.

* `thread_lost_stop`: `loop_` is published before `EventLoop::run` clears its own
  `stopped_`, and `start()` returns as soon as it sees `loop_`. A `stop()` in that window
  does nothing and `join()` never returns.
* `client_mispair`: the callback is queued before `send()`, which drops the bytes silently
  when the connection is down; after the reconnection every reply goes to the callback
  before the right one.

The other properties hold, many of them with exceptions that are part of their statement:
each exception is something the code does, found when the property without it failed.

TairBaseClient and the loop. `hasPendingTask()` is false while functors kept for recheck are
in no queue (`NoPendingTaskMeansNone`). `codec_` is null until the first connection succeeds,
but a command is encoded as soon as `tcp_client_` exists, so a command after a failed
`connect()` dereferences null (the facade reaches this too: `NoCrashOnceReady` asks for a
successful `init()`). `clientCron()` only compares the time of the last command with that of
the last reply, so a reply to an earlier command hides that a later one is never answered.
With automatic reconnection a `connect()` that keeps timing out is never answered, because
`Connector::handleError` only reports a refusal (`client_liveness` assumes a server that is
reached in the end). Further, a write of AUTH that fails
inside `onConnected()` leaves the callback of CLIENT SETNAME behind for the next connection
(`ConnectSucceedsAndBreaks`, the reason for the no-password condition of the proof below);
the timer started by that same call survives, a later connection overwrites its id, and
when it fires after a disconnection `runtimeAssert(reconnect_timer_id_ > 0)` fails
(`StrayCron`); or it reconnects a client that was disconnected (`ClientCron`); a callback
that issues a command whose write fails re-enters `clearCallbacks()`, which aborts
(`RecvReplyAndIssueFails`); without automatic reconnection a command issued after the close
keeps waiting until the next `connect()` (`SendDropped`). A callback that `clearCallbacks()`
calls with `nullptr` may issue the next command, onto the list that is being cleared.
The first write of `onConnected()` may fail too; what an earlier connection or that write left
in `callbacks_` stands before the commands of the next connection, in order
(`LeftoversComeFirst`).

Command layers. `doIntegerPtrCallback` (zrank, zrevrank) dereferences the null reply of a
lost connection and turns an error into a null pointer; a raw command without a key in
cluster mode goes on with slot -1 or a null client after its error callback
(`TairClusterAsyncClient.cpp:314`). SET with NX/XX, brpoplpush and blmove report a null reply
as an unknown type; xread keeps the first stream only. unlink, exists and touch route a list
by its first key, scripts go to any node. The facade lets an xadd of one element, a geoadd
and a scriptExists of none through; xgroupSetID has no id to send, zdiffstoreWithScores sends
a word the server does not know. Cluster scan, smove and some set operations are empty
bodies: their callback is never called. An attempt of `init()` that
fails empties `client_map_` and keeps `slot_to_clients_`, so a later address may complete a
table whose other slots point to clients that are gone (`stale`, the exception in `ReadyClusterIsWhole`).

Other clients. A subscription request pending when the connection is lost crashes the
process; a refused re-subscription is told to nobody. `exec()` off the loop thread may have
its commands run outside MULTI after a reconnection, and `discard()` leaves the collected
commands for the next `exec()`. `keys()` may miss the last node's answer, waits for ever when
called on the loop thread, and the fan-outs that do not wait write to locals of a caller that
has returned (`dangling`).

Executors. A producer waiting for room when `ThreadPool::stop()` is called waits for ever
(the exception in `PutReturns`), and one past the test of `stopped_` may queue a task behind the drain; `ThreadExecutor` and
`CoroutineThread` drop what they have not taken out at `stop()`, and both let one task more
in than their limit says, the executor one per producer.

Pool and server. Of the pool, a resize to 0 runs the unsigned index below zero, a `start()`
after `stop()` without `join()` asserts, and an exit check that lets a thread go whose functor
waits for the read lock deadlocks `resize`. `TcpServer::stop()` skips a connection that is
accepted and not attached, and closes one between two loops through a null `loop_`; a
`close()` that races with the peer's makes `removeConnectionInLoop` assert.

Output. A send, a flush or an append made in a callback overtakes what the interrupted send
still holds (`passes`). A callback that closes the connection, or whose nested send meets a
broken one, leaves the outer call with a freed event, which it uses
(`TcpConnection.cpp:203-207`; `endedInside`). Bytes appended through
`getOutputBufferForWrite()` have no write event until `sendOutputBuffer()` asks for it
(`unasked`).

Channel, TLS, resolver, buffer. A read callback may move its connection to another loop, whose
thread may attach the channel before `Channel.cpp:163` tests `attached_` again: the write
callback then runs on the old thread, whose assertion `loop_->isInLoopThread()` fails
(`TcpConnection.cpp:323`). A failing `event_del()` leaves `attached_` set: the channel asserts
in the next `attachToLoop()` (`Channel.cpp:69`), or, when it was leaving its loop, its write
callback finds a null loop. A channel that is used after `closeEvent()` or between two
loops dereferences null; after a failed `event_add()` its destructor asserts. A TLS callback that is
asked before a read or a write, closes the connection and allows it all the same makes SSL
functions run on the freed `ssl_` (`early`); one that refuses a read leaves decrypted bytes
with OpenSSL until the next record arrives (`held`, the exception in `TlsDrains`). A TLS
connection that is closed off its loop with a send still queued asserts in `sendInLoop`. The
resolver must not be started again before the callback of a cancelled request has come.
Compaction in `Buffer::skip` makes `unreadBytes` after a read that emptied the buffer return
other bytes.

Data. "*" does not match the empty string; an end without a start is read as a start by
BITPOS; 0.0.0.0/0 only contains addresses while it is alone in the trie. A memcached text
command without data block skips two bytes more than its line, so a command pipelined behind
it loses them: the model's peer waits for the answer. A text command whose value holds a line
feed is well formed and refused, because the end of the value is looked for as an end of line
(`MemcachedCodec.cpp:85-92`; `HoldsLineFeed`). Nobody compares the length of a binary body
with that of its key: `append`, `prepend` and the SASL commands then read outside the buffer
(`MemcachedCodec.cpp:236`, `302`; `BodyShorterThanKey`), while `set` is refused by the wrapped
length (`209`). A `TokenBucket` gives nothing away (`GrantedWithinRate`), but it loses the
fraction every refill rounds off: asked more often than its rate fills a token it is never
refilled (`TokenBucket.cpp:64`, `73`), and no property bounds that loss.

## Proofs

All constants are arbitrary within the named assumptions of the modules; sets of threads,
loops, functors and commands may be of any size.

`EventLoopProofs`
* `TypeCorrect`: `Spec => []TypeOK`.
* `NoWakeUpIsLost`: `Spec => []NoLostWakeUp`. Not inductive as it stands: a thread that
  finds `pending_notified_` set returns without writing, so the flag itself has to promise a
  wake-up. `WakeUpInvAt(l)` adds that: the flag is set only while the pipe holds a byte,
  the loop is about to swap its queue (which clears the flag), or the thread that set it is
  about to write. Uses `PipeAssumption` (capacity at least one byte).
* `BoundIsKeptOnce`: `Spec => []BoundKeptOnce`. A bound functor is in one place at most (a
  call, a queue, a batch, the kept functors of a loop, or what ran), there once, and in one as
  long as no running loop has been told to stop: through redirection, recheck and the moves
  of its object, between the locks of two loops.
* `NoTaskIsHidden`: `Spec => []NoPendingTaskMeansNone`. `HeldInv` ties what the thread holds
  outside the queue, and `do_pending_`, to its place in `doPendingFunctors()`.
* `EarlierTasksAreKept`: `Spec => []StopKeepsEarlierTasks`. `ToldAt(l)` follows the traces of
  `stop()` (a caller inside it, `stopInLoop` in a queue or batch, the request to leave the
  dispatch, the last pass) back to a loop that has been told to stop; `LateAt(l)` says that
  after the swap of the last pass whatever is in the queue came after that.
* `ImplementsTaskQueue`: `Spec => RunsInOrder`, the refinement of `TaskQueue`. The mapping
  reads the FIFO off the histories: what a loop owes is `queued` without its first
  `Len(begun)` members. `OrderInv` ties the histories to the queues: the plain functors in
  `batch \o pending`, in that order, are exactly those owed (`Tracks`), and what was recorded
  was submitted, so nothing is recorded twice. Handing over a plain functor is then a put of
  `TaskQueue`, starting one a take from its head, every other step a stutter.

`EventLoopThread`
* `StopIsSafe`: `Spec => []LoopOutlivesStop`. `LoopInv` says why: a thread inside
  `EventLoop::stop` holds `mutex_` and has seen `loop_` set; `loop_` is set only between
  publication and unpublication, both under the lock and both within the loop's life.

`TairBaseClientProofs`
* `ClientTypeCorrect`: `Spec => []TypeOK`, in two halves (`FlagsOK`, `DataOK`), the Boolean
  members and the rest.
* `RepliesAreExpected`: `Spec => []EveryReplyExpected`, for every use and every network: the
  `runtimeAssert(!callbacks_.empty())` of `onRecvResponse` cannot fail because of the
  client. (The server answers each command once.)
* `RepliesReachTheirCommands` and `ClientInLockstep`: under `SafeUse` (commands are issued
  on the loop's thread, while connected or inside callbacks, and no password is set)
  `Spec => []ResponseMatches` and `Spec => []InLockstep`. `PairingInv` adds to the two that
  a closed link leaves no callbacks behind for the next connection, that no command waits
  in the queue, and that an open connection belongs to a `tcp_client_` (`UpHasClient`).
  `client_mispair` and the failed AUTH above show that neither half of `SafeUse` can be
  dropped.
* `WaitingCommandsAreHeld` and `NoSecondAnswer`: `Spec => []WaitingIsHeld` and
  `Spec => AnsweredOnce`, for every use and every network. `HeldOnce` is what both need:
  a command is in `callbacks_` or in the loop's queue at most once, never in both, and only
  while it waits; so the answer that takes it out is its only one.
* `LeftoversStayFirst`: `Spec => []LeftoversComeFirst`, for every use and every network: the
  replies to come are, in order, those of the last callbacks queued.
* `PromiseSetOnce`: `Spec => [][FutureKept]_vars`: what the future of a `connect()` holds
  stays (`PromiseFresh`: the promise at hand has not been set). This stands behind
  `set_value()` never throwing.
* `SoundUseDoesNotCrash`: under `SoundUse` (no timeout is set, no command is issued inside a
  callback, and other threads issue commands only after the one `connect()` has succeeded, to
  a server whose replies decode) `Spec => []NoCrash`. `SoundInv` adds that no timer is armed,
  that a connection which is up has its client, codec and TcpConnection (`UpIsWhole`), and
  that a command in the loop's queue finds them (`ThreadsAreReady`). Each restriction excludes
  one of the crashes listed under "What the runs show".

`TairClientProofs`
* `CallsBackOnce`, `RequestsAreRouted` and `AnswersAreDelivered`: `Spec => []CallbackCalledOnce`,
  `Spec => []RequestsReachTheirNode` and `Spec => []AnswersArrive`, for every set of nodes,
  number of slots, list of addresses, answers to CLUSTER NODES and lengths of lists. One
  inductive invariant, `ClientInv`, carries the three. `InitHolds`: attempts of `init()` come
  one at a time and before any call; a line being parsed has its node in `client_map_`; the
  slots point into `client_map_` unless an attempt left them behind; `init()` succeeds only
  with the connection up, or every slot assigned. `CallHolds`: what the callback was told
  (`Told`), which node the command went to (`Went`) and with how many words (`HasWords`), for
  every phase of a call. The rows of the command, facade and routing tables enter through two
  assumptions without constants, which TLC evaluates in `client_commands`:
  `CommandsAssumption` (how keys, routes, minima and numbers of words of a row go together;
  numbers of words for lists of up to 5, which `WordsSuffice` extends to any length, since no
  command asks for more than 6 words) and `DecodersAssumption` (what each method makes of each
  reply it may get). `ClientAssumption` is about the constants.

`TairExtrasProofs`
* `TransactionsStayWhole`: `Spec => []TransactionIsWhole`, for batches of any length. `TxInv`
  describes the stream from the client to the server, wire before loop queue: it ends between
  two batches, each command records the data commands before it in its batch (`Continues`),
  and what the server has queued is the end of what the next command records (`Collected`);
  on the loop's thread, all of it (`Fresh`: no batch without its MULTI).
* `KeysMissOneNodeAtMost`: `Spec => []KeysMissesAtMostTheLast`, for every finite set of nodes.
  `FanInv`: the latch counts the callbacks that have begun, and all of them but the one
  running have written their part.
* `SubscriptionsStayInStep`: `Spec => []SubscriptionsAgree`, for every finite set of topics.
  `SubInv` holds as long as the client has not crashed: `Pairs` lines up `callbacks_` with the
  replies on their way (messages in between skipped) and the requests behind them;
  `MessagesOK` and `Held` say that once the packets on their way have arrived, the client's
  entry for a topic is the one the server holds, unless a re-subscription is still to come or
  was refused.

`RuntimeProofs`
* `ServerSideStaysSafe`: `Spec => []ServerSideIsSafe`. `PoolInv` bounds the index of a running
  check by the sizes of the pool and says which loops it has not passed, for every
  `MAX_THREAD_POOL_SIZE`; what depends on the documented use of the pool is stated for
  `misuse = {}`, as in the property. `SrvInv` has one part per descriptor (`FdOK`): its status,
  its loop, whether it is in `connections_` and which of its functors are in which queue, once
  each, agree. A close by two threads at once (`raced`) is excepted where the code loses count.
* `OutputStaysWhole`: `Spec => []OutputIsWhole`, for any number of bytes, any mark and any
  depth of calls in callbacks. `OutInv` is about the stream `wire \o output_buffer_ \o rest`:
  its bytes are those handed over and not refused, once each, and two of them are out of order
  only if the later-numbered one was held when the other was handed over (`passes`); the calls
  on the stack hold the parts of `rest` between their `below`s.
* `ExecutorsKeepTheirTasks`: `Spec => []ExecutorsAreSafe`, for any number of producers and
  workers. `TpInv`: a task put before `stop()` has run, is queued or is in a worker's hands.
  `ExInv`: run, batch and queue together are what was accepted (`ExData`); a waiting thread is
  notified or the next push will do it (`ExWakes`); every producer past the test of the
  capacity is counted (`ExRoom`, a count by cardinalities). `CoInv`: every accepted task is in
  exactly one of queue, list of coroutines and ended ones, and the thread exits with no
  coroutine left (`CoExit`).

`NetworkObjectProofs`
* `ObjectsAreSafe`: `ObjectsSpec => []NetworkObjectsAreSafe`, for every size of buffer, record
  and water mark, every set of bytes and of loops and any number of resolutions. One inductive
  invariant per object, with the exceptions of the properties as they stand. `BufferInv`: the indexes are in order within the array, the readable
  part is `content` cell by cell (`Reads`), and the cells before it are what may be unread
  (`Unreads`); each operation is shown to keep these by a lemma on the record of the buffer,
  growth and compaction included. `TlsInv`: `ssl_` is there until the connection is
  disconnected, and only a callback asked first leads to a freed one; while it is up, bytes handed over are on the wire or in the output, and what
  waits for the socket has its write event; every handler keeps this through whatever the
  callbacks inside it do. `ChannelInv`: libevent watches on the channel's loop exactly the
  recorded events while it is attached, and nothing elsewhere; a loop inside `handleEvent()`
  whose read callback has not left it is still the channel's. `DnsInv`: a resolution is in one
  of four stages (idle, queued, in flight, cancelled), each of which fixes base, request and
  timer, as long as no `start()` came before the callback of a cancelled one; the answers are
  counted against the requests in every case.

`ContainerProofs`
* `BqTypeCorrect` and `NoLostWakeUp` (`BlockingQueue`): `BqSpec => []BqTypeOK` and
  `BqSpec => []NoSleepingTakerBesideElement`, for every finite set of takers (`QueueUsers`).
  The property is inductive with the types: an element and a woken taker are added
  together, and a taker that goes to sleep does so with the queue empty. The counting rests
  on the library's theorems on cardinality.
* `GetValuesSeesWhatStays` and `ClearLeavesNothingOld`, together `WholeMapCallsHold`
  (`ConcurrentHashMap`): `MapSpec => []WholeMapCalls`, for every number of slots and every set
  of keys. `MapInv` adds that keys are in the slot of their hash, that what has stayed was
  collected once the scan has passed its slot (`ScanSoFar`), and that what is left of the old
  keys is in a slot `clear()` has not reached (`ClearSoFar`).
* `LruKeepsTheLastUsed` (`LRUMap`): `LruSpec => []KeepsTheLastUsed`, for every capacity, 0
  included, and every set of keys. `LruInv` orders the list by last use pair by pair
  (`UsesInOrder`), which also makes its keys distinct, and equates its members with the keys of
  the map (`ListsTheKept`); the work is in what moving a member to the front and dropping the
  last one do to a sequence.
* `BucketStaysWithinRate` (`TokenBucket`): `TokenSpec => []GrantedWithinRate`, for every size
  and rate; inductive with its types, because a refill rounds down (`RefillWithinRate`).

## What is only model-checked

Liveness under fairness (`TaskRuns`, `StopTerminates`, `StartReturns`, `StopEndsThread`,
`EveryCommandAnswered`, `ConnectResolves`, `ReconnectsByItself`, `PubSubEventuallyAgrees`,
`FanoutReturns`, `ExecutorsFinish`, `ServerSideFinishes`, `NetworkFinishes`), which the prover
does not handle. Of the safety properties, `CodecsAgree` and `ComputesAsDefined`: what
recursive algorithms compute for inputs of every length, which takes an induction over the
data that the installed provers cannot do. Two conjuncts of `ComputesAsDefined` need none and
are proved (`KeepsTheLastUsed`, `GrantedWithinRate`).

## Not modelled

* EventLoop's timers and before/after-sleep callbacks as such: an event callback is an
  arbitrary piece of program code. `EventLoopThread::detach()`.
* `connect()` on a client that already has a TcpClient, which races on `tcp_client_`;
  `disconnect()` of a client whose loop has been stopped.
* Several commands at once through the cluster client: each node's connection is a
  TairBaseClient.
* `TairURI`, `TairClientInfo`, settings that are only stored, `Sockets`, `Duration`,
  `TlsOptions`: parsing, formatting and system calls without protocol state.
* Decoding of requests by the RESP codecs and encoding by the memcached codec: the client
  does not use them.
* Hashes, compression, base64, SipHash, SHA: bit-level algorithms on inputs too large for
  TLC, without state. `KeyHash` appears as the slot of a key.
* `BoundedQueue` (as `ThreadPool`'s queue, but its test `>` lets one more in),
  `ThreadExecutorPool` (hands a task to one of its executors), logging, clocks, memory and
  CPU statistics, tracing.
* libaco is vendored.

## Plan

1. Done: the reactor, its thread, the pool, server and connections; the pipelined client and
   the clients above it; codecs, executors, data structures; the proofs above.
2. `disconnect()` against a stopped loop, by composing `TairBaseClient` with
   `EventLoopThread`.
