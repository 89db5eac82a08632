--------------------------- MODULE TairBaseClient ---------------------------
(***************************************************************************)
(* One TairBaseClient (src/client/TairBaseClient.cpp) with the TcpClient,  *)
(* Connector and TcpConnection it drives (src/network/), the FIFO of its   *)
(* event loop (see TaskQueue) and the server at the other end.             *)
(*                                                                         *)
(* Commands are pipelined: callbacks_ is a queue, and the n-th reply read  *)
(* from the connection is given to the n-th callback.  The module is about *)
(* what that pairing survives: connections that fail to open, are closed   *)
(* by the server or by a failed write, are replaced by the black-hole      *)
(* timer or after a decoding error, while the program goes on issuing      *)
(* commands.                                                               *)
(*                                                                         *)
(* Everything below but Connect, Issue and Disconnect runs on the loop's   *)
(* thread, so one handler, with the callbacks it makes, is one step.       *)
(***************************************************************************)
EXTENDS Integers, Sequences

CONSTANTS
    Reqs,            \* commands of the program, each issued at most once
    Auth, Name,      \* the AUTH and CLIENT SETNAME commands the client adds
    AutoReconnect,   \* auto_reconnect_
    UsePassword,     \* password_ is set
    Interval,        \* reconnect_interval_ms_ in ticks; 0: no black-hole timer
    Contexts,        \* where the program issues commands from, see below
    InitWait,        \* what the program waits for before its first command
    BadServer,       \* the server may send bytes that do not decode
    MaxConnects      \* bound: calls of connect()

\* "thread": any thread, at any time, through the loop's queue.
\* "loop": code on the loop's thread that tests isConnected() first.
\* "callback": inside the callback of another command.
AllContexts == {"thread", "loop", "callback"}

\* "no": it does not wait; "done": for the future of connect(), whatever it holds;
\* "success": until a connect() has succeeded.
InitWaits == {"no", "done", "success"}

ASSUME CommandAssumption == Auth # Name /\ Auth \notin Reqs /\ Name \notin Reqs
ASSUME TokenAssumption ==
    (Reqs \cup {Auth, Name}) \cap {"connect", "disconnect", "unissued", "waiting", "null"} = {}
ASSUME UseAssumption ==
    /\ AutoReconnect \in BOOLEAN
    /\ UsePassword \in BOOLEAN
    /\ InitWait \in InitWaits
    /\ BadServer \in BOOLEAN
    /\ Interval \in Nat
    /\ Contexts \subseteq AllContexts
    /\ MaxConnects \in Nat

VARIABLES
    \* TairBaseClient
    tcp,         \* tcp_client_ is not null
    codec,       \* codec_ is not null
    callbacks,   \* callbacks_, the command each entry belongs to
    promise,     \* auth_promise_: the connect() call it answers, 0 if null
    timer,       \* reconnect_timer_id_ > 0
    strayTimer,  \* a periodic clientCron timer whose id has been overwritten
    sendAge,     \* now - last_send_req_time_ms_, counted up to Interval
    sendIsLast,  \* last_send_req_time_ms_ >= last_recv_resp_time_ms_
    \* TcpClient, Connector, TcpConnection of the current tcp_client_
    link,        \* what they are doing, see Links
    hasConn,     \* connection_ is not null (open, or closed since)
    \* the event loop's queue, the network, the process
    inbox,       \* functors queued on the loop by other threads
    out, in,     \* commands not yet answered by, replies not yet read from, the server
    peerGone,    \* the server has closed its end
    crash,       \* how the process died
    \* what the program has seen
    connects,    \* calls of connect() so far
    future,      \* what the future of each connect() call holds
    answer       \* what each command's callback was given

clientVars == <<tcp, codec, promise, timer, strayTimer>>
clockVars == <<sendAge, sendIsLast>>
netVars == <<out, in, peerGone>>
progVars == <<connects, future>>
vars == <<tcp, codec, callbacks, promise, timer, strayTimer, sendAge, sendIsLast,
          link, hasConn, inbox, out, in, peerGone, crash, connects, future, answer>>

Commands == Reqs \cup {Auth, Name}

\* "idle": no attempt was started; "connecting": Connector kConnecting; "backoff":
\* its retry timer runs; "up": TcpConnection kConnected; "down": given up.
Links == {"idle", "connecting", "backoff", "up", "down"}

Crashes == {"none", "null codec_", "null connection", "assertion"}

\* A command's callback has not been called / was called with nullptr / was called
\* with the reply to the given command.
Pending == {"unissued", "waiting"}
Answers == Pending \cup {"null"} \cup Commands

FlagsOK ==
    /\ tcp \in BOOLEAN /\ codec \in BOOLEAN /\ timer \in BOOLEAN /\ strayTimer \in BOOLEAN
    /\ sendIsLast \in BOOLEAN /\ hasConn \in BOOLEAN /\ peerGone \in BOOLEAN

DataOK ==
    /\ callbacks \in Seq(Commands)
    /\ connects \in 0..MaxConnects
    /\ promise \in 0..MaxConnects
    /\ sendAge \in 0..Interval
    /\ link \in Links
    /\ inbox \in Seq(Reqs \cup {"connect", "disconnect"})
    /\ out \in Seq(Commands) /\ in \in Seq(Commands)
    /\ crash \in Crashes
    /\ future \in [1..MaxConnects -> {"pending", "ok", "error"}]
    /\ answer \in [Reqs -> Answers]

TypeOK == FlagsOK /\ DataOK

Init ==
    /\ tcp = FALSE /\ codec = FALSE /\ timer = FALSE /\ strayTimer = FALSE
    /\ callbacks = <<>>
    /\ promise = 0
    /\ sendAge = 0 /\ sendIsLast = TRUE
    /\ link = "idle" /\ hasConn = FALSE
    /\ inbox = <<>>
    /\ out = <<>> /\ in = <<>> /\ peerGone = FALSE
    /\ crash = "none"
    /\ connects = 0
    /\ future = [n \in 1..MaxConnects |-> "pending"]
    /\ answer = [r \in Reqs |-> "unissued"]

Alive == crash = "none"

Die(how) ==
    /\ crash' = how
    /\ UNCHANGED <<clientVars, clockVars, callbacks, link, hasConn, inbox, netVars,
                   progVars, answer>>

-----------------------------------------------------------------------------
\* Pieces of the handlers.

\* The program may issue command r now.
MayIssue(r) ==
    /\ Alive
    /\ answer[r] = "unissued"
    /\ InitWait = "done" => \E n \in 1..MaxConnects : future[n] # "pending"
    /\ InitWait = "success" => \E n \in 1..MaxConnects : future[n] = "ok"

\* clearCallbacks(): every callback of cbs is called with nullptr.
Nulled(cbs) == [r \in Reqs |-> IF \E i \in DOMAIN cbs : cbs[i] = r THEN "null" ELSE answer[r]]

\* The commands that callbacks of the program, called with nullptr, may issue.  No
\* reply can come for them: clearCallbacks() goes on until callbacks_ is empty and
\* gives them nullptr too, as does sendCommandInLoop() without a tcp_client_.
IssuedMeanwhile(cbs) ==
    {r \in Reqs : /\ "callback" \in Contexts /\ MayIssue(r)
                  /\ \E i \in DOMAIN cbs : cbs[i] \in Reqs}

\* What the callbacks of cbs have been given after clearCallbacks().
Cleared(cbs) ==
    {[r \in Reqs |-> IF r \in more THEN "null" ELSE Nulled(cbs)[r]] : more \in SUBSET IssuedMeanwhile(cbs)}

\* auth_promise_->set_value(res); auth_promise_.reset(), if there is one.
Resolve(res) ==
    /\ future' = IF promise = 0 THEN future ELSE [future EXCEPT ![promise] = res]
    /\ promise' = 0

\* onConnection(disconnected): clearCallbacks() on cbs, then onDisconnected().
OnDisconnected(cbs) ==
    /\ answer' \in Cleared(cbs)
    /\ Resolve("error")

\* The socket is closed: whatever was on its way is gone.
WireClosed == out' = <<>> /\ in' = <<>> /\ peerGone' = FALSE

\* Mutant of LinkAfterClose: auto_reconnect_ is ignored.
StayDownAfterClose == "down"

\* TcpConnection::handleClose with close_callback_ TcpClient::onCloseConnection:
\* the client connects again if it may.
LinkAfterClose == IF AutoReconnect THEN "connecting" ELSE "down"

\* sendCommandInLoop records last_send_req_time_ms_, onMessage
\* last_recv_resp_time_ms_; both only when the timer is configured.
Sent == IF Interval > 0 THEN sendAge' = 0 /\ sendIsLast' = TRUE ELSE UNCHANGED clockVars
Received == sendIsLast' = (Interval = 0 \/ sendAge = 0) /\ UNCHANGED sendAge

\* Commands issued inside clearCallbacks() are sent in vain, if any.
SentMeanwhile(cbs) == IF answer' = Nulled(cbs) THEN UNCHANGED clockVars ELSE Sent

\* A write to a connection whose peer is gone fails with EPIPE or ECONNRESET, or
\* succeeds if the reset has not arrived; other writes succeed.
WriteFails == peerGone

-----------------------------------------------------------------------------
\* The program: connect(), disconnect(), sendCommand() from other threads.

\* TairBaseClient::connect() on a client that has no tcp_client_: a new promise, a
\* new TcpClient, and connectInLoop() queued.
Connect ==
    /\ Alive
    /\ ~tcp
    /\ connects < MaxConnects
    /\ connects' = connects + 1
    /\ promise' = connects + 1
    /\ tcp' = TRUE
    /\ link' = "idle"
    /\ hasConn' = FALSE
    /\ inbox' = Append(inbox, "connect")
    /\ UNCHANGED <<codec, timer, strayTimer, clockVars, callbacks, netVars, crash,
                   future, answer>>

\* TairBaseClient::disconnect(): queue the functor and wait on the latch.  One
\* thread controls the client, so there is one such call at a time.
Disconnect ==
    /\ Alive
    /\ tcp
    /\ \A i \in DOMAIN inbox : inbox[i] # "disconnect"
    /\ inbox' = Append(inbox, "disconnect")
    /\ UNCHANGED <<clientVars, clockVars, callbacks, link, hasConn, netVars, crash,
                   progVars, answer>>

\* sendCommand() off the loop's thread.
IssueFromThread(r) ==
    /\ "thread" \in Contexts
    /\ MayIssue(r)
    /\ answer' = [answer EXCEPT ![r] = "waiting"]
    /\ inbox' = Append(inbox, r)
    /\ UNCHANGED <<clientVars, clockVars, callbacks, link, hasConn, netVars, crash,
                   progVars>>

-----------------------------------------------------------------------------
\* sendCommandInLoop(r) by the loop's thread outside any callback, in a state where
\* the functor queue is q.

\* `if (!tcp_client_)`: answered at once.
SendUnconnected(r, q) ==
    /\ ~tcp
    /\ answer' \in Cleared(<<r>>)
    /\ inbox' = q
    /\ UNCHANGED <<clientVars, clockVars, callbacks, link, hasConn, netVars, crash,
                   progVars>>

\* codec_->encodeRequest before the first connection was ever made.
SendNoCodec(r, q) ==
    /\ tcp /\ ~codec
    /\ Die("null codec_")

\* tcp_client_->connection()->send on a TcpClient that has no connection yet.
SendNoConnection(r, q) ==
    /\ tcp /\ codec /\ ~hasConn
    /\ Die("null connection")

\* The connection is not kConnected: send() returns silently, the callback stays.
SendDropped(r, q) ==
    /\ tcp /\ codec /\ hasConn /\ link # "up"
    /\ callbacks' = Append(callbacks, r)
    /\ answer' = [answer EXCEPT ![r] = "waiting"]
    /\ inbox' = q
    /\ Sent
    /\ UNCHANGED <<clientVars, link, hasConn, netVars, crash, progVars>>

\* Mutant of SendWritten: the callback is put at the front of the queue.
SendWrittenFirst(r, q) ==
    /\ tcp /\ codec /\ link = "up"
    /\ callbacks' = <<r>> \o callbacks
    /\ out' = Append(out, r)
    /\ answer' = [answer EXCEPT ![r] = "waiting"]
    /\ inbox' = q
    /\ Sent
    /\ UNCHANGED <<clientVars, link, hasConn, in, peerGone, crash, progVars>>

\* Mutant of SendWritten: a command without callback is sent all the same.
SendWrittenWithoutCallback(r, q) ==
    /\ tcp /\ codec /\ link = "up"
    /\ out' = Append(out, r)
    /\ answer' = [answer EXCEPT ![r] = "null"]
    /\ inbox' = q
    /\ Sent
    /\ UNCHANGED <<clientVars, callbacks, link, hasConn, in, peerGone, crash, progVars>>

\* Written, or left in the output buffer.
SendWritten(r, q) ==
    /\ tcp /\ codec /\ link = "up"
    /\ callbacks' = Append(callbacks, r)
    /\ out' = Append(out, r)
    /\ answer' = [answer EXCEPT ![r] = "waiting"]
    /\ inbox' = q
    /\ Sent
    /\ UNCHANGED <<clientVars, link, hasConn, in, peerGone, crash, progVars>>

\* Mutant of SendFails: the command whose write failed is not answered.
SendFailsSilently(r, q) ==
    /\ tcp /\ codec /\ link = "up"
    /\ WriteFails
    /\ answer' = [Nulled(callbacks) EXCEPT ![r] = "waiting"]
    /\ Resolve("error")
    /\ callbacks' = <<>>
    /\ timer' = FALSE
    /\ WireClosed
    /\ link' = LinkAfterClose
    /\ inbox' = q
    /\ Sent
    /\ UNCHANGED <<tcp, codec, strayTimer, hasConn, crash, connects>>

\* The write fails: handleError() closes the connection inside send().
SendFails(r, q) ==
    /\ tcp /\ codec /\ link = "up"
    /\ WriteFails
    /\ OnDisconnected(Append(callbacks, r))
    /\ callbacks' = <<>>
    /\ timer' = FALSE
    /\ WireClosed
    /\ link' = LinkAfterClose
    /\ inbox' = q
    /\ Sent
    /\ UNCHANGED <<tcp, codec, strayTimer, hasConn, crash, connects>>

SendCommandInLoop(r, q) ==
    \/ SendUnconnected(r, q)
    \/ SendNoCodec(r, q)
    \/ SendNoConnection(r, q)
    \/ SendDropped(r, q)
    \/ SendWritten(r, q)
    \/ SendFails(r, q)

\* The functor of a sendCommand() from another thread.
RunSend ==
    /\ Alive
    /\ inbox # <<>>
    /\ Head(inbox) \in Reqs
    /\ SendCommandInLoop(Head(inbox), Tail(inbox))

\* Program code on the loop's thread issues r while isConnected().
IssueInLoop(r) ==
    /\ "loop" \in Contexts
    /\ MayIssue(r)
    /\ tcp /\ link = "up"
    /\ SendCommandInLoop(r, inbox)

-----------------------------------------------------------------------------
\* The other functors of the loop's queue.

\* TcpClient::connectInLoop: Connector::start() calls connect(2).  The functor holds
\* its own TcpClient; if the timer has put another in its place meanwhile (the link is
\* no longer idle), that TcpClient dies with the functor and cancels its attempt.
RunConnect ==
    /\ Alive
    /\ inbox # <<>> /\ Head(inbox) = "connect"
    /\ inbox' = Tail(inbox)
    /\ link' = IF link = "idle" THEN "connecting" ELSE link
    /\ UNCHANGED <<clientVars, clockVars, callbacks, hasConn, netVars, crash, progVars,
                   answer>>

\* Mutant of RunDisconnect: callbacks_ is emptied without answering when not connected.
RunDisconnectForgets ==
    /\ Alive
    /\ inbox # <<>> /\ Head(inbox) = "disconnect"
    /\ inbox' = Tail(inbox)
    /\ callbacks' = <<>>
    /\ IF link = "up"
       THEN OnDisconnected(callbacks) /\ timer' = FALSE /\ WireClosed
       ELSE UNCHANGED <<promise, timer, netVars, future, answer>>
    /\ tcp' = FALSE
    /\ link' = "idle"
    /\ hasConn' = FALSE
    /\ UNCHANGED <<codec, strayTimer, clockVars, crash, connects>>

\* The functor of disconnect(): TcpClient::disconnectInLoop closes an open
\* connection or cancels an attempt that is in progress (without a word to
\* anybody); then tcp_client_ is destroyed.
RunDisconnect ==
    /\ Alive
    /\ inbox # <<>> /\ Head(inbox) = "disconnect"
    /\ inbox' = Tail(inbox)
    /\ IF link = "up"
       THEN /\ OnDisconnected(callbacks)
            /\ SentMeanwhile(callbacks)
            /\ callbacks' = <<>>
            /\ timer' = FALSE
            /\ WireClosed
       ELSE UNCHANGED <<callbacks, promise, timer, clockVars, netVars, future, answer>>
    /\ tcp' = FALSE
    /\ link' = "idle"
    /\ hasConn' = FALSE
    /\ UNCHANGED <<codec, strayTimer, crash, connects>>

-----------------------------------------------------------------------------
\* Connector events.

\* What a fresh connection sends before anything else.
Hello == IF UsePassword THEN <<Auth, Name>> ELSE <<Name>>

\* The end of onConnected(): a periodic timer replaces the id of the last one.
StartTimer ==
    /\ timer' = (timer \/ Interval > 0)
    /\ strayTimer' = (strayTimer \/ (timer /\ Interval > 0))

\* Mutant of ConnectSucceeds: the hello is queued on the loop that runs onConnected().
ConnectSucceedsQueued ==
    /\ Alive
    /\ tcp /\ link = "connecting"
    /\ link' = "up" /\ hasConn' = TRUE /\ codec' = TRUE
    /\ inbox' = inbox \o Hello
    /\ out' = <<>> /\ in' = <<>>
    /\ peerGone' = FALSE
    /\ IF UsePassword THEN UNCHANGED <<promise, future>> ELSE Resolve("ok")
    /\ StartTimer
    /\ UNCHANGED <<tcp, clockVars, callbacks, crash, connects, answer>>

\* Mutant of ConnectSucceeds: auth_promise_ is left alone when there is no password.
ConnectSucceedsInSilence ==
    /\ Alive
    /\ tcp /\ link = "connecting"
    /\ link' = "up" /\ hasConn' = TRUE /\ codec' = TRUE
    /\ callbacks' = callbacks \o Hello
    /\ out' = Hello /\ in' = <<>>
    /\ peerGone' = FALSE
    /\ StartTimer
    /\ Sent
    /\ UNCHANGED <<tcp, promise, inbox, crash, progVars, answer>>

\* Connector::handleWrite without error: TcpClient::onNewConnection, attachedToLoop,
\* onConnection(connected) with a new codec, onConnected().
ConnectSucceeds ==
    /\ Alive
    /\ tcp /\ link = "connecting"
    /\ link' = "up" /\ hasConn' = TRUE /\ codec' = TRUE
    /\ callbacks' = callbacks \o Hello
    /\ out' = Hello /\ in' = <<>>
    /\ peerGone' = FALSE
    /\ IF UsePassword THEN UNCHANGED <<promise, future>> ELSE Resolve("ok")
    /\ StartTimer
    /\ Sent
    /\ UNCHANGED <<tcp, inbox, crash, connects, answer>>

\* Mutant of ConnectSucceedsAndBreaks: sendCommandInLoop() queues the callback after
\* it has sent, when the failed write of AUTH has already cleared callbacks_.
ConnectSucceedsAndBreaksLate ==
    /\ Alive
    /\ tcp /\ link = "connecting"
    /\ link' = LinkAfterClose /\ hasConn' = TRUE /\ codec' = TRUE
    /\ UsePassword
    /\ OnDisconnected(callbacks)
    /\ callbacks' = Hello
    /\ WireClosed
    /\ timer' = (Interval > 0)
    /\ Sent
    /\ UNCHANGED <<tcp, strayTimer, inbox, crash, connects>>

\* The same, but the server has already closed and a write of the hello fails:
\* the connection is closed inside onConnected(), which carries on.
ConnectSucceedsAndBreaks ==
    /\ Alive
    /\ tcp /\ link = "connecting"
    /\ link' = LinkAfterClose /\ hasConn' = TRUE /\ codec' = TRUE
    /\ \/ \* AUTH fails; SETNAME is then pushed and dropped by send()
          /\ UsePassword
          /\ OnDisconnected(callbacks \o <<Auth>>)
          /\ callbacks' = <<Name>>
       \/ \* SETNAME fails
          /\ answer' \in Cleared(callbacks)
          /\ Resolve(IF UsePassword THEN "error" ELSE "ok")
          /\ callbacks' = <<>>
    /\ WireClosed
    /\ timer' = (Interval > 0)
    /\ Sent
    /\ UNCHANGED <<tcp, strayTimer, inbox, crash, connects>>

\* Connector::handleError: refused, or timed out or another error.  The client is
\* told if the error is a refusal or there will be no retry.
ConnectFails(refused) ==
    /\ Alive
    /\ tcp /\ link = "connecting"
    /\ link' = IF AutoReconnect THEN "backoff" ELSE "down"
    /\ IF refused \/ ~AutoReconnect
       THEN /\ OnDisconnected(callbacks)
            /\ ~hasConn => answer' = Nulled(callbacks)
            /\ SentMeanwhile(callbacks)
            /\ callbacks' = <<>>
            /\ timer' = FALSE
       ELSE UNCHANGED <<callbacks, promise, timer, clockVars, future, answer>>
    /\ UNCHANGED <<tcp, codec, strayTimer, hasConn, inbox, netVars, crash, connects>>

\* A callback left behind by an earlier TcpClient issues a command when it is given
\* nullptr: the present one has no connection yet.
ConnectFailsInCallback(refused) ==
    /\ tcp /\ link = "connecting" /\ ~hasConn
    /\ refused \/ ~AutoReconnect
    /\ IssuedMeanwhile(callbacks) # {}
    /\ Die("null connection")

\* The retry timer of Connector::handleError.
RetryConnect ==
    /\ Alive
    /\ tcp /\ link = "backoff"
    /\ link' = "connecting"
    /\ UNCHANGED <<clientVars, clockVars, callbacks, hasConn, inbox, netVars, crash,
                   progVars, answer>>

-----------------------------------------------------------------------------
\* Connection events.

\* onMessage, DState::SUCCESS: onRecvResponse gives the reply to the oldest callback.
RecvReply ==
    /\ Alive
    /\ link = "up" /\ in # <<>> /\ callbacks # <<>>
    /\ in' = Tail(in)
    /\ callbacks' = Tail(callbacks)
    /\ answer' = [r \in Reqs |-> IF r = Head(callbacks) THEN Head(in) ELSE answer[r]]
    /\ IF Head(callbacks) = Auth THEN \E res \in {"ok", "error"} : Resolve(res)
                                 ELSE UNCHANGED <<promise, future>>
    /\ Received
    /\ UNCHANGED <<tcp, codec, timer, strayTimer, link, hasConn, inbox, out, peerGone,
                   crash, connects>>

\* A callback of the program issues r: the nested sendCommandInLoop() writes it.
RecvReplyAndIssue(r) ==
    /\ "callback" \in Contexts
    /\ MayIssue(r)
    /\ link = "up" /\ in # <<>> /\ callbacks # <<>>
    /\ Head(callbacks) \in Reqs
    /\ in' = Tail(in)
    /\ callbacks' = Append(Tail(callbacks), r)
    /\ out' = Append(out, r)
    /\ answer' = [answer EXCEPT ![Head(callbacks)] = Head(in), ![r] = "waiting"]
    /\ Sent
    /\ UNCHANGED <<clientVars, link, hasConn, inbox, peerGone, crash, progVars>>

\* The nested write fails: clearCallbacks() runs inside a callback and its
\* assertNotInCallbackContext() aborts.
RecvReplyAndIssueFails(r) ==
    /\ "callback" \in Contexts
    /\ MayIssue(r)
    /\ link = "up" /\ in # <<>> /\ callbacks # <<>>
    /\ Head(callbacks) \in Reqs
    /\ WriteFails
    /\ Die("assertion")

\* A new tcp_client_ replaces the present one, on the loop's thread: ~TcpClient
\* closes its connection or cancels its attempt, doConnect() starts another.
\* clearCallbacks() was or is called, so every callback is answered.
ReplaceClient ==
    /\ callbacks' = <<>>
    /\ IF link = "up"
       THEN OnDisconnected(callbacks) /\ timer' = FALSE /\ WireClosed
       ELSE answer' \in Cleared(callbacks) /\ UNCHANGED <<promise, future, timer, netVars>>
    /\ tcp' = TRUE
    /\ hasConn' = FALSE
    /\ link' = "connecting"

\* onMessage, DState::ERROR: clearCallbacks() and reconnect().
RecvGarbage ==
    /\ Alive
    /\ BadServer
    /\ link = "up" /\ ~peerGone
    /\ ReplaceClient
    /\ SentMeanwhile(callbacks)
    /\ UNCHANGED <<codec, strayTimer, inbox, crash, connects>>

\* Mutant of DetectClose: clearCallbacks() is not called.
DetectCloseKeepsCallbacks ==
    /\ Alive
    /\ link = "up" /\ peerGone
    /\ Resolve("error")
    /\ timer' = FALSE
    /\ WireClosed
    /\ link' = LinkAfterClose
    /\ UNCHANGED <<tcp, codec, callbacks, answer, strayTimer, clockVars, hasConn, inbox,
                   crash, connects>>

\* Mutant of DetectClose: the callbacks are called but stay queued.
DetectCloseWithoutPop ==
    /\ Alive
    /\ link = "up" /\ peerGone
    /\ OnDisconnected(callbacks)
    /\ timer' = FALSE
    /\ WireClosed
    /\ link' = LinkAfterClose
    /\ UNCHANGED <<tcp, codec, callbacks, strayTimer, clockVars, hasConn, inbox, crash,
                   connects>>

\* Mutant of DetectClose: callbacks_ is emptied without calling the callbacks.
DetectCloseForgets ==
    /\ Alive
    /\ link = "up" /\ peerGone
    /\ Resolve("error")
    /\ callbacks' = <<>>
    /\ timer' = FALSE
    /\ WireClosed
    /\ link' = LinkAfterClose
    /\ UNCHANGED <<tcp, codec, answer, strayTimer, clockVars, hasConn, inbox, crash,
                   connects>>

\* handleRead reads 0 bytes or fails with an error (a reset discards what was not
\* read): handleError().
DetectClose ==
    /\ Alive
    /\ link = "up" /\ peerGone
    /\ OnDisconnected(callbacks)
    /\ SentMeanwhile(callbacks)
    /\ callbacks' = <<>>
    /\ timer' = FALSE
    /\ WireClosed
    /\ link' = LinkAfterClose
    /\ UNCHANGED <<tcp, codec, strayTimer, hasConn, inbox, crash, connects>>

\* clientCron() of the timer started by onConnected().
TimedOut == sendIsLast /\ sendAge >= Interval

ClientCron ==
    /\ Alive
    /\ timer
    /\ TimedOut
    /\ ReplaceClient
    /\ UNCHANGED <<codec, strayTimer, clockVars, inbox, crash, connects>>

\* A timer nobody can cancel any more fires after onDisconnected() has reset
\* reconnect_timer_id_: runtimeAssert(reconnect_timer_id_ > 0).
StrayCron ==
    /\ Alive
    /\ strayTimer /\ ~timer
    /\ Die("assertion")

\* Time passes.
Tick ==
    /\ Alive
    /\ sendAge < Interval
    /\ sendAge' = sendAge + 1
    /\ UNCHANGED <<clientVars, sendIsLast, callbacks, link, hasConn, inbox, netVars,
                   crash, progVars, answer>>

-----------------------------------------------------------------------------
\* The server answers commands in the order it received them.
ServerReplies ==
    /\ Alive
    /\ link = "up" /\ ~peerGone /\ out # <<>>
    /\ in' = Append(in, Head(out))
    /\ out' = Tail(out)
    /\ UNCHANGED <<clientVars, clockVars, callbacks, link, hasConn, inbox, peerGone,
                   crash, progVars, answer>>

\* It closes the connection, crashes or restarts.
ServerCloses ==
    /\ Alive
    /\ link = "up" /\ ~peerGone
    /\ peerGone' = TRUE
    /\ UNCHANGED <<clientVars, clockVars, callbacks, link, hasConn, inbox, out, in,
                   crash, progVars, answer>>

-----------------------------------------------------------------------------
ProgramStep ==
    \/ Connect
    \/ Disconnect
    \/ \E r \in Reqs : IssueFromThread(r) \/ IssueInLoop(r)

LoopStep ==
    \/ RunSend
    \/ RunConnect
    \/ RunDisconnect
    \/ RetryConnect
    \/ RecvReply
    \/ \E r \in Reqs : RecvReplyAndIssue(r) \/ RecvReplyAndIssueFails(r)
    \/ DetectClose
    \/ ClientCron
    \/ StrayCron

NetworkStep ==
    \/ ConnectSucceeds
    \/ ConnectSucceedsAndBreaks
    \/ \E refused \in BOOLEAN : ConnectFails(refused) \/ ConnectFailsInCallback(refused)
    \/ RecvGarbage
    \/ ServerReplies
    \/ ServerCloses
    \/ Tick

Next == ProgramStep \/ LoopStep \/ NetworkStep

Spec == Init /\ [][Next]_vars

\* The loop keeps serving its queue, timers and sockets; time passes; an attempt to
\* connect ends (Connector arms a timeout for it).
Fairness ==
    /\ WF_vars(RunSend) /\ WF_vars(RunConnect) /\ WF_vars(RunDisconnect)
    /\ WF_vars(RetryConnect) /\ WF_vars(RecvReply) /\ WF_vars(DetectClose)
    /\ WF_vars(ClientCron) /\ WF_vars(Tick)
    /\ WF_vars(ConnectSucceeds \/ ConnectSucceedsAndBreaks
                  \/ \E refused \in BOOLEAN : ConnectFails(refused))

FairSpec == Spec /\ Fairness

\* With a server that is reached if it is tried again and again, and answers what it
\* receives.
LiveSpec == FairSpec /\ SF_vars(ConnectSucceeds) /\ WF_vars(ServerReplies)

-----------------------------------------------------------------------------
(* Correctness *)

\* A callback is only ever given the reply to its own command: no reply is handed
\* to another command's callback, whatever happened to the connection.
ResponseMatches == \A r \in Reqs : answer[r] \in Commands => answer[r] = r

\* No command's callback is called twice (clearCallbacks, onRecvResponse and the
\* immediate nullptr of sendCommandInLoop never both reach it).
AnsweredOnce ==
    [][\A r \in Reqs : answer[r] \notin Pending => answer'[r] = answer[r]]_vars

\* The client never dereferences a null codec_ or connection and no runtimeAssert
\* of its own fails.
NoCrash == crash = "none"

\* While the connection is open, the callbacks that wait are exactly the commands
\* whose replies are still to be read, in order.
InLockstep == link = "up" => callbacks = in \o out

\* onRecvResponse's runtimeAssert(!callbacks_.empty()) holds however the program and
\* the network behave: there are never more replies to come on an open connection
\* than callbacks to give them to.
EveryReplyExpected == link = "up" => Len(in) + Len(out) <= Len(callbacks)

\* What a connection leaves behind stands before everything later.  While one is open,
\* the last entries of callbacks_ are the commands whose replies are still to come, in
\* order: each reply goes to the same number of places too far ahead, whatever was
\* cleared, dropped or issued in between.  While none is, no AUTH waits, and of a hello
\* whose first write failed under onConnected() at most the SETNAME does, first.
LeftoversComeFirst ==
    LET wire == in \o out
        left == Len(callbacks) - Len(wire)
    IN  IF link = "up"
        THEN left >= 0 /\ \A i \in DOMAIN wire : callbacks[left + i] = wire[i]
        ELSE \A i \in DOMAIN callbacks : callbacks[i] # Auth /\ (callbacks[i] = Name => i = 1)

\* A command handed to sendCommandInLoop is not forgotten while it waits: its
\* callback is queued, or its functor is.
WaitingIsHeld ==
    Alive => \A r \in Reqs : answer[r] = "waiting" =>
        \/ \E i \in DOMAIN callbacks : callbacks[i] = r
        \/ \E i \in DOMAIN inbox : inbox[i] = r

\* Every command that was issued gets an answer: its reply or nullptr.
EveryCommandAnswered ==
    \A r \in Reqs : answer[r] = "waiting" ~> answer[r] \notin Pending

\* The future of connect() is fulfilled, or the client was disconnected meanwhile.
ConnectResolves ==
    \A n \in 1..MaxConnects : connects = n ~> (future[n] # "pending" \/ ~tcp)

\* A client told to reconnect by itself gets its connection back.
ReconnectsByItself == (tcp /\ link # "up") ~> (link = "up" \/ ~tcp)
=============================================================================
