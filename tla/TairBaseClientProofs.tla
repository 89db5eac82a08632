------------------------ MODULE TairBaseClientProofs ------------------------
(***************************************************************************)
(* What the client session keeps for every set of commands, number of      *)
(* connections and configuration: types, the assertion of onRecvResponse,  *)
(* and, for programs that issue commands on the loop's thread without a    *)
(* password, that every reply reaches the callback of its own command.     *)
(***************************************************************************)
EXTENDS TairBaseClient, SequenceTheorems, TLAPS

\* The greeting of a fresh connection is a sequence of one or two commands.
LEMMA HelloType == Hello \in Seq(Commands)
<1>1. Auth \in Commands /\ Name \in Commands
  BY DEF Commands
<1>2. <<Auth, Name>> \in Seq(Commands) /\ <<Name>> \in Seq(Commands)
  BY <1>1
<1> QED BY <1>2, Zenon DEF Hello

\* What the callbacks have been given after clearCallbacks(), one by one: those of cbs
\* nullptr, and so have those of commands issued meanwhile.
LEMMA ClearedAt ==
    ASSUME NEW cbs, answer' \in Cleared(cbs), NEW r \in Reqs
    PROVE  IF \E i \in DOMAIN cbs : cbs[i] = r
           THEN answer'[r] = "null"
           ELSE answer'[r] = answer[r] \/ (answer[r] = "unissued" /\ answer'[r] = "null")
<1>1. PICK more \in SUBSET IssuedMeanwhile(cbs) :
        answer' = [x \in Reqs |-> IF x \in more THEN "null" ELSE Nulled(cbs)[x]]
  BY DEF Cleared
<1>2. answer'[r] = IF r \in more THEN "null" ELSE Nulled(cbs)[r]
  BY <1>1
<1>3. r \in more => answer[r] = "unissued"
  BY <1>1 DEF IssuedMeanwhile, MayIssue
<1>4. Nulled(cbs)[r] = IF \E i \in DOMAIN cbs : cbs[i] = r THEN "null" ELSE answer[r]
  BY DEF Nulled
<1> QED BY <1>2, <1>3, <1>4

\* Null packets are answers.
LEMMA ClearedType ==
    ASSUME DataOK, NEW cbs, answer' \in Cleared(cbs)
    PROVE  answer' \in [Reqs -> Answers]
<1>1. answer \in [Reqs -> Answers] /\ "null" \in Answers
  BY DEF DataOK, Answers
<1>2. PICK f : answer' = [x \in Reqs |-> f[x]]
  <2>1. PICK more \in SUBSET IssuedMeanwhile(cbs) :
          answer' = [x \in Reqs |-> IF x \in more THEN "null" ELSE Nulled(cbs)[x]]
    BY DEF Cleared
  <2>2. answer' = [x \in Reqs |-> answer'[x]]
    BY <2>1
  <2> QED BY <2>2
<1>3. \A r \in Reqs : answer'[r] \in Answers
  BY <1>1, ClearedAt
<1> QED BY <1>2, <1>3

\* Setting the promise leaves it of its type.
LEMMA ResolveType ==
    ASSUME DataOK, NEW res \in {"ok", "error"}, Resolve(res)
    PROVE  /\ future' \in [1..MaxConnects -> {"pending", "ok", "error"}]
           /\ promise' \in 0..MaxConnects
BY UseAssumption DEF DataOK, Resolve

\* onDisconnected() leaves answers and promises of their types.
LEMMA OnDisconnectedType ==
    ASSUME DataOK, NEW cbs, OnDisconnected(cbs)
    PROVE  /\ answer' \in [Reqs -> Answers]
           /\ future' \in [1..MaxConnects -> {"pending", "ok", "error"}]
           /\ promise' \in 0..MaxConnects
BY ClearedType, ResolveType DEF OnDisconnected

\* The clock stays within its bound.
LEMMA ClockType ==
    ASSUME DataOK, Sent \/ Received \/ UNCHANGED clockVars \/ \E cbs : SentMeanwhile(cbs)
    PROVE  sendAge' \in 0..Interval
<1>1. Sent \/ Received \/ UNCHANGED clockVars
  BY Zenon DEF SentMeanwhile
<1> QED BY <1>1, UseAssumption DEF DataOK, Sent, Received, clockVars

\* A closed wire is a wire.
LEMMA WireClosedType ==
    ASSUME WireClosed
    PROVE  out' \in Seq(Commands) /\ in' \in Seq(Commands)
BY DEF WireClosed

\* The link after a close is a link.
LEMMA LinkAfterCloseType == LinkAfterClose \in Links
BY DEF LinkAfterClose, Links

\* A callback crashes the process while it is given nullptr.
CallbackCrashes == \E refused \in BOOLEAN : ConnectFailsInCallback(refused)

\* The start of the program.
LEMMA DataInit == Init => DataOK
BY UseAssumption DEF Init, DataOK, Links, Crashes, Answers, Pending

\* A connection that dies leaves every variable of its type.
LEMMA DieType ==
    ASSUME DataOK, NEW how \in Crashes, Die(how)
    PROVE  DataOK'
BY DEF DataOK, Die, clientVars, clockVars, netVars, progVars

\* sendCommandInLoop in all its outcomes.
LEMMA SendType ==
    ASSUME DataOK, NEW r \in Reqs, NEW q \in Seq(Reqs \cup {"connect", "disconnect"}),
           SendCommandInLoop(r, q)
    PROVE  DataOK'
<1>1. r \in Commands /\ "waiting" \in Answers /\ "null" \in Answers
  BY DEF Commands, Answers, Pending
<1>2. CASE SendUnconnected(r, q)
  <2>1. answer' \in [Reqs -> Answers]
    BY <1>2, ClearedType DEF SendUnconnected
  <2> QED
    BY <1>2, <2>1 DEF DataOK, SendUnconnected, clientVars, clockVars, netVars, progVars
<1>3. CASE SendNoCodec(r, q)
  BY <1>3, DieType DEF SendNoCodec, Crashes
<1>4. CASE SendNoConnection(r, q)
  BY <1>4, DieType DEF SendNoConnection, Crashes
<1>5. CASE SendDropped(r, q)
  BY <1>1, <1>5, ClockType DEF DataOK, SendDropped, clientVars, netVars, progVars
<1>6. CASE SendWritten(r, q)
  BY <1>1, <1>6, ClockType DEF DataOK, SendWritten, clientVars, progVars
<1>7. CASE SendFails(r, q)
  <2>1. /\ answer' \in [Reqs -> Answers]
        /\ future' \in [1..MaxConnects -> {"pending", "ok", "error"}]
        /\ promise' \in 0..MaxConnects
    BY <1>7, OnDisconnectedType DEF SendFails
  <2> QED
    BY <1>7, <2>1, ClockType, WireClosedType, LinkAfterCloseType DEF DataOK, SendFails
<1> QED BY <1>2, <1>3, <1>4, <1>5, <1>6, <1>7 DEF SendCommandInLoop

\* So does one that is replaced.
LEMMA ReplaceType ==
    ASSUME DataOK, ReplaceClient,
           SentMeanwhile(callbacks) \/ UNCHANGED clockVars,
           UNCHANGED <<codec, strayTimer, inbox, crash, connects>>
    PROVE  DataOK'
<1>0. sendAge' \in 0..Interval
  BY ClockType
<1>1. CASE link = "up"
  <2>1. /\ answer' \in [Reqs -> Answers]
        /\ future' \in [1..MaxConnects -> {"pending", "ok", "error"}]
        /\ promise' \in 0..MaxConnects
    BY <1>1, OnDisconnectedType DEF ReplaceClient
  <2> QED
    BY <1>0, <1>1, <2>1, WireClosedType DEF DataOK, ReplaceClient, Links
<1>2. CASE link # "up"
  <2>1. answer' \in [Reqs -> Answers]
    BY <1>2, ClearedType DEF ReplaceClient
  <2> QED BY <1>0, <1>2, <2>1 DEF DataOK, ReplaceClient, netVars, Links
<1> QED BY <1>1, <1>2

\* Every step keeps the types.
LEMMA DataStep == DataOK /\ [Next]_vars => DataOK'
<1> SUFFICES ASSUME DataOK, [Next]_vars PROVE DataOK'
  OBVIOUS
<1> USE UseAssumption
<1>1. CASE Connect
  BY <1>1 DEF DataOK, Connect, clockVars, netVars, Links
<1>2. CASE Disconnect
  BY <1>2 DEF DataOK, Disconnect, clientVars, clockVars, netVars, progVars
<1>3. ASSUME NEW r \in Reqs, IssueFromThread(r) PROVE DataOK'
  BY <1>3 DEF DataOK, IssueFromThread, clientVars, clockVars, netVars, progVars,
              Answers, Pending
<1>4. ASSUME NEW r \in Reqs, IssueInLoop(r) PROVE DataOK'
  BY <1>4, SendType DEF IssueInLoop, DataOK
<1>5. CASE RunSend
  BY <1>5, SendType, HeadTailProperties DEF RunSend, DataOK
<1>6. CASE RunConnect
  BY <1>6, HeadTailProperties DEF DataOK, RunConnect, clientVars, clockVars, netVars, progVars, Links
<1>7. CASE RunDisconnect
  <2>1. inbox' \in Seq(Reqs \cup {"connect", "disconnect"})
    BY <1>7, HeadTailProperties DEF RunDisconnect, DataOK
  <2>2. CASE link = "up"
    <3>1. /\ answer' \in [Reqs -> Answers]
          /\ future' \in [1..MaxConnects -> {"pending", "ok", "error"}]
          /\ promise' \in 0..MaxConnects
      BY <1>7, <2>2, OnDisconnectedType DEF RunDisconnect
    <3>2. sendAge' \in 0..Interval
      BY <1>7, <2>2, ClockType DEF RunDisconnect
    <3> QED
      BY <1>7, <2>1, <2>2, <3>1, <3>2, WireClosedType DEF DataOK, RunDisconnect, Links
  <2>3. CASE link # "up"
    BY <1>7, <2>1, <2>3 DEF DataOK, RunDisconnect, clockVars, netVars, Links
  <2> QED BY <2>2, <2>3
<1>8. CASE RetryConnect
  BY <1>8 DEF DataOK, RetryConnect, clientVars, clockVars, netVars, progVars, Links
<1>9. CASE RecvReply
  <2>1. /\ in' \in Seq(Commands) /\ callbacks' \in Seq(Commands)
        /\ Head(in) \in Answers
    BY <1>9, HeadTailProperties DEF RecvReply, DataOK, Answers
  <2>2. answer' \in [Reqs -> Answers]
    BY <1>9, <2>1 DEF RecvReply, DataOK
  <2>3. /\ future' \in [1..MaxConnects -> {"pending", "ok", "error"}]
        /\ promise' \in 0..MaxConnects
    BY <1>9, ResolveType DEF RecvReply, DataOK
  <2> QED
    BY <1>9, <2>1, <2>2, <2>3, ClockType DEF DataOK, RecvReply
<1>10. ASSUME NEW r \in Reqs, RecvReplyAndIssue(r) PROVE DataOK'
  <2>1. /\ in' \in Seq(Commands) /\ Tail(callbacks) \in Seq(Commands)
        /\ Head(in) \in Answers /\ r \in Commands /\ "waiting" \in Answers
    BY <1>10, HeadTailProperties DEF RecvReplyAndIssue, DataOK, Answers, Commands, Pending
  <2>2. answer' \in [Reqs -> Answers]
    BY <1>10, <2>1 DEF RecvReplyAndIssue, DataOK
  <2>3. callbacks' \in Seq(Commands) /\ out' \in Seq(Commands)
    BY <1>10, <2>1 DEF RecvReplyAndIssue, DataOK
  <2>4. sendAge' \in 0..Interval
    BY <1>10, ClockType DEF RecvReplyAndIssue
  <2> QED
    BY <1>10, <2>1, <2>2, <2>3, <2>4 DEF DataOK, RecvReplyAndIssue, clientVars, progVars
<1>11. ASSUME NEW r \in Reqs, RecvReplyAndIssueFails(r) PROVE DataOK'
  BY <1>11, DieType DEF RecvReplyAndIssueFails, Crashes
<1>12. CASE DetectClose
  <2>1. /\ answer' \in [Reqs -> Answers]
        /\ future' \in [1..MaxConnects -> {"pending", "ok", "error"}]
        /\ promise' \in 0..MaxConnects
    BY <1>12, OnDisconnectedType DEF DetectClose
  <2>2. sendAge' \in 0..Interval
    BY <1>12, ClockType DEF DetectClose
  <2> QED
    BY <1>12, <2>1, <2>2, WireClosedType, LinkAfterCloseType DEF DataOK, DetectClose
<1>13. CASE ClientCron \/ RecvGarbage
  BY <1>13, ReplaceType DEF ClientCron, RecvGarbage
<1>14. CASE StrayCron
  BY <1>14, DieType DEF StrayCron, Crashes
<1>22. ASSUME NEW refused \in BOOLEAN, ConnectFailsInCallback(refused) PROVE DataOK'
  BY <1>22, DieType DEF ConnectFailsInCallback, Crashes
<1>15. CASE ConnectSucceeds
  <2>1. callbacks' \in Seq(Commands) /\ out' \in Seq(Commands) /\ in' \in Seq(Commands)
    BY <1>15, HelloType DEF ConnectSucceeds, DataOK
  <2>2. /\ future' \in [1..MaxConnects -> {"pending", "ok", "error"}]
        /\ promise' \in 0..MaxConnects
    BY <1>15, ResolveType DEF ConnectSucceeds, DataOK
  <2> QED
    BY <1>15, <2>1, <2>2, ClockType DEF DataOK, ConnectSucceeds, Links
<1>16. CASE ConnectSucceedsAndBreaks
  <2>1. /\ answer' \in [Reqs -> Answers]
        /\ future' \in [1..MaxConnects -> {"pending", "ok", "error"}]
        /\ promise' \in 0..MaxConnects
    BY <1>16, OnDisconnectedType, ClearedType, ResolveType DEF ConnectSucceedsAndBreaks
  <2>2. callbacks' \in Seq(Commands)
    <3>1. <<Name>> \in Seq(Commands) /\ <<>> \in Seq(Commands)
      <4>1. Name \in Commands
        BY DEF Commands
      <4> QED BY <4>1
    <3> QED BY <1>16, <3>1, Zenon DEF ConnectSucceedsAndBreaks
  <2> QED
    BY <1>16, <2>1, <2>2, ClockType, WireClosedType, LinkAfterCloseType
       DEF DataOK, ConnectSucceedsAndBreaks
<1>17. ASSUME NEW refused \in BOOLEAN, ConnectFails(refused) PROVE DataOK'
  <2>1. CASE refused \/ ~AutoReconnect
    <3>1. /\ answer' \in [Reqs -> Answers]
          /\ future' \in [1..MaxConnects -> {"pending", "ok", "error"}]
          /\ promise' \in 0..MaxConnects
      BY <1>17, <2>1, OnDisconnectedType DEF ConnectFails
    <3>2. callbacks' = <<>>
      BY <1>17, <2>1, Zenon DEF ConnectFails
    <3>3. sendAge' \in 0..Interval
      BY <1>17, <2>1, ClockType DEF ConnectFails
    <3> QED
      BY <1>17, <3>1, <3>2, <3>3 DEF DataOK, ConnectFails, netVars, Links
  <2>2. CASE ~(refused \/ ~AutoReconnect)
    BY <1>17, <2>2 DEF DataOK, ConnectFails, clockVars, netVars, Links
  <2> QED BY <2>1, <2>2
<1>18. CASE ServerReplies
  BY <1>18, HeadTailProperties DEF DataOK, ServerReplies, clientVars, clockVars, progVars
<1>19. CASE ServerCloses
  BY <1>19 DEF DataOK, ServerCloses, clientVars, clockVars, progVars
<1>20. CASE Tick
  BY <1>20 DEF DataOK, Tick, clientVars, netVars, progVars
<1>21. CASE UNCHANGED vars
  BY <1>21 DEF DataOK, vars
<1> QED
  BY <1>1, <1>2, <1>3, <1>4, <1>5, <1>6, <1>7, <1>8, <1>9, <1>10, <1>11, <1>12, <1>13,
     <1>14, <1>15, <1>16, <1>17, <1>18, <1>19, <1>20, <1>21, <1>22
     DEF Next, ProgramStep, LoopStep, NetworkStep

\* The Boolean members keep their type.
LEMMA FlagsStep == FlagsOK /\ [Next]_vars => FlagsOK'
<1> SUFFICES ASSUME FlagsOK, [Next]_vars PROVE FlagsOK'
  OBVIOUS
<1> USE DEF FlagsOK, clientVars, clockVars, netVars
<1>0. \A cbs : SentMeanwhile(cbs) => sendIsLast' \in BOOLEAN
  BY Zenon DEF SentMeanwhile, Sent
<1>1. CASE Connect
  BY <1>1 DEF Connect
<1>2. CASE Disconnect
  BY <1>2 DEF Disconnect
<1>3. ASSUME NEW r \in Reqs, IssueFromThread(r) PROVE FlagsOK'
  BY <1>3 DEF IssueFromThread
<1>4. ASSUME NEW r, NEW q, SendCommandInLoop(r, q) PROVE FlagsOK'
  <2>1. CASE SendUnconnected(r, q) \/ SendNoCodec(r, q) \/ SendNoConnection(r, q)
    BY <2>1, Zenon DEF SendUnconnected, SendNoCodec, SendNoConnection, Die
  <2>2. CASE SendDropped(r, q) \/ SendWritten(r, q)
    BY <2>2, Zenon DEF SendDropped, SendWritten, Sent
  <2>3. CASE SendFails(r, q)
    BY <2>3, Zenon DEF SendFails, Sent, WireClosed
  <2> QED BY <1>4, <2>1, <2>2, <2>3 DEF SendCommandInLoop
<1>5. CASE RunSend \/ \E r \in Reqs : IssueInLoop(r)
  BY <1>4, <1>5 DEF RunSend, IssueInLoop
<1>6. CASE RunConnect
  BY <1>6 DEF RunConnect
<1>7. CASE RunDisconnect
  BY <1>0, <1>7, Zenon DEF RunDisconnect, WireClosed
<1>8. CASE RetryConnect
  BY <1>8 DEF RetryConnect
<1>9. CASE RecvReply
  BY <1>9, Zenon DEF RecvReply, Received
<1>10. ASSUME NEW r \in Reqs, RecvReplyAndIssue(r) PROVE FlagsOK'
  BY <1>10, Zenon DEF RecvReplyAndIssue, Sent
<1>11. CASE StrayCron \/ CallbackCrashes \/ \E r \in Reqs : RecvReplyAndIssueFails(r)
  BY <1>11, Zenon DEF RecvReplyAndIssueFails, StrayCron, CallbackCrashes,
     ConnectFailsInCallback, Die
<1>12. CASE DetectClose
  BY <1>0, <1>12, Zenon DEF DetectClose, WireClosed
<1>13. CASE ClientCron \/ RecvGarbage
  BY <1>0, <1>13, Zenon DEF ClientCron, RecvGarbage, ReplaceClient, WireClosed
<1>14. CASE ConnectSucceeds
  BY <1>14, Zenon DEF ConnectSucceeds, StartTimer, Sent
<1>15. CASE ConnectSucceedsAndBreaks
  <2>1. Sent /\ WireClosed /\ timer' = (Interval > 0)
    BY <1>15, Zenon DEF ConnectSucceedsAndBreaks
  <2>2. sendIsLast' \in BOOLEAN
    BY <2>1 DEF Sent
  <2>3. peerGone' \in BOOLEAN
    BY <2>1 DEF WireClosed
  <2>4. timer' \in BOOLEAN
    <3>1. (Interval > 0) \in BOOLEAN
      BY UseAssumption
    <3> QED BY <2>1, <3>1, Zenon
  <2>5. hasConn' = TRUE /\ codec' = TRUE /\ UNCHANGED <<tcp, strayTimer>>
    BY <1>15, Zenon DEF ConnectSucceedsAndBreaks
  <2> QED BY <2>2, <2>3, <2>4, <2>5
<1>16. ASSUME NEW refused \in BOOLEAN, ConnectFails(refused) PROVE FlagsOK'
  BY <1>0, <1>16, Zenon DEF ConnectFails
<1>17. CASE ServerReplies \/ ServerCloses
  BY <1>17, Zenon DEF ServerReplies, ServerCloses
<1>18. CASE Tick
  BY <1>18 DEF Tick
<1>19. CASE UNCHANGED vars
  BY <1>19 DEF vars
<1> QED
  BY <1>1, <1>2, <1>3, <1>5, <1>6, <1>7, <1>8, <1>9, <1>10, <1>11, <1>12, <1>13, <1>14,
     <1>15, <1>16, <1>17, <1>18, <1>19
     DEF Next, ProgramStep, LoopStep, NetworkStep, CallbackCrashes

\* Every variable of the client session keeps its type, for any set of commands and
\* any configuration (all handlers of TairBaseClient, TcpClient, Connector).
THEOREM ClientTypeCorrect == Spec => []TypeOK
<1>1. Init => TypeOK
  BY DataInit, Zenon DEF TypeOK, Init, FlagsOK
<1>2. TypeOK /\ [Next]_vars => TypeOK'
  BY DataStep, FlagsStep DEF TypeOK
<1> QED BY <1>1, <1>2, PTL DEF Spec

-----------------------------------------------------------------------------
\* Lengths of the queues after the steps that change them.
LEMMA QueueLengths ==
    /\ \A s \in Seq(Commands) : \A e \in Commands : Len(Append(s, e)) = Len(s) + 1
    /\ \A s \in Seq(Commands) : s # <<>> => Len(Tail(s)) = Len(s) - 1
    /\ \A s, t \in Seq(Commands) : Len(s \o t) = Len(s) + Len(t)
    /\ \A s \in Seq(Commands) : Len(s) \in Nat
BY HeadTailProperties

\* A close, a failed attempt or a replaced client leaves the connection not open.
LEMMA NotUp == LinkAfterClose # "up"
BY DEF LinkAfterClose

\* A command sent adds no reply to come without its callback.
LEMMA ExpectedSend ==
    ASSUME DataOK, EveryReplyExpected, NEW r \in Reqs, NEW q, SendCommandInLoop(r, q)
    PROVE  EveryReplyExpected'
<1> USE DEF EveryReplyExpected
<1>1. CASE SendUnconnected(r, q) \/ SendNoCodec(r, q) \/ SendNoConnection(r, q)
  BY <1>1 DEF SendUnconnected, SendNoCodec, SendNoConnection, Die, netVars
<1>2. CASE SendDropped(r, q)
  BY <1>2 DEF SendDropped
<1>3. CASE SendWritten(r, q)
  BY <1>3, QueueLengths DEF SendWritten, DataOK, Commands
<1>4. CASE SendFails(r, q)
  BY <1>4, NotUp DEF SendFails
<1> QED BY <1>1, <1>2, <1>3, <1>4 DEF SendCommandInLoop

\* No step leaves more replies to come than callbacks.
LEMMA ExpectedStep == DataOK /\ EveryReplyExpected /\ [Next]_vars => EveryReplyExpected'
<1> SUFFICES ASSUME DataOK, EveryReplyExpected, [Next]_vars PROVE EveryReplyExpected'
  OBVIOUS
<1> USE DEF EveryReplyExpected
<1>1. CASE Connect \/ Disconnect \/ \E r \in Reqs : IssueFromThread(r)
  BY <1>1 DEF Connect, Disconnect, IssueFromThread, netVars
<1>2. CASE RunSend \/ \E r \in Reqs : IssueInLoop(r)
  BY <1>2, ExpectedSend DEF RunSend, IssueInLoop
<1>3. CASE RunConnect \/ RunDisconnect \/ RetryConnect
  BY <1>3 DEF netVars, RunConnect, RunDisconnect, RetryConnect
<1>4. CASE RecvReply
  BY <1>4, QueueLengths DEF RecvReply, DataOK
<1>5. ASSUME NEW r \in Reqs, RecvReplyAndIssue(r) PROVE EveryReplyExpected'
  <2>1. r \in Commands /\ Tail(callbacks) \in Seq(Commands)
    BY <1>5, HeadTailProperties DEF Commands, DataOK, RecvReplyAndIssue
  <2>2. Len(callbacks') = Len(callbacks) /\ Len(in') = Len(in) - 1 /\ Len(out') = Len(out) + 1
    BY <1>5, <2>1, QueueLengths DEF RecvReplyAndIssue, DataOK
  <2> QED BY <1>5, <2>2, QueueLengths DEF RecvReplyAndIssue, DataOK
<1>6. CASE StrayCron \/ CallbackCrashes \/ \E r \in Reqs : RecvReplyAndIssueFails(r)
  BY <1>6 DEF StrayCron, CallbackCrashes, ConnectFailsInCallback, RecvReplyAndIssueFails, Die,
     netVars
<1>7. CASE DetectClose \/ ConnectSucceedsAndBreaks
  BY <1>7, NotUp DEF DetectClose, ConnectSucceedsAndBreaks
<1>8. CASE ClientCron \/ RecvGarbage
  BY <1>8 DEF ClientCron, RecvGarbage, ReplaceClient
<1>9. CASE ConnectSucceeds
  <2>1. Len(callbacks') = Len(callbacks) + Len(Hello)
    BY <1>9, HelloType, QueueLengths DEF ConnectSucceeds, DataOK
  <2> QED BY <1>9, <2>1, HelloType, QueueLengths DEF ConnectSucceeds, DataOK
<1>10. ASSUME NEW refused \in BOOLEAN, ConnectFails(refused) PROVE EveryReplyExpected'
  BY <1>10 DEF ConnectFails
<1>11. CASE ServerReplies
  BY <1>11, QueueLengths, HeadTailProperties DEF ServerReplies, DataOK
<1>12. CASE ServerCloses \/ Tick
  BY <1>12 DEF ServerCloses, Tick, netVars
<1>13. CASE UNCHANGED vars
  BY <1>13 DEF vars
<1> QED
  BY <1>1, <1>2, <1>3, <1>4, <1>5, <1>6, <1>7, <1>8, <1>9, <1>10, <1>11, <1>12, <1>13
     DEF Next, ProgramStep, LoopStep, NetworkStep, CallbackCrashes

\* The runtimeAssert(!callbacks_.empty()) of onRecvResponse never fails: whatever the
\* program, the options and the network do, there are at least as many callbacks as
\* replies to come.
THEOREM RepliesAreExpected == Spec => []EveryReplyExpected
<1>1. Init => DataOK /\ EveryReplyExpected
  BY DataInit DEF Init, EveryReplyExpected
<1>2. DataOK /\ EveryReplyExpected /\ [Next]_vars => (DataOK /\ EveryReplyExpected)'
  BY DataStep, ExpectedStep
<1> QED BY <1>1, <1>2, PTL DEF Spec

-----------------------------------------------------------------------------
\* How the wire, seen as in \o out, changes: a command is appended, a reply is taken
\* off, the server moves one from out to in.
LEMMA WireAppend ==
    ASSUME NEW S, NEW s \in Seq(S), NEW t \in Seq(S), NEW e \in S
    PROVE  Append(s \o t, e) = s \o Append(t, e)
OBVIOUS

\* The first packet of two queues one after the other.
LEMMA WireTake ==
    ASSUME NEW S, NEW s \in Seq(S), NEW t \in Seq(S), s # <<>>
    PROVE  Head(s \o t) = Head(s) /\ Tail(s \o t) = Tail(s) \o t /\ s \o t # <<>>
OBVIOUS

\* The server turns the first request into the last reply: together they stay the same.
LEMMA WireMove ==
    ASSUME NEW S, NEW s \in Seq(S), NEW t \in Seq(S), t # <<>>
    PROVE  Append(s, Head(t)) \o Tail(t) = s \o t
OBVIOUS

\* An open connection belongs to a tcp_client_: connect(), which only acts without
\* one, never orphans a connection with its callbacks.
UpHasClient == link = "up" => tcp

\* Sending needs, and keeps, a TcpClient.
LEMMA UpHasClientSend ==
    ASSUME UpHasClient, NEW r, NEW q, SendCommandInLoop(r, q)
    PROVE  UpHasClient'
<1>1. CASE SendUnconnected(r, q) \/ SendNoCodec(r, q) \/ SendNoConnection(r, q)
           \/ SendDropped(r, q) \/ SendWritten(r, q)
  <2>1. UNCHANGED <<tcp, link>>
    BY <1>1, Zenon DEF SendUnconnected, SendNoCodec, SendNoConnection, SendDropped,
       SendWritten, Die, clientVars
  <2> QED BY <2>1, Zenon DEF UpHasClient
<1>2. CASE SendFails(r, q)
  BY <1>2, NotUp, Zenon DEF SendFails, UpHasClient
<1> QED BY <1>1, <1>2 DEF SendCommandInLoop

\* A connection that is up belongs to a TcpClient, after every step.
LEMMA UpHasClientStep == UpHasClient /\ [Next]_vars => UpHasClient'
<1> SUFFICES ASSUME UpHasClient, [Next]_vars PROVE UpHasClient'
  OBVIOUS
<1>1. CASE Connect \/ RunDisconnect
  <2>1. link' = "idle"
    BY <1>1 DEF Connect, RunDisconnect
  <2> QED BY <2>1 DEF UpHasClient
<1>0. CASE RunConnect
  BY <1>0, Zenon DEF RunConnect, clientVars, UpHasClient
<1>2. CASE RetryConnect \/ ClientCron \/ RecvGarbage
  <2>1. link' = "connecting"
    BY <1>2 DEF RetryConnect, ClientCron, RecvGarbage, ReplaceClient
  <2> QED BY <2>1 DEF UpHasClient
<1>3. CASE RunSend \/ \E r \in Reqs : IssueInLoop(r)
  BY <1>3, UpHasClientSend DEF RunSend, IssueInLoop
<1>4. CASE DetectClose \/ ConnectSucceedsAndBreaks
  <2>1. link' # "up"
    BY <1>4, NotUp DEF DetectClose, ConnectSucceedsAndBreaks
  <2> QED BY <2>1 DEF UpHasClient
<1>5. CASE ConnectSucceeds
  BY <1>5, Zenon DEF ConnectSucceeds, UpHasClient
<1>6. ASSUME NEW refused \in BOOLEAN, ConnectFails(refused) PROVE UpHasClient'
  <2>1. link' # "up"
    BY <1>6 DEF ConnectFails
  <2> QED BY <2>1 DEF UpHasClient
<1>7. CASE \/ Disconnect \/ RecvReply \/ StrayCron \/ CallbackCrashes
           \/ ServerReplies \/ ServerCloses \/ Tick \/ UNCHANGED vars
           \/ \E r \in Reqs : \/ IssueFromThread(r) \/ RecvReplyAndIssue(r)
                             \/ RecvReplyAndIssueFails(r)
  <2>1. UNCHANGED <<tcp, link>>
    BY <1>7, Zenon DEF Disconnect, RecvReply, StrayCron, CallbackCrashes,
       ConnectFailsInCallback, ServerReplies, ServerCloses, Tick, vars, IssueFromThread,
       RecvReplyAndIssue, RecvReplyAndIssueFails, Die, clientVars
  <2> QED BY <2>1, Zenon DEF UpHasClient
<1> QED BY <1>0, <1>1, <1>2, <1>3, <1>4, <1>5, <1>6, <1>7
        DEF Next, ProgramStep, LoopStep, NetworkStep, CallbackCrashes

\* Commands come from the loop's thread, of a client without a password.
SafeUse == Contexts \subseteq {"loop", "callback"} /\ ~UsePassword

\* The strengthening of ResponseMatches: an open connection is in lockstep with
\* callbacks_, a closed one has no callbacks left for the next one to inherit, and no
\* command waits in the loop's queue.
PairingInv ==
    /\ DataOK
    /\ inbox \in Seq({"connect", "disconnect"})
    /\ link = "up" => callbacks = in \o out
    /\ link # "up" => callbacks = <<>>
    /\ UpHasClient
    /\ ResponseMatches

\* Answers that are not replies do not disturb ResponseMatches.
LEMMA TokensAreNoReplies ==
    "waiting" \notin Commands /\ "null" \notin Commands /\ "unissued" \notin Commands
BY TokenAssumption DEF Commands

\* Null packets answer the callbacks they are handed to.
LEMMA ClearedMatches ==
    ASSUME ResponseMatches, NEW cbs, answer' \in Cleared(cbs)
    PROVE  ResponseMatches'
BY TokensAreNoReplies, ClearedAt DEF ResponseMatches

\* Sending pairs the new request with the new callback.
LEMMA PairingSend ==
    ASSUME PairingInv, NEW r \in Reqs, link = "up", SendCommandInLoop(r, inbox)
    PROVE  /\ inbox' = inbox
           /\ link' = "up" => callbacks' = in' \o out'
           /\ link' # "up" => callbacks' = <<>>
           /\ ResponseMatches'
<1>1. CASE SendNoCodec(r, inbox) \/ SendNoConnection(r, inbox)
  BY <1>1 DEF SendNoCodec, SendNoConnection, Die, netVars, PairingInv, ResponseMatches
<1>2. CASE SendWritten(r, inbox)
  <2>1. callbacks' = in' \o out'
    <3>1. r \in Commands /\ in \in Seq(Commands) /\ out \in Seq(Commands)
      BY DEF PairingInv, DataOK, Commands
    <3>2. Append(in \o out, r) = in \o Append(out, r)
      BY <3>1
    <3> QED BY <1>2, <3>2 DEF SendWritten, PairingInv
  <2>2. ResponseMatches'
    BY <1>2, TokensAreNoReplies DEF SendWritten, PairingInv, DataOK, ResponseMatches
  <2> QED BY <1>2, <2>1, <2>2 DEF SendWritten
<1>3. CASE SendFails(r, inbox)
  BY <1>3, NotUp, ClearedMatches DEF SendFails, OnDisconnected, PairingInv
<1>4. ~SendUnconnected(r, inbox) /\ ~SendDropped(r, inbox)
  BY Zenon DEF SendUnconnected, SendDropped, PairingInv, UpHasClient
<1> QED BY <1>1, <1>2, <1>3, <1>4 DEF SendCommandInLoop

\* Every step of a program that keeps to SafeUse preserves the pairing.
LEMMA PairingStep ==
    ASSUME SafeUse, PairingInv, [Next]_vars
    PROVE  PairingInv'
<1>1. DataOK' /\ UpHasClient'
  BY DataStep, UpHasClientStep DEF PairingInv
<1> DEFINE Paired ==
      /\ inbox' \in Seq({"connect", "disconnect"})
      /\ link' = "up" => callbacks' = in' \o out'
      /\ link' # "up" => callbacks' = <<>>
      /\ ResponseMatches'
<1> SUFFICES Paired
  BY <1>1 DEF PairingInv
<1>2. CASE Connect \/ Disconnect
  <2>1. inbox' \in Seq({"connect", "disconnect"})
    BY <1>2 DEF Connect, Disconnect, PairingInv
  <2>2. CASE Connect
    <3>1. link # "up"
      BY <2>2, Zenon DEF Connect, PairingInv, UpHasClient
    <3> QED BY <2>1, <2>2, <3>1 DEF Connect, PairingInv, netVars, ResponseMatches
  <2>3. CASE Disconnect
    BY <2>1, <2>3 DEF Disconnect, PairingInv, netVars, ResponseMatches
  <2> QED BY <1>2, <2>2, <2>3
<1>3. \A r \in Reqs : ~IssueFromThread(r)
  BY DEF SafeUse, IssueFromThread
<1>4. ~RunSend
  <2>1. inbox # <<>> => Head(inbox) \in {"connect", "disconnect"}
    BY HeadTailProperties DEF PairingInv
  <2> QED BY <2>1, TokenAssumption DEF RunSend
<1>5. ASSUME NEW r \in Reqs, IssueInLoop(r) PROVE Paired
  BY <1>5, PairingSend DEF IssueInLoop, PairingInv
<1>6. CASE RunConnect
  BY <1>6, HeadTailProperties DEF netVars, RunConnect, PairingInv, ResponseMatches
<1>7. CASE RunDisconnect
  <2>1. inbox' \in Seq({"connect", "disconnect"})
    BY <1>7, HeadTailProperties DEF RunDisconnect, PairingInv
  <2>2. CASE link = "up"
    BY <1>7, <2>1, <2>2, ClearedMatches DEF RunDisconnect, OnDisconnected, PairingInv
  <2>3. CASE link # "up"
    BY <1>7, <2>1, <2>3 DEF RunDisconnect, PairingInv, ResponseMatches
  <2> QED BY <2>2, <2>3
<1>8. CASE RetryConnect
  BY <1>8 DEF RetryConnect, PairingInv, ResponseMatches
<1>9. CASE RecvReply
  <2>1. callbacks' = in' \o out' /\ Head(callbacks) = Head(in)
    <3>1. /\ in \in Seq(Commands) /\ out \in Seq(Commands) /\ in # <<>>
          /\ callbacks = in \o out
      BY <1>9 DEF RecvReply, PairingInv, DataOK
    <3>2. Head(callbacks) = Head(in) /\ Tail(callbacks) = Tail(in) \o out
      BY <3>1, WireTake
    <3> QED BY <1>9, <3>2 DEF RecvReply
  <2>2. ResponseMatches'
    BY <1>9, <2>1 DEF RecvReply, PairingInv, DataOK, ResponseMatches
  <2> QED BY <1>9, <2>1, <2>2 DEF RecvReply, PairingInv
<1>10. ASSUME NEW r \in Reqs, RecvReplyAndIssue(r) PROVE Paired
  <2>1. /\ Tail(callbacks) = in' \o out /\ Head(callbacks) = Head(in)
        /\ in' \in Seq(Commands) /\ r \in Commands
    <3>1. /\ in \in Seq(Commands) /\ out \in Seq(Commands) /\ in # <<>>
          /\ callbacks = in \o out /\ r \in Commands
      BY <1>10 DEF RecvReplyAndIssue, PairingInv, DataOK, Commands
    <3>2. Head(callbacks) = Head(in) /\ Tail(callbacks) = Tail(in) \o out
      BY <3>1, WireTake
    <3>3. Tail(in) \in Seq(Commands)
      BY <3>1, HeadTailProperties
    <3> QED BY <1>10, <3>1, <3>2, <3>3 DEF RecvReplyAndIssue
  <2>2. callbacks' = in' \o out'
    <3>1. out \in Seq(Commands)
      BY DEF PairingInv, DataOK
    <3>2. Append(in' \o out, r) = in' \o Append(out, r)
      BY <2>1, <3>1, WireAppend, SMTT(30)
    <3> QED BY <1>10, <2>1, <3>2 DEF RecvReplyAndIssue
  <2>3. ResponseMatches'
    BY <1>10, <2>1, TokensAreNoReplies
       DEF RecvReplyAndIssue, PairingInv, DataOK, ResponseMatches
  <2> QED BY <1>10, <2>2, <2>3 DEF RecvReplyAndIssue, PairingInv
<1>11. CASE StrayCron \/ CallbackCrashes \/ \E r \in Reqs : RecvReplyAndIssueFails(r)
  BY <1>11 DEF StrayCron, CallbackCrashes, ConnectFailsInCallback, RecvReplyAndIssueFails, Die,
     netVars, PairingInv, ResponseMatches
<1>12. CASE DetectClose
  BY <1>12, NotUp, ClearedMatches DEF DetectClose, OnDisconnected, PairingInv
<1>13. CASE ClientCron \/ RecvGarbage
  <2>1. ReplaceClient /\ UNCHANGED inbox
    BY <1>13 DEF ClientCron, RecvGarbage
  <2>2. CASE link = "up"
    BY <2>1, <2>2, ClearedMatches DEF ReplaceClient, OnDisconnected, PairingInv
  <2>3. CASE link # "up"
    BY <2>1, <2>3, ClearedMatches DEF ReplaceClient, PairingInv
  <2> QED BY <2>2, <2>3
<1>14. CASE ConnectSucceeds
  <2>1. callbacks = <<>>
    BY <1>14 DEF ConnectSucceeds, PairingInv
  <2>2. callbacks' = in' \o out'
    BY <1>14, <2>1, HelloType DEF ConnectSucceeds
  <2> QED BY <1>14, <2>2 DEF ConnectSucceeds, PairingInv, ResponseMatches
<1>15. CASE ConnectSucceedsAndBreaks
  <2>1. callbacks' = <<>> /\ answer' \in Cleared(callbacks)
    BY <1>15, Zenon DEF ConnectSucceedsAndBreaks, SafeUse
  <2> QED BY <1>15, <2>1, NotUp, ClearedMatches DEF ConnectSucceedsAndBreaks, PairingInv
<1>16. ASSUME NEW refused \in BOOLEAN, ConnectFails(refused) PROVE Paired
  <2>1. callbacks = <<>> /\ link' # "up" /\ UNCHANGED inbox
    BY <1>16 DEF ConnectFails, PairingInv
  <2>2. CASE refused \/ ~AutoReconnect
    <3>1. callbacks' = <<>> /\ answer' \in Cleared(callbacks)
      BY <1>16, <2>2, Zenon DEF ConnectFails, OnDisconnected
    <3> QED BY <2>1, <3>1, ClearedMatches DEF PairingInv
  <2>3. CASE ~(refused \/ ~AutoReconnect)
    BY <1>16, <2>1, <2>3 DEF ConnectFails, PairingInv, ResponseMatches
  <2> QED BY <2>2, <2>3
<1>17. CASE ServerReplies
  <2>1. in' \o out' = in \o out
    BY <1>17, WireMove DEF ServerReplies, PairingInv, DataOK
  <2> QED BY <1>17, <2>1 DEF ServerReplies, PairingInv, ResponseMatches
<1>18. CASE ServerCloses \/ Tick
  BY <1>18 DEF ServerCloses, Tick, netVars, PairingInv, ResponseMatches
<1>19. CASE UNCHANGED vars
  BY <1>19 DEF vars, PairingInv, ResponseMatches
<1> QED
  BY <1>2, <1>3, <1>4, <1>5, <1>6, <1>7, <1>8, <1>9, <1>10, <1>11, <1>12, <1>13, <1>14,
     <1>15, <1>16, <1>17, <1>18, <1>19
     DEF Next, ProgramStep, LoopStep, NetworkStep, CallbackCrashes

\* The main promise of the pipeline: if commands are issued on the loop's thread, while
\* connected or inside callbacks, by a client without a password, every callback that
\* is given a reply is given its own, over any number of connections, closes, failed
\* writes, decoding errors and timer reconnects (TairBaseClient::onRecvResponse).
THEOREM RepliesReachTheirCommands ==
    ASSUME SafeUse
    PROVE  Spec => []ResponseMatches
<1>1. Init => PairingInv
  BY DataInit, TokensAreNoReplies DEF Init, PairingInv, UpHasClient, ResponseMatches
<1>2. PairingInv /\ [Next]_vars => PairingInv'
  BY PairingStep
<1>3. PairingInv => ResponseMatches
  BY DEF PairingInv
<1> QED BY <1>1, <1>2, <1>3, PTL DEF Spec

\* Under the same use callbacks_ and the wire stay in lockstep.
THEOREM ClientInLockstep ==
    ASSUME SafeUse
    PROVE  Spec => []InLockstep
<1>1. Init => PairingInv
  BY DataInit, TokensAreNoReplies DEF Init, PairingInv, UpHasClient, ResponseMatches
<1>2. PairingInv /\ [Next]_vars => PairingInv'
  BY PairingStep
<1>3. PairingInv => InLockstep
  BY DEF PairingInv, InLockstep
<1> QED BY <1>1, <1>2, <1>3, PTL DEF Spec
-----------------------------------------------------------------------------
\* Sequences as what they hold.
Holds(s, r) == \E i \in DOMAIN s : s[i] = r

\* No command of the program is twice in s.
OnceIn(s) == \A i, j \in DOMAIN s : s[i] \in Reqs /\ s[i] = s[j] => i = j

\* What the steps of a queue do to its contents.
LEMMA HoldsAppend ==
    ASSUME NEW S, NEW s \in Seq(S), NEW e \in S, NEW r
    PROVE  Holds(Append(s, e), r) <=> Holds(s, r) \/ r = e
<1>1. /\ Len(s) \in Nat /\ DOMAIN s = 1..Len(s) /\ DOMAIN Append(s, e) = 1..(Len(s) + 1)
      /\ \A i \in 1..Len(s) : Append(s, e)[i] = s[i]
      /\ Append(s, e)[Len(s) + 1] = e
  OBVIOUS
<1>2. \A i \in 1..(Len(s) + 1) : i \in 1..Len(s) \/ i = Len(s) + 1
  BY <1>1
<1>3. \A i \in 1..Len(s) : i \in 1..(Len(s) + 1)
  BY <1>1
<1>4. Len(s) + 1 \in 1..(Len(s) + 1)
  BY <1>1
<1> QED BY <1>1, <1>2, <1>3, <1>4, Zenon DEF Holds

\* A queue holds what its head and its rest hold.
LEMMA HoldsHeadTail ==
    ASSUME NEW S, NEW s \in Seq(S), s # <<>>, NEW r
    PROVE  Holds(s, r) <=> r = Head(s) \/ Holds(Tail(s), r)
<1>1. Len(s) \in Nat \ {0} /\ DOMAIN s = 1..Len(s) /\ DOMAIN Tail(s) = 1..(Len(s) - 1)
  OBVIOUS
<1>2. Head(s) = s[1] /\ \A i \in 1..(Len(s) - 1) : Tail(s)[i] = s[i + 1]
  OBVIOUS
<1>3. ASSUME Holds(s, r) PROVE r = Head(s) \/ Holds(Tail(s), r)
  <2>1. PICK i \in 1..Len(s) : s[i] = r
    BY <1>1, <1>3 DEF Holds
  <2>2. CASE i = 1
    BY <1>2, <2>1, <2>2
  <2>3. CASE i # 1
    <3>1. i - 1 \in 1..(Len(s) - 1) /\ Tail(s)[i - 1] = r
      BY <1>1, <1>2, <2>1, <2>3
    <3> QED BY <1>1, <3>1 DEF Holds
  <2> QED BY <2>2, <2>3
<1>4. ASSUME r = Head(s) PROVE Holds(s, r)
  BY <1>1, <1>2, <1>4 DEF Holds
<1>5. ASSUME Holds(Tail(s), r) PROVE Holds(s, r)
  <2>1. PICK i \in 1..(Len(s) - 1) : Tail(s)[i] = r
    BY <1>1, <1>5 DEF Holds
  <2>2. i + 1 \in 1..Len(s) /\ s[i + 1] = r
    BY <1>1, <1>2, <2>1
  <2> QED BY <1>1, <2>2 DEF Holds
<1> QED BY <1>3, <1>4, <1>5

\* An empty queue holds no command.
LEMMA HoldsNothing == \A r : ~Holds(<<>>, r)
BY DEF Holds

\* A queue of one holds that one.
LEMMA HoldsOne == \A e, r : Holds(<<e>>, r) <=> r = e
BY DEF Holds

\* Nothing is in an empty queue twice.
LEMMA OnceNothing == OnceIn(<<>>) /\ \A e : OnceIn(<<e>>)
BY DEF OnceIn

\* Nor in a queue that did not hold what is appended.
LEMMA OnceAppend ==
    ASSUME NEW S, NEW s \in Seq(S), NEW e \in S, OnceIn(s), e \in Reqs => ~Holds(s, e)
    PROVE  OnceIn(Append(s, e))
BY DEF OnceIn, Holds

\* Nor in the rest of a queue.
LEMMA OnceTail ==
    ASSUME NEW S, NEW s \in Seq(S), s # <<>>, OnceIn(s)
    PROVE  OnceIn(Tail(s)) /\ (Head(s) \in Reqs => ~Holds(Tail(s), Head(s)))
<1>1. Len(s) \in Nat \ {0} /\ DOMAIN s = 1..Len(s) /\ DOMAIN Tail(s) = 1..(Len(s) - 1)
  OBVIOUS
<1>2. Head(s) = s[1] /\ \A i \in 1..(Len(s) - 1) : Tail(s)[i] = s[i + 1]
  OBVIOUS
<1>3. OnceIn(Tail(s))
  BY <1>1, <1>2 DEF OnceIn
<1>4. ASSUME Head(s) \in Reqs, Holds(Tail(s), Head(s)) PROVE FALSE
  <2>1. PICK i \in 1..(Len(s) - 1) : Tail(s)[i] = s[1]
    BY <1>1, <1>2, <1>4 DEF Holds
  <2>2. i + 1 \in 1..Len(s) /\ s[i + 1] = s[1] /\ 1 \in 1..Len(s)
    BY <1>1, <1>2, <2>1
  <2> QED BY <1>1, <1>2, <1>4, <2>1, <2>2 DEF OnceIn
<1> QED BY <1>3, <1>4

\* The greeting adds no command of the program.
LEMMA HelloAppended ==
    ASSUME NEW s \in Seq(Commands)
    PROVE  /\ \A r \in Reqs : Holds(s \o Hello, r) <=> Holds(s, r)
           /\ OnceIn(s) => OnceIn(s \o Hello)
<1>1. Auth \notin Reqs /\ Name \notin Reqs
  BY CommandAssumption
<1>0. Auth \in Commands /\ Name \in Commands
  BY DEF Commands
<1>2. s \o <<Name>> = Append(s, Name) /\ s \o <<Auth, Name>> = Append(Append(s, Auth), Name)
  BY <1>0
<1>3. Append(s, Auth) \in Seq(Commands)
  BY <1>0
<1>4. \A r \in Reqs : /\ Holds(Append(s, Name), r) <=> Holds(s, r)
                      /\ Holds(Append(Append(s, Auth), Name), r) <=> Holds(s, r)
  BY <1>0, <1>1, <1>3, HoldsAppend, ZenonT(60)
<1>5. OnceIn(s) => OnceIn(Append(s, Name)) /\ OnceIn(Append(Append(s, Auth), Name))
  BY <1>0, <1>1, <1>3, OnceAppend
<1> QED BY <1>2, <1>4, <1>5 DEF Hello
-----------------------------------------------------------------------------
\* A command that waits is in one queue, once, and so cannot be answered twice; this is
\* what AnsweredOnce and WaitingIsHeld rest on.
HeldOnce ==
    /\ OnceIn(callbacks)
    /\ OnceIn(inbox)
    /\ \A r \in Reqs : Holds(callbacks, r) \/ Holds(inbox, r) => answer[r] = "waiting"
    /\ \A r \in Reqs : ~(Holds(callbacks, r) /\ Holds(inbox, r))

\* What a step has to show.
NotAnsweredAgain == \A r \in Reqs : answer[r] \notin Pending => answer'[r] = answer[r]
HeldStepOK == HeldOnce' /\ WaitingIsHeld' /\ NotAnsweredAgain

\* The steps by what they do to the two queues and the answers.  Nothing, or the crash:
LEMMA HeldStill ==
    ASSUME HeldOnce, WaitingIsHeld, UNCHANGED <<callbacks, inbox, answer>>,
           Alive' => Alive
    PROVE  HeldStepOK
<1>1. HeldOnce'
  BY Zenon DEF HeldOnce, OnceIn, Holds
<1>2. WaitingIsHeld'
  BY DEF WaitingIsHeld
<1> QED BY <1>1, <1>2 DEF HeldStepOK, NotAnsweredAgain

\* A functor that is no command is queued, or taken from the queue.
LEMMA HeldFunctor ==
    ASSUME DataOK, HeldOnce, WaitingIsHeld, UNCHANGED <<callbacks, answer>>,
           OnceIn(inbox'), \A r \in Reqs : Holds(inbox', r) <=> Holds(inbox, r),
           Alive' => Alive
    PROVE  HeldStepOK
<1>1. HeldOnce'
  BY DEF HeldOnce, OnceIn, Holds
<1>2. WaitingIsHeld'
  BY DEF WaitingIsHeld, Holds
<1> QED BY <1>1, <1>2 DEF HeldStepOK, NotAnsweredAgain

\* clearCallbacks() on cbs, which holds the commands of callbacks_, as part of a step
\* that leaves no command of the program there.
LEMMA HeldNulled ==
    ASSUME NEW cbs, answer' \in Cleared(cbs)
    PROVE  \A r \in Reqs :
             IF Holds(cbs, r) THEN answer'[r] = "null"
             ELSE answer'[r] = answer[r] \/ (answer[r] = "unissued" /\ answer'[r] = "null")
BY ClearedAt DEF Holds

\* Clearing the callbacks answers every command they held, and no other.
LEMMA HeldCleared ==
    ASSUME DataOK, HeldOnce, WaitingIsHeld, Alive, NEW cbs, answer' \in Cleared(cbs),
           \A r \in Reqs : Holds(cbs, r) <=> Holds(callbacks, r),
           OnceIn(callbacks'), \A r \in Reqs : ~Holds(callbacks', r),
           OnceIn(inbox'), \A r \in Reqs : Holds(inbox', r) <=> Holds(inbox, r)
    PROVE  HeldStepOK
<1>1. \A r \in Reqs :
        IF Holds(callbacks, r) THEN answer'[r] = "null"
        ELSE answer'[r] = answer[r] \/ (answer[r] = "unissued" /\ answer'[r] = "null")
  BY HeldNulled, Zenon
<1>3. \A r \in Reqs : Holds(inbox, r) => answer'[r] = "waiting"
  BY <1>1 DEF HeldOnce
<1>5. HeldOnce'
  <2>1. \A r \in Reqs : Holds(callbacks', r) \/ Holds(inbox', r) => answer'[r] = "waiting"
    BY <1>3
  <2> QED BY <2>1, Zenon DEF HeldOnce, OnceIn, Holds
<1>6. \A r \in Reqs : answer'[r] = "waiting" => Holds(inbox', r)
  BY <1>1 DEF WaitingIsHeld, Holds
<1>7. WaitingIsHeld'
  BY <1>6 DEF WaitingIsHeld, Holds
<1>8. NotAnsweredAgain
  BY <1>1 DEF NotAnsweredAgain, HeldOnce, Pending
<1> QED BY <1>5, <1>7, <1>8 DEF HeldStepOK

\* Command r is in the loop thread's hands, and q is the rest of the queue: it was at the
\* head of the queue, or it is issued now.
Taken(r, q) ==
    /\ answer[r] \in Pending
    /\ ~Holds(callbacks, r) /\ ~Holds(q, r)
    /\ OnceIn(q)
    /\ \A x \in Reqs \ {r} : Holds(q, x) <=> Holds(inbox, x)

\* It is answered at once.
LEMMA HeldAnswered ==
    ASSUME DataOK, HeldOnce, WaitingIsHeld, Alive, NEW r \in Reqs, NEW q, Taken(r, q),
           answer' \in Cleared(<<r>>), UNCHANGED callbacks, inbox' = q
    PROVE  HeldStepOK
<1>1. \A x \in Reqs :
        IF x = r THEN answer'[x] = "null"
        ELSE answer'[x] = answer[x] \/ (answer[x] = "unissued" /\ answer'[x] = "null")
  BY HeldNulled, HoldsOne
<1>2. \A x \in Reqs : Holds(callbacks', x) <=> Holds(callbacks, x)
  BY DEF Holds
<1>3. OnceIn(callbacks') /\ OnceIn(inbox')
  BY DEF HeldOnce, OnceIn, Taken
<1>4. \A x \in Reqs : Holds(inbox', x) <=> Holds(inbox, x) /\ x # r
  BY DEF Taken, Holds
<1>5. \A x \in Reqs : Holds(callbacks, x) => x # r
  BY DEF Taken
<1> HIDE DEF Holds
<1>6. \A x \in Reqs : Holds(callbacks', x) \/ Holds(inbox', x) => answer'[x] = "waiting"
  BY <1>1, <1>2, <1>4, <1>5 DEF HeldOnce
<1>7. \A x \in Reqs : ~(Holds(callbacks', x) /\ Holds(inbox', x))
  BY <1>2, <1>4 DEF HeldOnce
<1>8. HeldOnce'
  BY <1>3, <1>6, <1>7 DEF HeldOnce, OnceIn, Holds
<1>9. \A x \in Reqs : answer'[x] = "waiting" => Holds(callbacks', x) \/ Holds(inbox', x)
  BY <1>1, <1>2, <1>4 DEF WaitingIsHeld, Holds
<1>10. WaitingIsHeld'
  BY <1>9 DEF WaitingIsHeld, Holds
<1>11. NotAnsweredAgain
  BY <1>1 DEF NotAnsweredAgain, Taken, Pending
<1> QED BY <1>8, <1>10, <1>11 DEF HeldStepOK

\* Its callback is queued.
LEMMA HeldQueued ==
    ASSUME DataOK, HeldOnce, WaitingIsHeld, Alive, NEW r \in Reqs, NEW q, Taken(r, q),
           answer' = [answer EXCEPT ![r] = "waiting"],
           callbacks' = Append(callbacks, r), inbox' = q
    PROVE  HeldStepOK
<1>1. \A x \in Reqs : answer'[x] = IF x = r THEN "waiting" ELSE answer[x]
  BY DEF DataOK
<1>2. \A x \in Reqs : Holds(callbacks', x) <=> Holds(callbacks, x) \/ x = r
  <2>1. callbacks \in Seq(Commands) /\ r \in Commands
    BY DEF DataOK, Commands
  <2>2. \A x \in Reqs : Holds(Append(callbacks, r), x) <=> Holds(callbacks, x) \/ x = r
    BY <2>1, HoldsAppend
  <2> QED BY <2>2, Zenon DEF Holds
<1>3. OnceIn(callbacks') /\ OnceIn(inbox')
  BY OnceAppend DEF DataOK, Commands, HeldOnce, Taken
<1>4. \A x \in Reqs : Holds(inbox', x) <=> Holds(inbox, x) /\ x # r
  BY DEF Taken, Holds
<1>6. \A x \in Reqs : Holds(callbacks', x) \/ Holds(inbox', x) => answer'[x] = "waiting"
  BY <1>1, <1>2, <1>4 DEF HeldOnce
<1>7. \A x \in Reqs : ~(Holds(callbacks', x) /\ Holds(inbox', x))
  BY <1>2, <1>4 DEF HeldOnce
<1>8. HeldOnce'
  BY <1>3, <1>6, <1>7, Zenon DEF HeldOnce, OnceIn, Holds
<1>9. \A x \in Reqs : answer'[x] = "waiting" => Holds(callbacks', x) \/ Holds(inbox', x)
  BY <1>1, <1>2, <1>4 DEF WaitingIsHeld, Holds
<1>10. WaitingIsHeld'
  BY <1>9, Zenon DEF WaitingIsHeld, Holds
<1>11. NotAnsweredAgain
  BY <1>1 DEF NotAnsweredAgain, Taken
<1> QED BY <1>8, <1>10, <1>11 DEF HeldStepOK

\* Its write fails, and it is answered with all the others.
LEMMA HeldFailed ==
    ASSUME DataOK, HeldOnce, WaitingIsHeld, Alive, NEW r \in Reqs, NEW q, Taken(r, q),
           answer' \in Cleared(Append(callbacks, r)), callbacks' = <<>>, inbox' = q
    PROVE  HeldStepOK
<1>1. \A x \in Reqs :
        IF Holds(callbacks, x) \/ x = r THEN answer'[x] = "null"
        ELSE answer'[x] = answer[x] \/ (answer[x] = "unissued" /\ answer'[x] = "null")
  <2>1. \A x \in Reqs : Holds(Append(callbacks, r), x) <=> Holds(callbacks, x) \/ x = r
    BY HoldsAppend DEF DataOK, Commands
  <2> QED BY <2>1, HeldNulled
<1>2. \A x \in Reqs : ~Holds(callbacks', x)
  BY HoldsNothing
<1>3. OnceIn(callbacks') /\ OnceIn(inbox')
  BY OnceNothing DEF Taken
<1>4. \A x \in Reqs : Holds(inbox', x) <=> Holds(inbox, x) /\ x # r
  BY DEF Taken, Holds
<1>6. \A x \in Reqs : Holds(callbacks', x) \/ Holds(inbox', x) => answer'[x] = "waiting"
  BY <1>1, <1>2, <1>4 DEF HeldOnce
<1>8. HeldOnce'
  BY <1>2, <1>3, <1>6, Zenon DEF HeldOnce, OnceIn, Holds
<1>9. \A x \in Reqs : answer'[x] = "waiting" => Holds(callbacks', x) \/ Holds(inbox', x)
  BY <1>1, <1>4 DEF WaitingIsHeld, Holds
<1>10. WaitingIsHeld'
  BY <1>9, Zenon DEF WaitingIsHeld, Holds
<1>11. NotAnsweredAgain
  BY <1>1 DEF NotAnsweredAgain, Taken, HeldOnce, Pending
<1> QED BY <1>8, <1>10, <1>11 DEF HeldStepOK

\* Sending a command puts it into exactly one place.
LEMMA HeldSend ==
    ASSUME DataOK, HeldOnce, WaitingIsHeld, Alive, NEW r \in Reqs, NEW q, Taken(r, q),
           SendCommandInLoop(r, q)
    PROVE  HeldStepOK
<1>1. CASE SendUnconnected(r, q)
  BY <1>1, HeldAnswered DEF SendUnconnected
<1>2. CASE SendNoCodec(r, q) \/ SendNoConnection(r, q)
  BY <1>2, HeldStill DEF SendNoCodec, SendNoConnection, Die
<1>3. CASE SendDropped(r, q) \/ SendWritten(r, q)
  BY <1>3, HeldQueued DEF SendDropped, SendWritten
<1>4. CASE SendFails(r, q)
  BY <1>4, HeldFailed DEF SendFails, OnDisconnected
<1> QED BY <1>1, <1>2, <1>3, <1>4 DEF SendCommandInLoop

\* A command is handed to the loop by another thread.
LEMMA HeldIssued ==
    ASSUME DataOK, HeldOnce, WaitingIsHeld, NEW r \in Reqs, IssueFromThread(r)
    PROVE  HeldStepOK
<1>1. \A x \in Reqs : answer'[x] = IF x = r THEN "waiting" ELSE answer[x]
  BY DEF DataOK, IssueFromThread
<1>2. Alive /\ answer[r] = "unissued" /\ UNCHANGED callbacks /\ inbox' = Append(inbox, r)
  BY DEF IssueFromThread, MayIssue
<1>3. inbox \in Seq(Reqs \cup {"connect", "disconnect"})
  BY DEF DataOK
<1>4. ~Holds(inbox, r) /\ ~Holds(callbacks, r)
  BY <1>2 DEF HeldOnce
<1>5. \A x \in Reqs : Holds(inbox', x) <=> Holds(inbox, x) \/ x = r
  <2>1. \A x \in Reqs : Holds(Append(inbox, r), x) <=> Holds(inbox, x) \/ x = r
    BY <1>3, HoldsAppend
  <2> QED BY <1>2, <2>1, Zenon DEF Holds
<1>6. OnceIn(inbox') /\ OnceIn(callbacks')
  <2>1. OnceIn(Append(inbox, r))
    BY <1>3, <1>4, OnceAppend DEF HeldOnce
  <2> QED BY <1>2, <2>1, Zenon DEF HeldOnce, OnceIn
<1>7. \A x \in Reqs : Holds(callbacks', x) <=> Holds(callbacks, x)
  BY <1>2, Zenon DEF Holds
<1>8. \A x \in Reqs : Holds(callbacks', x) \/ Holds(inbox', x) => answer'[x] = "waiting"
  BY <1>1, <1>5, <1>7 DEF HeldOnce
<1>9. \A x \in Reqs : ~(Holds(callbacks', x) /\ Holds(inbox', x))
  BY <1>4, <1>5, <1>7 DEF HeldOnce
<1>10. HeldOnce'
  BY <1>6, <1>8, <1>9, Zenon DEF HeldOnce, OnceIn, Holds
<1>11. \A x \in Reqs : answer'[x] = "waiting" => Holds(callbacks', x) \/ Holds(inbox', x)
  BY <1>1, <1>2, <1>5, <1>7 DEF WaitingIsHeld, Holds
<1>12. WaitingIsHeld'
  BY <1>11, Zenon DEF WaitingIsHeld, Holds
<1>13. NotAnsweredAgain
  BY <1>1, <1>2 DEF NotAnsweredAgain, Pending
<1> QED BY <1>10, <1>12, <1>13 DEF HeldStepOK

\* The oldest callback is given a reply, and may issue another command.
LEMMA HeldReplied ==
    ASSUME DataOK, HeldOnce, WaitingIsHeld, Alive, callbacks # <<>>, in # <<>>,
           answer' = [r \in Reqs |-> IF r = Head(callbacks) THEN Head(in) ELSE answer[r]],
           callbacks' = Tail(callbacks), UNCHANGED inbox
    PROVE  HeldStepOK
<1> DEFINE h == Head(callbacks)
<1>1. \A x \in Reqs : answer'[x] = IF x = h THEN Head(in) ELSE answer[x]
  OBVIOUS
<1>2. Head(in) \in Commands /\ Head(in) # "waiting"
  BY HeadTailProperties, TokensAreNoReplies DEF DataOK
<1>3. OnceIn(callbacks') /\ OnceIn(inbox')
  BY OnceTail DEF HeldOnce, DataOK, OnceIn
<1>4. \A x \in Reqs : Holds(callbacks, x) <=> x = h \/ Holds(callbacks', x)
  <2>1. \A x \in Reqs : Holds(callbacks, x) <=> x = h \/ Holds(Tail(callbacks), x)
    BY HoldsHeadTail DEF DataOK
  <2> QED BY <2>1, Zenon DEF Holds
<1>5. \A x \in Reqs : x = h => ~Holds(callbacks', x)
  <2>1. h \in Reqs => ~Holds(Tail(callbacks), h)
    BY OnceTail DEF HeldOnce, DataOK
  <2> QED BY <2>1, Zenon DEF Holds
<1>6. \A x \in Reqs : Holds(inbox', x) <=> Holds(inbox, x)
  BY Zenon DEF Holds
<1> HIDE DEF h
<1>7. \A x \in Reqs : Holds(callbacks', x) \/ Holds(inbox', x) => answer'[x] = "waiting"
  BY <1>1, <1>4, <1>5, <1>6 DEF HeldOnce
<1>8. \A x \in Reqs : ~(Holds(callbacks', x) /\ Holds(inbox', x))
  BY <1>4, <1>6 DEF HeldOnce
<1>9. HeldOnce'
  BY <1>3, <1>7, <1>8, Zenon DEF HeldOnce, OnceIn, Holds
<1>10. \A x \in Reqs : answer'[x] = "waiting" => Holds(callbacks', x) \/ Holds(inbox', x)
  BY <1>1, <1>2, <1>4, <1>6 DEF WaitingIsHeld, Holds
<1>11. WaitingIsHeld'
  BY <1>10, Zenon DEF WaitingIsHeld, Holds
<1>12. NotAnsweredAgain
  BY <1>1, <1>4 DEF NotAnsweredAgain, HeldOnce, Pending
<1> QED BY <1>9, <1>11, <1>12 DEF HeldStepOK

\* A reply takes the command out of the place that held it.
LEMMA HeldRepliedAndIssued ==
    ASSUME DataOK, HeldOnce, WaitingIsHeld, NEW r \in Reqs, RecvReplyAndIssue(r)
    PROVE  HeldStepOK
<1> DEFINE h == Head(callbacks)
<1>0. /\ Alive /\ answer[r] = "unissued" /\ callbacks # <<>> /\ in # <<>> /\ h \in Reqs
      /\ UNCHANGED inbox
  BY DEF RecvReplyAndIssue, MayIssue
<1>1. Head(in) \in Commands /\ Head(in) # "waiting"
  BY <1>0, HeadTailProperties, TokensAreNoReplies DEF DataOK
<1>2. \A x \in Reqs : Holds(callbacks, x) <=> x = h \/ Holds(Tail(callbacks), x)
  BY <1>0, HoldsHeadTail DEF DataOK
<1>3. OnceIn(Tail(callbacks)) /\ ~Holds(Tail(callbacks), h) /\ Tail(callbacks) \in Seq(Commands)
  BY <1>0, OnceTail DEF HeldOnce, DataOK
<1>4. ~Holds(callbacks, r) /\ ~Holds(inbox, r) /\ h # r
  BY <1>0, <1>2 DEF HeldOnce
<1>5. \A x \in Reqs : answer'[x] = IF x = r THEN "waiting" ELSE IF x = h THEN Head(in) ELSE answer[x]
  BY <1>0, <1>4 DEF RecvReplyAndIssue, DataOK
<1>6. callbacks' = Append(Tail(callbacks), r) /\ r \in Commands
  BY DEF RecvReplyAndIssue, Commands
<1>7. \A x \in Reqs : Holds(callbacks', x) <=> Holds(Tail(callbacks), x) \/ x = r
  <2>1. \A x \in Reqs : Holds(Append(Tail(callbacks), r), x) <=> Holds(Tail(callbacks), x) \/ x = r
    BY <1>3, <1>6, HoldsAppend
  <2> QED BY <1>6, <2>1, Zenon DEF Holds
<1>8. OnceIn(callbacks') /\ OnceIn(inbox')
  <2>1. OnceIn(Append(Tail(callbacks), r))
    BY <1>2, <1>3, <1>4, <1>6, OnceAppend
  <2> QED BY <1>0, <1>6, <2>1, Zenon DEF HeldOnce, OnceIn
<1>9. \A x \in Reqs : Holds(inbox', x) <=> Holds(inbox, x)
  BY <1>0, Zenon DEF Holds
<1> HIDE DEF h
<1>10. \A x \in Reqs : Holds(callbacks', x) \/ Holds(inbox', x) => answer'[x] = "waiting"
  BY <1>2, <1>3, <1>5, <1>7, <1>9 DEF HeldOnce
<1>11. \A x \in Reqs : ~(Holds(callbacks', x) /\ Holds(inbox', x))
  BY <1>2, <1>4, <1>7, <1>9 DEF HeldOnce
<1>12. HeldOnce'
  BY <1>8, <1>10, <1>11, Zenon DEF HeldOnce, OnceIn, Holds
<1>13. \A x \in Reqs : answer'[x] = "waiting" => Holds(callbacks', x) \/ Holds(inbox', x)
  BY <1>0, <1>1, <1>2, <1>5, <1>7, <1>9 DEF WaitingIsHeld, Holds
<1>14. WaitingIsHeld'
  BY <1>13, Zenon DEF WaitingIsHeld, Holds
<1>15. NotAnsweredAgain
  BY <1>0, <1>2, <1>5 DEF NotAnsweredAgain, HeldOnce, Pending
<1> QED BY <1>12, <1>14, <1>15 DEF HeldStepOK

\* Every step of every program and network.
LEMMA HeldStep == DataOK /\ HeldOnce /\ WaitingIsHeld /\ [Next]_vars => HeldStepOK
<1> SUFFICES ASSUME DataOK, HeldOnce, WaitingIsHeld, [Next]_vars PROVE HeldStepOK
  OBVIOUS
<1>0. inbox \in Seq(Reqs \cup {"connect", "disconnect"}) /\ callbacks \in Seq(Commands)
  BY DEF DataOK
<1>1. ASSUME NEW x \in {"connect", "disconnect"}, inbox' = Append(inbox, x),
             UNCHANGED <<callbacks, answer, crash>>
      PROVE  HeldStepOK
  <2>1. x \notin Reqs
    BY TokenAssumption
  <2>2. \A r \in Reqs : Holds(Append(inbox, x), r) <=> Holds(inbox, r)
    BY <1>0, <2>1, HoldsAppend
  <2>3. OnceIn(Append(inbox, x))
    BY <1>0, <2>1, OnceAppend DEF HeldOnce
  <2>4. \A r \in Reqs : Holds(inbox', r) <=> Holds(inbox, r)
    BY <1>1, <2>2, Zenon DEF Holds
  <2>5. OnceIn(inbox')
    BY <1>1, <2>3, Zenon DEF OnceIn
  <2> QED BY <1>1, <2>4, <2>5, HeldFunctor DEF Alive
<1>2. CASE Connect \/ Disconnect
  BY <1>1, <1>2 DEF Connect, Disconnect
<1>3. ASSUME NEW r \in Reqs, IssueFromThread(r) PROVE HeldStepOK
  BY <1>3, HeldIssued
<1>4. ASSUME NEW r \in Reqs, IssueInLoop(r) PROVE HeldStepOK
  <2>1. Alive /\ answer[r] = "unissued" /\ SendCommandInLoop(r, inbox)
    BY <1>4 DEF IssueInLoop, MayIssue
  <2>2. Taken(r, inbox)
    BY <2>1 DEF Taken, HeldOnce, Pending
  <2> QED BY <2>1, <2>2, HeldSend
<1>5. CASE RunSend
  <2>1. Alive /\ inbox # <<>> /\ Head(inbox) \in Reqs /\ SendCommandInLoop(Head(inbox), Tail(inbox))
    BY <1>5 DEF RunSend
  <2>2. \A x \in Reqs : Holds(inbox, x) <=> x = Head(inbox) \/ Holds(Tail(inbox), x)
    BY <1>0, <2>1, HoldsHeadTail
  <2>3. OnceIn(Tail(inbox)) /\ ~Holds(Tail(inbox), Head(inbox))
    BY <1>0, <2>1, OnceTail DEF HeldOnce
  <2>4. Taken(Head(inbox), Tail(inbox))
    BY <2>1, <2>2, <2>3 DEF Taken, HeldOnce, Pending
  <2> QED BY <2>1, <2>4, HeldSend
<1>6. ASSUME inbox # <<>>, Head(inbox) \in {"connect", "disconnect"}
      PROVE  OnceIn(Tail(inbox)) /\ \A r \in Reqs : Holds(Tail(inbox), r) <=> Holds(inbox, r)
  <2>1. Head(inbox) \notin Reqs
    BY <1>6, TokenAssumption
  <2> QED BY <1>0, <1>6, <2>1, HoldsHeadTail, OnceTail DEF HeldOnce
<1>7. CASE RunConnect
  <2>1. /\ Alive /\ inbox # <<>> /\ Head(inbox) = "connect" /\ inbox' = Tail(inbox)
        /\ UNCHANGED <<callbacks, answer>>
    BY <1>7 DEF RunConnect
  <2>2. OnceIn(inbox') /\ \A r \in Reqs : Holds(inbox', r) <=> Holds(inbox, r)
    BY <1>6, <2>1, Zenon DEF OnceIn, Holds
  <2> QED BY <2>1, <2>2, HeldFunctor
<1>8. ASSUME Alive, UNCHANGED inbox, NEW cbs, answer' \in Cleared(cbs),
             \A r \in Reqs : Holds(cbs, r) <=> Holds(callbacks, r),
             callbacks' = <<>> \/ callbacks' = <<Name>>
      PROVE  HeldStepOK
  <2>1. OnceIn(callbacks') /\ \A r \in Reqs : ~Holds(callbacks', r)
    <3>1. /\ OnceIn(<<>>) /\ \A r \in Reqs : ~Holds(<<>>, r)
          /\ OnceIn(<<Name>>) /\ \A r \in Reqs : ~Holds(<<Name>>, r)
      BY OnceNothing, HoldsNothing, HoldsOne, CommandAssumption
    <3> QED BY <1>8, <3>1, Zenon DEF OnceIn, Holds
  <2>2. OnceIn(inbox') /\ \A r \in Reqs : Holds(inbox', r) <=> Holds(inbox, r)
    BY <1>8, Zenon DEF HeldOnce, OnceIn, Holds
  <2> QED BY <1>8, <2>1, <2>2, HeldCleared
<1>9. CASE RunDisconnect
  <2>1. Alive /\ inbox # <<>> /\ Head(inbox) = "disconnect" /\ inbox' = Tail(inbox)
    BY <1>9 DEF RunDisconnect
  <2>2. OnceIn(inbox') /\ \A r \in Reqs : Holds(inbox', r) <=> Holds(inbox, r)
    BY <1>6, <2>1, Zenon DEF OnceIn, Holds
  <2>3. CASE link = "up"
    <3>1. answer' \in Cleared(callbacks) /\ callbacks' = <<>>
      BY <1>9, <2>3 DEF RunDisconnect, OnDisconnected
    <3>2. OnceIn(callbacks') /\ \A r \in Reqs : ~Holds(callbacks', r)
      BY <3>1, OnceNothing, HoldsNothing, Zenon DEF OnceIn, Holds
    <3> QED BY <2>1, <2>2, <3>1, <3>2, HeldCleared
  <2>4. CASE link # "up"
    BY <1>9, <2>1, <2>2, <2>4, HeldFunctor DEF RunDisconnect
  <2> QED BY <2>3, <2>4
<1>10. CASE RecvReply
  BY <1>10, HeldReplied DEF RecvReply
<1>11. ASSUME NEW r \in Reqs, RecvReplyAndIssue(r) PROVE HeldStepOK
  BY <1>11, HeldRepliedAndIssued
<1>12. CASE DetectClose
  BY <1>8, <1>12 DEF DetectClose, OnDisconnected
<1>13. CASE ClientCron \/ RecvGarbage
  BY <1>8, <1>13 DEF ClientCron, RecvGarbage, ReplaceClient, OnDisconnected
<1>14. CASE ConnectSucceeds
  <2>1. /\ Alive /\ callbacks' = callbacks \o Hello /\ UNCHANGED <<inbox, answer, crash>>
    BY <1>14 DEF ConnectSucceeds
  <2>2. OnceIn(callbacks') /\ \A r \in Reqs : Holds(callbacks', r) <=> Holds(callbacks, r)
    <3>1. OnceIn(callbacks \o Hello) /\ \A r \in Reqs : Holds(callbacks \o Hello, r) <=> Holds(callbacks, r)
      BY <1>0, HelloAppended DEF HeldOnce
    <3> QED BY <2>1, <3>1, Zenon DEF OnceIn, Holds
  <2>3. OnceIn(inbox') /\ \A r \in Reqs : Holds(inbox', r) <=> Holds(inbox, r)
    BY <2>1, Zenon DEF HeldOnce, OnceIn, Holds
  <2>4. \A r \in Reqs : Holds(callbacks', r) \/ Holds(inbox', r) => answer'[r] = "waiting"
    BY <2>1, <2>2, <2>3 DEF HeldOnce
  <2>5. HeldOnce'
    <3>1. \A r \in Reqs : ~(Holds(callbacks', r) /\ Holds(inbox', r))
      BY <2>2, <2>3 DEF HeldOnce
    <3> QED BY <2>2, <2>3, <2>4, <3>1, Zenon DEF HeldOnce, OnceIn, Holds
  <2>6. \A r \in Reqs : answer'[r] = "waiting" => Holds(callbacks', r) \/ Holds(inbox', r)
    BY <2>1, <2>2, <2>3 DEF WaitingIsHeld, Holds
  <2>7. WaitingIsHeld'
    BY <2>6, Zenon DEF WaitingIsHeld, Holds
  <2> QED BY <2>1, <2>5, <2>7 DEF HeldStepOK, NotAnsweredAgain
<1>15. CASE ConnectSucceedsAndBreaks
  <2>1. CASE answer' \in Cleared(callbacks \o <<Auth>>) /\ callbacks' = <<Name>>
    <3>1. \A r \in Reqs : Holds(callbacks \o <<Auth>>, r) <=> Holds(callbacks, r)
      <4>1. callbacks \o <<Auth>> = Append(callbacks, Auth) /\ Auth \in Commands
        BY <1>0 DEF Commands
      <4>2. \A r \in Reqs : Holds(Append(callbacks, Auth), r) <=> Holds(callbacks, r)
        BY <1>0, <4>1, HoldsAppend, CommandAssumption
      <4> QED BY <4>1, <4>2, Zenon
    <3> QED BY <1>8, <1>15, <2>1, <3>1 DEF ConnectSucceedsAndBreaks
  <2>2. CASE answer' \in Cleared(callbacks) /\ callbacks' = <<>>
    BY <1>8, <1>15, <2>2 DEF ConnectSucceedsAndBreaks
  <2> QED BY <1>15, <2>1, <2>2, Zenon DEF ConnectSucceedsAndBreaks, OnDisconnected
<1>16. ASSUME NEW refused \in BOOLEAN, ConnectFails(refused) PROVE HeldStepOK
  <2>1. Alive /\ UNCHANGED <<inbox, crash>>
    BY <1>16 DEF ConnectFails
  <2>2. CASE refused \/ ~AutoReconnect
    <3>1. callbacks' = <<>> /\ answer' \in Cleared(callbacks)
      BY <1>16, <2>2, Zenon DEF ConnectFails, OnDisconnected
    <3> QED BY <1>8, <2>1, <3>1
  <2>3. CASE ~(refused \/ ~AutoReconnect)
    BY <1>16, <2>1, <2>3, HeldStill DEF ConnectFails
  <2> QED BY <2>2, <2>3
<1>17. CASE \/ RetryConnect \/ StrayCron \/ CallbackCrashes \/ ServerReplies \/ ServerCloses
            \/ Tick \/ UNCHANGED vars \/ \E r \in Reqs : RecvReplyAndIssueFails(r)
  <2>1. UNCHANGED <<callbacks, inbox, answer>> /\ (Alive' => Alive)
    BY <1>17 DEF RetryConnect, StrayCron, CallbackCrashes, ConnectFailsInCallback,
       IssuedMeanwhile, ServerReplies, ServerCloses, Tick, vars, RecvReplyAndIssueFails, Die,
       MayIssue, Alive
  <2> QED BY <2>1, HeldStill
<1> QED
  BY <1>2, <1>3, <1>4, <1>5, <1>7, <1>9, <1>10, <1>11, <1>12, <1>13, <1>14, <1>15, <1>16,
     <1>17 DEF Next, ProgramStep, LoopStep, NetworkStep, CallbackCrashes

\* Initially no command has been issued.
LEMMA HeldInit == Init => DataOK /\ HeldOnce /\ WaitingIsHeld
<1> SUFFICES ASSUME Init PROVE DataOK /\ HeldOnce /\ WaitingIsHeld
  OBVIOUS
<1>1. DataOK
  BY DataInit
<1>2. callbacks = <<>> /\ inbox = <<>> /\ \A r \in Reqs : answer[r] = "unissued"
  BY DEF Init
<1>3. HeldOnce
  BY <1>2, OnceNothing, HoldsNothing DEF HeldOnce
<1> QED BY <1>1, <1>2, <1>3 DEF WaitingIsHeld

\* No command that was handed to the client is forgotten: as long as the process lives,
\* one that waits is in callbacks_ or in the loop's queue, for every program, option and
\* network (sendCommandInLoop, clearCallbacks, disconnect, reconnect).
THEOREM WaitingCommandsAreHeld == Spec => []WaitingIsHeld
<1>1. DataOK /\ HeldOnce /\ WaitingIsHeld /\ [Next]_vars => (DataOK /\ HeldOnce /\ WaitingIsHeld)'
  BY DataStep, HeldStep DEF HeldStepOK
<1> QED BY <1>1, HeldInit, PTL DEF Spec

\* No command's callback is called twice, for every program, option and network.
THEOREM NoSecondAnswer == Spec => AnsweredOnce
<1>1. DataOK /\ HeldOnce /\ WaitingIsHeld /\ [Next]_vars => (DataOK /\ HeldOnce /\ WaitingIsHeld)'
  BY DataStep, HeldStep DEF HeldStepOK
<1>2. DataOK /\ HeldOnce /\ WaitingIsHeld /\ [Next]_vars
        => [\A r \in Reqs : answer[r] \notin Pending => answer'[r] = answer[r]]_vars
  BY HeldStep DEF HeldStepOK, NotAnsweredAgain
<1> QED BY <1>1, <1>2, HeldInit, PTL DEF Spec, AnsweredOnce
-----------------------------------------------------------------------------
\* auth_promise_ is fulfilled at most once: the call it belongs to has not been
\* answered, nor has any that was not made.
PromiseFresh ==
    /\ promise <= connects
    /\ \A n \in 1..MaxConnects : n > connects \/ n = promise => future[n] = "pending"

\* A call of connect() that was answered keeps its answer.
FutureKept == \A n \in 1..MaxConnects : future[n] # "pending" => future'[n] = future[n]

\* A promise that is set now was not set before.
LEMMA PromiseResolved ==
    ASSUME DataOK, PromiseFresh, NEW res \in {"ok", "error"}, Resolve(res), connects' = connects
    PROVE  PromiseFresh' /\ FutureKept
BY UseAssumption DEF DataOK, PromiseFresh, Resolve, FutureKept

\* The other promises keep their values.
LEMMA PromiseStill ==
    ASSUME DataOK, PromiseFresh, UNCHANGED <<promise, connects, future>>
    PROVE  PromiseFresh' /\ FutureKept
BY DEF PromiseFresh, FutureKept

\* No step sets a promise twice.
LEMMA PromiseStep ==
    ASSUME DataOK, PromiseFresh, [Next]_vars
    PROVE  PromiseFresh' /\ FutureKept
<1>1. CASE Connect
  BY <1>1, UseAssumption DEF Connect, DataOK, PromiseFresh, FutureKept
<1>2. ASSUME NEW r, NEW q, SendCommandInLoop(r, q) PROVE PromiseFresh' /\ FutureKept
  <2>1. CASE SendFails(r, q)
    BY <2>1, PromiseResolved DEF SendFails, OnDisconnected
  <2>2. CASE ~SendFails(r, q)
    <3>1. UNCHANGED <<promise, connects, future>>
      BY <1>2, <2>2 DEF SendCommandInLoop, SendUnconnected, SendNoCodec, SendNoConnection,
         SendDropped, SendWritten, Die, clientVars, progVars
    <3> QED BY <3>1, PromiseStill
  <2> QED BY <2>1, <2>2
<1>3. CASE RunSend \/ \E r \in Reqs : IssueInLoop(r)
  BY <1>2, <1>3 DEF RunSend, IssueInLoop
<1>4. CASE RunDisconnect
  BY <1>4, PromiseResolved, PromiseStill DEF RunDisconnect, OnDisconnected
<1>5. CASE RecvReply
  BY <1>5, PromiseResolved, PromiseStill DEF RecvReply
<1>6. CASE DetectClose
  BY <1>6, PromiseResolved DEF DetectClose, OnDisconnected
<1>7. CASE ClientCron \/ RecvGarbage
  BY <1>7, PromiseResolved, PromiseStill DEF ClientCron, RecvGarbage, ReplaceClient, OnDisconnected
<1>8. CASE ConnectSucceeds
  BY <1>8, PromiseResolved, PromiseStill DEF ConnectSucceeds
<1>9. CASE ConnectSucceedsAndBreaks
  BY <1>9, PromiseResolved DEF ConnectSucceedsAndBreaks, OnDisconnected
<1>10. ASSUME NEW refused \in BOOLEAN, ConnectFails(refused) PROVE PromiseFresh' /\ FutureKept
  BY <1>10, PromiseResolved, PromiseStill DEF ConnectFails, OnDisconnected
<1>11. CASE \/ Disconnect \/ RunConnect \/ RetryConnect \/ StrayCron \/ CallbackCrashes
            \/ ServerReplies \/ ServerCloses \/ Tick \/ UNCHANGED vars
            \/ \E r \in Reqs : \/ IssueFromThread(r) \/ RecvReplyAndIssue(r)
                              \/ RecvReplyAndIssueFails(r)
  <2>1. UNCHANGED <<promise, connects, future>>
    BY <1>11 DEF Disconnect, RunConnect, RetryConnect, StrayCron, CallbackCrashes,
       ConnectFailsInCallback, ServerReplies, ServerCloses, Tick, vars, IssueFromThread, RecvReplyAndIssue, RecvReplyAndIssueFails, Die,
       clientVars, progVars
  <2> QED BY <2>1, PromiseStill
<1> QED BY <1>1, <1>3, <1>4, <1>5, <1>6, <1>7, <1>8, <1>9, <1>10, <1>11
        DEF Next, ProgramStep, LoopStep, NetworkStep, CallbackCrashes

\* What the future of connect() holds never changes once it is there: set_value() is
\* called at most once for each auth_promise_ (a second call would throw).
THEOREM PromiseSetOnce == Spec => [][FutureKept]_vars
<1>1. Init => DataOK /\ PromiseFresh
  BY DataInit, UseAssumption DEF Init, PromiseFresh
<1>2. DataOK /\ PromiseFresh /\ [Next]_vars => (DataOK /\ PromiseFresh)' /\ FutureKept
  BY DataStep, PromiseStep
<1>3. DataOK /\ PromiseFresh /\ [Next]_vars => [FutureKept]_vars
  BY <1>2
<1> QED BY <1>1, <1>2, <1>3, PTL DEF Spec

-----------------------------------------------------------------------------
\* t is the end of s.
EndsWith(s, t) ==
    Len(t) <= Len(s) /\ \A i \in DOMAIN t : s[(Len(s) - Len(t)) + i] = t[i]

\* s has no AUTH, and a SETNAME only at its front.
OnlyNameFirst(s) == \A i \in DOMAIN s : s[i] # Auth /\ (s[i] = Name => i = 1)

\* What LeftoversComeFirst says, in these terms.
LEMMA LeftoversAre ==
    ASSUME DataOK
    PROVE  LeftoversComeFirst <=> IF link = "up" THEN EndsWith(callbacks, in \o out)
                                                 ELSE OnlyNameFirst(callbacks)
<1>1. Len(callbacks) \in Nat /\ Len(in \o out) \in Nat
  BY DEF DataOK
<1>2. Len(callbacks) - Len(in \o out) >= 0 <=> Len(in \o out) <= Len(callbacks)
  BY <1>1
<1> QED BY <1>2, Zenon DEF LeftoversComeFirst, EndsWith, OnlyNameFirst

\* A command goes to the end of both queues.
LEMMA EndsAppend ==
    ASSUME NEW S, NEW s \in Seq(S), NEW t \in Seq(S), NEW e \in S, EndsWith(s, t)
    PROVE  EndsWith(Append(s, e), Append(t, e))
<1>1. /\ Len(s) \in Nat /\ Len(t) \in Nat
      /\ Len(Append(s, e)) = Len(s) + 1 /\ Len(Append(t, e)) = Len(t) + 1
      /\ DOMAIN t = 1..Len(t) /\ DOMAIN Append(t, e) = 1..(Len(t) + 1)
      /\ \A i \in 1..Len(s) : Append(s, e)[i] = s[i]
      /\ \A i \in 1..Len(t) : Append(t, e)[i] = t[i]
      /\ Append(s, e)[Len(s) + 1] = e /\ Append(t, e)[Len(t) + 1] = e
  OBVIOUS
<1>2. Len(t) <= Len(s) /\ \A i \in 1..Len(t) : s[(Len(s) - Len(t)) + i] = t[i]
  BY <1>1 DEF EndsWith
<1>3. PICK d \in Nat : d = Len(s) - Len(t) /\ d = Len(Append(s, e)) - Len(Append(t, e))
  BY <1>1, <1>2
<1>4. ASSUME NEW i \in 1..(Len(t) + 1) PROVE Append(s, e)[d + i] = Append(t, e)[i]
  <2>1. CASE i = Len(t) + 1
    <3>1. d + i = Len(s) + 1
      BY <1>1, <1>3, <2>1
    <3> QED BY <1>1, <2>1, <3>1, Zenon
  <2>2. CASE i # Len(t) + 1
    <3>1. i \in 1..Len(t) /\ d + i \in 1..Len(s)
      BY <1>1, <1>2, <1>3, <2>2
    <3>2. s[d + i] = t[i]
      BY <1>2, <1>3, <3>1, Zenon
    <3> QED BY <1>1, <3>1, <3>2, Zenon
  <2> QED BY <2>1, <2>2
<1>5. Len(Append(t, e)) <= Len(Append(s, e))
  BY <1>1, <1>2
<1> QED BY <1>1, <1>3, <1>4, <1>5, Zenon DEF EndsWith

\* One entry is taken from the front of both.
LEMMA EndsTail ==
    ASSUME NEW S, NEW s \in Seq(S), NEW t \in Seq(S), s # <<>>, t # <<>>, EndsWith(s, t)
    PROVE  EndsWith(Tail(s), Tail(t))
<1>1. /\ Len(s) \in Nat \ {0} /\ Len(t) \in Nat \ {0}
      /\ Len(Tail(s)) = Len(s) - 1 /\ Len(Tail(t)) = Len(t) - 1
      /\ DOMAIN t = 1..Len(t) /\ DOMAIN Tail(t) = 1..(Len(t) - 1)
      /\ \A i \in 1..(Len(s) - 1) : Tail(s)[i] = s[i + 1]
      /\ \A i \in 1..(Len(t) - 1) : Tail(t)[i] = t[i + 1]
  OBVIOUS
<1>2. Len(t) <= Len(s) /\ \A i \in 1..Len(t) : s[(Len(s) - Len(t)) + i] = t[i]
  BY <1>1 DEF EndsWith
<1>3. ASSUME NEW i \in 1..(Len(t) - 1)
      PROVE  Tail(s)[((Len(s) - 1) - (Len(t) - 1)) + i] = Tail(t)[i]
  <2>1. /\ i + 1 \in 1..Len(t)
        /\ ((Len(s) - 1) - (Len(t) - 1)) + i \in 1..(Len(s) - 1)
        /\ (((Len(s) - 1) - (Len(t) - 1)) + i) + 1 = (Len(s) - Len(t)) + (i + 1)
    BY <1>1, <1>2
  <2> QED BY <1>1, <1>2, <2>1
<1> QED BY <1>1, <1>2, <1>3 DEF EndsWith

\* A hello goes behind what is left.
LEMMA EndsWhole ==
    ASSUME NEW S, NEW s \in Seq(S), NEW t \in Seq(S)
    PROVE  EndsWith(s \o t, t)
<1>1. /\ Len(s) \in Nat /\ Len(t) \in Nat /\ Len(s \o t) = Len(s) + Len(t)
      /\ DOMAIN t = 1..Len(t)
      /\ \A i \in 1..(Len(s) + Len(t)) : (s \o t)[i] = IF i <= Len(s) THEN s[i] ELSE t[i - Len(s)]
  OBVIOUS
<1>2. ASSUME NEW i \in 1..Len(t) PROVE (s \o t)[((Len(s) + Len(t)) - Len(t)) + i] = t[i]
  <2>1. /\ ((Len(s) + Len(t)) - Len(t)) + i = Len(s) + i
        /\ Len(s) + i \in 1..(Len(s) + Len(t)) /\ ~(Len(s) + i <= Len(s))
        /\ (Len(s) + i) - Len(s) = i
    BY <1>1
  <2> QED BY <1>1, <2>1
<1> QED BY <1>1, <1>2 DEF EndsWith

\* Commands of the program are neither AUTH nor SETNAME.
LEMMA NameStaysFirst ==
    ASSUME NEW s \in Seq(Commands), NEW r \in Reqs, OnlyNameFirst(s)
    PROVE  OnlyNameFirst(Append(s, r))
<1>1. r # Auth /\ r # Name /\ r \in Commands
  BY CommandAssumption DEF Commands
<1>2. /\ DOMAIN s = 1..Len(s) /\ Len(s) \in Nat /\ DOMAIN Append(s, r) = 1..(Len(s) + 1)
      /\ \A i \in 1..Len(s) : Append(s, r)[i] = s[i]
      /\ Append(s, r)[Len(s) + 1] = r
  BY <1>1
<1>3. \A i \in 1..(Len(s) + 1) : i \in 1..Len(s) \/ i = Len(s) + 1
  BY <1>2
<1> QED BY <1>1, <1>2, <1>3 DEF OnlyNameFirst

\* What is left after a first write that failed.
LEMMA NameAlone == OnlyNameFirst(<<>>) /\ OnlyNameFirst(<<Name>>)
BY CommandAssumption DEF OnlyNameFirst

\* The same relation with its terms kept whole.
LeftoversKept ==
    IF link = "up" THEN EndsWith(callbacks, in \o out) ELSE OnlyNameFirst(callbacks)

\* A command sent goes behind what is left, or with all of it.
LEMMA LeftoversSend ==
    ASSUME DataOK, LeftoversKept, NEW r \in Reqs, NEW q, SendCommandInLoop(r, q)
    PROVE  LeftoversKept'
<1>0. r \in Commands /\ callbacks \in Seq(Commands) /\ in \in Seq(Commands) /\ out \in Seq(Commands)
  BY DEF DataOK, Commands
<1>1. CASE SendUnconnected(r, q) \/ SendNoCodec(r, q) \/ SendNoConnection(r, q)
  <2>1. UNCHANGED <<link, callbacks, in, out>>
    BY <1>1 DEF SendUnconnected, SendNoCodec, SendNoConnection, Die, netVars
  <2> QED BY <2>1, Zenon DEF LeftoversKept
<1>2. CASE SendDropped(r, q)
  <2>1. link # "up" /\ link' = link /\ callbacks' = Append(callbacks, r)
    BY <1>2 DEF SendDropped
  <2> QED BY <1>0, <2>1, NameStaysFirst DEF LeftoversKept
<1>3. CASE SendWritten(r, q)
  <2>1. /\ link = "up" /\ link' = link /\ callbacks' = Append(callbacks, r)
        /\ out' = Append(out, r) /\ in' = in
    BY <1>3 DEF SendWritten
  <2>2. in' \o out' = Append(in \o out, r) /\ in \o out \in Seq(Commands)
    BY <1>0, <2>1, WireAppend
  <2>3. EndsWith(Append(callbacks, r), Append(in \o out, r))
    BY <1>0, <2>1, <2>2, EndsAppend, Zenon DEF LeftoversKept
  <2> QED BY <2>1, <2>2, <2>3, Zenon DEF LeftoversKept
<1>4. CASE SendFails(r, q)
  <2>1. link' # "up" /\ callbacks' = <<>>
    BY <1>4, NotUp DEF SendFails
  <2> QED BY <2>1, NameAlone, Zenon DEF LeftoversKept
<1> QED BY <1>1, <1>2, <1>3, <1>4 DEF SendCommandInLoop

\* Every step keeps what is left in front.
LEMMA LeftoversStep ==
    ASSUME DataOK, UpHasClient, LeftoversKept, [Next]_vars
    PROVE  LeftoversKept'
<1>0. callbacks \in Seq(Commands) /\ in \in Seq(Commands) /\ out \in Seq(Commands)
  BY DEF DataOK
<1>a. ASSUME link # "up", link' # "up", UNCHANGED callbacks PROVE LeftoversKept'
  BY <1>a, Zenon DEF LeftoversKept
<1>b. ASSUME link' # "up", callbacks' = <<>> \/ callbacks' = <<Name>> PROVE LeftoversKept'
  BY <1>b, NameAlone, Zenon DEF LeftoversKept
<1>c. ASSUME UNCHANGED <<link, callbacks, in, out>> PROVE LeftoversKept'
  BY <1>c, Zenon DEF LeftoversKept
<1>1. CASE Connect
  <2>1. link # "up" /\ link' # "up" /\ UNCHANGED callbacks
    BY <1>1 DEF Connect, UpHasClient
  <2> QED BY <1>a, <2>1
<1>2. CASE RunSend \/ \E r \in Reqs : IssueInLoop(r)
  BY <1>2, LeftoversSend DEF RunSend, IssueInLoop
<1>3. CASE RunConnect
  <2>1. UNCHANGED <<callbacks, in, out>> /\ (link' = link \/ (link # "up" /\ link' # "up"))
    BY <1>3 DEF RunConnect, netVars
  <2> QED BY <1>a, <1>c, <2>1
<1>4. CASE RunDisconnect
  <2>1. link' # "up" /\ IF link = "up" THEN callbacks' = <<>> ELSE UNCHANGED callbacks
    BY <1>4, Zenon DEF RunDisconnect
  <2> QED BY <1>a, <1>b, <2>1
<1>5. CASE RetryConnect
  BY <1>5, <1>a DEF RetryConnect
<1>6. CASE RecvReply
  <2>1. /\ link = "up" /\ in # <<>> /\ callbacks # <<>> /\ link' = link
        /\ in' = Tail(in) /\ callbacks' = Tail(callbacks) /\ out' = out
    BY <1>6 DEF RecvReply
  <2>2. in \o out # <<>> /\ Tail(in \o out) = in' \o out' /\ in \o out \in Seq(Commands)
    BY <1>0, <2>1, WireTake
  <2>3. EndsWith(Tail(callbacks), Tail(in \o out))
    BY <1>0, <2>1, <2>2, EndsTail, Zenon DEF LeftoversKept
  <2> QED BY <2>1, <2>2, <2>3, Zenon DEF LeftoversKept
<1>7. ASSUME NEW r \in Reqs, RecvReplyAndIssue(r) PROVE LeftoversKept'
  <2>1. /\ link = "up" /\ in # <<>> /\ callbacks # <<>> /\ link' = link
        /\ in' = Tail(in) /\ callbacks' = Append(Tail(callbacks), r) /\ out' = Append(out, r)
    BY <1>7 DEF RecvReplyAndIssue
  <2>2. /\ in \o out # <<>> /\ Tail(in \o out) = Tail(in) \o out
        /\ in \o out \in Seq(Commands) /\ r \in Commands
    BY <1>0, <2>1, WireTake DEF Commands
  <2>3. EndsWith(Tail(callbacks), Tail(in) \o out)
    <3>1. EndsWith(Tail(callbacks), Tail(in \o out))
      BY <1>0, <2>1, <2>2, EndsTail, Zenon DEF LeftoversKept
    <3> QED BY <2>2, <3>1, Zenon
  <2>4. Tail(in) \in Seq(Commands) /\ Tail(callbacks) \in Seq(Commands)
    BY <1>0, <2>1, HeadTailProperties
  <2>5. Tail(in) \o out \in Seq(Commands)
    BY <1>0, <2>4
  <2>6. EndsWith(Append(Tail(callbacks), r), Append(Tail(in) \o out, r))
    BY <2>2, <2>3, <2>4, <2>5, EndsAppend, Zenon
  <2>7. Append(Tail(in) \o out, r) = Tail(in) \o Append(out, r)
    <3>1. PICK s \in Seq(Commands) : s = Tail(in)
      BY <2>4
    <3>2. Append(s \o out, r) = s \o Append(out, r)
      <4>1. r \in Commands /\ out \in Seq(Commands)
        BY <1>0, <2>2
      <4> QED BY <4>1
    <3> QED BY <3>1, <3>2, Zenon
  <2> QED BY <2>1, <2>6, <2>7, Zenon DEF LeftoversKept
<1>8. CASE DetectClose \/ ConnectSucceedsAndBreaks \/ ClientCron \/ RecvGarbage
  <2>1. link' # "up" /\ (callbacks' = <<>> \/ callbacks' = <<Name>>)
    BY <1>8, NotUp DEF DetectClose, ConnectSucceedsAndBreaks, ClientCron, RecvGarbage, ReplaceClient
  <2> QED BY <1>b, <2>1
<1>9. CASE ConnectSucceeds
  <2>1. link' = "up" /\ callbacks' = callbacks \o Hello /\ in' = <<>> /\ out' = Hello
    BY <1>9, Zenon DEF ConnectSucceeds
  <2>2. <<>> \o Hello = Hello
    BY HelloType
  <2>3. EndsWith(callbacks \o Hello, Hello)
    BY <1>0, HelloType, EndsWhole, Zenon
  <2> QED BY <2>1, <2>2, <2>3, Zenon DEF LeftoversKept
<1>10. ASSUME NEW refused \in BOOLEAN, ConnectFails(refused) PROVE LeftoversKept'
  <2>1. link # "up" /\ link' # "up" /\ (callbacks' = <<>> \/ UNCHANGED callbacks)
    BY <1>10 DEF ConnectFails
  <2> QED BY <1>a, <1>b, <2>1
<1>11. CASE ServerReplies
  <2>1. UNCHANGED <<link, callbacks>> /\ in' \o out' = in \o out
    BY <1>0, <1>11, WireMove DEF ServerReplies
  <2> QED BY <2>1, Zenon DEF LeftoversKept
<1>12. CASE \/ Disconnect \/ StrayCron \/ CallbackCrashes \/ ServerCloses \/ Tick
            \/ UNCHANGED vars
            \/ \E r \in Reqs : IssueFromThread(r) \/ RecvReplyAndIssueFails(r)
  <2>1. UNCHANGED <<link, callbacks, in, out>>
    BY <1>12 DEF Disconnect, StrayCron, CallbackCrashes, ConnectFailsInCallback, ServerCloses,
       Tick, vars, IssueFromThread, RecvReplyAndIssueFails, Die, netVars
  <2> QED BY <1>c, <2>1
<1> QED BY <1>1, <1>2, <1>3, <1>4, <1>5, <1>6, <1>7, <1>8, <1>9, <1>10, <1>11, <1>12
        DEF Next, ProgramStep, LoopStep, NetworkStep, CallbackCrashes

\* What a connection leaves behind in callbacks_ stands before everything later, for every
\* program, option and network: the replies of an open connection are those of the last
\* callbacks, in order, whatever earlier ones were left by writes that failed under
\* onConnected() or were dropped by send() (sendCommandInLoop, clearCallbacks).
THEOREM LeftoversStayFirst == Spec => []LeftoversComeFirst
<1>1. Init => DataOK /\ UpHasClient /\ LeftoversKept
  <2> SUFFICES ASSUME Init PROVE DataOK /\ UpHasClient /\ LeftoversKept
    OBVIOUS
  <2>1. link = "idle" /\ callbacks = <<>>
    BY DEF Init
  <2> QED BY <2>1, DataInit, NameAlone DEF UpHasClient, LeftoversKept
<1>2. DataOK /\ UpHasClient /\ LeftoversKept /\ [Next]_vars
        => (DataOK /\ UpHasClient /\ LeftoversKept)'
  BY DataStep, UpHasClientStep, LeftoversStep
<1>3. DataOK /\ LeftoversKept => LeftoversComeFirst
  BY LeftoversAre DEF LeftoversKept
<1> QED BY <1>1, <1>2, <1>3, PTL DEF Spec

-----------------------------------------------------------------------------
\* Programs that do not crash the client: no black-hole timer, no command issued inside a
\* callback; and if commands come from other threads, only after the first and only
\* connect() has succeeded, to a server whose replies decode.
SoundUse ==
    /\ Interval = 0
    /\ "callback" \notin Contexts
    /\ "thread" \in Contexts => InitWait = "success" /\ ~BadServer /\ MaxConnects <= 1

NoTimers == ~timer /\ ~strayTimer

\* Without a timeout no timer is ever armed.
LEMMA NoTimersStep ==
    ASSUME SoundUse, NoTimers, [Next]_vars
    PROVE  NoTimers'
<1>0. ~(Interval > 0)
  <2>1. Interval = 0
    BY Zenon DEF SoundUse
  <2> QED BY <2>1
<1>a. ASSUME timer' = timer \/ timer' = FALSE, strayTimer' = strayTimer PROVE NoTimers'
  BY <1>a DEF NoTimers
<1>1. ASSUME NEW r, NEW q, SendCommandInLoop(r, q) PROVE NoTimers'
  BY <1>1, <1>a DEF SendCommandInLoop, SendUnconnected, SendNoCodec, SendNoConnection,
     SendDropped, SendWritten, SendFails, Die, clientVars
<1>2. CASE RunSend \/ \E r \in Reqs : IssueInLoop(r)
  BY <1>1, <1>2 DEF RunSend, IssueInLoop
<1>3. CASE ConnectSucceeds
  BY <1>0, <1>3, Zenon DEF ConnectSucceeds, StartTimer, NoTimers
<1>4. CASE ConnectSucceedsAndBreaks
  <2>1. timer' = (Interval > 0) /\ UNCHANGED strayTimer
    BY <1>4, Zenon DEF ConnectSucceedsAndBreaks
  <2> QED BY <1>0, <2>1, Zenon DEF NoTimers
<1>5. CASE RunDisconnect \/ DetectClose \/ ClientCron \/ RecvGarbage
  BY <1>5, <1>a DEF RunDisconnect, DetectClose, ClientCron, RecvGarbage, ReplaceClient
<1>6. ASSUME NEW refused \in BOOLEAN, ConnectFails(refused) PROVE NoTimers'
  BY <1>6, Zenon DEF ConnectFails, NoTimers
<1>7. CASE \/ Connect \/ Disconnect \/ RunConnect \/ RetryConnect \/ RecvReply \/ StrayCron
           \/ CallbackCrashes \/ ServerReplies \/ ServerCloses \/ Tick \/ UNCHANGED vars
           \/ \E r \in Reqs : \/ IssueFromThread(r) \/ RecvReplyAndIssue(r)
                             \/ RecvReplyAndIssueFails(r)
  <2>1. UNCHANGED <<timer, strayTimer>>
    BY <1>7, Zenon DEF Connect, Disconnect, RunConnect, RetryConnect, RecvReply, StrayCron,
       CallbackCrashes, ConnectFailsInCallback, ServerReplies, ServerCloses, Tick, vars,
       IssueFromThread, RecvReplyAndIssue,
       RecvReplyAndIssueFails, Die, clientVars
  <2> QED BY <2>1, Zenon DEF NoTimers
<1> QED BY <1>2, <1>3, <1>4, <1>5, <1>6, <1>7
        DEF Next, ProgramStep, LoopStep, NetworkStep, CallbackCrashes

\* An open connection has what sendCommandInLoop dereferences.
UpIsWhole == link = "up" => codec /\ hasConn

\* An open connection keeps what sendCommandInLoop dereferences, in every step.
LEMMA UpIsWholeStep ==
    ASSUME UpIsWhole, [Next]_vars
    PROVE  UpIsWhole'
<1>1. CASE UNCHANGED <<link, codec, hasConn>>
  BY <1>1, Zenon DEF UpIsWhole
<1>2. CASE link' # "up"
  BY <1>2, Zenon DEF UpIsWhole
<1>3. ASSUME NEW r, NEW q, SendCommandInLoop(r, q) PROVE UpIsWhole'
  <2>1. CASE SendFails(r, q)
    BY <1>2, <2>1, NotUp DEF SendFails
  <2>2. CASE ~SendFails(r, q)
    BY <1>1, <1>3, <2>2 DEF SendCommandInLoop, SendUnconnected, SendNoCodec, SendNoConnection,
       SendDropped, SendWritten, Die, clientVars
  <2> QED BY <2>1, <2>2
<1>4. CASE RunSend \/ \E r \in Reqs : IssueInLoop(r)
  BY <1>3, <1>4 DEF RunSend, IssueInLoop
<1>5. CASE ConnectSucceeds
  BY <1>5, Zenon DEF ConnectSucceeds, UpIsWhole
<1>6. CASE DetectClose \/ ConnectSucceedsAndBreaks
  BY <1>2, <1>6, NotUp DEF DetectClose, ConnectSucceedsAndBreaks
<1>7. CASE Connect \/ RunDisconnect \/ RetryConnect \/ ClientCron \/ RecvGarbage
  BY <1>2, <1>7 DEF Connect, RunDisconnect, RetryConnect, ClientCron, RecvGarbage, ReplaceClient
<1>8. ASSUME NEW refused \in BOOLEAN, ConnectFails(refused) PROVE UpIsWhole'
  BY <1>2, <1>8 DEF ConnectFails
<1>9. CASE RunConnect
  <2>1. UNCHANGED <<codec, hasConn>> /\ (link' = "connecting" \/ link' = link)
    BY <1>9 DEF RunConnect, clientVars
  <2> QED BY <1>1, <1>2, <2>1
<1>10. CASE \/ Disconnect \/ RecvReply \/ StrayCron \/ CallbackCrashes \/ ServerReplies
            \/ ServerCloses \/ Tick \/ UNCHANGED vars
            \/ \E r \in Reqs : \/ IssueFromThread(r) \/ RecvReplyAndIssue(r)
                              \/ RecvReplyAndIssueFails(r)
  BY <1>1, <1>10 DEF Disconnect, RecvReply, StrayCron, CallbackCrashes,
     ConnectFailsInCallback, ServerReplies, ServerCloses, Tick, vars, IssueFromThread, RecvReplyAndIssue, RecvReplyAndIssueFails, Die, clientVars
<1> QED BY <1>4, <1>5, <1>6, <1>7, <1>8, <1>9, <1>10
        DEF Next, ProgramStep, LoopStep, NetworkStep, CallbackCrashes

\* A connect() has succeeded.
Succeeded == \E n \in 1..MaxConnects : future[n] = "ok"

\* Once one has, a tcp_client_ has had a connection; commands wait in the loop's queue
\* only then; and before the first call there is no tcp_client_.
ThreadsAreReady ==
    /\ connects = 0 => ~tcp
    /\ "thread" \in Contexts /\ Succeeded => codec /\ (tcp => hasConn)
    /\ \A r \in Reqs : Holds(inbox, r) => "thread" \in Contexts /\ Succeeded

SoundInv ==
    /\ DataOK
    /\ PromiseFresh /\ NoTimers /\ UpHasClient /\ UpIsWhole /\ ThreadsAreReady /\ NoCrash

\* No step sends without a codec_ or a connection, or runs into an assertion.
LEMMA NoCrashStep ==
    ASSUME SoundUse, SoundInv, [Next]_vars
    PROVE  NoCrash'
<1>1. ASSUME NEW r \in Reqs, NEW q, SendCommandInLoop(r, q), tcp => codec /\ hasConn PROVE NoCrash'
  <2>1. ~SendNoCodec(r, q) /\ ~SendNoConnection(r, q)
    BY <1>1, Zenon DEF SendNoCodec, SendNoConnection
  <2>2. UNCHANGED crash
    BY <1>1, <2>1, Zenon DEF SendCommandInLoop, SendUnconnected, SendDropped, SendWritten, SendFails
  <2> QED BY <2>2 DEF SoundInv, NoCrash
<1>2. CASE RunSend
  <2>1. inbox # <<>> /\ Head(inbox) \in Reqs /\ SendCommandInLoop(Head(inbox), Tail(inbox))
    BY <1>2, Zenon DEF RunSend
  <2>2. inbox \in Seq(Reqs \cup {"connect", "disconnect"})
    BY DEF SoundInv, DataOK
  <2>3. Holds(inbox, Head(inbox))
    BY <2>1, <2>2, HoldsHeadTail
  <2>4. tcp => codec /\ hasConn
    BY <2>1, <2>3, Zenon DEF SoundInv, ThreadsAreReady
  <2> QED BY <1>1, <2>1, <2>4
<1>3. ASSUME NEW r \in Reqs, IssueInLoop(r) PROVE NoCrash'
  <2>1. link = "up" /\ SendCommandInLoop(r, inbox)
    BY <1>3, Zenon DEF IssueInLoop
  <2>2. tcp => codec /\ hasConn
    BY <2>1, Zenon DEF SoundInv, UpIsWhole
  <2> QED BY <1>1, <2>1, <2>2
<1>4. ~StrayCron /\ ~CallbackCrashes /\ \A r \in Reqs : ~RecvReplyAndIssueFails(r)
  <2>1. ~StrayCron /\ \A r \in Reqs : ~RecvReplyAndIssueFails(r)
    BY Zenon DEF StrayCron, RecvReplyAndIssueFails, SoundInv, SoundUse, NoTimers
  <2>2. \A cbs : IssuedMeanwhile(cbs) = {}
    BY DEF SoundUse, IssuedMeanwhile
  <2> QED BY <2>1, <2>2, Zenon DEF CallbackCrashes, ConnectFailsInCallback
<1>5. CASE ~RunSend /\ \A r \in Reqs : ~IssueInLoop(r)
  <2>1. UNCHANGED crash
    BY <1>4, <1>5 DEF Next, ProgramStep, LoopStep, NetworkStep, Connect, Disconnect,
       IssueFromThread, RunConnect, RunDisconnect, RetryConnect, RecvReply, RecvReplyAndIssue,
       DetectClose, ClientCron, ConnectSucceeds, ConnectSucceedsAndBreaks, ConnectFails,
       RecvGarbage, ServerReplies, ServerCloses, Tick, vars, CallbackCrashes
  <2> QED BY <2>1 DEF SoundInv, NoCrash
<1> QED BY <1>2, <1>3, <1>5

\* What is in the loop's queue after a step was there, or is issued by a thread.
LEMMA QueuedAfter ==
    ASSUME DataOK, [Next]_vars, NEW r \in Reqs, Holds(inbox', r)
    PROVE  Holds(inbox, r) \/ IssueFromThread(r)
<1>0. inbox \in Seq(Reqs \cup {"connect", "disconnect"}) /\ r \notin {"connect", "disconnect"}
  BY TokenAssumption DEF DataOK
<1>1. CASE inbox' = inbox
  BY <1>1, Zenon DEF Holds
<1>2. CASE inbox # <<>> /\ inbox' = Tail(inbox)
  <2>1. Holds(Tail(inbox), r)
    BY <1>2, Zenon DEF Holds
  <2> QED BY <1>0, <1>2, <2>1, HoldsHeadTail
<1>3. ASSUME NEW e \in Reqs \cup {"connect", "disconnect"}, inbox' = Append(inbox, e)
      PROVE  Holds(inbox, r) \/ r = e
  <2>1. Holds(Append(inbox, e), r)
    BY <1>3, Zenon DEF Holds
  <2> QED BY <1>0, <2>1, HoldsAppend
<1>4. CASE Connect \/ Disconnect
  BY <1>0, <1>3, <1>4 DEF Connect, Disconnect
<1>5. ASSUME NEW x \in Reqs, IssueFromThread(x) PROVE Holds(inbox, r) \/ IssueFromThread(r)
  BY <1>3, <1>5 DEF IssueFromThread
<1>6. ASSUME NEW x, NEW q, SendCommandInLoop(x, q) PROVE inbox' = inbox \/ inbox' = q
  BY <1>6 DEF SendCommandInLoop, SendUnconnected, SendNoCodec, SendNoConnection,
     SendDropped, SendWritten, SendFails, Die
<1>7. CASE RunSend \/ \E x \in Reqs : IssueInLoop(x)
  BY <1>1, <1>2, <1>6, <1>7 DEF RunSend, IssueInLoop
<1>8. CASE RunConnect \/ RunDisconnect
  BY <1>2, <1>8 DEF RunConnect, RunDisconnect
<1>9. CASE \/ RetryConnect \/ RecvReply \/ DetectClose \/ ClientCron \/ StrayCron
           \/ CallbackCrashes \/ ConnectSucceeds \/ ConnectSucceedsAndBreaks \/ RecvGarbage \/ ServerReplies
           \/ ServerCloses \/ Tick \/ UNCHANGED vars
           \/ \E x \in Reqs : RecvReplyAndIssue(x) \/ RecvReplyAndIssueFails(x)
           \/ \E refused \in BOOLEAN : ConnectFails(refused)
  BY <1>1, <1>9 DEF RetryConnect, RecvReply, DetectClose, ClientCron, StrayCron,
     ConnectSucceeds, ConnectSucceedsAndBreaks, RecvGarbage, ServerReplies, ServerCloses,
     Tick, vars, RecvReplyAndIssue, RecvReplyAndIssueFails, Die, ConnectFails,
     CallbackCrashes, ConnectFailsInCallback
<1> QED BY <1>4, <1>5, <1>7, <1>8, <1>9
        DEF Next, ProgramStep, LoopStep, NetworkStep, CallbackCrashes

\* A connect() succeeds only on an open connection.
LEMMA SuccessIsOpen ==
    ASSUME DataOK, [Next]_vars, UpHasClient, UpIsWhole, NEW n \in 1..MaxConnects,
           future[n] # "ok", future'[n] = "ok"
    PROVE  tcp' /\ codec' /\ hasConn'
<1>1. ASSUME Resolve("error") PROVE FALSE
  BY <1>1, UseAssumption DEF Resolve, DataOK
<1>2. ASSUME UNCHANGED future PROVE FALSE
  BY <1>2
<1>3. ASSUME NEW r, NEW q, SendCommandInLoop(r, q) PROVE FALSE
  BY <1>1, <1>2, <1>3 DEF SendCommandInLoop, SendUnconnected, SendNoCodec, SendNoConnection,
     SendDropped, SendWritten, SendFails, Die, progVars, OnDisconnected
<1>4. CASE RecvReply
  BY <1>4, Zenon DEF RecvReply, UpHasClient, UpIsWhole
<1>5. CASE ConnectSucceeds \/ ConnectSucceedsAndBreaks
  <2>1. tcp /\ tcp' = tcp /\ codec' = TRUE /\ hasConn' = TRUE
    BY <1>5 DEF ConnectSucceeds, ConnectSucceedsAndBreaks
  <2> QED BY <2>1, Zenon
<1>6. ASSUME NEW refused \in BOOLEAN, ConnectFails(refused) PROVE FALSE
  BY <1>1, <1>2, <1>6 DEF ConnectFails, OnDisconnected
<1>7. ~RunSend /\ \A r \in Reqs : ~IssueInLoop(r)
  BY <1>3 DEF RunSend, IssueInLoop
<1>8. CASE \/ Connect \/ Disconnect \/ RunConnect \/ RunDisconnect \/ RetryConnect
           \/ DetectClose \/ ClientCron \/ StrayCron \/ CallbackCrashes \/ RecvGarbage
           \/ ServerReplies \/ ServerCloses \/ Tick \/ UNCHANGED vars
           \/ \E r \in Reqs : \/ IssueFromThread(r) \/ RecvReplyAndIssue(r)
                             \/ RecvReplyAndIssueFails(r)
  BY <1>1, <1>2, <1>8 DEF Connect, Disconnect, RunConnect, RunDisconnect, RetryConnect,
     DetectClose, ClientCron, StrayCron, RecvGarbage, ReplaceClient, OnDisconnected, Die,
     ServerReplies, ServerCloses, Tick, vars, IssueFromThread, RecvReplyAndIssue,
     RecvReplyAndIssueFails, CallbackCrashes, ConnectFailsInCallback, progVars
<1> QED BY <1>4, <1>5, <1>6, <1>7, <1>8
        DEF Next, ProgramStep, LoopStep, NetworkStep, CallbackCrashes

\* Once a connect() has succeeded and is the only one, nothing takes codec_ or the
\* connection away from a tcp_client_ that stays.
LEMMA ConnectionStays ==
    ASSUME SoundUse, "thread" \in Contexts, [Next]_vars, connects # 0, DataOK, NoTimers,
           codec, tcp => hasConn
    PROVE  codec' /\ (tcp' => hasConn')
<1>1. ASSUME codec' = codec \/ codec' = TRUE, tcp' = tcp \/ tcp' = FALSE,
             hasConn' = hasConn \/ hasConn' = TRUE \/ tcp' = FALSE
      PROVE  codec' /\ (tcp' => hasConn')
  <2>1. codec'
    BY <1>1
  <2>2. CASE tcp' = FALSE
    BY <2>1, <2>2
  <2>3. CASE tcp' = tcp /\ hasConn' = hasConn
    BY <2>1, <2>3, Zenon
  <2>4. CASE tcp' = tcp /\ hasConn' = TRUE
    BY <2>1, <2>4, Zenon
  <2> QED BY <1>1, <2>2, <2>3, <2>4, Zenon
<1>2. ~Connect
  <2>1. MaxConnects <= 1 /\ MaxConnects \in Nat /\ connects \in 0..MaxConnects
    BY UseAssumption DEF SoundUse, DataOK
  <2>2. ~(connects < MaxConnects)
    BY <2>1
  <2> QED BY <2>2, Zenon DEF Connect
<1>3. ~ClientCron /\ ~RecvGarbage
  BY Zenon DEF ClientCron, RecvGarbage, NoTimers, SoundUse
<1>4. ASSUME NEW r, NEW q, SendCommandInLoop(r, q) PROVE codec' /\ (tcp' => hasConn')
  BY <1>1, <1>4 DEF SendCommandInLoop, SendUnconnected, SendNoCodec, SendNoConnection,
     SendDropped, SendWritten, SendFails, Die, clientVars
<1>5. CASE RunSend \/ \E r \in Reqs : IssueInLoop(r)
  BY <1>4, <1>5 DEF RunSend, IssueInLoop
<1>6. CASE ConnectSucceeds \/ ConnectSucceedsAndBreaks \/ RunDisconnect \/ DetectClose
  BY <1>1, <1>6 DEF ConnectSucceeds, ConnectSucceedsAndBreaks, RunDisconnect, DetectClose
<1>7. CASE \/ Disconnect \/ RunConnect \/ RetryConnect \/ RecvReply \/ StrayCron
           \/ CallbackCrashes \/ ServerReplies \/ ServerCloses \/ Tick \/ UNCHANGED vars
           \/ \E r \in Reqs : \/ IssueFromThread(r) \/ RecvReplyAndIssue(r)
                             \/ RecvReplyAndIssueFails(r)
           \/ \E refused \in BOOLEAN : ConnectFails(refused)
  BY <1>1, <1>7 DEF Disconnect, RunConnect, RetryConnect, RecvReply, StrayCron, Die,
     ServerReplies, ServerCloses, Tick, vars, IssueFromThread, RecvReplyAndIssue,
     RecvReplyAndIssueFails, CallbackCrashes, ConnectFailsInCallback, ConnectFails, clientVars
<1> QED BY <1>2, <1>3, <1>5, <1>6, <1>7
        DEF Next, ProgramStep, LoopStep, NetworkStep, CallbackCrashes

\* connect() is what counts the calls, and the only way to a tcp_client_.
LEMMA OnlyConnectCounts ==
    ASSUME [Next]_vars, ~Connect
    PROVE  connects' = connects
<1>1. ASSUME NEW r, NEW q, SendCommandInLoop(r, q) PROVE connects' = connects
  BY <1>1 DEF SendCommandInLoop, SendUnconnected, SendNoCodec, SendNoConnection,
     SendDropped, SendWritten, SendFails, Die, progVars
<1>2. CASE RunSend \/ \E r \in Reqs : IssueInLoop(r)
  BY <1>1, <1>2 DEF RunSend, IssueInLoop
<1>3. CASE ~(RunSend \/ \E r \in Reqs : IssueInLoop(r))
  BY <1>3 DEF Next, ProgramStep, LoopStep, NetworkStep, Disconnect, RecvReplyAndIssueFails,
     StrayCron, Die, IssueFromThread, RunConnect, RunDisconnect, RetryConnect, RecvReply,
     RecvReplyAndIssue, DetectClose, ClientCron, ConnectSucceeds, ConnectSucceedsAndBreaks,
     ConnectFails, ConnectFailsInCallback, RecvGarbage, ServerReplies, ServerCloses, Tick,
     vars, progVars
<1> QED BY <1>2, <1>3

\* Without timers, only connect() makes a TcpClient.
LEMMA OnlyConnectCreates ==
    ASSUME [Next]_vars, ~Connect, NoTimers, UpHasClient, ~tcp
    PROVE  ~tcp'
<1>0. ASSUME tcp' = tcp \/ tcp' = FALSE PROVE ~tcp'
  BY <1>0
<1>1. ASSUME NEW r, NEW q, SendCommandInLoop(r, q) PROVE ~tcp'
  BY <1>0, <1>1 DEF SendCommandInLoop, SendUnconnected, SendNoCodec, SendNoConnection,
     SendDropped, SendWritten, SendFails, Die, clientVars
<1>2. CASE RunSend \/ \E r \in Reqs : IssueInLoop(r)
  BY <1>1, <1>2 DEF RunSend, IssueInLoop
<1>3. ~ClientCron /\ ~RecvGarbage
  BY Zenon DEF ClientCron, RecvGarbage, NoTimers, UpHasClient
<1>4. CASE ~(RunSend \/ \E r \in Reqs : IssueInLoop(r))
  BY <1>0, <1>3, <1>4 DEF Next, ProgramStep, LoopStep, NetworkStep, Disconnect, RecvReplyAndIssueFails,
     StrayCron, Die, IssueFromThread, RunConnect, RunDisconnect, RetryConnect, RecvReply,
     RecvReplyAndIssue, DetectClose, ConnectSucceeds, ConnectSucceedsAndBreaks,
     ConnectFails, ConnectFailsInCallback, ServerReplies, ServerCloses, Tick, vars, clientVars
<1> QED BY <1>2, <1>4

\* Under sound use the client is ready whenever a handler runs, after every step.
LEMMA ReadyStep ==
    ASSUME SoundUse, SoundInv, [Next]_vars
    PROVE  ThreadsAreReady'
<1>0. /\ DataOK /\ PromiseFresh /\ NoTimers /\ UpHasClient /\ UpIsWhole /\ ThreadsAreReady
      /\ connects \in Nat
  BY DEF SoundInv, DataOK
<1>1. connects' = 0 => ~tcp'
  <2>1. CASE Connect
    <3>1. connects' = connects + 1
      BY <2>1, Zenon DEF Connect
    <3> QED BY <1>0, <3>1
  <2>2. CASE ~Connect
    <3>1. connects' = connects
      BY <2>2, OnlyConnectCounts
    <3>2. connects = 0 => ~tcp
      BY <1>0 DEF ThreadsAreReady
    <3> QED BY <1>0, <2>2, <3>1, <3>2, OnlyConnectCreates
  <2> QED BY <2>1, <2>2
<1>2. Succeeded => Succeeded'
  <2>1. FutureKept
    BY <1>0, PromiseStep
  <2> QED BY <2>1 DEF Succeeded, FutureKept
<1>3. ASSUME "thread" \in Contexts, Succeeded' PROVE codec' /\ (tcp' => hasConn')
  <2>1. CASE ~Succeeded
    <3>1. PICK n \in 1..MaxConnects : future'[n] = "ok" /\ future[n] # "ok"
      BY <1>3, <2>1 DEF Succeeded
    <3>2. tcp' /\ codec' /\ hasConn'
      BY <1>0, <3>1, SuccessIsOpen
    <3> QED BY <3>2
  <2>2. CASE Succeeded
    <3>1. codec /\ (tcp => hasConn)
      BY <1>0, <1>3, <2>2, Zenon DEF ThreadsAreReady
    <3>2. connects # 0
      BY <1>0, <2>2, UseAssumption DEF Succeeded, PromiseFresh
    <3> QED BY <1>0, <1>3, <3>1, <3>2, ConnectionStays
  <2> QED BY <2>1, <2>2
<1>4. ASSUME NEW r \in Reqs, Holds(inbox', r) PROVE "thread" \in Contexts /\ Succeeded'
  <2>1. CASE Holds(inbox, r)
    BY <1>0, <1>2, <2>1, Zenon DEF ThreadsAreReady
  <2>2. CASE IssueFromThread(r)
    <3>1. "thread" \in Contexts /\ (InitWait = "success" => Succeeded)
      BY <2>2 DEF IssueFromThread, MayIssue, Succeeded
    <3> QED BY <1>2, <3>1, Zenon DEF SoundUse
  <2> QED BY <1>0, <1>4, <2>1, <2>2, QueuedAfter
<1> QED BY <1>1, <1>3, <1>4, Zenon DEF ThreadsAreReady, Succeeded, Holds

\* Used soundly (SoundUse: no timeout set, no use inside its callbacks, and other threads
\* only after the one connect() has succeeded, to a server whose replies decode) it survives every loss, failed
\* write and order of events: it is never made to send without a codec_ or a connection and none of its assertions fails
\* (sendCommandInLoop, clientCron, assertNotInCallbackContext).
THEOREM SoundUseDoesNotCrash ==
    ASSUME SoundUse
    PROVE  Spec => []NoCrash
<1>1. Init => SoundInv
  <2> SUFFICES ASSUME Init PROVE SoundInv
    OBVIOUS
  <2>1. NoTimers /\ UpHasClient /\ UpIsWhole /\ NoCrash
    <3>1. timer = FALSE /\ strayTimer = FALSE /\ link = "idle" /\ crash = "none"
      BY Zenon DEF Init
    <3> QED BY <3>1 DEF NoTimers, UpHasClient, UpIsWhole, NoCrash
  <2>2. PromiseFresh
    BY UseAssumption DEF Init, PromiseFresh
  <2>3. ThreadsAreReady
    <3>1. tcp = FALSE /\ inbox = <<>> /\ \A n \in 1..MaxConnects : future[n] = "pending"
      BY DEF Init
    <3>2. ~Succeeded
      BY <3>1 DEF Succeeded
    <3> QED BY <3>1, <3>2, HoldsNothing DEF ThreadsAreReady
  <2> QED BY <2>1, <2>2, <2>3, DataInit DEF SoundInv
<1>2. SoundInv /\ [Next]_vars => SoundInv'
  <2> SUFFICES ASSUME SoundInv, [Next]_vars PROVE SoundInv'
    OBVIOUS
  <2>1. DataOK'
    BY DataStep DEF SoundInv
  <2>2. PromiseFresh' /\ NoTimers' /\ UpHasClient' /\ UpIsWhole'
    BY PromiseStep, NoTimersStep, UpHasClientStep, UpIsWholeStep DEF SoundInv
  <2>3. ThreadsAreReady' /\ NoCrash'
    BY ReadyStep, NoCrashStep
  <2> QED BY <2>1, <2>2, <2>3 DEF SoundInv
<1>3. SoundInv => NoCrash
  BY DEF SoundInv
<1> QED BY <1>1, <1>2, <1>3, PTL DEF Spec
=============================================================================
