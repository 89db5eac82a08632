---------------------------- MODULE ClusterFanout ----------------------------
(* The methods of TairClusterAsyncClient that ask every node: keys(), which   *)
(* waits for a latch, and scriptLoad(), scriptFlush(), scriptKill(),          *)
(* flushall() and quit(), which do not wait.  The replies are handled one     *)
(* after the other on the loop thread, each in two steps.                     *)
EXTENDS Integers, FiniteSets

CONSTANTS FanNodes     \* the nodes of client_map_

ASSUME FanoutAssumption == IsFiniteSet(FanNodes) /\ "none" \notin FanNodes

VARIABLES
    latched,      \* the method is keys()
    callerOnLoop, \* it was called on the loop thread
    caller,       \* "sending", "waiting" or "returned"
    sent,         \* the nodes that have been asked
    handler,      \* the reply in the middle of its callback, or NoReply
    handled,      \* the nodes whose callback has run at least its first step
    count_,       \* the latch
    ok, parts,    \* ok and all_keys, locals of the caller
    result,       \* what the user's callback was given
    dangling      \* a callback has written to the locals of a caller that returned

fanVars == <<latched, callerOnLoop, caller, sent, handler, handled, count_, ok, parts, result, dangling>>

NoReply == [node |-> "none", success |-> TRUE]
Nothing == [ok |-> FALSE, parts |-> {}]

FanInit ==
    /\ latched \in BOOLEAN /\ callerOnLoop \in BOOLEAN
    /\ caller = "sending" /\ sent = {} /\ handler = NoReply /\ handled = {}
    /\ count_ = Cardinality(FanNodes) /\ ok = TRUE /\ parts = {} /\ result = Nothing /\ dangling = FALSE

\* The loop over client_map_.
Ask(n) ==
    /\ caller = "sending" /\ n \notin sent
    /\ sent' = sent \cup {n}
    /\ UNCHANGED <<latched, callerOnLoop, caller, handler, handled, count_, ok, parts, result, dangling>>

\* The end of the loop: latch.wait(), or the answer at once.
AskedAll ==
    /\ caller = "sending" /\ sent = FanNodes
    /\ IF latched THEN caller' = "waiting" /\ UNCHANGED result
       ELSE caller' = "returned" /\ result' = [ok |-> ok, parts |-> {}]
    /\ UNCHANGED <<latched, callerOnLoop, sent, handler, handled, count_, ok, parts, dangling>>

LoopFree == handler = NoReply /\ (callerOnLoop => caller = "returned")

\* Mutant of HandleReply: an error does not count the latch down.
HandleReplyOnSuccess(n) ==
    /\ n \in sent \ handled /\ LoopFree
    /\ \E success \in BOOLEAN :
          /\ handler' = [node |-> n, success |-> success]
          /\ count_' = IF success THEN count_ - 1 ELSE count_
    /\ handled' = handled \cup {n}
    /\ UNCHANGED <<latched, callerOnLoop, caller, sent, ok, parts, result, dangling>>

\* The reply of a node, an error or the null packet of a lost connection: the
\* latch is counted down first.
HandleReply(n) ==
    /\ n \in sent \ handled /\ LoopFree
    /\ \E success \in BOOLEAN : handler' = [node |-> n, success |-> success]
    /\ count_' = count_ - 1
    /\ handled' = handled \cup {n}
    /\ UNCHANGED <<latched, callerOnLoop, caller, sent, ok, parts, result, dangling>>

\* Then the callback writes ok or all_keys.
WriteLocals ==
    /\ handler # NoReply /\ handler' = NoReply
    /\ ok' = (ok /\ handler.success)
    /\ parts' = IF handler.success /\ latched THEN parts \cup {handler.node} ELSE parts
    /\ dangling' = (dangling \/ caller = "returned")
    /\ UNCHANGED <<latched, callerOnLoop, caller, sent, handled, count_, result>>

\* Mutant of WakeUp: the latch is not waited for to the end.
WakeUpEarly ==
    /\ caller = "waiting" /\ count_ <= 1
    /\ caller' = "returned" /\ result' = [ok |-> ok, parts |-> parts]
    /\ UNCHANGED <<latched, callerOnLoop, sent, handler, handled, count_, ok, parts, dangling>>

\* latch.wait() returns and the callback is called.
WakeUp ==
    /\ caller = "waiting" /\ count_ <= 0
    /\ caller' = "returned" /\ result' = [ok |-> ok, parts |-> parts]
    /\ UNCHANGED <<latched, callerOnLoop, sent, handler, handled, count_, ok, parts, dangling>>

FanNext ==
    \/ \E n \in FanNodes : Ask(n) \/ HandleReply(n)
    \/ AskedAll \/ WriteLocals \/ WakeUp

\* Both threads go on; every node answers or its connection is given up.
FanFairness == WF_fanVars(FanNext)

FanSpec == FanInit /\ [][FanNext]_fanVars /\ FanFairness

(***************************************************************************)
(* Properties                                                               *)
(***************************************************************************)
FanTypeOK ==
    /\ caller \in {"sending", "waiting", "returned"} /\ sent \subseteq FanNodes /\ handled \subseteq sent
    /\ count_ \in 0..Cardinality(FanNodes) /\ parts \subseteq FanNodes

\* keys() answers success only when at most one node's keys are missing: the
\* latch is counted down before the part is appended, so the last node to
\* answer may be missing, or its error unseen, but never two; the latch is
\* never counted below zero.
KeysMissesAtMostTheLast ==
    /\ FanTypeOK
    /\ caller = "returned" /\ latched /\ result.ok => Cardinality(FanNodes \ result.parts) <= 1

\* keys() called off the loop thread returns, whatever the nodes answer.
KeysReturns == (latched /\ ~callerOnLoop) ~> (caller = "returned")
=============================================================================
