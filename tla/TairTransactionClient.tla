------------------------ MODULE TairTransactionClient ------------------------
(* TairTransactionClient: commands are collected in cmd_stack_ and sent, with *)
(* MULTI in front, by exec(), which is called on the loop thread or off it.   *)
(* Off it every sendCommand() is a functor of its own, and the connection may *)
(* be replaced between two of them.                                           *)
EXTENDS Integers, Sequences, SequencesExt

CONSTANTS MaxCommands, MaxCalls, MaxCuts

ASSUME TransactionAssumption == MaxCommands \in Nat

VARIABLES
    onLoop,     \* the user's calls are made on the loop thread
    open,       \* the user has called multi() and neither exec() nor discard()
    cmd_stack_, \* the commands collected
    batch,      \* data commands collected since the last exec()
    functors,   \* sendCommand functors queued to the loop
    tx_up,      \* the connection is up
    wire,       \* commands on the wire
    inMulti, queued, \* the server's transaction on this connection
    outside,    \* data commands the server ran outside a transaction
    appended, calls, cuts \* counters of the environment, bounded

txVars == <<onLoop, open, cmd_stack_, batch, functors, tx_up, wire, inMulti, queued, outside,
            appended, calls, cuts>>
userVars == <<onLoop, open, cmd_stack_, batch, appended, calls>>
serverVars == <<inMulti, queued, outside>>

\* A command; "of" is history: the data commands collected for the next exec()
\* when it was made, its own id included.
Command(op, id, of) == [op |-> op, id |-> id, of |-> of]
Plainly(op) == Command(op, 0, <<>>)

TxInit ==
    /\ onLoop \in BOOLEAN /\ open = FALSE /\ cmd_stack_ = <<>> /\ batch = <<>> /\ functors = <<>>
    /\ tx_up = TRUE /\ wire = <<>> /\ inMulti = FALSE /\ queued = <<>> /\ outside = {}
    /\ appended = 0 /\ calls = 0 /\ cuts = 0

\* sendCommand() for each of cmds: straight to the connection, which drops them
\* when it is down, or one functor each.
SendAll(cmds) ==
    IF onLoop THEN wire' = (IF tx_up THEN wire \o cmds ELSE wire) /\ UNCHANGED functors
    ELSE functors' = functors \o cmds /\ UNCHANGED wire

(***************************************************************************)
(* The user's calls.  Data commands are appended between multi() and exec() *)
(* or discard().                                                            *)
(***************************************************************************)
Multi ==
    /\ ~open /\ calls < MaxCalls
    /\ open' = TRUE /\ calls' = calls + 1
    /\ cmd_stack_' = Append(cmd_stack_, Command("multi", 0, batch))
    /\ UNCHANGED <<onLoop, batch, functors, tx_up, wire, serverVars, appended, cuts>>

AppendCommand ==
    /\ open /\ appended < MaxCommands
    /\ appended' = appended + 1
    /\ batch' = Append(batch, appended + 1)
    /\ cmd_stack_' = Append(cmd_stack_, Command("data", appended + 1, batch'))
    /\ UNCHANGED <<onLoop, open, functors, tx_up, wire, serverVars, calls, cuts>>

\* Mutant of Exec: EXEC overtakes the collected commands.
ExecFirst ==
    /\ open /\ calls < MaxCalls
    /\ open' = FALSE /\ calls' = calls + 1
    /\ SendAll(<<Command("exec", 0, batch)>> \o cmd_stack_)
    /\ cmd_stack_' = <<>> /\ batch' = <<>>
    /\ UNCHANGED <<onLoop, tx_up, serverVars, appended, cuts>>

\* exec(): everything collected, in order, then EXEC.
Exec ==
    /\ open /\ calls < MaxCalls
    /\ open' = FALSE /\ calls' = calls + 1
    /\ SendAll(cmd_stack_ \o <<Command("exec", 0, batch)>>)
    /\ cmd_stack_' = <<>> /\ batch' = <<>>
    /\ UNCHANGED <<onLoop, tx_up, serverVars, appended, cuts>>

\* discard(): DISCARD is sent; cmd_stack_ is not emptied.
Discard ==
    /\ open /\ calls < MaxCalls
    /\ open' = FALSE /\ calls' = calls + 1
    /\ SendAll(<<Plainly("discard")>>)
    /\ UNCHANGED <<onLoop, cmd_stack_, batch, tx_up, serverVars, appended, cuts>>

\* watch(keys) and unwatch() are sent at once.
Watch(op) ==
    /\ calls < MaxCalls /\ calls' = calls + 1
    /\ SendAll(<<Plainly(op)>>)
    /\ UNCHANGED <<onLoop, open, cmd_stack_, batch, tx_up, serverVars, appended, cuts>>

\* sendCommandInLoop as a functor.
RunFunctor ==
    /\ functors # <<>> /\ functors' = Tail(functors)
    /\ wire' = IF tx_up THEN Append(wire, Head(functors)) ELSE wire
    /\ UNCHANGED <<userVars, tx_up, serverVars, cuts>>

(***************************************************************************)
(* The server (external) and the connection.                                *)
(***************************************************************************)
ServerRuns ==
    /\ wire # <<>> /\ wire' = Tail(wire)
    /\ LET c == Head(wire)
       IN  CASE c.op = "multi" -> inMulti' = TRUE /\ UNCHANGED <<queued, outside>>
             [] c.op \in {"exec", "discard"} -> inMulti' = FALSE /\ queued' = <<>> /\ UNCHANGED outside
             [] c.op = "data" /\ inMulti -> queued' = Append(queued, c.id) /\ UNCHANGED <<inMulti, outside>>
             [] c.op = "data" /\ ~inMulti -> outside' = outside \cup {c.id} /\ UNCHANGED <<inMulti, queued>>
             [] OTHER -> UNCHANGED serverVars
    /\ UNCHANGED <<userVars, functors, tx_up, cuts>>

Cut ==
    /\ tx_up /\ cuts < MaxCuts
    /\ cuts' = cuts + 1 /\ tx_up' = FALSE /\ wire' = <<>> /\ inMulti' = FALSE /\ queued' = <<>>
    /\ UNCHANGED <<userVars, functors, outside>>

Reconnected == ~tx_up /\ tx_up' = TRUE /\ UNCHANGED <<userVars, functors, wire, serverVars, cuts>>

TxNext ==
    \/ Multi \/ AppendCommand \/ Exec \/ Discard
    \/ \E op \in {"watch", "unwatch"} : Watch(op)
    \/ RunFunctor \/ ServerRuns \/ Cut \/ Reconnected

TxSpec == TxInit /\ [][TxNext]_txVars

(***************************************************************************)
(* Properties                                                               *)
(***************************************************************************)
TxTypeOK ==
    /\ onLoop \in BOOLEAN /\ open \in BOOLEAN /\ tx_up \in BOOLEAN /\ inMulti \in BOOLEAN
    /\ queued \in Seq(1..MaxCommands) /\ outside \subseteq 1..MaxCommands

\* An EXEC that finds a transaction runs commands of its own batch and of no
\* other, without a gap at the end; called on the loop thread it runs the whole
\* batch.  (The batch is everything collected since the exec() before it:
\* discard() takes nothing out.)
ExecRunsItsBatch ==
    wire # <<>> /\ Head(wire).op = "exec" /\ inMulti =>
        /\ IsSuffix(queued, Head(wire).of)
        /\ onLoop => queued = Head(wire).of

\* Called on the loop thread, exec() is all or nothing whatever happens to the
\* connection: no collected command runs outside a transaction.
NothingOutsideMulti == onLoop => outside = {}

\* exec() runs the batch collected for it, inside its transaction.
TransactionIsWhole == TxTypeOK /\ ExecRunsItsBatch /\ NothingOutsideMulti
=============================================================================
