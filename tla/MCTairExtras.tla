----------------------------- MODULE MCTairExtras -----------------------------
(* TLC instance of the client's other uses: publish/subscribe, transactions   *)
(* and the cluster's fan-out.  They share no state, so one of them is chosen  *)
(* in the initial state and the others stand still.                           *)
EXTENDS TairSubscribeClient, TairTransactionClient, ClusterFanout

VARIABLE use

vars == <<use, subVars, txVars, fanVars>>

Init == use \in {"pubsub", "transaction", "fanout"} /\ SubInit /\ TxInit /\ FanInit
        /\ (use # "transaction" => onLoop) /\ (use # "fanout" => latched /\ callerOnLoop)

Next ==
    \/ use = "pubsub" /\ SubNext /\ UNCHANGED <<use, txVars, fanVars>>
    \/ use = "transaction" /\ TxNext /\ UNCHANGED <<use, subVars, fanVars>>
    \/ use = "fanout" /\ FanNext /\ UNCHANGED <<use, subVars, txVars>>

Spec ==
    /\ Init /\ [][Next]_vars
    /\ WF_vars(use = "pubsub" /\ ServerHandles /\ UNCHANGED <<use, txVars, fanVars>>)
    /\ WF_vars(use = "pubsub" /\ (RecvMessage \/ RecvReply) /\ UNCHANGED <<use, txVars, fanVars>>)
    /\ WF_vars(use = "pubsub" /\ OnConnected /\ UNCHANGED <<use, txVars, fanVars>>)
    /\ WF_vars(use = "fanout" /\ FanNext /\ UNCHANGED <<use, subVars, txVars>>)

\* The liveness property of TairSubscribeClient, of the uses it is about.
PubSubEventuallyAgrees == use = "pubsub" => EventuallySubscribedAgain
\* The liveness property of ClusterFanout, of the use it is about.
FanoutReturns == use = "fanout" => KeysReturns
=============================================================================
