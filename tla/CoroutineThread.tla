--------------------------- MODULE CoroutineThread ---------------------------
(* common::CoroutineThread: one thread that makes a coroutine of every task   *)
(* and resumes the coroutines in turn, callers of putTask(), and stop().      *)
EXTENDS Integers, Sequences, FiniteSets

CONSTANTS CoPutters, CoTasksEach, MaxQueue, MaxCoroutine, MaxYields

\* max_coroutine_size_ is a size_t; MaxYields bounds the model only.
ASSUME CoroutineThreadAssumption == MaxYields \in Nat /\ MaxCoroutine \in Nat

VARIABLES
    coStopped,     \* stopped_
    coQueue,       \* queue_
    coroutines_,   \* coroutines_ but the one being resumed; coroutines_size_ its length
    co_start_times_, \* the coroutines registered with their start time
    coPutter,      \* caller -> "idle" or "push" (it has seen ~stopped_)
    coPut,         \* caller -> calls made
    coThread,      \* "top", "take", "waiting", "resume" or "exited"
    yields,        \* times the coroutines have yielded, up to MaxYields
    coAccepted, coEnded,
    coStop         \* the stopping thread: "none", "joining" or "returned"

coVars == <<coStopped, coQueue, coroutines_, co_start_times_, coPutter, coPut, coThread, yields, coAccepted,
            coEnded, coStop>>

CoInit ==
    /\ coStopped = FALSE /\ coQueue = <<>> /\ coroutines_ = <<>> /\ co_start_times_ = {}
    /\ coPutter = [p \in CoPutters |-> "idle"] /\ coPut = [p \in CoPutters |-> 0]
    /\ coThread = "top" /\ yields = 0 /\ coAccepted = {} /\ coEnded = {} /\ coStop = "none"

(***************************************************************************)
(* putTask(): the test of stopped_, then the rest under the lock.           *)
(***************************************************************************)
CoPutTask(p) ==
    /\ coPutter[p] = "idle" /\ coPut[p] < CoTasksEach /\ coPut' = [coPut EXCEPT ![p] = @ + 1]
    /\ coPutter' = [coPutter EXCEPT ![p] = IF coStopped THEN "idle" ELSE "push"]
    /\ UNCHANGED <<coStopped, coQueue, coroutines_, co_start_times_, coThread, yields, coAccepted, coEnded, coStop>>

CoPush(p) ==
    /\ coPutter[p] = "push" /\ coPutter' = [coPutter EXCEPT ![p] = "idle"]
    /\ IF MaxQueue > 0 /\ Len(coQueue) >= MaxQueue THEN UNCHANGED <<coQueue, coAccepted, coThread>>
       ELSE /\ coQueue' = Append(coQueue, <<p, coPut[p]>>) /\ coAccepted' = coAccepted \cup {<<p, coPut[p]>>}
            /\ coThread' = IF coThread = "waiting" THEN "take" ELSE coThread
    /\ UNCHANGED <<coStopped, coroutines_, co_start_times_, coPut, yields, coEnded, coStop>>

(***************************************************************************)
(* threadFunc()                                                             *)
(***************************************************************************)
CoTop ==
    /\ coThread = "top" /\ coThread' = IF coStopped /\ coroutines_ = <<>> THEN "exited" ELSE "take"
    /\ UNCHANGED <<coStopped, coQueue, coroutines_, co_start_times_, coPutter, coPut, yields, coAccepted, coEnded, coStop>>

\* createCoroutine(): in front of the others, and registered.
CreateCoroutine(t) == coroutines_' = <<t>> \o coroutines_ /\ co_start_times_' = co_start_times_ \cup {t}

\* take() and the creation of the coroutine.
CoTake ==
    /\ coThread = "take"
    /\ IF coQueue = <<>> /\ ~coStopped /\ coroutines_ = <<>>
       THEN coThread' = "waiting" /\ UNCHANGED <<coQueue, coroutines_, co_start_times_>>
       ELSE /\ coThread' = "resume"
            /\ IF coQueue = <<>> \/ (MaxCoroutine > 0 /\ Len(coroutines_) > MaxCoroutine)
               THEN UNCHANGED <<coQueue, coroutines_, co_start_times_>>
               ELSE CreateCoroutine(Head(coQueue)) /\ coQueue' = Tail(coQueue)
    /\ UNCHANGED <<coStopped, coPutter, coPut, yields, coAccepted, coEnded, coStop>>

\* not_empty_cond_.waitFor() ends by itself after sleep_time_ms_.
CoTimeout ==
    /\ coThread = "waiting" /\ coThread' = "take"
    /\ UNCHANGED <<coStopped, coQueue, coroutines_, co_start_times_, coPutter, coPut, yields, coAccepted, coEnded, coStop>>

\* resumeCoroutine(): the first one runs until it ends (and is destroyed) or
\* yields (and goes to the back).
ResumeCoroutine ==
    /\ coThread = "resume" /\ coThread' = "top"
    /\ IF coroutines_ = <<>> THEN UNCHANGED <<coroutines_, co_start_times_, coEnded, yields>>
       ELSE \/ /\ coroutines_' = Tail(coroutines_) /\ co_start_times_' = co_start_times_ \ {Head(coroutines_)}
               /\ coEnded' = coEnded \cup {Head(coroutines_)} /\ UNCHANGED yields
            \/ /\ yields < MaxYields /\ yields' = yields + 1
               /\ coroutines_' = Append(Tail(coroutines_), Head(coroutines_)) /\ UNCHANGED <<co_start_times_, coEnded>>
    /\ UNCHANGED <<coStopped, coQueue, coPutter, coPut, coAccepted, coStop>>

(***************************************************************************)
(* stop()                                                                   *)
(***************************************************************************)
CoStopSet ==
    /\ coStop = "none" /\ coStop' = "joining" /\ coStopped' = TRUE
    /\ coThread' = IF coThread = "waiting" THEN "take" ELSE coThread
    /\ UNCHANGED <<coQueue, coroutines_, co_start_times_, coPutter, coPut, yields, coAccepted, coEnded>>

CoJoined ==
    /\ coStop = "joining" /\ coThread = "exited" /\ coStop' = "returned"
    /\ UNCHANGED <<coStopped, coQueue, coroutines_, co_start_times_, coPutter, coPut, coThread, yields, coAccepted, coEnded>>

CoWork == CoTop \/ CoTake \/ CoTimeout \/ ResumeCoroutine
CoNext == CoWork \/ CoStopSet \/ CoJoined \/ \E p \in CoPutters : CoPutTask(p) \/ CoPush(p)

(***************************************************************************)
(* Properties                                                               *)
(***************************************************************************)
CoTypeOK ==
    /\ coThread \in {"top", "take", "waiting", "resume", "exited"} /\ coStop \in {"none", "joining", "returned"}
    /\ coEnded \subseteq coAccepted /\ yields \in 0 .. MaxYields

\* Every task taken from the queue is a coroutine, registered, until it ends;
\* none is run twice or lost, and the test with > lets one more than
\* max_coroutine_size_ live at a time.
EveryCoroutineIsAlive ==
    /\ co_start_times_ = {coroutines_[i] : i \in DOMAIN coroutines_}
    /\ Len(coroutines_) = Cardinality(co_start_times_) /\ co_start_times_ \cap coEnded = {}
    /\ MaxCoroutine > 0 => Len(coroutines_) <= MaxCoroutine + 1

\* stop() waits for the coroutines: when it frees their stacks, none is left.
StopWaitsForCoroutines == coStop = "returned" => coroutines_ = <<>>

\* An accepted task runs to its end, unless stop() comes first; and stop()
\* returns.
CoTasksEnd ==
    /\ \A t \in CoPutters \X (1 .. CoTasksEach) : t \in coAccepted ~> t \in coEnded \/ coStop # "none"
    /\ coStop = "joining" ~> coStop = "returned"
=============================================================================
