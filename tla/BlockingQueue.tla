---------------------------- MODULE BlockingQueue ----------------------------
(* common::BlockingQueue: a deque under a mutex with one condition.  Every     *)
(* operation is one critical section; a taker that finds nothing waits on the  *)
(* condition and takes the mutex again when it is woken.                       *)
EXTENDS Integers, Sequences, FiniteSets

CONSTANTS Takers, MaxPuts

ASSUME QueueUsers == IsFiniteSet(Takers) /\ MaxPuts \in Nat

VARIABLES
    queue_,   \* the elements, numbered as they are put
    taker,    \* what each taker does
    puts,     \* elements put so far
    taken     \* the elements given to takers or cleared

bqVars == <<queue_, taker, puts, taken>>

Waiting == {p \in Takers : taker[p] \in {"waits", "waitsFor"}}
Woken == {p \in Takers : taker[p] \in {"woken", "wokenFor"}}

BqInit == queue_ = <<>> /\ taker = [p \in Takers |-> "idle"] /\ puts = 0 /\ taken = {}

BqTypeOK ==
    /\ queue_ \in Seq(1 .. MaxPuts) /\ taken \subseteq 1 .. MaxPuts /\ puts \in 0 .. MaxPuts
    /\ taker \in [Takers -> {"idle", "waits", "waitsFor", "woken", "wokenFor"}]

Wake(p) == [taker EXCEPT ![p] = IF @ = "waits" THEN "woken" ELSE "wokenFor"]
NotifyOne == IF Waiting = {} THEN taker' = taker ELSE \E p \in Waiting : taker' = Wake(p)

Enqueue(front) ==
    /\ puts < MaxPuts /\ puts' = puts + 1
    /\ queue_' = IF front THEN <<puts'>> \o queue_ ELSE Append(queue_, puts')
    /\ UNCHANGED taken

\* Mutant of Put: only an element that ends the emptiness is notified.
PutNotifiesFirst(front) == Enqueue(front) /\ IF queue_ = <<>> THEN NotifyOne ELSE UNCHANGED taker

\* put() and put_front().
Put(front) == Enqueue(front) /\ NotifyOne

PopFront == queue_ # <<>> /\ queue_' = Tail(queue_) /\ taken' = taken \cup {Head(queue_)} /\ UNCHANGED puts

\* take(): its loop waits again when another taker was faster.
TakeBlocking(p) ==
    /\ taker[p] \in {"idle", "woken"}
    /\ \/ PopFront /\ taker' = [taker EXCEPT ![p] = "idle"]
       \/ queue_ = <<>> /\ taker' = [taker EXCEPT ![p] = "waits"] /\ UNCHANGED <<queue_, puts, taken>>

\* take() with a timeout waits once.
TakeFor(p) ==
    \/ /\ taker[p] = "idle"
       /\ \/ PopFront /\ UNCHANGED taker
          \/ queue_ = <<>> /\ taker' = [taker EXCEPT ![p] = "waitsFor"] /\ UNCHANGED <<queue_, puts, taken>>
    \/ /\ taker[p] = "wokenFor" /\ taker' = [taker EXCEPT ![p] = "idle"]
       /\ PopFront \/ (queue_ = <<>> /\ UNCHANGED <<queue_, puts, taken>>)

TryTake == PopFront /\ UNCHANGED taker

ClearQueue ==
    /\ taken' = taken \cup {queue_[i] : i \in DOMAIN queue_} /\ queue_' = <<>>
    /\ UNCHANGED <<taker, puts>>

\* A timeout, or a wake-up without a reason.
TakerWakes(p) == p \in Waiting /\ taker' = Wake(p) /\ UNCHANGED <<queue_, puts, taken>>

BqNext ==
    \/ \E front \in BOOLEAN : Put(front)
    \/ \E p \in Takers : TakeBlocking(p) \/ TakeFor(p) \/ TakerWakes(p)
    \/ TryTake \/ ClearQueue

BqSpec == BqInit /\ [][BqNext]_bqVars

(***************************************************************************)
(* Properties                                                               *)
(***************************************************************************)
\* No element waits beside a sleeping taker: while one sleeps, every element
\* has a taker on its way, although others, timeouts and tryTake() may take it
\* first.
NoSleepingTakerBesideElement == Waiting # {} => Len(queue_) <= Cardinality(Woken)
=============================================================================
