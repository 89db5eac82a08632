-------------------------- MODULE ContainerProofs --------------------------
(* Proofs about the data structures: BlockingQueue for every finite set of    *)
(* takers, ConcurrentHashMap for every number of slots and every set of keys, *)
(* LRUMap for every capacity, TokenBucket for every size and rate.            *)
EXTENDS BlockingQueue, ConcurrentHashMap, LRUMap, TokenBucket,
        FiniteSetTheorems, SequenceTheorems, TLAPS

(***************************************************************************)
(* BlockingQueue                                                           *)
(***************************************************************************)
BqInv == BqTypeOK /\ NoSleepingTakerBesideElement

\* The takers on their way are finitely many.
LEMMA WokenFinite == IsFiniteSet(Woken) /\ Cardinality(Woken) \in Nat
<1>1. Woken \subseteq Takers
  BY DEF Woken
<1>2. IsFiniteSet(Woken)
  BY <1>1, QueueUsers, FS_Subset
<1> QED
  BY <1>2, FS_CardinalityType

\* A taker that is woken goes from the sleeping ones to the ones on their way.
LEMMA WakeMovesOne ==
    ASSUME BqTypeOK, NEW p \in Waiting, taker' = Wake(p)
    PROVE  /\ taker' \in [Takers -> {"idle", "waits", "waitsFor", "woken", "wokenFor"}]
           /\ Cardinality(Woken') = Cardinality(Woken) + 1
           /\ Waiting' \subseteq Waiting
<1>1. p \in Takers /\ taker[p] \in {"waits", "waitsFor"}
  BY DEF Waiting
<1>2. taker' = [taker EXCEPT ![p] = IF taker[p] = "waits" THEN "woken" ELSE "wokenFor"]
  BY DEF Wake
<1>3. taker' \in [Takers -> {"idle", "waits", "waitsFor", "woken", "wokenFor"}]
  BY <1>1, <1>2 DEF BqTypeOK
<1>4. taker'[p] \in {"woken", "wokenFor"} /\ \A q \in Takers \ {p} : taker'[q] = taker[q]
  BY <1>1, <1>2 DEF BqTypeOK
<1>5. Woken' = Woken \cup {p} /\ p \notin Woken
  BY <1>1, <1>4 DEF Woken
<1>6. Waiting' \subseteq Waiting
  BY <1>1, <1>4 DEF Waiting
<1>7. Cardinality(Woken \cup {p}) = Cardinality(Woken) + 1
  BY <1>5, WokenFinite, FS_AddElement
<1> QED
  BY <1>3, <1>5, <1>6, <1>7

\* A taker that stops being on its way, to return or to sleep again.
LEMMA OneLessWoken ==
    ASSUME BqTypeOK, NEW p \in Woken, NEW s \in {"idle", "waits", "waitsFor"}, taker' = [taker EXCEPT ![p] = s]
    PROVE  /\ taker' \in [Takers -> {"idle", "waits", "waitsFor", "woken", "wokenFor"}]
           /\ Cardinality(Woken') = Cardinality(Woken) - 1
           /\ s = "idle" => Waiting' = Waiting
<1>1. p \in Takers /\ taker[p] \in {"woken", "wokenFor"}
  BY DEF Woken
<1>2. taker' \in [Takers -> {"idle", "waits", "waitsFor", "woken", "wokenFor"}]
  BY <1>1 DEF BqTypeOK
<1>3. taker'[p] = s /\ \A q \in Takers \ {p} : taker'[q] = taker[q]
  BY <1>1 DEF BqTypeOK
<1>4. Woken' = Woken \ {p}
  BY <1>1, <1>3 DEF Woken
<1>5. s = "idle" => Waiting' = Waiting
  BY <1>1, <1>3 DEF Waiting
<1>6. Cardinality(Woken \ {p}) = Cardinality(Woken) - 1
  BY WokenFinite, FS_RemoveElement
<1> QED
  BY <1>2, <1>4, <1>5, <1>6

\* The head and the tail of a sequence that is not empty, and its elements.
LEMMA HeadAndTail ==
    ASSUME NEW S, NEW q \in Seq(S), q # <<>>
    PROVE  Tail(q) \in Seq(S) /\ Len(Tail(q)) = Len(q) - 1 /\ Head(q) \in S
  OBVIOUS

\* The elements of a sequence over S are members of S.
LEMMA ElementsOf ==
    ASSUME NEW S, NEW q \in Seq(S)
    PROVE  \A i \in DOMAIN q : q[i] \in S
  OBVIOUS

\* The front element leaves the queue.
LEMMA PopShortens ==
    ASSUME BqTypeOK, PopFront
    PROVE  /\ queue_' \in Seq(1 .. MaxPuts) /\ taken' \subseteq 1 .. MaxPuts /\ puts' \in 0 .. MaxPuts
           /\ Len(queue_') = Len(queue_) - 1
<1>1. queue_ \in Seq(1 .. MaxPuts) /\ queue_ # <<>> /\ queue_' = Tail(queue_) /\ taken' = taken \cup {Head(queue_)} /\ puts' = puts
  BY DEF BqTypeOK, PopFront
<1>2. Tail(queue_) \in Seq(1 .. MaxPuts) /\ Len(Tail(queue_)) = Len(queue_) - 1 /\ Head(queue_) \in 1 .. MaxPuts
  BY <1>1, HeadAndTail
<1> QED
  BY <1>1, <1>2 DEF BqTypeOK

\* An element that is put makes the queue longer by one.
LEMMA EnqueueLengthens ==
    ASSUME BqTypeOK, NEW front \in BOOLEAN, Enqueue(front)
    PROVE  /\ queue_' \in Seq(1 .. MaxPuts) /\ taken' \subseteq 1 .. MaxPuts /\ puts' \in 0 .. MaxPuts
           /\ Len(queue_') = Len(queue_) + 1
<1>1. puts + 1 \in 1 .. MaxPuts /\ puts' = puts + 1 /\ taken' = taken
  BY QueueUsers DEF BqTypeOK, Enqueue
<1>2. <<puts + 1>> \in Seq(1 .. MaxPuts) /\ Len(<<puts + 1>>) = 1
  BY <1>1
<1>3. CASE front
  <2>1. queue_' = <<puts + 1>> \o queue_
    BY <1>1, <1>3 DEF Enqueue
  <2> QED
    BY <1>1, <1>2, <2>1, QueueUsers DEF BqTypeOK
<1>4. CASE ~front
  <2>1. queue_' = Append(queue_, puts + 1)
    BY <1>1, <1>4 DEF Enqueue
  <2> QED
    BY <1>1, <2>1, QueueUsers DEF BqTypeOK
<1> QED
  BY <1>3, <1>4

\* Nothing is queued and nobody sleeps at the start.
LEMMA BqInitInv == BqInit => BqInv
<1> SUFFICES ASSUME BqInit PROVE BqInv
  OBVIOUS
<1>1. BqTypeOK
  BY QueueUsers DEF BqInit, BqTypeOK
<1>2. Waiting = {}
  BY DEF BqInit, Waiting
<1> QED
  BY <1>1, <1>2 DEF BqInv, NoSleepingTakerBesideElement

\* Every critical section and every wake-up keeps the invariant.
LEMMA BqNextInv == BqInv /\ [BqNext]_bqVars => BqInv'
<1> SUFFICES ASSUME BqInv, [BqNext]_bqVars PROVE BqInv'
  OBVIOUS
<1>0. BqTypeOK /\ (Waiting # {} => Len(queue_) <= Cardinality(Woken)) /\ Cardinality(Woken) \in Nat /\ Len(queue_) \in Nat
  BY WokenFinite DEF BqInv, NoSleepingTakerBesideElement, BqTypeOK
<1>s. ASSUME taker' = taker PROVE Woken' = Woken /\ Waiting' = Waiting
  BY <1>s DEF Woken, Waiting
<1>1. ASSUME NEW front \in BOOLEAN, Put(front) PROVE BqInv'
  <2>1. /\ queue_' \in Seq(1 .. MaxPuts) /\ taken' \subseteq 1 .. MaxPuts /\ puts' \in 0 .. MaxPuts
        /\ Len(queue_') = Len(queue_) + 1
    BY <1>0, <1>1, EnqueueLengthens DEF Put
  <2>2. CASE Waiting = {}
    <3>1. taker' = taker
      BY <1>1, <2>2 DEF Put, NotifyOne
    <3> QED
      BY <1>0, <1>s, <2>1, <2>2, <3>1 DEF BqInv, BqTypeOK, NoSleepingTakerBesideElement
  <2>3. CASE Waiting # {}
    <3>1. PICK p \in Waiting : taker' = Wake(p)
      BY <1>1, <2>3 DEF Put, NotifyOne
    <3> QED
      BY <1>0, <2>1, <2>3, <3>1, WakeMovesOne DEF BqInv, BqTypeOK, NoSleepingTakerBesideElement
  <2> QED
    BY <2>2, <2>3
<1>2. ASSUME NEW p \in Takers, TakeBlocking(p) PROVE BqInv'
  <2>1. CASE PopFront /\ taker' = [taker EXCEPT ![p] = "idle"]
    <3>1. /\ queue_' \in Seq(1 .. MaxPuts) /\ taken' \subseteq 1 .. MaxPuts /\ puts' \in 0 .. MaxPuts
          /\ Len(queue_') = Len(queue_) - 1
      BY <1>0, <2>1, PopShortens
    <3>2. CASE taker[p] = "idle"
      <4>1. taker' = taker
        BY <1>0, <2>1, <3>2 DEF BqTypeOK
      <4> QED
        BY <1>0, <1>s, <3>1, <4>1 DEF BqInv, BqTypeOK, NoSleepingTakerBesideElement
    <3>3. CASE taker[p] = "woken"
      <4>1. p \in Woken
        BY <3>3 DEF Woken
      <4>2. /\ taker' \in [Takers -> {"idle", "waits", "waitsFor", "woken", "wokenFor"}]
            /\ Cardinality(Woken') = Cardinality(Woken) - 1 /\ Waiting' = Waiting
        BY <1>0, <2>1, <4>1, OneLessWoken
      <4> QED
        BY <1>0, <3>1, <4>2 DEF BqInv, BqTypeOK, NoSleepingTakerBesideElement
    <3> QED
      BY <1>2, <3>2, <3>3 DEF TakeBlocking
  <2>2. CASE queue_ = <<>> /\ taker' = [taker EXCEPT ![p] = "waits"] /\ UNCHANGED <<queue_, puts, taken>>
    <3>1. Len(queue_') = 0 /\ Cardinality(Woken') \in Nat
      <4>1. Woken' \subseteq Takers
        BY DEF Woken
      <4> QED
        BY <2>2, <4>1, QueueUsers, FS_Subset, FS_CardinalityType
    <3>2. taker' \in [Takers -> {"idle", "waits", "waitsFor", "woken", "wokenFor"}]
      BY <1>0, <2>2 DEF BqTypeOK
    <3> QED
      BY <1>0, <2>2, <3>1, <3>2 DEF BqInv, BqTypeOK, NoSleepingTakerBesideElement
  <2> QED
    BY <1>2, <2>1, <2>2 DEF TakeBlocking
<1>3. ASSUME NEW p \in Takers, TakeFor(p) PROVE BqInv'
  <2>0. IsFiniteSet(Woken') /\ Cardinality(Woken') \in Nat
    <3>1. Woken' \subseteq Takers
      BY DEF Woken
    <3> QED
      BY <3>1, QueueUsers, FS_Subset, FS_CardinalityType
  <2>1. CASE PopFront /\ UNCHANGED taker
    BY <1>0, <1>s, <2>1, PopShortens DEF BqInv, BqTypeOK, NoSleepingTakerBesideElement
  <2>2. CASE queue_ = <<>> /\ taker' = [taker EXCEPT ![p] = "waitsFor"] /\ UNCHANGED <<queue_, puts, taken>>
    <3>1. taker' \in [Takers -> {"idle", "waits", "waitsFor", "woken", "wokenFor"}]
      BY <1>0, <2>2 DEF BqTypeOK
    <3> QED
      BY <1>0, <2>0, <2>2, <3>1 DEF BqInv, BqTypeOK, NoSleepingTakerBesideElement
  <2>3. CASE taker[p] = "wokenFor" /\ taker' = [taker EXCEPT ![p] = "idle"] /\ PopFront
    <3>1. p \in Woken
      BY <2>3 DEF Woken
    <3>2. /\ queue_' \in Seq(1 .. MaxPuts) /\ taken' \subseteq 1 .. MaxPuts /\ puts' \in 0 .. MaxPuts
          /\ Len(queue_') = Len(queue_) - 1
      BY <1>0, <2>3, PopShortens
    <3>3. /\ taker' \in [Takers -> {"idle", "waits", "waitsFor", "woken", "wokenFor"}]
          /\ Cardinality(Woken') = Cardinality(Woken) - 1 /\ Waiting' = Waiting
      BY <1>0, <2>3, <3>1, OneLessWoken
    <3> QED
      BY <1>0, <3>2, <3>3 DEF BqInv, BqTypeOK, NoSleepingTakerBesideElement
  <2>4. CASE /\ taker[p] = "wokenFor" /\ taker' = [taker EXCEPT ![p] = "idle"]
             /\ queue_ = <<>> /\ UNCHANGED <<queue_, puts, taken>>
    <3>1. taker' \in [Takers -> {"idle", "waits", "waitsFor", "woken", "wokenFor"}]
      BY <1>0, <2>4 DEF BqTypeOK
    <3> QED
      BY <1>0, <2>0, <2>4, <3>1 DEF BqInv, BqTypeOK, NoSleepingTakerBesideElement
  <2> QED
    BY <1>3, <2>1, <2>2, <2>3, <2>4 DEF TakeFor
<1>4. ASSUME NEW p \in Takers, TakerWakes(p) PROVE BqInv'
  <2>1. p \in Waiting /\ taker' = Wake(p) /\ queue_' = queue_ /\ puts' = puts /\ taken' = taken
    BY <1>4 DEF TakerWakes
  <2> QED
    BY <1>0, <2>1, WakeMovesOne DEF BqInv, BqTypeOK, NoSleepingTakerBesideElement
<1>5. ASSUME TryTake PROVE BqInv'
  BY <1>0, <1>s, <1>5, PopShortens DEF TryTake, BqInv, BqTypeOK, NoSleepingTakerBesideElement
<1>6. ASSUME ClearQueue PROVE BqInv'
  <2>1. queue_' = <<>> /\ taker' = taker /\ puts' = puts
    BY <1>6 DEF ClearQueue
  <2>2. taken' \subseteq 1 .. MaxPuts
    <3>1. taken' = taken \cup {queue_[i] : i \in DOMAIN queue_}
      BY <1>6 DEF ClearQueue
    <3>2. taken \subseteq 1 .. MaxPuts /\ \A i \in DOMAIN queue_ : queue_[i] \in 1 .. MaxPuts
      BY <1>0, ElementsOf DEF BqTypeOK
    <3> QED
      BY <3>1, <3>2, Zenon
  <2> QED
    BY <1>0, <1>s, <2>1, <2>2 DEF BqInv, BqTypeOK, NoSleepingTakerBesideElement
<1>7. ASSUME UNCHANGED bqVars PROVE BqInv'
  BY <1>0, <1>s, <1>7 DEF bqVars, BqInv, BqTypeOK, NoSleepingTakerBesideElement
<1> QED
  BY <1>1, <1>2, <1>3, <1>4, <1>5, <1>6, <1>7 DEF BqNext

\* The queue and its takers keep their types.
THEOREM BqTypeCorrect == BqSpec => []BqTypeOK
<1>1. BqInv => BqTypeOK
  BY DEF BqInv
<1> QED
  BY <1>1, BqInitInv, BqNextInv, PTL DEF BqSpec

\* For any number of takers, timeouts and spurious wake-ups: while a taker
\* sleeps in take(), every element has a taker on its way, so notifyOne() in
\* put() loses no wake-up.
THEOREM NoLostWakeUp == BqSpec => []NoSleepingTakerBesideElement
<1>1. BqInv => NoSleepingTakerBesideElement
  BY DEF BqInv
<1> QED
  BY <1>1, BqInitInv, BqNextInv, PTL DEF BqSpec

(***************************************************************************)
(* ConcurrentHashMap                                                       *)
(***************************************************************************)
MapTypeOK ==
    /\ hashmaps_ \in [Slots -> SUBSET MapKeys]
    /\ scan \in 0 .. SLOT_COUNT /\ clearing \in 0 .. SLOT_COUNT
    /\ seen \subseteq MapKeys /\ always \subseteq MapKeys /\ ever \subseteq MapKeys /\ old \subseteq MapKeys

\* A key is in the slot of its hash and in no other.
KeysInTheirSlots == \A s \in Slots : \A k \in hashmaps_[s] : SlotOf(k) = s

\* What has stayed since the scan began is still in its slot, and was
\* collected once the scan has passed that slot; what was collected was there.
ScanSoFar ==
    /\ \A k \in always : k \in hashmaps_[SlotOf(k)] /\ (SlotOf(k) < scan => k \in seen)
    /\ seen \subseteq ever
    /\ scan < SLOT_COUNT => \A s \in Slots : hashmaps_[s] \subseteq ever

\* What is left of the keys that a clear() found is in a slot it has not
\* reached.
ClearSoFar == \A k \in old : k \in hashmaps_[SlotOf(k)] /\ clearing <= SlotOf(k)

MapInv == MapTypeOK /\ KeysInTheirSlots /\ ScanSoFar /\ ClearSoFar

\* A slot is one of the slots.
LEMMA SlotOfInSlots == \A k \in MapKeys : SlotOf(k) \in Slots
  BY MapSizes DEF SlotOf, Slots

\* What is in the map is what is in one of its slots, the slot of its hash.
LEMMA PresentKeys ==
    ASSUME MapTypeOK, KeysInTheirSlots
    PROVE  /\ Present \subseteq MapKeys
           /\ \A k \in Present : k \in hashmaps_[SlotOf(k)]
           /\ \A s \in Slots : hashmaps_[s] \subseteq Present
<1>1. \A k : k \in Present <=> \E s \in Slots : k \in hashmaps_[s]
  BY DEF Present
<1> QED
  BY <1>1 DEF MapTypeOK, KeysInTheirSlots

\* The initial state satisfies the invariant: the map is empty and nothing runs.
LEMMA MapInitInv == MapInit => MapInv
  BY MapSizes DEF MapInit, MapInv, MapTypeOK, KeysInTheirSlots, ScanSoFar, ClearSoFar, Slots

\* Every critical section keeps the invariant.
LEMMA MapNextInv == MapInv /\ [MapNext]_mapVars => MapInv'
<1> SUFFICES ASSUME MapInv, [MapNext]_mapVars PROVE MapInv'
  OBVIOUS
<1> USE MapSizes, SlotOfInSlots DEF MapInv, MapTypeOK, KeysInTheirSlots, ScanSoFar, ClearSoFar
<1>1. ASSUME NEW k \in MapKeys, Insert(k) PROVE MapInv'
  <2>1. SlotOf(k) \in Slots
    OBVIOUS
  <2>2. /\ hashmaps_' = [hashmaps_ EXCEPT ![SlotOf(k)] = @ \cup {k}]
        /\ ever' = ever \cup {k} /\ scan' = scan /\ seen' = seen /\ clearing' = clearing /\ always' = always /\ old' = old
    BY <1>1 DEF Insert
  <2>3. \A s \in Slots : hashmaps_'[s] = IF s = SlotOf(k) THEN hashmaps_[s] \cup {k} ELSE hashmaps_[s]
    BY <2>1, <2>2
  <2>4. MapTypeOK'
    BY <2>1, <2>2, <2>3
  <2>5. KeysInTheirSlots'
    BY <2>3
  <2>6. ScanSoFar' /\ ClearSoFar'
    BY <2>2, <2>3
  <2> QED
    BY <2>4, <2>5, <2>6
<1>2. ASSUME NEW k \in MapKeys, Erase(k) PROVE MapInv'
  <2>1. SlotOf(k) \in Slots
    OBVIOUS
  <2>2. /\ hashmaps_' = [hashmaps_ EXCEPT ![SlotOf(k)] = @ \ {k}]
        /\ ever' = ever /\ scan' = scan /\ seen' = seen /\ clearing' = clearing /\ always' = always \ {k} /\ old' = old \ {k}
    BY <1>2 DEF Erase, EraseAll
  <2>3. \A s \in Slots : hashmaps_'[s] = IF s = SlotOf(k) THEN hashmaps_[s] \ {k} ELSE hashmaps_[s]
    BY <2>1, <2>2
  <2>4. MapTypeOK' /\ KeysInTheirSlots'
    BY <2>1, <2>2, <2>3
  <2>5. ScanSoFar' /\ ClearSoFar'
    BY <2>2, <2>3
  <2> QED
    BY <2>4, <2>5
<1>3. ASSUME ScanBegins PROVE MapInv'
  <2>1. Present \subseteq MapKeys /\ (\A k \in Present : k \in hashmaps_[SlotOf(k)]) /\ (\A s \in Slots : hashmaps_[s] \subseteq Present)
    BY PresentKeys
  <2>2. /\ hashmaps_' = hashmaps_ /\ scan' = 0 /\ seen' = {} /\ always' = Present /\ ever' = Present
        /\ clearing' = clearing /\ old' = old
    BY <1>3 DEF ScanBegins
  <2>4. MapTypeOK' /\ KeysInTheirSlots' /\ ClearSoFar'
    BY <2>1, <2>2
  <2>5. ScanSoFar'
    <3>1. \A k \in Present : ~(SlotOf(k) < 0)
      BY <2>1 DEF Slots
    <3> QED
      BY <2>1, <2>2, <3>1
  <2> QED
    BY <2>4, <2>5
<1>4. ASSUME ScanSlot PROVE MapInv'
  <2>1. scan \in Slots
    BY <1>4 DEF ScanSlot, Slots
  <2>2. /\ hashmaps_' = hashmaps_ /\ scan' = scan + 1 /\ seen' = seen \cup hashmaps_[scan] /\ always' = always /\ ever' = ever
        /\ clearing' = clearing /\ old' = old /\ scan < SLOT_COUNT
    BY <1>4 DEF ScanSlot
  <2>3. MapTypeOK' /\ KeysInTheirSlots' /\ ClearSoFar'
    <3>1. scan + 1 \in 0 .. SLOT_COUNT
      BY <2>1, <2>2 DEF Slots
    <3>2. hashmaps_[scan] \subseteq MapKeys
      BY <2>1
    <3> QED
      BY <2>2, <3>1, <3>2
  <2>4. \A k \in always : SlotOf(k) < scan + 1 => k \in seen'
    BY <2>1, <2>2 DEF Slots
  <2> QED
    BY <2>1, <2>2, <2>3, <2>4
<1>5. ASSUME ClearBegins PROVE MapInv'
  <2>1. Present \subseteq MapKeys /\ (\A k \in Present : k \in hashmaps_[SlotOf(k)])
    BY PresentKeys
  <2>2. /\ hashmaps_' = hashmaps_ /\ scan' = scan /\ seen' = seen /\ always' = always /\ ever' = ever
        /\ clearing' = 0 /\ old' = Present
    BY <1>5 DEF ClearBegins
  <2>3. \A k \in MapKeys : SlotOf(k) >= 0
    BY DEF Slots
  <2> QED
    BY <2>1, <2>2, <2>3
<1>6. ASSUME ClearSlot PROVE MapInv'
  <2>1. clearing \in Slots
    BY <1>6 DEF ClearSlot, Slots
  <2>2. /\ hashmaps_' = [hashmaps_ EXCEPT ![clearing] = {}] /\ scan' = scan /\ seen' = seen /\ ever' = ever
        /\ always' = always \ hashmaps_[clearing] /\ old' = old \ hashmaps_[clearing] /\ clearing' = clearing + 1
    BY <1>6 DEF ClearSlot, EraseAll
  <2>3. \A s \in Slots : hashmaps_'[s] = IF s = clearing THEN {} ELSE hashmaps_[s]
    BY <2>1, <2>2
  <2>4. MapTypeOK' /\ KeysInTheirSlots'
    <3>1. clearing + 1 \in 0 .. SLOT_COUNT
      BY <2>1 DEF Slots
    <3>2. hashmaps_' \in [Slots -> SUBSET MapKeys]
      BY <2>1, <2>2
    <3> QED
      BY <2>2, <2>3, <3>1, <3>2
  <2>5. ScanSoFar'
    BY <2>2, <2>3
  <2>6. ClearSoFar'
    <3> SUFFICES ASSUME NEW k \in old, k \notin hashmaps_[clearing]
                 PROVE  k \in hashmaps_'[SlotOf(k)] /\ clearing + 1 <= SlotOf(k)
      BY <2>2
    <3>1. k \in MapKeys /\ SlotOf(k) \in Slots /\ k \in hashmaps_[SlotOf(k)] /\ clearing <= SlotOf(k)
      OBVIOUS
    <3>2. SlotOf(k) # clearing
      BY <3>1
    <3>3. SlotOf(k) \in Int /\ clearing \in Int
      BY <3>1, <2>1 DEF Slots
    <3> QED
      BY <2>3, <3>1, <3>2, <3>3
  <2> QED
    BY <2>4, <2>5, <2>6
<1>7. ASSUME UNCHANGED mapVars PROVE MapInv'
  BY <1>7 DEF mapVars
<1> QED
  BY <1>1, <1>2, <1>3, <1>4, <1>5, <1>6, <1>7 DEF MapNext

\* The invariant holds in every reachable state.
LEMMA MapInvariant == MapSpec => []MapInv
  BY MapInitInv, MapNextInv, PTL DEF MapSpec

\* For every number of slots: when getValues() returns it has every key that
\* was in the map all the while and none that never was, although it locks
\* one slot at a time.
THEOREM GetValuesSeesWhatStays == MapSpec => []ScanSeesWhatStays
<1>1. MapInv => ScanSeesWhatStays
  BY MapSizes, SlotOfInSlots DEF MapInv, MapTypeOK, ScanSoFar, ScanSeesWhatStays, Slots
<1> QED
  BY <1>1, MapInvariant, PTL

\* For every number of slots: when clear() returns, no key is left that was
\* there when it began.
THEOREM ClearLeavesNothingOld == MapSpec => []ClearTakesWhatWasThere
<1>1. MapInv => ClearTakesWhatWasThere
  BY MapSizes, SlotOfInSlots DEF MapInv, MapTypeOK, ClearSoFar, ClearTakesWhatWasThere, Slots
<1> QED
  BY <1>1, MapInvariant, PTL

\* For every number of slots and every set of keys, getValues() and clear()
\* answer for the whole map although they lock one slot at a time.
THEOREM WholeMapCallsHold == MapSpec => []WholeMapCalls
<1>1. ScanSeesWhatStays /\ ClearTakesWhatWasThere => WholeMapCalls
  BY DEF WholeMapCalls
<1> QED
  BY <1>1, GetValuesSeesWhatStays, ClearLeavesNothingOld, PTL

(***************************************************************************)
(* LRUMap                                                                  *)
(***************************************************************************)
\* The types of the list and of the uses.
LruTypeOK ==
    /\ k_list_ \in Seq(LruKeys) /\ uses \in Nat /\ lastUse \in [LruKeys -> Nat]
    /\ Kept \subseteq LruKeys

\* No key has been used after now, and a key before another in the list was used
\* after it.
UsesInOrder ==
    /\ \A k \in LruKeys : lastUse[k] <= uses
    /\ \A i, j \in 1 .. Len(k_list_) : i < j => lastUse[k_list_[i]] > lastUse[k_list_[j]]

\* The list holds the keys of the map.
ListsTheKept == \A k : k \in Kept <=> \E i \in 1 .. Len(k_list_) : k_list_[i] = k

\* The keys that are not in the map were used before those that are.
ForgetsTheOldest ==
    /\ \A k \in Kept, other \in LruKeys \ Kept : lastUse[k] > lastUse[other]
    /\ Len(k_list_) <= lru_capacity_
    /\ (\E other \in LruKeys \ Kept : lastUse[other] > 0) => Len(k_list_) = lru_capacity_

\* Each key has the value last put.
KeepsTheValues == \A k \in Kept : k \in DOMAIN lastPut /\ kv_map_[k] = lastPut[k]

\* The inductive invariant of the map.
LruInv == LruTypeOK /\ UsesInOrder /\ ListsTheKept /\ ForgetsTheOldest /\ KeepsTheValues

\* A new map is empty.
LEMMA LruInitInv == LruInit => LruInv
<1> SUFFICES ASSUME LruInit PROVE LruInv
  OBVIOUS
<1>1. kv_map_ = <<>> /\ k_list_ = <<>> /\ uses = 0 /\ lastUse = [k \in LruKeys |-> 0]
  BY DEF LruInit
<1>2. Kept = {} /\ Len(k_list_) = 0 /\ k_list_ \in Seq(LruKeys)
  BY <1>1 DEF Kept
<1>3. LruTypeOK
  BY <1>1, <1>2 DEF LruTypeOK
<1>4. UsesInOrder /\ ListsTheKept /\ KeepsTheValues
  BY <1>1, <1>2 DEF UsesInOrder, ListsTheKept, KeepsTheValues
<1>5. ForgetsTheOldest
  BY <1>1, <1>2, LruSizes DEF ForgetsTheOldest
<1> QED BY <1>3, <1>4, <1>5 DEF LruInv

\* A sequence without its p-th member.
LEMMA AllButOne ==
    ASSUME NEW S, NEW s \in Seq(S), NEW p \in 1 .. Len(s), NEW d, d = RemoveAt(s, p)
    PROVE  /\ d \in Seq(S) /\ Len(d) = Len(s) - 1
           /\ \A i \in 1 .. Len(s) - 1 : d[i] = IF i < p THEN s[i] ELSE s[i + 1]
<1> DEFINE n == Len(s)
           a == SubSeq(s, 1, p - 1)
           c == SubSeq(s, p + 1, n)
<1>1. n \in Nat /\ p \in Int /\ 1 <= p /\ p <= n /\ \A i \in 1 .. n : s[i] \in S
  BY ElementOfSeq
<1>2. \A i \in 1 .. p - 1 : s[i] \in S
  BY <1>1
<1>3. \A i \in p + 1 .. n : s[i] \in S
  BY <1>1
<1>4. /\ a \in Seq(S) /\ Len(a) = IF 1 <= p - 1 THEN (p - 1) - 1 + 1 ELSE 0
      /\ \A i \in 1 .. (p - 1) - 1 + 1 : a[i] = s[1 + i - 1]
  BY <1>1, <1>2, SubSeqProperties
<1>5. /\ c \in Seq(S) /\ Len(c) = IF p + 1 <= n THEN n - (p + 1) + 1 ELSE 0
      /\ \A i \in 1 .. n - (p + 1) + 1 : c[i] = s[p + 1 + i - 1]
  BY <1>1, <1>3, SubSeqProperties
<1>6. d = a \o c
  BY DEF RemoveAt
<1> HIDE DEF a, c, n
<1>7. Len(a) = p - 1 /\ Len(c) = n - p
  BY <1>1, <1>4, <1>5
<1>8. /\ d \in Seq(S) /\ Len(d) = Len(a) + Len(c)
      /\ \A i \in 1 .. Len(a) + Len(c) : d[i] = IF i <= Len(a) THEN a[i] ELSE c[i - Len(a)]
  <2>1. a \in Seq(S) /\ c \in Seq(S)
    BY <1>4, <1>5
  <2>2. /\ a \o c \in Seq(S) /\ Len(a \o c) = Len(a) + Len(c)
        /\ \A i \in 1 .. Len(a) + Len(c) : (a \o c)[i] = IF i <= Len(a) THEN a[i] ELSE c[i - Len(a)]
    BY <2>1, ConcatProperties
  <2> QED BY <1>6, <2>2, Zenon
<1>9. ASSUME NEW i \in 1 .. n - 1 PROVE d[i] = IF i < p THEN s[i] ELSE s[i + 1]
  <2>1. i \in 1 .. Len(a) + Len(c) /\ i \in Int
    BY <1>1, <1>7
  <2>2. CASE i < p
    <3>1. i <= Len(a) /\ i \in 1 .. (p - 1) - 1 + 1 /\ 1 + i - 1 = i
      BY <1>1, <1>7, <2>1, <2>2
    <3> QED BY <1>4, <1>8, <2>1, <2>2, <3>1
  <2>3. CASE ~(i < p)
    <3>1. ~(i <= Len(a)) /\ i - Len(a) = i - p + 1 /\ i - p + 1 \in 1 .. n - (p + 1) + 1 /\ p + 1 + (i - p + 1) - 1 = i + 1
      BY <1>1, <1>7, <2>1, <2>3
    <3>2. d[i] = c[i - p + 1]
      BY <1>8, <2>1, <3>1
    <3>3. c[i - p + 1] = s[i + 1]
      BY <1>5, <3>1
    <3> QED BY <2>3, <3>2, <3>3
  <2> QED BY <2>2, <2>3
<1> QED BY <1>1, <1>7, <1>8, <1>9 DEF n

\* A sequence with one more member in front.
Preceded(s, e) == <<e>> \o s
LEMMA OneInFront ==
    ASSUME NEW S, NEW s \in Seq(S), NEW e \in S
    PROVE  /\ Preceded(s, e) \in Seq(S) /\ Len(Preceded(s, e)) = Len(s) + 1 /\ Preceded(s, e)[1] = e
           /\ \A i \in 2 .. Len(s) + 1 : Preceded(s, e)[i] = s[i - 1]
<1> DEFINE f == <<e>>
           q == Preceded(s, e)
<1>1. f \in Seq(S) /\ Len(f) = 1 /\ f[1] = e /\ Len(s) \in Nat
  OBVIOUS
<1>2. q = f \o s
  BY DEF Preceded
<1> HIDE DEF f, q
<1>3. /\ q \in Seq(S) /\ Len(q) = Len(f) + Len(s)
      /\ \A i \in 1 .. Len(f) + Len(s) : q[i] = IF i <= Len(f) THEN f[i] ELSE s[i - Len(f)]
  BY <1>1, <1>2, ConcatProperties
<1>4. /\ q \in Seq(S) /\ Len(q) = Len(s) + 1 /\ q[1] = e
      /\ \A i \in 2 .. Len(s) + 1 : q[i] = s[i - 1]
  BY <1>1, <1>3
<1> QED BY <1>4, Zenon DEF q

\* The list with a key of it moved to the front.
LEMMA MovedToFront ==
    ASSUME LruInv, NEW k \in Kept, NEW q, q = ToFront(k)
    PROVE  \E p \in 1 .. Len(k_list_) :
              /\ k_list_[p] = k
              /\ q \in Seq(LruKeys) /\ Len(q) = Len(k_list_) /\ q[1] = k
              /\ \A i \in 2 .. p : q[i] = k_list_[i - 1]
              /\ \A i \in p + 1 .. Len(k_list_) : q[i] = k_list_[i]
<1> DEFINE p == Place(k)
           n == Len(k_list_)
           d == RemoveAt(k_list_, p)
<1>1. k_list_ \in Seq(LruKeys) /\ n \in Nat /\ DOMAIN k_list_ = 1 .. n /\ k \in LruKeys
  BY DEF LruInv, LruTypeOK
<1>2. \E i \in DOMAIN k_list_ : k_list_[i] = k
  BY <1>1 DEF LruInv, ListsTheKept
<1>3. p \in 1 .. n /\ k_list_[p] = k
  BY <1>1, <1>2 DEF Place
<1>4. q = Preceded(d, k)
  BY DEF ToFront, Preceded
<1> HIDE DEF p
<1>5. /\ d \in Seq(LruKeys) /\ Len(d) = n - 1
      /\ \A i \in 1 .. n - 1 : d[i] = IF i < p THEN k_list_[i] ELSE k_list_[i + 1]
  BY <1>1, <1>3, AllButOne
<1> HIDE DEF d
<1>6. /\ q \in Seq(LruKeys) /\ Len(q) = Len(d) + 1 /\ q[1] = k
      /\ \A i \in 2 .. Len(d) + 1 : q[i] = d[i - 1]
  <2>1. d \in Seq(LruKeys) /\ k \in LruKeys
    BY <1>1, <1>5
  <2>2. /\ Preceded(d, k) \in Seq(LruKeys) /\ Len(Preceded(d, k)) = Len(d) + 1 /\ Preceded(d, k)[1] = k
        /\ \A i \in 2 .. Len(d) + 1 : Preceded(d, k)[i] = d[i - 1]
    BY <2>1, OneInFront
  <2> QED BY <1>4, <2>2, Zenon
<1>7. Len(q) = n /\ \A i \in 2 .. n : q[i] = d[i - 1]
  BY <1>1, <1>5, <1>6
<1>8. ASSUME NEW i \in 2 .. n PROVE q[i] = IF i <= p THEN k_list_[i - 1] ELSE k_list_[i]
  <2>1. i - 1 \in 1 .. n - 1 /\ (i - 1 < p <=> i <= p) /\ (i - 1) + 1 = i
    BY <1>1, <1>3
  <2> QED BY <1>5, <1>7, <2>1
<1>9. \A i \in 2 .. p : q[i] = k_list_[i - 1]
  BY <1>1, <1>3, <1>8
<1>10. \A i \in p + 1 .. n : q[i] = k_list_[i]
  BY <1>1, <1>3, <1>8
<1> QED BY <1>3, <1>6, <1>7, <1>9, <1>10

\* A use of a key that is kept changes the order only.
LEMMA UsedKeeps ==
    ASSUME LruInv, NEW k \in Kept, Uses(k), k_list_' = ToFront(k), Kept' = Kept
    PROVE  LruTypeOK' /\ UsesInOrder' /\ ListsTheKept' /\ ForgetsTheOldest'
<1> DEFINE n == Len(k_list_)
<1>1. /\ k_list_ \in Seq(LruKeys) /\ n \in Nat /\ uses \in Nat /\ lastUse \in [LruKeys -> Nat]
      /\ Kept \subseteq LruKeys /\ k \in LruKeys
      /\ \A i \in 1 .. n : k_list_[i] \in LruKeys
  BY DEF LruInv, LruTypeOK
<1>2. PICK p \in 1 .. n :
         /\ k_list_[p] = k
         /\ k_list_' \in Seq(LruKeys) /\ Len(k_list_') = n /\ k_list_'[1] = k
         /\ \A i \in 2 .. p : k_list_'[i] = k_list_[i - 1]
         /\ \A i \in p + 1 .. n : k_list_'[i] = k_list_[i]
  BY MovedToFront
<1>3. /\ uses' = uses + 1 /\ lastUse' \in [LruKeys -> Nat] /\ lastUse'[k] = uses + 1
      /\ \A x \in LruKeys \ {k} : lastUse'[x] = lastUse[x]
  BY <1>1 DEF Uses
<1>4. LruTypeOK'
  BY <1>1, <1>2, <1>3 DEF LruTypeOK
<1>5. /\ \A x \in LruKeys : lastUse[x] <= uses
      /\ \A i, j \in 1 .. n : i < j => lastUse[k_list_[i]] > lastUse[k_list_[j]]
  BY DEF LruInv, UsesInOrder
<1>6. \A i, j \in 1 .. n : i # j => k_list_[i] # k_list_[j]
  <2>1. ASSUME NEW i \in 1 .. n, NEW j \in 1 .. n, i < j PROVE k_list_[i] # k_list_[j]
    <3>1. lastUse[k_list_[i]] \in Nat /\ lastUse[k_list_[j]] \in Nat /\ lastUse[k_list_[i]] > lastUse[k_list_[j]]
      BY <1>1, <1>5, <2>1
    <3> QED BY <3>1
  <2>2. \A i, j \in 1 .. n : i < j => k_list_[i] # k_list_[j]
    BY <2>1
  <2>3. \A i, j \in 1 .. n : i # j => i < j \/ j < i
    BY <1>1
  <2> QED BY <2>2, <2>3
<1> DEFINE from(i) == IF i <= p THEN i - 1 ELSE i
<1>p. n \in Nat /\ p \in 1 .. n
  BY <1>1
<1>7. \A i \in 2 .. n : from(i) \in 1 .. n /\ from(i) # p /\ k_list_'[i] = k_list_[from(i)]
  BY <1>1, <1>2
<1>8. \A i, j \in 2 .. n : i < j => from(i) < from(j)
  <2>1. ASSUME NEW i \in 2 .. n, NEW j \in 2 .. n, i < j PROVE from(i) < from(j)
    BY <1>p, <2>1
  <2> QED BY <2>1
<1>9. \A i \in 1 .. n : i # p => \E j \in 2 .. n : from(j) = i
  <2>1. ASSUME NEW i \in 1 .. n, i # p PROVE \E j \in 2 .. n : from(j) = i
    <3>1. CASE i < p
      <4>1. i + 1 \in 2 .. n /\ from(i + 1) = i
        BY <1>1, <1>2, <3>1
      <4> QED BY <4>1
    <3>2. CASE i > p
      <4>1. i \in 2 .. n /\ from(i) = i
        BY <1>1, <1>2, <3>2
      <4> QED BY <4>1
    <3> QED BY <1>1, <2>1, <3>1, <3>2
  <2> QED BY <2>1
<1> HIDE DEF from
<1>10. \A i \in 2 .. n : k_list_'[i] \in LruKeys \ {k} /\ lastUse'[k_list_'[i]] = lastUse[k_list_[from(i)]]
  <2>1. ASSUME NEW i \in 2 .. n PROVE k_list_'[i] \in LruKeys \ {k} /\ lastUse'[k_list_'[i]] = lastUse[k_list_[from(i)]]
    <3>1. k_list_[from(i)] \in LruKeys /\ k_list_[from(i)] # k /\ k_list_'[i] = k_list_[from(i)]
      BY <1>1, <1>2, <1>6, <1>7
    <3> QED BY <1>3, <3>1
  <2> QED BY <2>1
<1>11. UsesInOrder'
  <2>1. ASSUME NEW x \in LruKeys PROVE lastUse'[x] <= uses'
    <3>1. lastUse[x] \in Nat /\ lastUse[x] <= uses
      BY <1>1, <1>5
    <3>2. lastUse'[x] = lastUse[x] \/ lastUse'[x] = uses + 1
      BY <1>3
    <3> QED BY <1>1, <1>3, <3>1, <3>2
  <2>2. ASSUME NEW i \in 1 .. n, NEW j \in 1 .. n, i < j PROVE lastUse'[k_list_'[i]] > lastUse'[k_list_'[j]]
    <3>1. j \in 2 .. n /\ from(j) \in 1 .. n /\ k_list_[from(j)] \in LruKeys
      BY <1>1, <1>7, <2>2
    <3>2. CASE i = 1
      <4>1. lastUse[k_list_[from(j)]] <= uses /\ lastUse[k_list_[from(j)]] \in Nat
        BY <1>1, <1>5, <3>1
      <4>2. lastUse'[k_list_'[i]] = uses + 1
        BY <1>2, <1>3, <3>2
      <4>3. lastUse'[k_list_'[j]] = lastUse[k_list_[from(j)]]
        BY <1>10, <3>1
      <4> QED BY <1>1, <4>1, <4>2, <4>3
    <3>3. CASE i # 1
      <4>1. i \in 2 .. n
        BY <1>1, <3>3
      <4>2. from(i) \in 1 .. n /\ from(i) < from(j)
        BY <1>7, <1>8, <2>2, <3>1, <4>1
      <4> QED BY <1>5, <1>10, <3>1, <4>1, <4>2
    <3> QED BY <3>2, <3>3
  <2> QED BY <1>2, <2>1, <2>2 DEF UsesInOrder
<1>12. ListsTheKept'
  <2>1. \A x : x \in Kept <=> \E i \in 1 .. n : k_list_[i] = x
    BY DEF LruInv, ListsTheKept
  <2>2. ASSUME NEW x \in Kept PROVE \E i \in 1 .. n : k_list_'[i] = x
    <3>1. PICK i \in 1 .. n : k_list_[i] = x
      BY <2>1
    <3>2. CASE i = p
      BY <1>1, <1>2, <3>1, <3>2
    <3>3. CASE i # p
      <4>1. PICK j \in 2 .. n : from(j) = i
        BY <1>9, <3>3
      <4>2. j \in 1 .. n /\ k_list_'[j] = x
        BY <1>1, <1>7, <3>1, <4>1
      <4> QED BY <4>2
    <3> QED BY <3>2, <3>3
  <2>3. ASSUME NEW i \in 1 .. n PROVE k_list_'[i] \in Kept
    <3>1. CASE i = 1
      BY <1>2, <3>1
    <3>2. CASE i # 1
      <4>1. i \in 2 .. n
        BY <1>1, <3>2
      <4> QED BY <1>7, <2>1, <4>1
    <3> QED BY <3>1, <3>2
  <2> QED BY <1>2, <2>2, <2>3 DEF ListsTheKept
<1>13. ForgetsTheOldest'
  <2>1. \A x \in LruKeys \ Kept : lastUse'[x] = lastUse[x]
    BY <1>3
  <2>2. ASSUME NEW x \in Kept, NEW other \in LruKeys \ Kept PROVE lastUse'[x] > lastUse'[other]
    <3>1. lastUse[x] > lastUse[other] /\ lastUse[other] <= uses /\ lastUse[x] \in Nat /\ lastUse[other] \in Nat
      BY <1>1, <1>5 DEF LruInv, ForgetsTheOldest
    <3>2. lastUse'[x] = lastUse[x] \/ lastUse'[x] = uses + 1
      BY <1>1, <1>3
    <3> QED BY <1>1, <2>1, <3>1, <3>2
  <2> QED BY <1>2, <2>1, <2>2 DEF LruInv, ForgetsTheOldest
<1> QED BY <1>4, <1>11, <1>12, <1>13

\* A new key comes to the front, and the last one of a full map goes.
LEMMA NewKeyKeeps ==
    ASSUME LruInv, NEW k \in LruKeys \ Kept, NEW v, Uses(k),
           LET all == With(kv_map_, k, v)
               list == <<k>> \o k_list_
               full == Len(list) > lru_capacity_
           IN  /\ kv_map_' = IF full THEN [x \in DOMAIN all \ {Last(list)} |-> all[x]] ELSE all
               /\ k_list_' = IF full THEN Front(list) ELSE list
    PROVE  /\ LruTypeOK' /\ UsesInOrder' /\ ListsTheKept' /\ ForgetsTheOldest'
           /\ \A x \in Kept' : kv_map_'[x] = IF x = k THEN v ELSE kv_map_[x]
           /\ Kept' \subseteq Kept \cup {k}
<1> DEFINE n == Len(k_list_)
           all == With(kv_map_, k, v)
           list == Preceded(k_list_, k)
<1>1. /\ k_list_ \in Seq(LruKeys) /\ n \in Nat /\ uses \in Nat /\ lastUse \in [LruKeys -> Nat]
      /\ Kept \subseteq LruKeys /\ k \in LruKeys /\ k \notin Kept
      /\ \A i \in 1 .. n : k_list_[i] \in LruKeys
  BY DEF LruInv, LruTypeOK
<1>2. /\ uses' = uses + 1 /\ lastUse' \in [LruKeys -> Nat] /\ lastUse'[k] = uses + 1
      /\ \A x \in LruKeys \ {k} : lastUse'[x] = lastUse[x]
  BY <1>1 DEF Uses
<1>3. /\ \A x \in LruKeys : lastUse[x] <= uses
      /\ \A i, j \in 1 .. n : i < j => lastUse[k_list_[i]] > lastUse[k_list_[j]]
  BY DEF LruInv, UsesInOrder
<1>4. \A x : x \in Kept <=> \E i \in 1 .. n : k_list_[i] = x
  BY DEF LruInv, ListsTheKept
<1>5. /\ \A x \in Kept, other \in LruKeys \ Kept : lastUse[x] > lastUse[other]
      /\ n <= lru_capacity_ /\ lru_capacity_ \in Nat
      /\ (\E other \in LruKeys \ Kept : lastUse[other] > 0) => n = lru_capacity_
  BY LruSizes DEF LruInv, ForgetsTheOldest
<1>6. /\ list \in Seq(LruKeys) /\ Len(list) = n + 1 /\ list[1] = k
      /\ \A i \in 2 .. n + 1 : list[i] = k_list_[i - 1]
  BY <1>1, OneInFront
<1>7. DOMAIN all = Kept \cup {k} /\ \A x \in Kept \cup {k} : all[x] = IF x = k THEN v ELSE kv_map_[x]
  BY DEF With, Kept
<1>8. /\ kv_map_' = IF Len(list) > lru_capacity_ THEN [x \in DOMAIN all \ {Last(list)} |-> all[x]] ELSE all
      /\ k_list_' = IF Len(list) > lru_capacity_ THEN Front(list) ELSE list
  BY Zenon DEF Preceded
<1> HIDE DEF all, list
<1>9. ASSUME NEW i \in 2 .. n + 1
      PROVE  /\ list[i] \in Kept /\ list[i] \in LruKeys /\ list[i] # k
             /\ lastUse'[list[i]] = lastUse[k_list_[i - 1]] /\ lastUse'[list[i]] <= uses /\ lastUse'[list[i]] \in Nat
  <2>n. n \in Nat
    BY <1>1
  <2>1. i - 1 \in 1 .. n /\ list[i] = k_list_[i - 1]
    BY <1>6, <2>n
  <2>2. list[i] \in Kept
    BY <1>4, <2>1
  <2> QED BY <1>1, <1>2, <1>3, <2>1, <2>2
<1>10. ASSUME NEW i \in 1 .. n + 1, NEW j \in 1 .. n + 1, i < j PROVE lastUse'[list[i]] > lastUse'[list[j]]
  <2>1. j \in 2 .. n + 1
    BY <1>1, <1>10
  <2>n. n \in Nat
    BY <1>1
  <2>2. CASE i = 1
    <3>1. lastUse'[list[i]] = uses + 1 /\ uses \in Nat
      BY <1>1, <1>2, <1>6, <2>2
    <3>2. lastUse'[list[j]] <= uses /\ lastUse'[list[j]] \in Nat
      BY <1>9, <2>1
    <3> QED BY <3>1, <3>2
  <2>3. CASE i # 1
    <3>1. i \in 2 .. n + 1 /\ i - 1 \in 1 .. n /\ j - 1 \in 1 .. n /\ i - 1 < j - 1
      BY <1>10, <2>n, <2>3
    <3> QED BY <1>3, <1>9, <2>1, <3>1
  <2> QED BY <2>2, <2>3
<1>11. \A x : x \in Kept \cup {k} <=> \E i \in 1 .. n + 1 : list[i] = x
  <2>1. ASSUME NEW x \in Kept PROVE \E i \in 1 .. n + 1 : list[i] = x
    <3>1. PICK i \in 1 .. n : k_list_[i] = x
      BY <1>4
    <3>2. i + 1 \in 2 .. n + 1 /\ (i + 1) - 1 = i /\ i + 1 \in 1 .. n + 1
      BY <1>1
    <3>3. list[i + 1] = x
      BY <1>6, <3>1, <3>2
    <3> QED BY <3>2, <3>3
  <2>2. 1 \in 1 .. n + 1 /\ list[1] = k
    BY <1>1, <1>6
  <2>3. \A i \in 1 .. n + 1 : list[i] \in Kept \cup {k}
    BY <1>1, <1>6, <1>9
  <2> QED BY <2>1, <2>2, <2>3
<1>12. ASSUME NEW x \in LruKeys PROVE lastUse'[x] <= uses'
  <2>1. lastUse[x] \in Nat /\ lastUse[x] <= uses
    BY <1>1, <1>3
  <2>2. lastUse'[x] = lastUse[x] \/ lastUse'[x] = uses + 1
    BY <1>2
  <2> QED BY <1>1, <1>2, <2>1, <2>2
<1>13. CASE Len(list) > lru_capacity_
  <2> DEFINE z == list[n + 1]
  <2>1. n = lru_capacity_ /\ z = Last(list) /\ n + 1 \in 1 .. n + 1
    BY <1>1, <1>5, <1>6, <1>13 DEF Last
  <2>2. z \in Kept \cup {k} /\ z \in LruKeys
    BY <1>1, <1>11, <2>1
  <2>3. Kept' = (Kept \cup {k}) \ {z} /\ \A x \in Kept' : kv_map_'[x] = all[x]
    BY <1>7, <1>8, <1>13, <2>1 DEF Kept
  <2>4. k_list_' = SubSeq(list, 1, n)
    <3>1. Len(list) - 1 = n
      BY <1>1, <1>6
    <3> QED BY <1>8, <1>13, <3>1 DEF Front
  <2>5. k_list_' \in Seq(LruKeys) /\ Len(k_list_') = n /\ \A i \in 1 .. n : k_list_'[i] = list[i]
    <3>1. \A i \in 1 .. n : list[i] \in LruKeys
      BY <1>1, <1>6, <1>9
    <3>2. 1 \in Int /\ n \in Int
      BY <1>1
    <3>3. /\ SubSeq(list, 1, n) \in Seq(LruKeys)
          /\ Len(SubSeq(list, 1, n)) = IF 1 <= n THEN n - 1 + 1 ELSE 0
          /\ \A i \in 1 .. n - 1 + 1 : SubSeq(list, 1, n)[i] = list[1 + i - 1]
      BY <3>1, <3>2, SubSeqProperties
    <3>4. \A i \in 1 .. n : i \in 1 .. n - 1 + 1 /\ 1 + i - 1 = i
      BY <1>1
    <3> HIDE DEF n
    <3>5. Len(k_list_') = n
      BY <1>1, <2>4, <3>3
    <3> QED BY <2>4, <3>3, <3>4, <3>5
  <2>6. \A i \in 1 .. n : i \in 1 .. n + 1 /\ i < n + 1
    BY <1>1
  <2> HIDE DEF z
  <2>7. LruTypeOK'
    BY <1>1, <1>2, <2>2, <2>3, <2>5 DEF LruTypeOK
  <2>8. UsesInOrder'
    BY <1>10, <1>12, <2>5, <2>6 DEF UsesInOrder
  <2>9. \A i \in 1 .. n : list[i] # z /\ lastUse'[list[i]] > lastUse'[z]
    <3>1. ASSUME NEW i \in 1 .. n PROVE list[i] # z /\ lastUse'[list[i]] > lastUse'[z]
      <4>1. lastUse'[list[i]] > lastUse'[z] /\ lastUse'[z] \in Nat
        BY <1>2, <1>10, <2>1, <2>2, <2>6 DEF z
      <4> QED BY <4>1
    <3> QED BY <3>1
  <2>10. \A x : x \in Kept' <=> \E i \in 1 .. n : k_list_'[i] = x
    <3>1. ASSUME NEW x \in Kept' PROVE \E i \in 1 .. n : k_list_'[i] = x
      <4>1. PICK i \in 1 .. n + 1 : list[i] = x
        BY <1>11, <2>3
      <4>2. i # n + 1
        BY <2>3, <4>1 DEF z
      <4>3. i \in 1 .. n
        BY <1>1, <4>2
      <4> QED BY <2>5, <4>1, <4>3
    <3>2. ASSUME NEW i \in 1 .. n PROVE k_list_'[i] \in Kept'
      BY <1>11, <2>3, <2>5, <2>6, <2>9
    <3> QED BY <3>1, <3>2
  <2>11. ListsTheKept'
    BY <2>5, <2>10 DEF ListsTheKept
  <2>12. ASSUME NEW x \in Kept', NEW other \in LruKeys \ Kept' PROVE lastUse'[x] > lastUse'[other]
    <3>1. PICK i \in 1 .. n : list[i] = x
      BY <2>5, <2>10
    <3>2. lastUse'[x] > lastUse'[z] /\ x \in LruKeys
      BY <2>3, <2>9, <3>1, <1>1
    <3>3. CASE other = z
      BY <3>2, <3>3
    <3>4. CASE other # z
      <4>1. other \in LruKeys \ Kept /\ other # k
        BY <2>3, <3>4
      <4>2. lastUse'[other] = lastUse[other] /\ lastUse[other] \in Nat /\ lastUse[other] <= uses
        BY <1>1, <1>2, <1>3, <4>1
      <4>3. lastUse'[x] = uses + 1 \/ (x \in Kept /\ lastUse'[x] = lastUse[x] /\ lastUse[x] > lastUse[other])
        BY <1>2, <1>5, <2>3, <3>2, <4>1
      <4> QED BY <1>1, <4>2, <4>3
    <3> QED BY <3>3, <3>4
  <2>13. ForgetsTheOldest'
    BY <1>1, <2>1, <2>5, <2>12 DEF ForgetsTheOldest
  <2> QED BY <1>7, <2>3, <2>7, <2>8, <2>11, <2>13
<1>14. CASE ~(Len(list) > lru_capacity_)
  <2>1. k_list_' = list /\ Kept' = Kept \cup {k} /\ (\A x \in Kept' : kv_map_'[x] = all[x])
    BY <1>7, <1>8, <1>14 DEF Kept
  <2>2. LruTypeOK'
    BY <1>1, <1>2, <1>6, <2>1 DEF LruTypeOK
  <2>3. UsesInOrder'
    BY <1>6, <1>10, <1>12, <2>1 DEF UsesInOrder
  <2>4. ListsTheKept'
    <3>1. Len(k_list_') = n + 1
      BY <1>6, <2>1
    <3>2. \A x : x \in Kept' <=> \E i \in 1 .. n + 1 : k_list_'[i] = x
      BY <1>11, <2>1
    <3> QED BY <3>1, <3>2, Zenon DEF ListsTheKept
  <2>5. ASSUME NEW x \in Kept', NEW other \in LruKeys \ Kept' PROVE lastUse'[x] > lastUse'[other]
    <3>1. other \in LruKeys \ Kept /\ other # k
      BY <2>1
    <3>2. lastUse'[other] = lastUse[other] /\ lastUse[other] \in Nat /\ lastUse[other] <= uses
      BY <1>1, <1>2, <1>3, <3>1
    <3>3. lastUse'[x] = uses + 1 \/ (x \in Kept /\ lastUse'[x] = lastUse[x] /\ lastUse[x] > lastUse[other])
      BY <1>1, <1>2, <1>5, <2>1, <3>1
    <3> QED BY <1>1, <3>2, <3>3
  <2>6. n < lru_capacity_
    BY <1>1, <1>5, <1>6, <1>14
  <2>7. \A other \in LruKeys \ Kept' : ~(lastUse'[other] > 0)
    BY <1>1, <1>2, <1>5, <2>1, <2>6
  <2>8. ForgetsTheOldest'
    BY <1>1, <1>5, <1>6, <2>1, <2>5, <2>6, <2>7 DEF ForgetsTheOldest
  <2> QED BY <1>7, <2>1, <2>2, <2>3, <2>4, <2>8
<1> QED BY <1>13, <1>14

\* Every step keeps the invariant.
LEMMA LruNextInv == LruInv /\ [LruNext]_lruVars => LruInv'
<1> SUFFICES ASSUME LruInv, [LruNext]_lruVars PROVE LruInv'
  OBVIOUS
<1>0. KeepsTheValues
  BY DEF LruInv
<1>1. ASSUME NEW k \in LruKeys, LruGet(k) PROVE LruInv'
  <2>1. k \in Kept /\ Uses(k) /\ k_list_' = ToFront(k) /\ kv_map_' = kv_map_ /\ lastPut' = lastPut /\ Kept' = Kept
    BY <1>1 DEF LruGet, Kept
  <2>2. KeepsTheValues'
    BY <1>0, <2>1 DEF KeepsTheValues
  <2> QED BY <2>1, <2>2, UsedKeeps DEF LruInv
<1>2. ASSUME NEW k \in LruKeys, NEW v \in LruValues, LruPut(k, v) PROVE LruInv'
  <2>1. /\ DOMAIN lastPut' = DOMAIN lastPut \cup {k} /\ lastPut'[k] = v
        /\ \A x \in DOMAIN lastPut \ {k} : lastPut'[x] = lastPut[x]
    BY <1>2 DEF LruPut, With
  <2>2. CASE k \in Kept
    <3>1. Uses(k) /\ kv_map_' = With(kv_map_, k, v) /\ k_list_' = ToFront(k)
      BY <1>2, <2>2 DEF LruPut
    <3>2. Kept' = Kept /\ \A x \in Kept : kv_map_'[x] = IF x = k THEN v ELSE kv_map_[x]
      BY <2>2, <3>1 DEF Kept, With
    <3>3. KeepsTheValues'
      BY <1>0, <2>1, <3>2 DEF KeepsTheValues
    <3> QED BY <2>2, <3>1, <3>2, <3>3, UsedKeeps DEF LruInv
  <2>3. CASE k \notin Kept
    <3>1. /\ LruTypeOK' /\ UsesInOrder' /\ ListsTheKept' /\ ForgetsTheOldest'
          /\ \A x \in Kept' : kv_map_'[x] = IF x = k THEN v ELSE kv_map_[x]
          /\ Kept' \subseteq Kept \cup {k}
      <4>1. /\ Uses(k) /\ k \in LruKeys \ Kept
            /\ LET all == With(kv_map_, k, v)
                   list == <<k>> \o k_list_
                   full == Len(list) > lru_capacity_
               IN  /\ kv_map_' = IF full THEN [x \in DOMAIN all \ {Last(list)} |-> all[x]] ELSE all
                   /\ k_list_' = IF full THEN Front(list) ELSE list
        BY <1>2, <2>3, Zenon DEF LruPut
      <4> QED BY <4>1, NewKeyKeeps, Zenon
    <3>2. KeepsTheValues'
      BY <1>0, <2>1, <3>1 DEF KeepsTheValues
    <3> QED BY <3>1, <3>2 DEF LruInv
  <2> QED BY <2>2, <2>3
<1>3. ASSUME LruClear PROVE LruInv'
  <2>1. kv_map_' = <<>> /\ k_list_' = <<>> /\ uses' = 0 /\ lastUse' = [k \in LruKeys |-> 0]
    BY <1>3 DEF LruClear
  <2>2. Kept' = {} /\ Len(k_list_') = 0 /\ k_list_' \in Seq(LruKeys)
    BY <2>1 DEF Kept
  <2>3. LruTypeOK' /\ UsesInOrder' /\ ListsTheKept' /\ KeepsTheValues'
    BY <2>1, <2>2 DEF LruTypeOK, UsesInOrder, ListsTheKept, KeepsTheValues
  <2>4. ForgetsTheOldest'
    BY <2>1, <2>2, LruSizes DEF ForgetsTheOldest
  <2> QED BY <2>3, <2>4 DEF LruInv
<1>4. ASSUME UNCHANGED lruVars PROVE LruInv'
  <2>1. kv_map_' = kv_map_ /\ k_list_' = k_list_ /\ uses' = uses /\ lastUse' = lastUse /\ lastPut' = lastPut
    BY <1>4 DEF lruVars
  <2> QED BY <2>1 DEF LruInv, LruTypeOK, UsesInOrder, ListsTheKept, ForgetsTheOldest, KeepsTheValues, Kept
<1> QED BY <1>1, <1>2, <1>3, <1>4 DEF LruNext

\* LRUMap: whatever is put, got and cleared, the map keeps the keys last used, as
\* many as it may, with the values last put (put, get, clear).
THEOREM LruKeepsTheLastUsed == LruSpec => []KeepsTheLastUsed
<1>1. ASSUME LruInv PROVE KeepsTheLastUsed
  <2>1. k_list_ \in Seq(LruKeys) /\ Len(k_list_) \in Nat /\ DOMAIN k_list_ = 1 .. Len(k_list_)
    BY <1>1 DEF LruInv, LruTypeOK
  <2>2. ToSet(k_list_) = Kept
    BY <1>1, <2>1 DEF ToSet, LruInv, ListsTheKept
  <2>3. \A i \in 1 .. Len(k_list_) - 1 : lastUse[k_list_[i]] > lastUse[k_list_[i + 1]]
    <3>1. ASSUME NEW i \in 1 .. Len(k_list_) - 1 PROVE lastUse[k_list_[i]] > lastUse[k_list_[i + 1]]
      <4>1. i \in 1 .. Len(k_list_) /\ i + 1 \in 1 .. Len(k_list_) /\ i < i + 1
        BY <2>1
      <4> QED BY <1>1, <4>1 DEF LruInv, UsesInOrder
    <3> QED BY <3>1
  <2> QED BY <1>1, <2>2, <2>3 DEF KeepsTheLastUsed, LruInv, ForgetsTheOldest, KeepsTheValues
<1> QED BY <1>1, LruInitInv, LruNextInv, PTL DEF LruSpec

(***************************************************************************)
(* TokenBucket                                                             *)
(***************************************************************************)
\* The inductive invariant of a bucket: the tokens are within the first filling,
\* and what was granted is within the rate.
TokenInv ==
    /\ now \in Nat /\ last_fill_time_ms_ \in Nat /\ last_fill_time_ms_ <= now
    /\ tokens_ \in Nat /\ granted \in Nat
    /\ GrantedWithinRate

\* A refill rounds down: the tokens it adds are within the time it accounts for.
LEMMA RefillWithinRate ==
    ASSUME TokenInv
    PROVE  /\ RefillTokens \in Nat
           /\ 1000 * (granted + RefillTokens) <= 1000 * init_tokens + tokens_per_second * now
<1> DEFINE e == now - last_fill_time_ms_
           p == e * tokens_per_second
           w == tokens_per_second * last_fill_time_ms_
           u == tokens_per_second * now
<1>1. /\ now \in Nat /\ last_fill_time_ms_ \in Nat /\ last_fill_time_ms_ <= now /\ tokens_ \in Nat /\ granted \in Nat
      /\ init_tokens \in Nat /\ tokens_per_second \in Nat
  BY TokenSizes DEF TokenInv
<1>2. e \in Nat
  BY <1>1
<1>3. p \in Nat /\ w \in Nat /\ u \in Nat
  BY <1>1, <1>2
<1>4. u = w + p
  BY <1>1
<1>5. NewTokens = p \div 1000
  BY DEF NewTokens
<1>6. 1000 * (granted + tokens_) <= 1000 * init_tokens + w
  BY DEF TokenInv, GrantedWithinRate
<1> HIDE DEF p, w, u
<1>7. NewTokens \in Nat /\ 1000 * NewTokens <= p
  BY <1>3, <1>5
<1>8. RefillTokens \in Nat /\ RefillTokens <= tokens_ + NewTokens
  BY <1>1, <1>7 DEF RefillTokens, Least
<1>9. 1000 * (granted + RefillTokens) <= 1000 * init_tokens + u
  BY <1>1, <1>3, <1>4, <1>6, <1>7, <1>8
<1> QED BY <1>8, <1>9 DEF u

\* Less than a bound, a thousandfold.
LEMMA Scaled ==
    ASSUME NEW x \in Nat, NEW y \in Nat, NEW u \in Nat, x <= y, 1000 * y <= u
    PROVE  1000 * x <= u
OBVIOUS

\* Every step keeps the invariant.
LEMMA TokenNextInv == TokenInv /\ [TokenNext]_tokenVars => TokenInv'
<1> SUFFICES ASSUME TokenInv, [TokenNext]_tokenVars PROVE TokenInv'
  OBVIOUS
<1>1. now \in Nat /\ last_fill_time_ms_ \in Nat /\ last_fill_time_ms_ <= now /\ tokens_ \in Nat /\ granted \in Nat
  BY DEF TokenInv
<1>2. ASSUME NEW n \in 1 .. MaxTokens, Consume(n) PROVE TokenInv'
  <2>1. n \in Nat /\ now' = now /\ last_fill_time_ms_' = now
    BY <1>2, TokenSizes DEF Consume
  <2>2. /\ tokens_' \in Nat /\ granted' \in Nat
        /\ granted' + tokens_' <= granted + RefillTokens /\ granted' + tokens_' \in Nat
    BY <1>1, <1>2, <2>1, RefillWithinRate DEF Consume
  <2>3. /\ 1000 * (granted + RefillTokens) <= 1000 * init_tokens + tokens_per_second * now
        /\ 1000 * init_tokens + tokens_per_second * now \in Nat /\ granted + RefillTokens \in Nat
    BY <1>1, TokenSizes, RefillWithinRate
  <2>4. 1000 * (granted' + tokens_') <= 1000 * init_tokens + tokens_per_second * now
    BY <2>2, <2>3, Scaled
  <2> QED BY <1>1, <2>1, <2>2, <2>4 DEF TokenInv, GrantedWithinRate
<1>3. ASSUME IsStrictLimit PROVE TokenInv'
  BY <1>1, <1>3, RefillWithinRate DEF IsStrictLimit, TokenInv, GrantedWithinRate
<1>4. ASSUME NEW n \in 1 .. MaxNow, MillisecondsPass(n) PROVE TokenInv'
  BY <1>1, <1>4, TokenSizes DEF MillisecondsPass, TokenInv, GrantedWithinRate
<1>5. ASSUME UNCHANGED tokenVars PROVE TokenInv'
  BY <1>5 DEF tokenVars, TokenInv, GrantedWithinRate
<1> QED BY <1>2, <1>3, <1>4, <1>5 DEF TokenNext

\* TokenBucket: for every size, rate and clock, however often it is asked, the
\* bucket grants no more than its first filling and the rate (consume,
\* isStrictLimit, refillTokens).
THEOREM BucketStaysWithinRate == TokenSpec => []GrantedWithinRate
<1>1. TokenInit => TokenInv
  BY TokenSizes DEF TokenInit, TokenInv, GrantedWithinRate
<1>2. TokenInv => GrantedWithinRate
  BY DEF TokenInv
<1> QED BY <1>1, <1>2, TokenNextInv, PTL DEF TokenSpec
=============================================================================
