-------------------------- MODULE ConcurrentHashMap --------------------------
(* common::ConcurrentHashMap: one map and one mutex for each slot.  insert(),  *)
(* erase() and get() lock one slot; getValues(), size() and clear() go through *)
(* the slots and hold one lock at a time.                                      *)
EXTENDS Integers, FiniteSets

CONSTANTS SLOT_COUNT,
          MapKeys       \* numbers: a key is what hasher_ makes of it

ASSUME MapSizes == SLOT_COUNT \in Nat \ {0} /\ MapKeys \subseteq Nat

VARIABLES
    hashmaps_,   \* the keys in each slot; a key stands for its value
    scan,        \* the next slot of a getValues(); SLOT_COUNT: none runs
    seen,        \* the keys it has collected
    clearing,    \* the next slot of a clear()
    always,      \* the keys that were in the map all the time since the scan began
    ever,        \* the keys that were in it at some time since
    old          \* the keys in it since the clear() began

mapVars == <<hashmaps_, scan, seen, clearing, always, ever, old>>

Slots == 0 .. SLOT_COUNT - 1
SlotOf(k) == k % SLOT_COUNT
Present == UNION {hashmaps_[s] : s \in Slots}

MapInit ==
    /\ hashmaps_ = [s \in Slots |-> {}] /\ scan = SLOT_COUNT /\ clearing = SLOT_COUNT
    /\ seen = {} /\ always = {} /\ ever = {} /\ old = {}

Insert(k) ==
    /\ hashmaps_' = [hashmaps_ EXCEPT ![SlotOf(k)] = @ \cup {k}]
    /\ ever' = ever \cup {k} /\ UNCHANGED <<scan, seen, clearing, always, old>>

EraseAll(ks) == always' = always \ ks /\ old' = old \ ks /\ UNCHANGED <<scan, seen, ever>>
Erase(k) == hashmaps_' = [hashmaps_ EXCEPT ![SlotOf(k)] = @ \ {k}] /\ EraseAll({k}) /\ UNCHANGED clearing

\* getValues(): the filter is the caller's and pure.
ScanBegins ==
    /\ scan = SLOT_COUNT /\ scan' = 0 /\ seen' = {}
    /\ always' = Present /\ ever' = Present /\ UNCHANGED <<hashmaps_, clearing, old>>

\* Mutant of ScanSlot: the last slot is left out.
ScanSlotEnds ==
    /\ scan < SLOT_COUNT /\ scan' = IF scan + 2 >= SLOT_COUNT THEN SLOT_COUNT ELSE scan + 1
    /\ seen' = seen \cup hashmaps_[scan] /\ UNCHANGED <<hashmaps_, clearing, always, ever, old>>

ScanSlot ==
    /\ scan < SLOT_COUNT /\ scan' = scan + 1
    /\ seen' = seen \cup hashmaps_[scan] /\ UNCHANGED <<hashmaps_, clearing, always, ever, old>>

ClearBegins ==
    /\ clearing = SLOT_COUNT /\ clearing' = 0 /\ old' = Present
    /\ UNCHANGED <<hashmaps_, scan, seen, always, ever>>

ClearSlot ==
    /\ clearing < SLOT_COUNT /\ clearing' = clearing + 1
    /\ hashmaps_' = [hashmaps_ EXCEPT ![clearing] = {}] /\ EraseAll(hashmaps_[clearing])

MapNext ==
    \/ ScanBegins \/ ScanSlot \/ ClearBegins \/ ClearSlot
    \/ \E k \in MapKeys : Insert(k) \/ Erase(k)

MapSpec == MapInit /\ [][MapNext]_mapVars

(***************************************************************************)
(* Properties                                                               *)
(***************************************************************************)
\* getValues() is no snapshot, yet when it returns it has every key that was
\* in the map all the while and none that never was.
ScanSeesWhatStays == scan = SLOT_COUNT => always \subseteq seen /\ seen \subseteq ever

\* When clear() returns, every key left was inserted after it began.
ClearTakesWhatWasThere == clearing = SLOT_COUNT => old = {}

\* The two calls that lock one slot after the other answer for the whole map:
\* getValues() for what stayed in it, clear() for what was there.
WholeMapCalls == ScanSeesWhatStays /\ ClearTakesWhatWasThere
=============================================================================
