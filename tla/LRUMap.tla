------------------------------- MODULE LRUMap -------------------------------
(* common::LRUMap: kv_map_ holds the values, k_list_ the keys from the last     *)
(* used on, ki_map_ each key's place in k_list_ (which the list determines).   *)
EXTENDS Integers, Sequences, SequencesExt

CONSTANTS LruKeys, LruValues, lru_capacity_,
          MaxUses    \* bound: the uses between two clear()

ASSUME LruSizes == lru_capacity_ \in Nat /\ MaxUses \in Nat

VARIABLES
    kv_map_, k_list_,
    uses,      \* put() and get() of keys since clear()
    lastUse,   \* when each key was last put or got; 0: never, or not since clear()
    lastPut    \* the value last put under it

lruVars == <<kv_map_, k_list_, uses, lastUse, lastPut>>

LruInit == kv_map_ = <<>> /\ k_list_ = <<>> /\ uses = 0 /\ lastUse = [k \in LruKeys |-> 0] /\ lastPut = <<>>

Kept == DOMAIN kv_map_
Uses(k) == uses < MaxUses /\ uses' = uses + 1 /\ lastUse' = [lastUse EXCEPT ![k] = uses + 1]
With(f, k, v) == [x \in DOMAIN f \cup {k} |-> IF x = k THEN v ELSE f[x]]
Place(k) == CHOOSE i \in DOMAIN k_list_ : k_list_[i] = k
ToFront(k) == <<k>> \o RemoveAt(k_list_, Place(k))

\* The place of a key that is not kept does not change.
LruGet(k) == k \in Kept /\ Uses(k) /\ k_list_' = ToFront(k) /\ UNCHANGED <<kv_map_, lastPut>>

LruPut(k, v) ==
    /\ Uses(k) /\ lastPut' = With(lastPut, k, v)
    /\ IF k \in Kept
       THEN kv_map_' = With(kv_map_, k, v) /\ k_list_' = ToFront(k)
       ELSE LET all == With(kv_map_, k, v)
                list == <<k>> \o k_list_
                full == Len(list) > lru_capacity_
            IN  /\ kv_map_' = IF full THEN [x \in DOMAIN all \ {Last(list)} |-> all[x]] ELSE all
                /\ k_list_' = IF full THEN Front(list) ELSE list

LruClear ==
    /\ kv_map_ # <<>>
    /\ kv_map_' = <<>> /\ k_list_' = <<>> /\ uses' = 0 /\ lastUse' = [k \in LruKeys |-> 0] /\ UNCHANGED lastPut

LruNext == LruClear \/ \E k \in LruKeys : LruGet(k) \/ \E v \in LruValues : LruPut(k, v)

LruSpec == LruInit /\ [][LruNext]_lruVars

(***************************************************************************)
(* Properties                                                               *)
(***************************************************************************)
\* The map keeps the keys last used, as many as it may, each with the value
\* last put, and evicts the one whose use is longest ago.
KeepsTheLastUsed ==
    /\ \A k \in Kept, other \in LruKeys \ Kept : lastUse[k] > lastUse[other]
    /\ \A k \in Kept : kv_map_[k] = lastPut[k]
    /\ Len(k_list_) <= lru_capacity_
    /\ (\E other \in LruKeys \ Kept : lastUse[other] > 0) => Len(k_list_) = lru_capacity_
    /\ ToSet(k_list_) = Kept /\ \A i \in 1 .. Len(k_list_) - 1 : lastUse[k_list_[i]] > lastUse[k_list_[i + 1]]
=============================================================================
