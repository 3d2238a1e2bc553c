---------------------------- MODULE CacheManager ----------------------------
(***************************************************************************)
(* The eviction managers shared by the data and metadata caches           *)
(* (common/cache/lru_manager.hpp, rnd_manager.hpp).  Both keep the set of *)
(* tracked keys under their own mutex; the LRU manager also keeps their   *)
(* order.  The tracked keys are a sequence, most recently touched first;  *)
(* the random manager ignores the order.  Every operator is one call,     *)
(* taken atomically.                                                      *)
(***************************************************************************)
EXTENDS Sequences, SequencesExt

\* Mutant: push_back instead of push_front.
MgrTouchBack(keys, t) == SelectSeq(keys, LAMBDA x : x # t) \o <<t>>

\* touch(t): erase t's list node if it has one, push t at the front.
MgrTouch(keys, t) == <<t>> \o SelectSeq(keys, LAMBDA x : x # t)

\* remove(t): forget t if it is tracked.
MgrRemove(keys, t) == SelectSeq(keys, LAMBDA x : x # t)

\* Mutant: LRU evicts the front of the list.
MgrVictimsFront(keys, kind) ==
    IF kind = "lru" THEN {keys[1]} ELSE ToSet(keys)

\* evict() on a non-empty manager: the keys it may return (and forget).
\* LRU returns the back of the list; random any tracked key.
MgrVictims(keys, kind) ==
    IF kind = "lru" THEN {keys[Len(keys)]} ELSE ToSet(keys)

\* The recency order the LRU list stands for: a key further back was
\* touched before every key in front of it.
MgrOrder(keys) ==
    {<<keys[ij[2]], keys[ij[1]]>> :
        ij \in {ij \in (1 .. Len(keys)) \X (1 .. Len(keys)) : ij[1] < ij[2]}}

====
