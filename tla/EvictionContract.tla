-------------------------- MODULE EvictionContract --------------------------
(***************************************************************************)
(* The contract of an eviction manager (spec section 4.1), stated without *)
(* any data structure: the manager tracks a set of keys and, for LRU, the *)
(* order in which they were last touched.  touch makes a key the most     *)
(* recently used, remove forgets it (a no-op when it is not tracked),     *)
(* evict forgets and returns a tracked key: under LRU one touched before  *)
(* every other tracked key, under the random policy any tracked key.      *)
(* The caches pair an eviction with the touch of the key they insert in   *)
(* one critical section; EvictTouch is that pair.                         *)
(***************************************************************************)

CONSTANTS
    Keys,              \* the keys a cache may track
    Kind               \* "lru" | "rnd"

VARIABLES
    tracked,           \* the keys the manager tracks
    older              \* <<a, b>>: a was last touched before b (both tracked)

\* The state after forgetting k.
Forgotten(k) == [keys |-> tracked \ {k},
                 order |-> {pr \in older : k # pr[1] /\ k # pr[2]}]

\* The state s after touching k: k is newer than every other key.
TouchedIn(s, k) == [keys |-> s.keys \cup {k},
                    order |-> {pr \in s.order : k # pr[1] /\ k # pr[2]}
                              \cup {<<o, k>> : o \in s.keys \ {k}}]

\* A key evict may return: tracked, and under LRU older than all others.
Evictable(k) ==
    /\ k \in tracked
    /\ Kind = "lru" => \A o \in tracked \ {k} : <<k, o>> \in older

Goto(s) == tracked' = s.keys /\ older' = s.order

Init == tracked = {} /\ older = {}

Touch(k) == Goto(TouchedIn([keys |-> tracked, order |-> older], k))

Remove(k) == Goto(Forgotten(k))

Evict(k) == Evictable(k) /\ Goto(Forgotten(k))

EvictTouch(v, k) == Evictable(v) /\ Goto(TouchedIn(Forgotten(v), k))

Next ==
    \E k \in Keys :
        \/ Touch(k)
        \/ Remove(k)
        \/ Evict(k)
        \/ \E v \in Keys : EvictTouch(v, k)

Spec == Init /\ [][Next]_<<tracked, older>>

=============================================================================
