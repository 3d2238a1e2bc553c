--------------------------- MODULE MetadataCache ---------------------------
(***************************************************************************)
(* The metadata caching layer (layers/metadata_cache/metadata_cache.cpp)  *)
(* over its attribute cache (layers/metadata_cache/cache.cpp).            *)
(*                                                                         *)
(* FUSE threads run getattr/fgetattr and the mutating operations          *)
(* concurrently.  The attributes of a path are abstracted to a version    *)
(* number that the backend bumps whenever an operation changes them, so   *)
(* "stale" means "an older version than the backend has".                 *)
(*                                                                         *)
(* The cache map and the eviction policy are guarded by the cache's       *)
(* shared mutex; each step below is one critical section or one backend   *)
(* call, in the order the code makes them.                                *)
(***************************************************************************)
EXTENDS Integers, Sequences, FiniteSets, TLC, CacheManager

CONSTANTS
    Threads,    \* FUSE worker threads
    Paths,      \* the paths the threads name
    Parent,     \* Parent[p]: fs::path(p).parent_path(); the root is its own
    Size,       \* config.size_: the entry count that triggers an eviction
    Policy,     \* "lru" or "rnd"
    TimeOut,    \* TRUE when config.time_out_ > 0 (entries can expire)
    Calls,      \* the mutating calls the threads may make (see below)
    MaxCalls,   \* bound on the number of mutating calls
    None

VARIABLES
    ver,        \* backend: the attribute version of every path
    cache,      \* cache_: path -> [v |-> version, fresh |-> is_valid()]
    policy,     \* the eviction policy's tracked keys
    pc,         \* per thread: where it is in its current call
    arg,        \* per thread: the path of its getattr
    val,        \* per thread: the version the backend returned
    call,       \* per thread: the mutating call in progress
    todo,       \* per thread: the cache->remove calls still to make
    nCalls      \* mutating calls started so far

vars == <<ver, cache, policy, pc, arg, val, call, todo, nCalls>>

Versions == 0..MaxCalls

\* A mutating call: the paths it passes to cache->remove, in order, and the
\* paths whose attributes the backend operation changes.
Call == [name : STRING, inval : Seq(Paths), changes : SUBSET Paths]

RECURSIVE Ancestors(_)
Ancestors(p) == IF Parent[p] = p THEN {} ELSE {Parent[p]} \cup Ancestors(Parent[p])

Descendants(p) == {q \in Paths : p \in Ancestors(q)}

(***************************************************************************)
(* The interceptors.  Each removes the entries named and then delegates;  *)
(* "changes" is what the delegated POSIX call does to attributes: a new   *)
(* or removed entry changes its directory, a rename moves the subtree.    *)
(***************************************************************************)
\* Mutant: the parent directory is not removed.
PathAndParentNoParent(name, p) ==
    [name |-> name, inval |-> <<p>>, changes |-> {p, Parent[p]}]

\* mknod, mkdir, unlink, rmdir, create: remove(path), remove(parent).
PathAndParent(name, p) ==
    [name |-> name, inval |-> <<p, Parent[p]>>, changes |-> {p, Parent[p]}]

\* chmod, chown, truncate, ftruncate, utimens: remove(path).
Attr(name, p) == [name |-> name, inval |-> <<p>>, changes |-> {p}]

\* open, flush, release, fsync: remove(path); open changes nothing, the
\* others may land buffered data (write-back) and so change the size.
Handle(name, p) ==
    [name |-> name, inval |-> <<p>>, changes |-> IF name = "open" THEN {} ELSE {p}]

\* symlink(from, to): remove(from), remove(to), remove(parent(to)).
Symlink(from, to) ==
    [name |-> "symlink", inval |-> <<from, to, Parent[to]>>,
     changes |-> {to, Parent[to]}]

\* link(from, to): as symlink; the link count of from changes too.
Link(from, to) ==
    [name |-> "link", inval |-> <<from, to, Parent[to]>>,
     changes |-> {from, to, Parent[to]}]

\* rename(from, to): remove from, to and both parents.
Rename(from, to) ==
    [name |-> "rename", inval |-> <<from, to, Parent[from], Parent[to]>>,
     changes |-> {from, to, Parent[from], Parent[to]} \cup Descendants(from)]

\* write is not among the operations the layer stacks: it reaches the
\* backend without any cache->remove.
Write(p) == [name |-> "write", inval |-> <<>>, changes |-> {p}]

Init ==
    /\ ver = [p \in Paths |-> 0]
    /\ cache = <<>>
    /\ policy = <<>>
    /\ pc = [t \in Threads |-> "idle"]
    /\ arg = [t \in Threads |-> None]
    /\ val = [t \in Threads |-> None]
    /\ call = [t \in Threads |-> None]
    /\ todo = [t \in Threads |-> <<>>]
    /\ nCalls = 0

Erase(m, p) == [q \in DOMAIN m \ {p} |-> m[q]]

(***************************************************************************)
(* getattr / fgetattr: cache->get under the shared lock.                  *)
(***************************************************************************)
\* A hit on a valid entry copies it out and touches the policy.
GetHit(t, p) ==
    /\ pc[t] = "idle"
    /\ p \in DOMAIN cache /\ cache[p].fresh
    /\ policy' = MgrTouch(policy, p)
    /\ UNCHANGED <<ver, cache, pc, arg, val, call, todo, nCalls>>

\* A miss returns false with no side effect; the thread goes to the backend.
GetMiss(t, p) ==
    /\ pc[t] = "idle"
    /\ p \notin DOMAIN cache
    /\ pc' = [pc EXCEPT ![t] = "fetch"]
    /\ arg' = [arg EXCEPT ![t] = p]
    /\ UNCHANGED <<ver, cache, policy, val, call, todo, nCalls>>

\* An expired entry: drop the shared lock (a second critical section follows).
GetStale(t, p) ==
    /\ pc[t] = "idle"
    /\ p \in DOMAIN cache /\ ~cache[p].fresh
    /\ pc' = [pc EXCEPT ![t] = "unlink"]
    /\ arg' = [arg EXCEPT ![t] = p]
    /\ UNCHANGED <<ver, cache, policy, val, call, todo, nCalls>>

\* Under the unique lock: erase whatever entry the path has now (which may
\* be a fresh one put meanwhile) and forget it in the policy.
GetErase(t) ==
    /\ pc[t] = "unlink"
    /\ cache' = Erase(cache, arg[t])
    /\ policy' = MgrRemove(policy, arg[t])
    /\ pc' = [pc EXCEPT ![t] = "fetch"]
    /\ UNCHANGED <<ver, arg, val, call, todo, nCalls>>

\* next_layer.getattr succeeds and returns the backend's attributes.
Fetch(t) ==
    /\ pc[t] = "fetch"
    /\ val' = [val EXCEPT ![t] = ver[arg[t]]]
    /\ pc' = [pc EXCEPT ![t] = "put"]
    /\ UNCHANGED <<ver, cache, policy, arg, call, todo, nCalls>>

\* Mutant: the res == 0 check is dropped and the failed result is put.
FetchFailsPut(t) ==
    /\ pc[t] = "fetch"
    /\ pc' = [pc EXCEPT ![t] = "put"]
    /\ UNCHANGED <<ver, cache, policy, arg, val, call, todo, nCalls>>

\* next_layer.getattr fails: the error is returned and nothing is cached.
FetchFails(t) ==
    /\ pc[t] = "fetch"
    /\ pc' = [pc EXCEPT ![t] = "idle"]
    /\ arg' = [arg EXCEPT ![t] = None]
    /\ UNCHANGED <<ver, cache, policy, val, call, todo, nCalls>>

\* cache->put under the unique lock: at capacity, evict() a key and erase
\* it; emplace (which keeps an existing entry); touch; return the fetched
\* attributes.
Emplace(m, p, e) == m @@ (p :> e)

\* Mutant: evict only once the map is over size_.
EvictIfOver ==
    IF Cardinality(DOMAIN cache) > Size /\ policy # <<>>
    THEN {{k} : k \in MgrVictims(policy, Policy)}
    ELSE {{}}

EvictIfFull ==
    IF Cardinality(DOMAIN cache) >= Size /\ policy # <<>>
    THEN {{k} : k \in MgrVictims(policy, Policy)}
    ELSE {{}}

Put(t) ==
    /\ pc[t] = "put"
    /\ \E gone \in EvictIfFull :
         LET kept == [q \in DOMAIN cache \ gone |-> cache[q]]
         IN  /\ cache' = Emplace(kept, arg[t], [v |-> val[t], fresh |-> TRUE])
             /\ policy' = MgrTouch(SelectSeq(policy, LAMBDA x : x \notin gone), arg[t])
    /\ pc' = [pc EXCEPT ![t] = "idle"]
    /\ arg' = [arg EXCEPT ![t] = None]
    /\ val' = [val EXCEPT ![t] = None]
    /\ UNCHANGED <<ver, call, todo, nCalls>>

(***************************************************************************)
(* The mutating interceptors: one cache->remove per step, then delegate.  *)
(***************************************************************************)
Begin(t, c) ==
    /\ pc[t] = "idle"
    /\ nCalls < MaxCalls
    /\ call' = [call EXCEPT ![t] = c]
    /\ todo' = [todo EXCEPT ![t] = c.inval]
    /\ pc' = [pc EXCEPT ![t] = "remove"]
    /\ nCalls' = nCalls + 1
    /\ UNCHANGED <<ver, cache, policy, arg, val>>

\* Mutant: remove erases the entry but leaves the policy alone.
CacheRemoveNoPolicy(t) ==
    /\ pc[t] = "remove" /\ todo[t] # <<>>
    /\ cache' = Erase(cache, Head(todo[t]))
    /\ todo' = [todo EXCEPT ![t] = Tail(@)]
    /\ UNCHANGED <<ver, policy, pc, arg, val, call, nCalls>>

\* cache->remove(path): erase and policy remove under the unique lock.
CacheRemove(t) ==
    /\ pc[t] = "remove" /\ todo[t] # <<>>
    /\ cache' = Erase(cache, Head(todo[t]))
    /\ policy' = MgrRemove(policy, Head(todo[t]))
    /\ todo' = [todo EXCEPT ![t] = Tail(@)]
    /\ UNCHANGED <<ver, pc, arg, val, call, nCalls>>

\* next_layer.<op> succeeds: the backend changes the attributes.
Delegate(t) ==
    /\ pc[t] = "remove" /\ todo[t] = <<>>
    /\ ver' = [p \in Paths |-> IF p \in call[t].changes THEN ver[p] + 1 ELSE ver[p]]
    /\ pc' = [pc EXCEPT ![t] = "idle"]
    /\ call' = [call EXCEPT ![t] = None]
    /\ UNCHANGED <<cache, policy, arg, val, todo, nCalls>>

\* next_layer.<op> fails: the removals stay done, nothing else changes.
DelegateFails(t) ==
    /\ pc[t] = "remove" /\ todo[t] = <<>>
    /\ pc' = [pc EXCEPT ![t] = "idle"]
    /\ call' = [call EXCEPT ![t] = None]
    /\ UNCHANGED <<ver, cache, policy, arg, val, todo, nCalls>>

\* metadata::is_valid: time_out_ seconds pass since the entry was stamped.
Expire(p) ==
    /\ TimeOut
    /\ p \in DOMAIN cache /\ cache[p].fresh
    /\ cache' = [cache EXCEPT ![p].fresh = FALSE]
    /\ UNCHANGED <<ver, policy, pc, arg, val, call, todo, nCalls>>

Next ==
    \/ \E t \in Threads :
         \/ \E p \in Paths : GetHit(t, p) \/ GetMiss(t, p) \/ GetStale(t, p)
         \/ GetErase(t) \/ Fetch(t) \/ FetchFails(t) \/ Put(t)
         \/ \E c \in Calls : Begin(t, c)
         \/ CacheRemove(t) \/ Delegate(t) \/ DelegateFails(t)
    \/ \E p \in Paths : Expire(p)

Spec == Init /\ [][Next]_vars

-----------------------------------------------------------------------------
TypeOK ==
    /\ ver \in [Paths -> Versions]
    /\ DOMAIN cache \subseteq Paths
    /\ \A p \in DOMAIN cache : cache[p] \in [v : Versions, fresh : BOOLEAN]
    /\ policy \in Seq(Paths)
    /\ pc \in [Threads -> {"idle", "unlink", "fetch", "put", "remove"}]
    /\ arg \in [Threads -> Paths \cup {None}]
    /\ val \in [Threads -> Versions \cup {None}]
    /\ call \in [Threads -> Call \cup {None}]
    /\ todo \in [Threads -> Seq(Paths)]
    /\ nCalls \in 0..MaxCalls

\* The policy tracks exactly the cached paths, each once: put, the stale
\* branch of get and remove each update cache_ and the policy under one
\* unique lock, and touch under the shared lock only names a present key.
\* A policy key without an entry, or an entry evict() can never pick, is
\* what a remove that forgot the policy, or an interleaving of a stale get
\* with a concurrent put, would leave.
PolicyMatchesCache ==
    /\ ToSet(policy) = DOMAIN cache
    /\ Len(policy) = Cardinality(DOMAIN cache)

\* put evicts before it inserts once the map holds size_ entries, so the
\* map never holds more than size_ entries (one when size_ is 0, since
\* evict() then finds nothing to drop).
CacheBounded ==
    Cardinality(DOMAIN cache) <= IF Size = 0 THEN 1 ELSE Size

\* Every cached entry holds the attributes the backend has now.  Each
\* operation that changes a path's attributes through this layer removes
\* the entry before it delegates (spec section 4.3, "Invalidation
\* contract"), so no later getattr can be served the old attributes from
\* the cache; a put racing the operation, or a change no removal covers,
\* leaves an entry every later getattr hits until it expires.
CacheCurrent ==
    \A p \in DOMAIN cache : cache[p].v = ver[p]


\* The policy seen through the contract of an eviction manager (spec
\* section 4.1): the keys it tracks and their recency order.
Contract == INSTANCE EvictionContract
                WITH Keys <- Paths, Kind <- Policy,
                     tracked <- ToSet(policy), older <- MgrOrder(policy)

\* Every change the metadata cache makes to its policy is a touch, a
\* remove, an eviction, or an eviction paired with a touch, and an LRU
\* eviction takes the key touched longest ago: get's touch on a hit, the
\* evict-erase-emplace-touch of put and remove's policy remove keep the
\* lru_cache_manager's list in recency order with each key once.
EvictsByPolicy == Contract!Spec

====
