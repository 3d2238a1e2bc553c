------------------------------ MODULE DataCache ------------------------------
(***************************************************************************)
(* The data block cache of layers/data_cache/cache.cpp with its eviction  *)
(* policy (common/cache/lru_manager.hpp, rnd_manager.hpp), for one path   *)
(* opened by several FUSE threads, over a backend file that other clients *)
(* rewrite.                                                                *)
(*                                                                         *)
(* A byte of the file is <<v, pos>>: the byte at position pos of version  *)
(* v of the file; the version is the file's mtime.  A block buffer maps   *)
(* its BlockSize positions to bytes or to Zero (make_unique<char[]> value *)
(* initialises).  The read loop of cache::read is split at every point    *)
(* where it releases a lock or calls out of the cache; each critical      *)
(* section is one step.                                                   *)
(***************************************************************************)
EXTENDS Integers, Sequences, SequencesExt, FiniteSets, CacheManager

CONSTANTS
    Readers,     \* FUSE threads operating on the path
    BlockSize,   \* config_.block_size_
    Budget,      \* config_.size_ in bytes
    MaxLen,      \* largest file length the backend takes
    Reqs,        \* <<offset, size>> arguments of read
    Policy,      \* "lru" | "rnd": config_.eviction_policy_
    TimeOut,     \* TRUE: config_.time_out_ > 0, blocks expire
    Truncate,    \* TRUE: other clients may shrink the file
    Faults,      \* TRUE: a backend read may fail
    MaxVersion,  \* bound: number of times the file is rewritten
    MaxReads,    \* bound: number of read calls
    None

ASSUME /\ BlockSize \in Nat \ {0} /\ Budget \in Nat /\ MaxLen \in Nat
       /\ Policy \in {"lru", "rnd"} /\ TimeOut \in BOOLEAN
       /\ Truncate \in BOOLEAN /\ Faults \in BOOLEAN

Zero == "zero"          \* a byte of a zero-initialised buffer
OOB == "oob"            \* a byte read past the end of the block buffer
Keys == 0 .. (MaxLen \div BlockSize)    \* block ids of the one path
Versions == 0 .. MaxVersion
Byte == Versions \X (0 .. MaxLen - 1)
Buffer == [0 .. BlockSize - 1 -> Byte \cup {Zero}]

VARIABLES
    fileLen,     \* backend: length of the current version
    fver,        \* backend: current version, i.e. the file's mtime
    lens,        \* lens[v + 1]: length of version v (history, for properties)
    mtime,       \* mtimes_[path]: mtime recorded at open, or None
    cache,       \* cache_: key -> block
    cacheSize,   \* cache_size_ (size_t; may transiently go below 0)
    policy,      \* keys tracked by the eviction policy, most recent first
    pc,          \* reader -> program counter
    req,         \* reader -> <<offset, size>> of its read
    fmt,         \* reader -> file_mtime copied from mtimes_
    readed,      \* reader -> bytes copied so far
    out,         \* reader -> bytes copied into buf so far
    cur,         \* reader -> key of the current loop iteration
    victim,      \* reader -> key returned by evict()
    fetched,     \* reader -> <<size, buffer>> read from the backend on a miss
    res,         \* reader -> value returned by the last read, or None
    nReads

vars == <<fileLen, fver, lens, mtime, cache, cacheSize, policy, pc, req, fmt,
          readed, out, cur, victim, fetched, res, nReads>>

Block == [size : -1 .. BlockSize, buf : Buffer, mtime : Versions, fresh : BOOLEAN]

-----------------------------------------------------------------------------
(* Helpers                                                                 *)

\* operations_.read of block k into buffer b: the bytes of the current
\* version from k * BlockSize on; the rest of b is left as it was.
NRead(k) == IF fileLen - k * BlockSize < 0 THEN 0
            ELSE IF fileLen - k * BlockSize > BlockSize THEN BlockSize
            ELSE fileLen - k * BlockSize
ReadInto(k, b) ==
    [i \in 0 .. BlockSize - 1 |-> IF i < NRead(k) THEN <<fver, k * BlockSize + i>>
                                  ELSE b[i]]
ZeroBuf == [i \in 0 .. BlockSize - 1 |-> Zero]

\* Mutant: only the TTL is checked, not the mtime.
IsValidTTLOnly(b, m) == b.fresh

\* block::is_valid: same mtime as the one recorded at open, and not expired.
IsValid(b, m) == b.mtime = m /\ b.fresh

Seeker(r) == req[r][1] + readed[r]

\* cache_size_ > config_.size_ on a size_t: a value below 0 has wrapped.
OverBudget == cacheSize < 0 \/ cacheSize > Budget

\* The copy of read (lines 104-116) from block b: n_bytes_to_copy is
\* min(size - readed, block.size_ - offset_in_the_block) in size_t, so a
\* negative block.size_ or an offset past it wraps to a huge value.
\* Mutant: the copy is not clamped to the bytes in the block.
NCopyNoClamp(r, k, b) == req[r][2] - readed[r]

NCopy(r, k, b) ==
    LET need == req[r][2] - readed[r]
        off  == Seeker(r) - k * BlockSize
    IN IF b.size < off THEN need
       ELSE IF b.size - off < need THEN b.size - off ELSE need
Copied(r, k, b) ==
    LET off == Seeker(r) - k * BlockSize
    IN [i \in 1 .. NCopy(r, k, b) |-> IF off + i - 1 < BlockSize THEN b.buf[off + i - 1]
                                   ELSE OOB]

\* Cache shared lock holders across the refresh of a block (lines 75-113).
SharedHolders == {r \in Readers : pc[r] \in {"refresh", "recopy"}}

\* Return from read with value v.
Return(r, v) == /\ pc' = [pc EXCEPT ![r] = "idle"]
                /\ res' = [res EXCEPT ![r] = v]

\* Either copy from b and go on to touch the key, or break out of the loop.
CopyFrom(r, k, b) ==
    IF NCopy(r, k, b) = 0
    THEN Return(r, readed[r]) /\ UNCHANGED <<readed, out>>
    ELSE /\ out' = [out EXCEPT ![r] = @ \o Copied(r, k, b)]
         /\ readed' = [readed EXCEPT ![r] = @ + NCopy(r, k, b)]
         /\ pc' = [pc EXCEPT ![r] = "touch"]
         /\ UNCHANGED res

\* Mutant: touch pushes the key without erasing its old list node.
TouchedNoErase(k) == <<k>> \o policy

\* eviction_policy touch / remove / evict, each under the policy's mutex.
Touched(k) == MgrTouch(policy, k)
Removed(k) == MgrRemove(policy, k)
Victims == MgrVictims(policy, Policy)


\* Mutant: cache_size_ is decremented whether or not the key was found.
RemoveBlockAlwaysDec(k) ==
    /\ cache' = [x \in DOMAIN cache \ {k} |-> cache[x]]
    /\ cacheSize' = cacheSize - BlockSize

\* remove_block(key): erase under the exclusive cache lock, decrementing
\* cache_size_ only if the key was there.
RemoveBlock(k) ==
    IF k \in DOMAIN cache
    THEN /\ cache' = [x \in DOMAIN cache \ {k} |-> cache[x]]
         /\ cacheSize' = cacheSize - BlockSize
    ELSE UNCHANGED <<cache, cacheSize>>

-----------------------------------------------------------------------------
(* cache::open and cache::release                                         *)

\* The backend open and getattr succeed; mtimes_[path] = st_mtim.
Open(r) ==
    /\ pc[r] = "closed"
    /\ mtime' = fver
    /\ pc' = [pc EXCEPT ![r] = "idle"]
    /\ UNCHANGED <<fileLen, fver, lens, cache, cacheSize, policy, req, fmt,
                   readed, out, cur, victim, fetched, res, nReads>>

\* mtimes_.erase(path), even if another handle of the path is open.
Release(r) ==
    /\ pc[r] = "idle"
    /\ mtime' = None
    /\ pc' = [pc EXCEPT ![r] = "closed"]
    /\ UNCHANGED <<fileLen, fver, lens, cache, cacheSize, policy, req, fmt,
                   readed, out, cur, victim, fetched, res, nReads>>

-----------------------------------------------------------------------------
(* cache::read                                                             *)

\* No mtime recorded for the path: delegate to the backend (lines 60-68).
ReadBypass(r, o, n) ==
    /\ pc[r] = "idle" /\ nReads < MaxReads /\ mtime = None
    /\ LET cnt == IF fileLen - o < 0 THEN 0
                  ELSE IF fileLen - o < n THEN fileLen - o ELSE n
       IN /\ out' = [out EXCEPT ![r] = [i \in 1 .. cnt |-> <<fver, o + i - 1>>]]
          /\ res' = [res EXCEPT ![r] = cnt]
    /\ req' = [req EXCEPT ![r] = <<o, n>>]
    /\ nReads' = nReads + 1
    /\ UNCHANGED <<fileLen, fver, lens, mtime, cache, cacheSize, policy, pc,
                   fmt, readed, cur, victim, fetched>>

\* Copy file_mtime from mtimes_ and enter the loop.
ReadStart(r, o, n) ==
    /\ pc[r] = "idle" /\ nReads < MaxReads /\ mtime # None
    /\ fmt' = [fmt EXCEPT ![r] = mtime]
    /\ req' = [req EXCEPT ![r] = <<o, n>>]
    /\ readed' = [readed EXCEPT ![r] = 0]
    /\ out' = [out EXCEPT ![r] = <<>>]
    /\ res' = [res EXCEPT ![r] = None]
    /\ pc' = [pc EXCEPT ![r] = "lookup"]
    /\ nReads' = nReads + 1
    /\ UNCHANGED <<fileLen, fver, lens, mtime, cache, cacheSize, policy, cur,
                   victim, fetched>>

\* while (readed != size) exits.
LookupDone(r) ==
    /\ pc[r] = "lookup" /\ readed[r] = req[r][2]
    /\ Return(r, readed[r])
    /\ UNCHANGED <<fileLen, fver, lens, mtime, cache, cacheSize, policy, req,
                   fmt, readed, out, cur, victim, fetched, nReads>>

\* Hit on a valid block: copy under the shared cache and block locks.
LookupHit(r) ==
    /\ pc[r] = "lookup" /\ readed[r] # req[r][2]
    /\ LET k == Seeker(r) \div BlockSize IN
       /\ k \in DOMAIN cache /\ IsValid(cache[k], fmt[r])
       /\ cur' = [cur EXCEPT ![r] = k]
       /\ CopyFrom(r, k, cache[k])
    /\ UNCHANGED <<fileLen, fver, lens, mtime, cache, cacheSize, policy, req,
                   fmt, victim, fetched, nReads>>

\* Hit on an invalid block: keep the shared cache lock, go refresh it.
LookupStale(r) ==
    /\ pc[r] = "lookup" /\ readed[r] # req[r][2]
    /\ LET k == Seeker(r) \div BlockSize IN
       /\ k \in DOMAIN cache /\ ~IsValid(cache[k], fmt[r])
       /\ cur' = [cur EXCEPT ![r] = k]
    /\ pc' = [pc EXCEPT ![r] = "refresh"]
    /\ UNCHANGED <<fileLen, fver, lens, mtime, cache, cacheSize, policy, req,
                   fmt, readed, out, victim, fetched, res, nReads>>

LookupMiss(r) ==
    /\ pc[r] = "lookup" /\ readed[r] # req[r][2]
    /\ LET k == Seeker(r) \div BlockSize IN
       /\ k \notin DOMAIN cache
       /\ cur' = [cur EXCEPT ![r] = k]
    /\ pc' = [pc EXCEPT ![r] = "miss"]
    /\ UNCHANGED <<fileLen, fver, lens, mtime, cache, cacheSize, policy, req,
                   fmt, readed, out, victim, fetched, res, nReads>>

\* Under the exclusive block lock, re-read the whole block; size_, the
\* timestamp and mtime_ are stored before the result is checked.
Refresh(r) ==
    /\ pc[r] = "refresh"
    /\ LET k == cur[r] IN
       cache' = [cache EXCEPT ![k] = [size |-> NRead(k), buf |-> ReadInto(k, @.buf),
                                      mtime |-> fmt[r], fresh |-> TRUE]]
    /\ pc' = [pc EXCEPT ![r] = "recopy"]
    /\ UNCHANGED <<fileLen, fver, lens, mtime, cacheSize, policy, req, fmt,
                   readed, out, cur, victim, fetched, res, nReads>>

\* The backend read fails: block.size_ = -1 is stored with a fresh
\* timestamp and mtime, the locks are dropped, the block is then removed.
RefreshFails(r) ==
    /\ Faults /\ pc[r] = "refresh"
    /\ cache' = [cache EXCEPT ![cur[r]] = [@ EXCEPT !.size = -1, !.mtime = fmt[r],
                                                    !.fresh = TRUE]]
    /\ pc' = [pc EXCEPT ![r] = "remove"]
    /\ UNCHANGED <<fileLen, fver, lens, mtime, cacheSize, policy, req, fmt,
                   readed, out, cur, victim, fetched, res, nReads>>

\* block_shared_lock.lock() again and copy from the refreshed block.
Recopy(r) ==
    /\ pc[r] = "recopy"
    /\ CopyFrom(r, cur[r], cache[cur[r]])
    /\ UNCHANGED <<fileLen, fver, lens, mtime, cache, cacheSize, policy, req,
                   fmt, cur, victim, fetched, nReads>>

\* remove_block(key) after the failed refresh.
RemoveAfterError(r) ==
    /\ pc[r] = "remove" /\ SharedHolders = {}
    /\ RemoveBlock(cur[r])
    /\ pc' = [pc EXCEPT ![r] = "premove"]
    /\ UNCHANGED <<fileLen, fver, lens, mtime, policy, req, fmt, readed, out,
                   cur, victim, fetched, res, nReads>>

\* eviction_policy_->remove(key); return res.
PolicyRemoveAfterError(r) ==
    /\ pc[r] = "premove"
    /\ policy' = Removed(cur[r])
    /\ Return(r, -1)
    /\ UNCHANGED <<fileLen, fver, lens, mtime, cache, cacheSize, req, fmt,
                   readed, out, cur, victim, fetched, nReads>>

\* Miss with cache_size_ over the budget: evict() picks a victim.
MissEvict(r) ==
    /\ pc[r] = "miss" /\ OverBudget /\ policy # <<>>
    /\ \E v \in Victims :
          /\ policy' = Removed(v)
          /\ victim' = [victim EXCEPT ![r] = v]
    /\ pc' = [pc EXCEPT ![r] = "evict"]
    /\ UNCHANGED <<fileLen, fver, lens, mtime, cache, cacheSize, req, fmt,
                   readed, out, cur, fetched, res, nReads>>

\* Miss under the budget, or evict() found nothing to select.
MissNoEvict(r) ==
    /\ pc[r] = "miss" /\ (~OverBudget \/ policy = <<>>)
    /\ pc' = [pc EXCEPT ![r] = "fetch"]
    /\ UNCHANGED <<fileLen, fver, lens, mtime, cache, cacheSize, policy, req,
                   fmt, readed, out, cur, victim, fetched, res, nReads>>

\* Mutant: the victim chosen by evict() is never removed from cache_.
EvictRemoveNoErase(r) ==
    /\ pc[r] = "evict" /\ SharedHolders = {}
    /\ pc' = [pc EXCEPT ![r] = "fetch"]
    /\ UNCHANGED <<fileLen, fver, lens, mtime, cache, cacheSize, policy, req,
                   fmt, readed, out, cur, victim, fetched, res, nReads>>

\* remove_block(selected_key).
EvictRemove(r) ==
    /\ pc[r] = "evict" /\ SharedHolders = {}
    /\ RemoveBlock(victim[r])
    /\ pc' = [pc EXCEPT ![r] = "fetch"]
    /\ UNCHANGED <<fileLen, fver, lens, mtime, policy, req, fmt, readed, out,
                   cur, victim, fetched, res, nReads>>

\* Read the block into a new buffer; 0 bytes ends the loop.
Fetch(r) ==
    /\ pc[r] = "fetch"
    /\ IF NRead(cur[r]) = 0
       THEN Return(r, readed[r]) /\ UNCHANGED fetched
       ELSE /\ fetched' = [fetched EXCEPT ![r] =
                             <<NRead(cur[r]), ReadInto(cur[r], ZeroBuf)>>]
            /\ pc' = [pc EXCEPT ![r] = "insert"]
            /\ UNCHANGED res
    /\ UNCHANGED <<fileLen, fver, lens, mtime, cache, cacheSize, policy, req,
                   fmt, readed, out, cur, victim, nReads>>

\* The backend read fails: return block_size, whatever was copied.
FetchFails(r) ==
    /\ Faults /\ pc[r] = "fetch"
    /\ Return(r, -1)
    /\ UNCHANGED <<fileLen, fver, lens, mtime, cache, cacheSize, policy, req,
                   fmt, readed, out, cur, victim, fetched, nReads>>

\* Mutant: cache_size_ grows even when try_emplace lost the race.
InsertAlwaysCount(r) ==
    /\ pc[r] = "insert" /\ SharedHolders = {}
    /\ cache' = IF cur[r] \notin DOMAIN cache
                THEN cache @@ (cur[r] :> [size |-> fetched[r][1], buf |-> fetched[r][2],
                                          mtime |-> fmt[r], fresh |-> TRUE])
                ELSE cache
    /\ pc' = [pc EXCEPT ![r] = "count"]
    /\ UNCHANGED <<fileLen, fver, lens, mtime, cacheSize, policy, req, fmt,
                   readed, out, cur, victim, fetched, res, nReads>>

\* try_emplace under the exclusive cache lock; a block inserted meanwhile
\* by another thread is kept and the new buffer dropped.
Insert(r) ==
    /\ pc[r] = "insert" /\ SharedHolders = {}
    /\ IF cur[r] \notin DOMAIN cache
       THEN /\ cache' = cache @@ (cur[r] :> [size |-> fetched[r][1],
                                            buf |-> fetched[r][2],
                                            mtime |-> fmt[r], fresh |-> TRUE])
            /\ pc' = [pc EXCEPT ![r] = "count"]
       ELSE /\ pc' = [pc EXCEPT ![r] = "touch"]
            /\ UNCHANGED cache
    /\ UNCHANGED <<fileLen, fver, lens, mtime, cacheSize, policy, req, fmt,
                   readed, out, cur, victim, fetched, res, nReads>>

\* if (pair.second) cache_size_ += block_size_, after the unlock.
Count(r) ==
    /\ pc[r] = "count"
    /\ cacheSize' = cacheSize + BlockSize
    /\ pc' = [pc EXCEPT ![r] = "touch"]
    /\ UNCHANGED <<fileLen, fver, lens, mtime, cache, policy, req, fmt,
                   readed, out, cur, victim, fetched, res, nReads>>

\* eviction_policy_->touch(key) at the end of every iteration.
Touch(r) ==
    /\ pc[r] = "touch"
    /\ policy' = Touched(cur[r])
    /\ pc' = [pc EXCEPT ![r] = "lookup"]
    /\ UNCHANGED <<fileLen, fver, lens, mtime, cache, cacheSize, req, fmt,
                   readed, out, cur, victim, fetched, res, nReads>>

-----------------------------------------------------------------------------
(* The environment: other clients rewrite the file; time passes.          *)

BackendWrite(n) ==
    /\ fver < MaxVersion /\ (Truncate \/ n >= fileLen)
    /\ fver' = fver + 1 /\ fileLen' = n
    /\ lens' = Append(lens, n)
    /\ UNCHANGED <<mtime, cache, cacheSize, policy, pc, req, fmt, readed, out,
                   cur, victim, fetched, res, nReads>>

\* time_out_ seconds pass since the block's timestamp_.
Expire(k) ==
    /\ TimeOut /\ k \in DOMAIN cache /\ cache[k].fresh
    /\ cache' = [cache EXCEPT ![k].fresh = FALSE]
    /\ UNCHANGED <<fileLen, fver, lens, mtime, cacheSize, policy, pc, req, fmt,
                   readed, out, cur, victim, fetched, res, nReads>>

-----------------------------------------------------------------------------

Init ==
    /\ fileLen \in 0 .. MaxLen /\ fver = 0 /\ lens = <<fileLen>>
    /\ mtime = None
    /\ cache = <<>> /\ cacheSize = 0 /\ policy = <<>>
    /\ pc = [r \in Readers |-> "closed"]
    /\ req = [r \in Readers |-> <<0, 0>>]
    /\ fmt = [r \in Readers |-> 0]
    /\ readed = [r \in Readers |-> 0]
    /\ out = [r \in Readers |-> <<>>]
    /\ cur = [r \in Readers |-> 0]
    /\ victim = [r \in Readers |-> 0]
    /\ fetched = [r \in Readers |-> <<0, ZeroBuf>>]
    /\ res = [r \in Readers |-> None]
    /\ nReads = 0

Next ==
    \/ \E r \in Readers :
          \/ Open(r) \/ Release(r)
          \/ \E q \in Reqs : ReadBypass(r, q[1], q[2]) \/ ReadStart(r, q[1], q[2])
          \/ LookupDone(r) \/ LookupHit(r) \/ LookupStale(r) \/ LookupMiss(r)
          \/ Refresh(r) \/ RefreshFails(r) \/ Recopy(r)
          \/ RemoveAfterError(r) \/ PolicyRemoveAfterError(r)
          \/ MissEvict(r) \/ MissNoEvict(r) \/ EvictRemove(r)
          \/ Fetch(r) \/ FetchFails(r) \/ Insert(r) \/ Count(r) \/ Touch(r)
    \/ \E n \in 0 .. MaxLen : BackendWrite(n)
    \/ \E k \in Keys : Expire(k)

Spec == Init /\ [][Next]_vars

-----------------------------------------------------------------------------
(* Properties                                                              *)

Bytes == Byte \cup {Zero, OOB}

TypeOK ==
    /\ fileLen \in 0 .. MaxLen /\ fver \in Versions
    /\ mtime \in Versions \cup {None}
    /\ DOMAIN cache \subseteq Keys /\ \A k \in DOMAIN cache : cache[k] \in Block
    /\ cacheSize \in Int
    /\ policy \in Seq(Keys) /\ Len(policy) = Cardinality(ToSet(policy))
    /\ pc \in [Readers -> {"closed", "idle", "lookup", "refresh", "recopy",
                           "remove", "premove", "miss", "evict", "fetch",
                           "insert", "count", "touch"}]
    /\ out \in [Readers -> Seq(Bytes)]
    /\ res \in [Readers -> Int \cup {None}]


\* cache_size_ counts block_size_ once per block in cache_: the bytes of
\* the blocks in the map, less those just inserted by threads that have
\* not yet added them (the increment follows the unlock).  A double count
\* on a lost try_emplace race, or a remove_block that does not find its
\* block, breaks it.
CacheSizeAccounting ==
    cacheSize + BlockSize * Cardinality({r \in Readers : pc[r] = "count"})
        = BlockSize * Cardinality(DOMAIN cache)

\* No block is leaked by the eviction policy: every cached block is tracked
\* by the policy, or a thread is about to touch it, or a thread that
\* evicted it is about to remove it.  A cached block the policy has
\* forgotten can never be evicted.
NoLeakedBlock ==
    \A k \in DOMAIN cache :
        \/ k \in ToSet(policy)
        \/ \E r \in Readers : pc[r] \in {"count", "touch"} /\ cur[r] = k
        \/ \E r \in Readers : pc[r] = "evict" /\ victim[r] = k

\* A read through the cache returns, at index i, the byte at position
\* offset + i of some version of the file that was that long: no zeros,
\* no bytes past the end of file, no bytes of another position.
ReadReturnsFileBytes ==
    \A r \in Readers :
        (pc[r] = "idle" /\ res[r] \in Nat) =>
            /\ Len(out[r]) = res[r]
            /\ \A i \in 1 .. Len(out[r]) :
                  /\ out[r][i] \in Byte
                  /\ out[r][i][2] = req[r][1] + i - 1
                  /\ out[r][i][2] < lens[out[r][i][1] + 1]

\* Close-to-open consistency: no byte a read returns is older than the
\* version whose mtime the read copied from mtimes_ (recorded by the
\* latest open).  Relies on is_valid comparing a block's mtime_.
ReadNotOlderThanOpen ==
    \A r \in Readers :
        pc[r] = "idle" /\ res[r] \in Nat /\ req[r][2] > 0 /\ out[r] # <<>> =>
            \A i \in 1 .. Len(out[r]) :
                out[r][i] \in Byte => out[r][i][1] >= fmt[r]

\* The policy tracks only cached blocks (spec section 3: every key of the
\* value map has an entry in the policy "and vice versa", the two updated
\* together), but for the key a thread has just erased after a failed
\* refresh and is about to remove from the policy.  A policy key with no
\* block is one evict() may pick and remove_block then finds nothing to
\* free, while the miss that picked it inserts a block all the same.
PolicyTracksCached ==
    \A k \in ToSet(policy) \ DOMAIN cache :
        \E r \in Readers : pc[r] = "premove" /\ cur[r] = k

\* A miss evicts at most one block, and only if cache_size_ is over the
\* budget when it looks (lines 118-123); misses of several threads that
\* all looked before any of them inserted overshoot the budget, but by no
\* more than one block per thread, and later misses evict as they insert.
OvershootBounded == cacheSize <= Budget + BlockSize * Cardinality(Readers)

\* A backend error is returned only if no byte was copied: a read that has
\* copied bytes and then fails on a later block returns the bytes copied.
ErrorOnlyWhenNothingCopied ==
    \A r \in Readers : (pc[r] = "idle" /\ res[r] = -1) => readed[r] = 0


\* The policy seen through the contract of an eviction manager (spec
\* section 4.1): the keys it tracks and their recency order.
Contract == INSTANCE EvictionContract
                WITH Kind <- Policy,
                     tracked <- ToSet(policy), older <- MgrOrder(policy)

\* Every change the data cache makes to its policy is a touch, a remove or
\* an eviction, and an LRU eviction takes the block touched longest ago:
\* the touch after each copied block, the evict-then-erase on a miss over
\* budget and the remove after a failed refresh keep the manager's list in
\* recency order with each block once, even when two readers race on the
\* same block.
EvictsByPolicy == Contract!Spec

====
