----------------------------- MODULE ReadAhead -----------------------------
(***************************************************************************)
(* The read-ahead layer (read_ahead_cache.cpp): one prefetch buffer per    *)
(* path in buffers_, guarded by the shared_mutex mtx_.  open allocates an  *)
(* empty buffer if none exists, read serves a request from the buffer when *)
(* it lies inside it and otherwise fetches max(size, config.size_) bytes   *)
(* from the next layer and replaces the buffer, release erases the buffer. *)
(* read holds mtx_ shared for its whole length, so release and the        *)
(* emplace of open (mtx_ unique) wait for every read in progress; each    *)
(* unique section is one step here.  write is not stacked by this layer   *)
(* (read_ahead_config::init_layer): it goes straight to the next layer,   *)
(* modelled as WriteThrough changing the file under the buffers.  The     *)
(* cache object itself is created by read_ahead_init and deleted by       *)
(* read_ahead_destroy (read_ahead.cpp), the FUSE session's first and last *)
(* calls.                                                                   *)
(***************************************************************************)
EXTENDS Integers, Sequences, FiniteSets, FiniteSetsExt, Functions, TLC

CONSTANTS
    Threads,       \* FUSE worker threads
    Paths,
    FileSize,      \* bytes of every file (fixed: writes overwrite in place)
    PrefetchSize,  \* read_ahead::cache::config::size_
    Sizes,         \* request sizes of read
    Faults,        \* TRUE: the next layer's open and read may fail
    MaxWrites,     \* bound on WriteThrough steps
    None

ASSUME FileSize \in Nat /\ PrefetchSize \in Nat \ {0} /\ Sizes \subseteq Nat \ {0}

VARIABLES
    buffers,   \* buffers_: path -> [off (offset_), size (size_), data (buf_)]
    content,   \* the file bytes as the next layer returns them
    fh,        \* the path each thread has open, or None
    shared,    \* threads holding mtx_ shared (inside read)
    pc,
    req,       \* the read in progress: [off, size, before (file bytes at start)]
    fetched,   \* the bytes the next layer's read returned (new_buf)
    got,       \* the last read's result: [data, before, after]
    crashed,   \* a read dereferenced buffers_.end()
    nWrites,
    session    \* "init" before read_ahead_init, "running", "destroyed"

vars == <<buffers, content, fh, shared, pc, req, fetched, got, crashed, nWrites,
          session>>

Offsets == 0 .. FileSize
\* A file byte is <<offset, generation>>: the offset it was written at and
\* the WriteThrough that wrote it (0: the initial contents).  Zero is the
\* zero fill of make_unique<char[]>, at no offset of the file.
Zero == <<-1, 0>>
Values == ((0 .. FileSize - 1) \X (0 .. MaxWrites)) \cup {Zero}

\* buffer::buffer(): size_ 0, offset_ -1, no data.
EmptyBuffer == [off |-> -1, size |-> 0, data |-> <<>>]

\* The n bytes of file c starting at off.
Bytes(c, off, n) == [k \in 1 .. n |-> c[off + k - 1]]

\* What a read of size bytes at off must return: the bytes up to EOF.
FileBytes(c, off, size) == Bytes(c, off, Min({size, FileSize - off}))

\* buffer::read: the hit test, and the bytes copied on a hit.
Hit(b, off, size) ==
    /\ b.off # -1
    /\ off >= b.off
    /\ off + size <= b.off + b.size
Served(b, off, size) == SubSeq(b.data, off - b.off + 1, off - b.off + size)

Idle(t) == pc[t] = "idle" /\ ~crashed /\ session = "running"

Init ==
    /\ buffers = [p \in {} |-> EmptyBuffer]
    /\ content = [p \in Paths |-> [i \in 0 .. FileSize - 1 |-> <<i, 0>>]]
    /\ fh = [t \in Threads |-> None]
    /\ shared = {}
    /\ pc = [t \in Threads |-> "idle"]
    /\ req = [t \in Threads |-> None]
    /\ fetched = [t \in Threads |-> <<>>]
    /\ got = [t \in Threads |-> None]
    /\ crashed = FALSE
    /\ nWrites = 0
    /\ session = "init"

\* read_ahead_init: cache = new read_ahead::cache, with no buffers, then
\* the next layer's init.
RaInit ==
    /\ session = "init"
    /\ session' = "running"
    /\ buffers' = [p \in {} |-> EmptyBuffer]
    /\ UNCHANGED <<content, fh, shared, pc, req, fetched, got, crashed, nWrites>>

\* read_ahead_destroy: FUSE calls it once its loop has stopped, with no
\* request running but files possibly still open (a lazy unmount); delete
\* cache frees every buffer, then the next layer's destroy.
RaDestroy ==
    /\ session = "running" /\ ~crashed
    /\ \A t \in Threads : pc[t] = "idle"
    /\ session' = "destroyed"
    /\ buffers' = [p \in {} |-> EmptyBuffer]
    /\ UNCHANGED <<content, fh, shared, pc, req, fetched, got, crashed, nWrites>>

\* cache::open, lines 17-25 when a buffer exists, then operations_.open.
OpenExisting(t, p) ==
    /\ Idle(t) /\ fh[t] = None
    /\ p \in DOMAIN buffers
    /\ \/ fh' = [fh EXCEPT ![t] = p]
       \/ Faults /\ UNCHANGED fh
    /\ UNCHANGED <<buffers, content, shared, pc, req, fetched, got, crashed, nWrites, session>>

\* cache::open, the shared lookup misses; the lock is dropped before the
\* unique lock is taken, so another open may emplace in between.
OpenMiss(t, p) ==
    /\ Idle(t) /\ fh[t] = None
    /\ p \notin DOMAIN buffers
    /\ pc' = [pc EXCEPT ![t] = "emplace"]
    /\ req' = [req EXCEPT ![t] = p]
    /\ UNCHANGED <<buffers, content, fh, shared, fetched, got, crashed, nWrites, session>>

\* cache::open under the unique lock: emplace (a no-op if the path is
\* there by now), unlock, then operations_.open, whose failure leaves the
\* buffer in place.
OpenEmplace(t) ==
    LET p == req[t] IN
    /\ pc[t] = "emplace" /\ ~crashed
    /\ shared = {}
    /\ buffers' = buffers @@ (p :> EmptyBuffer)
    /\ \/ fh' = [fh EXCEPT ![t] = p]
       \/ Faults /\ UNCHANGED fh
    /\ pc' = [pc EXCEPT ![t] = "idle"]
    /\ req' = [req EXCEPT ![t] = None]
    /\ UNCHANGED <<content, shared, fetched, got, crashed, nWrites, session>>

\* cache::read, lines 35-38: take mtx_ shared and find the buffer without
\* an end() check (a missing one is a crash); buffer::read serves a hit.
ReadStart(t, off, size) ==
    LET p == fh[t]
        b == buffers[p]
        before == FileBytes(content[p], off, size)
    IN
    /\ Idle(t) /\ fh[t] # None
    /\ \/ /\ p \notin DOMAIN buffers
          /\ crashed' = TRUE
          /\ UNCHANGED <<shared, pc, req, got>>
       \/ /\ p \in DOMAIN buffers
          /\ Hit(b, off, size)
          /\ got' = [got EXCEPT ![t] = [off |-> off, data |-> Served(b, off, size),
                                         before |-> before, after |-> before]]
          /\ UNCHANGED <<shared, pc, req, crashed>>
       \/ /\ p \in DOMAIN buffers
          /\ ~Hit(b, off, size)
          /\ shared' = shared \cup {t}
          /\ pc' = [pc EXCEPT ![t] = "fetch"]
          /\ req' = [req EXCEPT ![t] = [off |-> off, size |-> size,
                                         before |-> before]]
          /\ got' = [got EXCEPT ![t] = None]
          /\ UNCHANGED crashed
    /\ UNCHANGED <<buffers, content, fh, fetched, nWrites, session>>

\* The zero-filled new_buf of bufSize bytes after the next layer's read at
\* off: the file bytes up to EOF, then zeros.
NewBuf(p, off, bufSize) ==
    LET res == Min({bufSize, FileSize - off})
    IN Bytes(content[p], off, res) \o [k \in 1 .. bufSize - res |-> Zero]

\* Mutant: the buffer sized size + config.size_ instead of their maximum.
ReadFetchSum(t) ==
    /\ pc[t] = "fetch" /\ ~crashed
    /\ fetched' = [fetched EXCEPT ![t] =
                    NewBuf(fh[t], req[t].off, req[t].size + PrefetchSize)]
    /\ pc' = [pc EXCEPT ![t] = "update"]
    /\ UNCHANGED <<buffers, content, fh, shared, req, got, crashed, nWrites, session>>

\* cache::read, lines 40-42: operations_.read of max(size, config.size_)
\* bytes into a zero-filled new_buf; it returns the bytes up to EOF.
ReadFetch(t) ==
    /\ pc[t] = "fetch" /\ ~crashed
    /\ fetched' = [fetched EXCEPT ![t] =
                    NewBuf(fh[t], req[t].off, Max({req[t].size, PrefetchSize}))]
    /\ pc' = [pc EXCEPT ![t] = "update"]
    /\ UNCHANGED <<buffers, content, fh, shared, req, got, crashed, nWrites, session>>

\* cache::read, lines 43-44: the next layer's read fails; return res,
\* releasing mtx_.
ReadFetchFails(t) ==
    /\ Faults
    /\ pc[t] = "fetch" /\ ~crashed
    /\ shared' = shared \ {t}
    /\ pc' = [pc EXCEPT ![t] = "idle"]
    /\ req' = [req EXCEPT ![t] = None]
    /\ UNCHANGED <<buffers, content, fh, fetched, got, crashed, nWrites, session>>

\* The end of cache::read after a fetch: copy n bytes to the caller and
\* record (size_, offset, new_buf) in the buffer, then unlock and return.
Finish(t, size_, n) ==
    LET r == req[t] IN
    /\ buffers' = [buffers EXCEPT ![fh[t]] =
                    [off |-> r.off, size |-> size_, data |-> fetched[t]]]
    /\ got' = [got EXCEPT ![t] =
                [off |-> r.off, data |-> SubSeq(fetched[t], 1, n),
                 before |-> r.before, after |-> FileBytes(content[fh[t]], r.off, r.size)]]
    /\ shared' = shared \ {t}
    /\ pc' = [pc EXCEPT ![t] = "idle"]
    /\ req' = [req EXCEPT ![t] = None]
    /\ fetched' = [fetched EXCEPT ![t] = <<>>]
    /\ UNCHANGED <<content, fh, crashed, nWrites, session>>

\* res of the next layer's read: the bytes of new_buf before EOF.
Res(t) == Min({Len(fetched[t]), FileSize - req[t].off})

\* Mutant: update records the requested buf_size as size_ instead of res.
ReadUpdateBufSize(t) ==
    /\ pc[t] = "update" /\ ~crashed
    /\ Finish(t, Len(fetched[t]), Min({Res(t), req[t].size}))

\* cache::read, lines 46-52: copy min(res, size) bytes to the caller and
\* buffer::update replaces the buffer wholesale with (res, offset, new_buf);
\* the buffer is still there because mtx_ is held shared.
ReadUpdate(t) ==
    /\ pc[t] = "update" /\ ~crashed
    /\ Finish(t, Res(t), Min({Res(t), req[t].size}))

\* cache::release: erase the path's buffer under the unique lock (whatever
\* other handles have the path open), then operations_.release.
Release(t) ==
    /\ Idle(t) /\ fh[t] # None
    /\ shared = {}
    /\ buffers' = Restrict(buffers, DOMAIN buffers \ {fh[t]})
    /\ fh' = [fh EXCEPT ![t] = None]
    /\ got' = [got EXCEPT ![t] = None]
    /\ UNCHANGED <<content, shared, pc, req, fetched, crashed, nWrites, session>>

\* write is not intercepted: the next layer overwrites byte i in place and
\* no buffer is told.
WriteThrough(p, i) ==
    /\ ~crashed /\ session = "running"
    /\ nWrites < MaxWrites
    /\ content' = [content EXCEPT ![p][i] = <<i, nWrites + 1>>]
    /\ nWrites' = nWrites + 1
    /\ UNCHANGED <<buffers, fh, shared, pc, req, fetched, got, crashed, session>>

Next ==
    \/ \E t \in Threads :
          \/ \E p \in Paths : OpenExisting(t, p) \/ OpenMiss(t, p)
          \/ OpenEmplace(t)
          \/ \E off \in Offsets, size \in Sizes : ReadStart(t, off, size)
          \/ ReadFetch(t) \/ ReadFetchFails(t) \/ ReadUpdate(t)
          \/ Release(t)
    \/ \E p \in Paths, i \in 0 .. FileSize - 1 : WriteThrough(p, i)
    \/ RaInit \/ RaDestroy

Spec == Init /\ [][Next]_vars

-----------------------------------------------------------------------------

\* The most bytes a buffer holds: max(size, config.size_).
MaxBuffer == Max(Sizes \cup {PrefetchSize})

\* Besides the types, a buffer and new_buf never hold more than
\* max(size, config.size_) bytes.
TypeOK ==
    /\ DOMAIN buffers \subseteq Paths
    /\ \A p \in DOMAIN buffers :
          /\ buffers[p].off \in -1 .. FileSize
          /\ buffers[p].size \in 0 .. FileSize
          /\ buffers[p].data \in Seq(Values)
          /\ Len(buffers[p].data) <= MaxBuffer
    /\ fh \in [Threads -> Paths \cup {None}]
    /\ shared \subseteq Threads
    /\ \A t \in Threads : fetched[t] \in Seq(Values) /\ Len(fetched[t]) <= MaxBuffer
    /\ pc \in [Threads -> {"idle", "emplace", "fetch", "update"}]
    /\ crashed \in BOOLEAN
    /\ nWrites \in 0 .. MaxWrites
    /\ session \in {"init", "running", "destroyed"}

\* Every read returns as many bytes as its size, or up to EOF, and each one
\* is a byte the file held at that very offset: the hit test and offset
\* arithmetic of buffer::read, the min(res, size) copy and the (res,
\* offset) recorded by buffer::update never serve a short read before EOF,
\* the zero fill past res, or another range, even with two threads
\* replacing the same path's buffer and writes going on underneath.
ReadServesFileRange ==
    \A t \in Threads : got[t] # None =>
        /\ Len(got[t].data) = Len(got[t].before)
        /\ \A k \in DOMAIN got[t].data :
              got[t].data[k] \in {<<got[t].off + k - 1, g>> : g \in 0 .. MaxWrites}

\* Every read returns exactly the file's bytes from its offset up to its
\* size or EOF, as the file was when the read started or when it returned:
\* a prefetched buffer is never served once the file has changed under it.
ReadReturnsFileBytes ==
    \A t \in Threads : got[t] # None => got[t].data \in {got[t].before, got[t].after}

\* A read always finds its path's buffer: cache::read dereferences
\* buffers_.find(path) without comparing it with end().
NoMissingBuffer == ~crashed

=============================================================================
