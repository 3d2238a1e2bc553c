---------------------------- MODULE SyncStreams ----------------------------
(***************************************************************************)
(* The read and write streams of the synchronous gRPC client              *)
(* (fuse_rpc/grpc/sync_client.cpp) and the server's per-stream handlers   *)
(* (server.cpp, stream_read_data and stream_write_data).                   *)
(*                                                                         *)
(* open, and a unary read or write, create bidirectional streams for the  *)
(* path (create_streams): a read stream in read_streams_, a write stream  *)
(* in write_streams_, or both, by the access mode.  read and write run    *)
(* the same code on their side: send the request on the path's stream    *)
(* and take the next reply, with the stream's write mutex handed over to  *)
(* its read mutex so that replies are taken in request order; a failed    *)
(* Write or Read, and release, tear the path's streams down               *)
(* (remove_streams: the read stream, then the write stream) and a failed  *)
(* call falls back to the unary request.  A stream is an object in one of *)
(* the Slots: its memory, mutexes included, is freed when it is erased    *)
(* from its map, and a slot is reused only when no thread still refers to *)
(* it.  The server applies a request when its handler reads it; a broken  *)
(* connection may lose the replies not yet taken by the client.           *)
(***************************************************************************)
EXTENDS Naturals, Sequences, FiniteSets

CONSTANTS
    Threads,    \* FUSE worker threads
    Paths,      \* the paths they use
    Modes,      \* access modes open is called with: subsets of Sides
    Slots,      \* stream objects (at least |Threads| + 2 * |Paths|)
    Faults,     \* TRUE: a stream can break (connection or server failure)
    None

Sides == {"r", "w"}     \* read_streams_ / write_streams_

ASSUME Modes \subseteq (SUBSET Sides \ {{}})

VARIABLES
    streams,    \* side -> path -> the slot of its stream, or None
    alive,      \* slots holding a constructed, not yet destroyed stream
    ended,      \* streams on which WritesDone was called
    broken,     \* streams whose connection failed
    toSrv,      \* per slot: requests written, not yet read by the server
    toCli,      \* per slot: replies the server wrote, not yet read
    mapLock,    \* side -> holder of mtx_read_streams_ / mtx_write_streams_
    wLock,      \* per slot: holder of the stream's mtx_write_
    rLock,      \* per slot: holder of the stream's mtx_read_
    pc,         \* per thread: its place in the current call
    path,       \* per thread: the path of the current call
    side,       \* per thread: "r" in read(), "w" in write()
    ref,        \* per thread: the stream the iterator points to
    got,        \* per thread: whose reply its last stream Read returned
    after,      \* per thread: where it goes once remove_streams returns
    todo,       \* per thread: the sides create_streams has still to emplace
    rmSide,     \* per thread: the map remove_streams is working on
    applies     \* per thread: times the server applied its current write

vars == <<streams, alive, ended, broken, toSrv, toCli, mapLock, wLock, rLock,
          pc, path, side, ref, got, after, todo, rmSide, applies>>

Free(l) == l = None

\* Slots a new stream may take: not alive and not referenced by a thread.
Unused == {s \in Slots : s \notin alive /\ \A t \in Threads : ref[t] # s}

Init ==
    /\ streams = [d \in Sides |-> [p \in Paths |-> None]]
    /\ alive = {}
    /\ ended = {}
    /\ broken = {}
    /\ toSrv = [s \in Slots |-> <<>>]
    /\ toCli = [s \in Slots |-> <<>>]
    /\ mapLock = [d \in Sides |-> None]
    /\ wLock = [s \in Slots |-> None]
    /\ rLock = [s \in Slots |-> None]
    /\ pc = [t \in Threads |-> "idle"]
    /\ path = [t \in Threads |-> None]
    /\ side = [t \in Threads |-> None]
    /\ ref = [t \in Threads |-> None]
    /\ got = [t \in Threads |-> None]
    /\ after = [t \in Threads |-> None]
    /\ todo = [t \in Threads |-> {}]
    /\ rmSide = [t \in Threads |-> None]
    /\ applies = [t \in Threads |-> 0]

(***************************************************************************)
(* open (and create): the unary call, then create_streams(path, flags).   *)
(***************************************************************************)
Open(t, p, m) ==
    /\ pc[t] = "idle"
    /\ pc' = [pc EXCEPT ![t] = "create"]
    /\ path' = [path EXCEPT ![t] = p]
    /\ todo' = [todo EXCEPT ![t] = m]
    /\ got' = [got EXCEPT ![t] = None]
    /\ UNCHANGED <<streams, alive, ended, broken, toSrv, toCli, mapLock, wLock,
                   rLock, side, ref, after, rmSide, applies>>

\* One map of create_streams: under its mutex, try_emplace a new stream;
\* the constructor opens the RPC with both stream mutexes held.  O_RDWR
\* does the read map first, then the write map.
CreateStreams(t) ==
    /\ pc[t] = "create"
    /\ LET d == IF "r" \in todo[t] THEN "r" ELSE "w"
       IN  /\ Free(mapLock[d])
           /\ IF streams[d][path[t]] = None
              THEN \E s \in Unused :
                     /\ streams' = [streams EXCEPT ![d][path[t]] = s]
                     /\ alive' = alive \cup {s}
                     /\ ended' = ended \ {s}
                     /\ broken' = broken \ {s}
                     /\ toSrv' = [toSrv EXCEPT ![s] = <<>>]
                     /\ toCli' = [toCli EXCEPT ![s] = <<>>]
              ELSE UNCHANGED <<streams, alive, ended, broken, toSrv, toCli>>
           /\ todo' = [todo EXCEPT ![t] = @ \ {d}]
           /\ pc' = [pc EXCEPT ![t] = IF todo'[t] = {} THEN "idle" ELSE "create"]
    /\ UNCHANGED <<mapLock, wLock, rLock, path, side, ref, got, after, rmSide,
                   applies>>

(***************************************************************************)
(* read and write: the same code on read_streams_ and write_streams_      *)
(***************************************************************************)
\* Under the side's map mutex: find the path's stream, keep a reference to
\* it, unlock; without a stream go to the unary request.
Lookup(t, p, d) ==
    /\ pc[t] = "idle"
    /\ Free(mapLock[d])
    /\ path' = [path EXCEPT ![t] = p]
    /\ side' = [side EXCEPT ![t] = d]
    /\ got' = [got EXCEPT ![t] = None]
    /\ applies' = [applies EXCEPT ![t] = 0]
    /\ IF streams[d][p] # None
       THEN /\ ref' = [ref EXCEPT ![t] = streams[d][p]]
            /\ pc' = [pc EXCEPT ![t] = "lockw"]
       ELSE /\ pc' = [pc EXCEPT ![t] = "sync"]
            /\ UNCHANGED ref
    /\ UNCHANGED <<streams, alive, ended, broken, toSrv, toCli, mapLock, wLock,
                   rLock, after, todo, rmSide>>

\* Lock the stream's mtx_write_.  If the stream was destroyed meanwhile
\* this locks freed memory; the model lets the memory still behave as the
\* finished stream (the Write that follows fails).
LockWrite(t) ==
    /\ pc[t] = "lockw"
    /\ Free(wLock[ref[t]])
    /\ wLock' = [wLock EXCEPT ![ref[t]] = t]
    /\ pc' = [pc EXCEPT ![t] = "write"]
    /\ UNCHANGED <<streams, alive, ended, broken, toSrv, toCli, mapLock, rLock,
                   path, side, ref, got, after, todo, rmSide, applies>>

Usable(s) == s \in alive /\ s \notin ended /\ s \notin broken

\* The failure paths of a stream call: remove_streams, then the unary request.
ToRemove(t) ==
    /\ ref' = [ref EXCEPT ![t] = None]
    /\ pc' = [pc EXCEPT ![t] = "remove"]
    /\ rmSide' = [rmSide EXCEPT ![t] = "r"]
    /\ after' = [after EXCEPT ![t] = "sync"]

\* Mutant: the failure path calls remove_streams still holding mtx_write_.
StreamWriteKeepsLock(t) ==
    /\ pc[t] = "write"
    /\ IF Usable(ref[t])
       THEN /\ toSrv' = [toSrv EXCEPT ![ref[t]] = Append(@, t)]
            /\ pc' = [pc EXCEPT ![t] = "lockr"]
            /\ UNCHANGED <<ref, after, rmSide>>
       ELSE /\ ToRemove(t)
            /\ UNCHANGED toSrv
    /\ UNCHANGED <<streams, alive, ended, broken, toCli, mapLock, wLock, rLock,
                   path, side, got, todo, applies>>

\* stream_->Write(request): on failure unlock and remove_streams, then the
\* unary request.
StreamWrite(t) ==
    /\ pc[t] = "write"
    /\ IF Usable(ref[t])
       THEN /\ toSrv' = [toSrv EXCEPT ![ref[t]] = Append(@, t)]
            /\ pc' = [pc EXCEPT ![t] = "lockr"]
            /\ UNCHANGED <<wLock, ref, after, rmSide>>
       ELSE /\ wLock' = [wLock EXCEPT ![ref[t]] = None]
            /\ ToRemove(t)
            /\ UNCHANGED toSrv
    /\ UNCHANGED <<streams, alive, ended, broken, toCli, mapLock, rLock, path,
                   side, got, todo, applies>>

\* Mutant: mtx_write_ is unlocked before mtx_read_ is locked.
UnlockWriteThenLockRead(t) ==
    /\ pc[t] = "lockr"
    /\ \/ /\ wLock[ref[t]] = t
          /\ wLock' = [wLock EXCEPT ![ref[t]] = None]
          /\ UNCHANGED <<rLock, pc>>
       \/ /\ wLock[ref[t]] # t /\ Free(rLock[ref[t]])
          /\ rLock' = [rLock EXCEPT ![ref[t]] = t]
          /\ pc' = [pc EXCEPT ![t] = "read"]
          /\ UNCHANGED wLock
    /\ UNCHANGED <<streams, alive, ended, broken, toSrv, toCli, mapLock, path,
                   side, ref, got, after, todo, rmSide, applies>>

\* Lock mtx_read_, then unlock mtx_write_.
LockReadUnlockWrite(t) ==
    /\ pc[t] = "lockr"
    /\ Free(rLock[ref[t]])
    /\ rLock' = [rLock EXCEPT ![ref[t]] = t]
    /\ wLock' = [wLock EXCEPT ![ref[t]] = None]
    /\ pc' = [pc EXCEPT ![t] = "read"]
    /\ UNCHANGED <<streams, alive, ended, broken, toSrv, toCli, mapLock, path,
                   side, ref, got, after, todo, rmSide, applies>>

\* stream_->Read(&reply) blocks for the next reply and unlocks mtx_read_.
StreamRead(t) ==
    /\ pc[t] = "read"
    /\ toCli[ref[t]] # <<>>
    /\ got' = [got EXCEPT ![t] = Head(toCli[ref[t]])]
    /\ toCli' = [toCli EXCEPT ![ref[t]] = Tail(@)]
    /\ rLock' = [rLock EXCEPT ![ref[t]] = None]
    /\ ref' = [ref EXCEPT ![t] = None]
    /\ pc' = [pc EXCEPT ![t] = "idle"]
    /\ UNCHANGED <<streams, alive, ended, broken, toSrv, mapLock, wLock, path,
                   side, after, todo, rmSide, applies>>

\* Mutant: a failed Read returns without falling back to the unary request.
StreamReadFailsNoFallback(t) ==
    /\ pc[t] = "read"
    /\ toCli[ref[t]] = <<>> /\ ref[t] \in broken
    /\ rLock' = [rLock EXCEPT ![ref[t]] = None]
    /\ ref' = [ref EXCEPT ![t] = None]
    /\ pc' = [pc EXCEPT ![t] = "remove"]
    /\ rmSide' = [rmSide EXCEPT ![t] = "r"]
    /\ UNCHANGED <<streams, alive, ended, broken, toSrv, toCli, mapLock, wLock,
                   path, side, got, after, todo, applies>>

\* Read fails on a broken stream with no reply left: unlock, remove_streams,
\* then the unary request.
StreamReadFails(t) ==
    /\ pc[t] = "read"
    /\ toCli[ref[t]] = <<>> /\ ref[t] \in broken
    /\ rLock' = [rLock EXCEPT ![ref[t]] = None]
    /\ ToRemove(t)
    /\ UNCHANGED <<streams, alive, ended, broken, toSrv, toCli, mapLock, wLock,
                   path, side, got, todo, applies>>

\* The server applies a request of the thread: a write changes the file.
Applied(t) == [applies EXCEPT ![t] = IF side[t] = "w" THEN @ + 1 ELSE @]

\* The unary stub_->Read / stub_->Write: on success create_streams with
\* O_RDONLY / O_WRONLY, on a failed status return -1.
SyncCall(t) ==
    /\ pc[t] = "sync"
    /\ \/ /\ pc' = [pc EXCEPT ![t] = "create"]
          /\ todo' = [todo EXCEPT ![t] = {side[t]}]
          /\ applies' = Applied(t)
       \/ /\ Faults
          /\ pc' = [pc EXCEPT ![t] = "idle"]
          /\ UNCHANGED <<todo, applies>>
    /\ UNCHANGED <<streams, alive, ended, broken, toSrv, toCli, mapLock, wLock,
                   rLock, path, side, ref, got, after, rmSide>>

(***************************************************************************)
(* release: the unary Release, then remove_streams(path).                 *)
(***************************************************************************)
Release(t, p) ==
    /\ pc[t] = "idle"
    /\ path' = [path EXCEPT ![t] = p]
    /\ got' = [got EXCEPT ![t] = None]
    /\ pc' = [pc EXCEPT ![t] = "remove"]
    /\ rmSide' = [rmSide EXCEPT ![t] = "r"]
    /\ after' = [after EXCEPT ![t] = "idle"]
    /\ UNCHANGED <<streams, alive, ended, broken, toSrv, toCli, mapLock, wLock,
                   rLock, side, ref, todo, applies>>

\* remove_streams is done with one map: go on to the write map, or return.
RemoveNext(t) ==
    IF rmSide[t] = "r"
    THEN /\ rmSide' = [rmSide EXCEPT ![t] = "w"]
         /\ pc' = [pc EXCEPT ![t] = "remove"]
    ELSE /\ rmSide' = [rmSide EXCEPT ![t] = None]
         /\ pc' = [pc EXCEPT ![t] = after[t]]

\* Lock the map's mutex and find the path's stream; with none, unlock.
RemoveFind(t) ==
    /\ pc[t] = "remove"
    /\ Free(mapLock[rmSide[t]])
    /\ IF streams[rmSide[t]][path[t]] # None
       THEN /\ mapLock' = [mapLock EXCEPT ![rmSide[t]] = t]
            /\ pc' = [pc EXCEPT ![t] = "rmwait"]
            /\ UNCHANGED rmSide
       ELSE /\ RemoveNext(t)
            /\ UNCHANGED mapLock
    /\ UNCHANGED <<streams, alive, ended, broken, toSrv, toCli, wLock, rLock,
                   path, side, ref, got, after, todo, applies>>

\* Still holding the map's mutex: scoped_lock both stream mutexes,
\* WritesDone, release them, erase the entry (destroying the stream),
\* unlock the map.
RemoveErase(t) ==
    /\ pc[t] = "rmwait"
    /\ LET s == streams[rmSide[t]][path[t]]
       IN  /\ Free(wLock[s]) /\ Free(rLock[s])
           /\ ended' = ended \cup {s}
           /\ alive' = alive \ {s}
    /\ streams' = [streams EXCEPT ![rmSide[t]][path[t]] = None]
    /\ mapLock' = [mapLock EXCEPT ![rmSide[t]] = None]
    /\ RemoveNext(t)
    /\ UNCHANGED <<broken, toSrv, toCli, wLock, rLock, path, side, ref, got,
                   after, todo, applies>>

(***************************************************************************)
(* The server side of a stream: stream_read_data / stream_write_data READ *)
(* a request, run the backend operation, WRITE the reply, in the order it *)
(* reads them; and the connection failing.                                *)
(***************************************************************************)
Serve(s) ==
    /\ s \notin broken
    /\ toSrv[s] # <<>>
    /\ toSrv' = [toSrv EXCEPT ![s] = Tail(@)]
    /\ toCli' = [toCli EXCEPT ![s] = Append(@, Head(toSrv[s]))]
    /\ applies' = Applied(Head(toSrv[s]))
    /\ UNCHANGED <<streams, alive, ended, broken, mapLock, wLock, rLock, pc,
                   path, side, ref, got, after, todo, rmSide>>

\* The connection fails: requests not yet read are never served, and the
\* replies the client has not yet taken may be lost with it.
Break(s) ==
    /\ Faults
    /\ s \in alive /\ s \notin broken
    /\ broken' = broken \cup {s}
    /\ toCli' \in {toCli, [toCli EXCEPT ![s] = <<>>]}
    /\ UNCHANGED <<streams, alive, ended, toSrv, mapLock, wLock, rLock, pc,
                   path, side, ref, got, after, todo, rmSide, applies>>

Next ==
    \/ \E t \in Threads :
         \/ \E p \in Paths :
              \/ \E m \in Modes : Open(t, p, m)
              \/ \E d \in Sides : Lookup(t, p, d)
              \/ Release(t, p)
         \/ CreateStreams(t) \/ LockWrite(t) \/ StreamWrite(t)
         \/ LockReadUnlockWrite(t) \/ StreamRead(t) \/ StreamReadFails(t)
         \/ SyncCall(t) \/ RemoveFind(t) \/ RemoveErase(t)
    \/ \E s \in Slots : Serve(s) \/ Break(s)

Spec == Init /\ [][Next]_vars

-----------------------------------------------------------------------------
TypeOK ==
    /\ streams \in [Sides -> [Paths -> Slots \cup {None}]]
    /\ alive \subseteq Slots /\ ended \subseteq Slots /\ broken \subseteq Slots
    /\ toSrv \in [Slots -> Seq(Threads)] /\ toCli \in [Slots -> Seq(Threads)]
    /\ mapLock \in [Sides -> Threads \cup {None}]
    /\ wLock \in [Slots -> Threads \cup {None}]
    /\ rLock \in [Slots -> Threads \cup {None}]
    /\ pc \in [Threads -> {"idle", "create", "lockw", "write", "lockr", "read",
                           "sync", "remove", "rmwait"}]
    /\ path \in [Threads -> Paths \cup {None}]
    /\ side \in [Threads -> Sides \cup {None}]
    /\ ref \in [Threads -> Slots \cup {None}]
    /\ got \in [Threads -> Threads \cup {None}]
    /\ after \in [Threads -> {"idle", "sync", None}]
    /\ todo \in [Threads -> SUBSET Sides]
    /\ rmSide \in [Threads -> Sides \cup {None}]
    /\ applies \in [Threads -> 0 .. 2]

\* A thread reading over a stream takes the reply to its own request.  The
\* stream carries the replies of all threads reading the path in request
\* order; read() keeps them paired only because it takes mtx_read_ before
\* it lets go of mtx_write_, so the order in which threads read replies is
\* the order in which they wrote requests, across failures, releases and
\* the fallback to unary reads.
ReplyMatchesRequest ==
    \A t \in Threads : got[t] \in {None, t}

\* A stream mutex is held only by a thread in the middle of its exchange on
\* that stream: every path out of read() that leaves the exchange (success,
\* a failed Write, a failed Read) unlocks first, so remove_streams, which
\* locks both mutexes, never waits on the thread that called it.
LocksHeldInExchange ==
    \A s \in Slots :
        /\ wLock[s] # None => pc[wLock[s]] \in {"write", "lockr"} /\ ref[wLock[s]] = s
        /\ rLock[s] # None => pc[rLock[s]] = "read" /\ ref[rLock[s]] = s

\* Every stream a thread still refers to exists: read() copies the
\* iterator's stream out of read_streams_ and unlocks the map before it
\* locks the stream's mtx_write_, so remove_streams must not destroy a
\* stream in between (sync_client.cpp, read and remove_streams).
NoUseAfterErase ==
    \A t \in Threads : ref[t] # None => ref[t] \in alive

\* A write() is applied by the server at most once (spec section 7: a
\* failed remote call returns a failure, no retry is attempted).  write()
\* falls back to the unary Write when the stream's Read fails, whether or
\* not the server has already written the request it read.
WriteAppliedOnce == \A t \in Threads : applies[t] <= 1

====
