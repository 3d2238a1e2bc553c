----------------------------- MODULE NfsBackend -----------------------------
(***************************************************************************)
(* The local layer (layers/local): the server's backend, in one of two    *)
(* modes its configuration fixes (local.cpp).  The local backend           *)
(* (local_operations.cpp) does each call's system call and nothing else,   *)
(* except that a write is followed by fsync and fsync's result is ignored. *)
(* The NFS backend (nfs_operations.cpp) exports a directory with NFS's    *)
(* synchronous semantics.  Every                                           *)
(* data-modifying call does its system call and then makes the result     *)
(* durable with sync_path (open O_RDONLY, fsync, close) on the new object *)
(* and the directories whose entries changed, in a fixed order, returning *)
(* the first error; a write with fi->flush set (NFS's stable flag) is      *)
(* followed by fsync of its descriptor, and flush/fsync commit a handle.  *)
(*                                                                         *)
(* The file system is split into what the kernel holds in memory (vol,    *)
(* vdata) and what is on stable storage (dur, ddata).  fsync of a          *)
(* directory makes its entries durable, fsync of a regular file its data. *)
(* Directories with children are fixed (Dirs); the operations act on the  *)
(* Leaves, each in one directory (Parent).  A crash of the server loses   *)
(* what is not durable and every open descriptor; clients keep the         *)
(* handles (fi->fh numbers) they were given.  A directory handle's fi->fh *)
(* is the address of a malloc'd dir_handle, which the server casts back   *)
(* on every readdir and releasedir.  Attributes (chmod, chown, utimens)   *)
(* and the read-only calls change nothing the model tracks.                *)
(***************************************************************************)
EXTENDS Naturals, Sequences, FiniteSets, Functions, FiniteSetsExt

CONSTANTS
    Threads,      \* server threads running backend calls
    Dirs,         \* directories that always exist (the export root, ...)
    Leaves,       \* paths the operations create, remove and rename
    Parent,       \* Leaves -> Dirs
    Inos,         \* inode numbers a new object may take
    MaxFd,        \* descriptors 1..MaxFd of the server process
    Vals,         \* data a write may store (0, not in Vals, is empty)
    MknodKinds,   \* file types mknod is asked for
    Modes,        \* the modes the configuration may choose
    Faults,       \* the modes under which open, fsync or close may fail (EIO)
    DirPaths,     \* paths opendir is asked for
    Addrs,        \* heap addresses malloc may return for a dir_handle
    None

Kinds == {"reg", "dir", "fifo", "sock", "lnk"}
Fds == 1..MaxFd
Errors == {"ENOENT", "ELOOP"}

ASSUME /\ Parent \in [Leaves -> Dirs] /\ MknodKinds \subseteq Kinds
       /\ 0 \notin Vals /\ Modes \subseteq {"local", "nfs"}
       /\ Faults \subseteq Modes /\ DirPaths \subseteq Leaves \cup Dirs

VARIABLES
    mode,       \* "local" or "nfs", fixed when the layer is set up
    vol,        \* Leaves -> inode, or None: the entries the kernel holds
    dur,        \* Leaves -> inode, or None: the entries on disk
    kind,       \* Inos -> file type, or None for a free inode
    target,     \* Inos -> what a symlink points to
    vdata,      \* Inos -> contents in the page cache
    ddata,      \* Inos -> contents on disk
    fdtab,      \* Fds -> inode open on it, or None
    pc,         \* per thread: "idle", "sync" (running sync steps), "blocked"
    todo,       \* per thread: what is left to sync, in order
    cfd,        \* per thread: the descriptor nfs_create opened
    hd,         \* per thread: the fi->fh of the client handle it serves
    hino,       \* per thread: the inode that handle was opened on
    owner,      \* Leaves -> the thread whose call last changed the entry
    downer,     \* Inos -> the thread whose call last changed or commits data
    promised,   \* Leaves -> {the entry a successful reply reported}, or {}
    dpromised,  \* Inos -> {the data a successful reply made stable}, or {}
    misdirected,\* a call through a handle reached another file
    halfDone,   \* a call returned an error after changing an entry
    heap,       \* Addrs -> the directory a live dir_handle streams, or None
    dh,         \* per thread: the fi->fh (an address) of its directory handle
    dobj,       \* per thread: the directory that handle was opened on
    wild        \* a readdir or releasedir went through a stale dir_handle

vars == <<mode, vol, dur, kind, target, vdata, ddata, fdtab, pc, todo, cfd, hd, hino,
          owner, downer, promised, dpromised, misdirected, halfDone,
          heap, dh, dobj, wild>>
dirs == <<heap, dh, dobj, wild>>
ghost == <<owner, downer, promised, dpromised, misdirected, halfDone>>

Init ==
    /\ mode \in Modes
    /\ vol = [l \in Leaves |-> None] /\ dur = vol
    /\ kind = [i \in Inos |-> None] /\ target = [i \in Inos |-> None]
    /\ vdata = [i \in Inos |-> 0] /\ ddata = vdata
    /\ fdtab = [f \in Fds |-> None]
    /\ pc = [t \in Threads |-> "idle"] /\ todo = [t \in Threads |-> <<>>]
    /\ cfd = [t \in Threads |-> None]
    /\ hd = [t \in Threads |-> None] /\ hino = [t \in Threads |-> None]
    /\ owner = [l \in Leaves |-> None] /\ downer = [i \in Inos |-> None]
    /\ promised = [l \in Leaves |-> {}] /\ dpromised = [i \in Inos |-> {}]
    /\ misdirected = FALSE /\ halfDone = FALSE
    /\ heap = [a \in Addrs |-> None]
    /\ dh = [t \in Threads |-> None] /\ dobj = dh /\ wild = FALSE

-----------------------------------------------------------------------------
(* The kernel's side: path lookup, inode and descriptor allocation.       *)

\* Path resolution following symlinks, as open() does: a directory of Dirs,
\* an inode, or an error.  n bounds the links followed (ELOOP).
RECURSIVE Resolve(_, _)
Resolve(x, n) ==
    IF x \in Dirs THEN x
    ELSE IF vol[x] = None THEN "ENOENT"
    ELSE IF kind[vol[x]] # "lnk" THEN vol[x]
    ELSE IF n = 0 THEN "ELOOP"
    ELSE Resolve(target[vol[x]], n - 1)

Lookup(x) == Resolve(x, Cardinality(Leaves))

\* The file type open() meets, or the lookup error.
KindOf(r) == IF r \in Dirs THEN "dir" ELSE IF r \in Errors THEN r ELSE kind[r]

\* An inode nothing refers to any more may be reused.
Used == Range(vol) \cup Range(dur) \cup Range(fdtab) \cup Range(hino)
            \cup UNION {Range(todo[t]) : t \in Threads} \cup Range(heap)
FreeInos == Inos \ Used
FreeFds == {f \in Fds : fdtab[f] = None}

\* fsync of an open directory or file: a fixed directory's entries, or a
\* regular file's data, reach the disk.  fsync of a new, empty directory
\* changes nothing the model tracks.
Persist(r) ==
    /\ dur' = IF r \in Dirs
                THEN [l \in Leaves |-> IF Parent[l] = r THEN vol[l] ELSE dur[l]]
                ELSE dur
    /\ ddata' = IF r \in Inos /\ kind[r] = "reg"
                  THEN [ddata EXCEPT ![r] = vdata[r]] ELSE ddata

-----------------------------------------------------------------------------
(* The system calls.  Each local_ definition is the local backend's call   *)
(* of that name, which does the system call and returns its error; the    *)
(* NFS backend's call does the same system call first.                     *)

\* A new inode of kind k at leaf l.
MakeNode(l, k, tgt) ==
    \E i \in FreeInos :
        /\ vol' = [vol EXCEPT ![l] = i]
        /\ kind' = [kind EXCEPT ![i] = k]
        /\ target' = [target EXCEPT ![i] = tgt]
        /\ vdata' = [vdata EXCEPT ![i] = 0] /\ ddata' = [ddata EXCEPT ![i] = 0]
        /\ dpromised' = [dpromised EXCEPT ![i] = {}]

\* mknod(2) (open O_CREAT|O_EXCL and close for a regular file, mkfifo for a
\* FIFO) of a path that does not exist.
local_mknod(l, k) == vol[l] = None /\ MakeNode(l, k, None)

local_mkdir(l) == vol[l] = None /\ MakeNode(l, "dir", None)

local_symlink(from, l) == vol[l] = None /\ MakeNode(l, "lnk", from)

local_unlink(l) ==
    /\ vol[l] # None /\ kind[vol[l]] # "dir"
    /\ vol' = [vol EXCEPT ![l] = None]

\* rmdir of a leaf directory, which never has children here.
local_rmdir(l) ==
    /\ vol[l] # None /\ kind[vol[l]] = "dir"
    /\ vol' = [vol EXCEPT ![l] = None]

\* rename(2) succeeds when from exists and a directory replaces only a
\* directory; renaming onto another link of the same inode does nothing.
Renames(from, to) ==
    /\ vol[from] # None /\ from # to
    /\ vol[to] # None => (kind[vol[to]] = "dir") = (kind[vol[from]] = "dir")

local_rename(from, to) ==
    /\ Renames(from, to)
    /\ vol' = IF vol[to] = vol[from] THEN vol
              ELSE [vol EXCEPT ![to] = vol[from], ![from] = None]

\* link(2) does not follow a symlink from.
local_link(from, to) ==
    /\ vol[from] # None /\ kind[vol[from]] # "dir" /\ vol[to] = None
    /\ vol' = [vol EXCEPT ![to] = vol[from]]

\* open(path, fi->flags, mode) with O_CREAT on descriptor fd: a new regular
\* file, or the regular file the path resolves to.
local_create(l, fd) ==
    \/ /\ vol[l] = None
       /\ MakeNode(l, "reg", None)
       /\ fdtab' = [fdtab EXCEPT ![fd] = vol'[l]]
    \/ /\ vol[l] # None /\ KindOf(Lookup(l)) = "reg"
       /\ fdtab' = [fdtab EXCEPT ![fd] = Lookup(l)]
       /\ UNCHANGED <<vol, kind, target, vdata, ddata, dpromised>>

\* open(path, fi->flags) of a path that resolves to a regular file.
local_open(l, fd) ==
    /\ KindOf(Lookup(l)) = "reg"
    /\ fdtab' = [fdtab EXCEPT ![fd] = Lookup(l)]

\* truncate or ftruncate to zero; neither backend syncs it (SETATTR is
\* not among NFS's synchronous calls).
Truncated(i) ==
    /\ vdata' = [vdata EXCEPT ![i] = 0]
    /\ dpromised' = [dpromised EXCEPT ![i] = {}]
    /\ downer' = [downer EXCEPT ![i] = None]
    /\ UNCHANGED <<mode, dirs, vol, dur, kind, target, ddata, fdtab, pc, todo, cfd, hd,
                   hino, owner, promised, halfDone>>

\* close(fi->fh); the handle is dropped whatever close returns.
local_release(f) == fdtab' = [fdtab EXCEPT ![f] = None]

-----------------------------------------------------------------------------
(* A call: its system call, then, in the NFS backend, its sync steps       *)
(* (Sync / SyncError / SyncFails / Block), then its reply (Reply).  Begin  *)
(* records the entries the call changed.                                   *)

\* The sync steps the NFS backend runs after a system call; the local
\* backend runs none.
SyncSteps(steps) == IF mode = "nfs" THEN steps ELSE <<>>

Begin(t, changed, steps) ==
    /\ pc' = [pc EXCEPT ![t] = "sync"]
    /\ todo' = [todo EXCEPT ![t] = SyncSteps(steps)]
    /\ owner' = [l \in Leaves |-> IF l \in changed THEN t ELSE owner[l]]
    /\ promised' = [l \in Leaves |-> IF l \in changed THEN {} ELSE promised[l]]

\* nfs_mknod: mknod, then sync_path of the parent.
Mknod(t, l, k) ==
    /\ pc[t] = "idle" /\ local_mknod(l, k)
    /\ Begin(t, {l}, <<Parent[l]>>)
    /\ UNCHANGED <<mode, dirs, dur, fdtab, cfd, hd, hino, downer, misdirected,
                   halfDone>>

\* nfs_mkdir: mkdir, sync_path of the new directory, then of the parent.
Mkdir(t, l) ==
    /\ pc[t] = "idle" /\ local_mkdir(l)
    /\ Begin(t, {l}, <<l, Parent[l]>>)
    /\ UNCHANGED <<mode, dirs, dur, fdtab, cfd, hd, hino, downer, misdirected,
                   halfDone>>

\* nfs_symlink: symlink(from, to), then sync_path of to's parent.
Symlink(t, from, l) ==
    /\ pc[t] = "idle" /\ local_symlink(from, l)
    /\ Begin(t, {l}, <<Parent[l]>>)
    /\ UNCHANGED <<mode, dirs, dur, fdtab, cfd, hd, hino, downer, misdirected,
                   halfDone>>

\* nfs_unlink: unlink, then sync_path of the parent.
Unlink(t, l) ==
    /\ pc[t] = "idle" /\ local_unlink(l)
    /\ Begin(t, {l}, <<Parent[l]>>)
    /\ UNCHANGED <<mode, dirs, dur, kind, target, vdata, ddata, fdtab, cfd, hd, hino,
                   downer, dpromised, misdirected, halfDone>>

\* nfs_rmdir: rmdir, then sync_path of the parent.
Rmdir(t, l) ==
    /\ pc[t] = "idle" /\ local_rmdir(l)
    /\ Begin(t, {l}, <<Parent[l]>>)
    /\ UNCHANGED <<mode, dirs, dur, kind, target, vdata, ddata, fdtab, cfd, hd, hino,
                   downer, dpromised, misdirected, halfDone>>

\* A rename that syncs the new path and its parent but not the old one's.
RenameSkipsFromParent(t, from, to) ==
    /\ pc[t] = "idle" /\ local_rename(from, to)
    /\ Begin(t, {from, to}, <<to, Parent[to]>>)
    /\ UNCHANGED <<mode, dirs, dur, kind, target, vdata, ddata, fdtab, cfd, hd, hino,
                   downer, dpromised, misdirected, halfDone>>

\* nfs_rename: rename, then sync_path of the new path (following it if it
\* is a symlink), of from's parent and of to's parent.
Rename(t, from, to) ==
    /\ pc[t] = "idle" /\ local_rename(from, to)
    /\ Begin(t, {from, to}, <<to, Parent[from], Parent[to]>>)
    /\ UNCHANGED <<mode, dirs, dur, kind, target, vdata, ddata, fdtab, cfd, hd, hino,
                   downer, dpromised, misdirected, halfDone>>

\* nfs_link: link, then sync_path of from, of to, of from's parent and of
\* to's parent.
Link(t, from, to) ==
    /\ pc[t] = "idle" /\ local_link(from, to)
    /\ Begin(t, {to}, <<from, to, Parent[from], Parent[to]>>)
    /\ UNCHANGED <<mode, dirs, dur, kind, target, vdata, ddata, fdtab, cfd, hd, hino,
                   downer, dpromised, misdirected, halfDone>>

\* nfs_create: open(O_CREAT) on the lowest free descriptor, fsync of the
\* descriptor, then sync_path of the parent.  The handle is the client's
\* only on success.
Create(t, l) ==
    /\ pc[t] = "idle" /\ hd[t] = None /\ FreeFds # {}
    /\ LET fd == Min(FreeFds) IN
       /\ local_create(l, fd)
       /\ Begin(t, IF vol[l] = None THEN {l} ELSE {}, <<fdtab'[fd], Parent[l]>>)
       /\ cfd' = [cfd EXCEPT ![t] = fd]
    /\ UNCHANGED <<mode, dirs, dur, hd, hino, downer, misdirected, halfDone>>

\* Mutant: the fd == -1 check is dropped, so a failed open() still stores
\* fi->fh = -1 and replies success.
OpenNoErrorCheck(t, l) ==
    /\ pc[t] = "idle" /\ hd[t] = None /\ FreeFds # {}
    /\ IF KindOf(Lookup(l)) = "reg"
       THEN /\ local_open(l, Min(FreeFds))
            /\ hd' = [hd EXCEPT ![t] = Min(FreeFds)]
            /\ hino' = [hino EXCEPT ![t] = Lookup(l)]
       ELSE /\ hd' = [hd EXCEPT ![t] = -1]
            /\ UNCHANGED <<fdtab, hino>>
    /\ UNCHANGED <<mode, dirs, vol, dur, kind, target, vdata, ddata, pc, todo, cfd,
                   owner, downer, promised, dpromised, misdirected, halfDone>>

\* nfs_open: open on the lowest free descriptor (O_DIRECT is stripped,
\* which the model does not see); the client keeps the descriptor.
Open(t, l) ==
    /\ pc[t] = "idle" /\ hd[t] = None /\ FreeFds # {}
    /\ local_open(l, Min(FreeFds))
    /\ hd' = [hd EXCEPT ![t] = Min(FreeFds)]
    /\ hino' = [hino EXCEPT ![t] = Lookup(l)]
    /\ UNCHANGED <<mode, dirs, vol, dur, kind, target, vdata, ddata, pc, todo, cfd,
                   owner, downer, promised, dpromised, misdirected, halfDone>>

\* The inode a call through the handle's fi->fh reaches.
HandleFile(t) == fdtab[hd[t]]

\* pwrite on fi->fh; stable: fsync follows, and the reply waits for it.
Pwrite(t, v, stable) ==
    /\ pc[t] = "idle" /\ hd[t] # None /\ HandleFile(t) # None
    /\ LET i == HandleFile(t) IN
       /\ vdata' = [vdata EXCEPT ![i] = v]
       /\ dpromised' = [dpromised EXCEPT ![i] = {}]
       /\ misdirected' = (misdirected \/ i # hino[t])
       /\ IF stable
            THEN /\ downer' = [downer EXCEPT ![i] = t]
                 /\ pc' = [pc EXCEPT ![t] = "sync"]
                 /\ todo' = [todo EXCEPT ![t] = <<i>>]
            ELSE /\ downer' = [downer EXCEPT ![i] = None]
                 /\ UNCHANGED <<pc, todo>>
    /\ UNCHANGED <<mode, dirs, vol, dur, kind, target, ddata, fdtab, cfd, hd, hino,
                   owner, promised, halfDone>>

\* local_write: pwrite, then fsync of the descriptor whatever the flags;
\* a failed fsync is the call's error.
local_write(t, v) == mode = "local" /\ Pwrite(t, v, TRUE)

\* A write that replies without waiting for fsync whatever fi->flush says.
WriteIgnoresStable(t, v, stable) ==
    /\ mode = "nfs"
    /\ pc[t] = "idle" /\ hd[t] # None /\ HandleFile(t) # None
    /\ LET i == HandleFile(t) IN
       /\ vdata' = [vdata EXCEPT ![i] = v]
       /\ dpromised' = [dpromised EXCEPT ![i] = {}]
       /\ misdirected' = (misdirected \/ i # hino[t])
       /\ downer' = [downer EXCEPT ![i] = IF stable THEN t ELSE None]
       /\ pc' = [pc EXCEPT ![t] = IF stable THEN "sync" ELSE "idle"]
       /\ todo' = [todo EXCEPT ![t] = <<>>]
    /\ UNCHANGED <<mode, dirs, vol, dur, kind, target, ddata, fdtab, cfd, hd, hino,
                   owner, promised, halfDone>>

\* nfs_write: pwrite, then fsync when fi->flush (the stable flag) is set;
\* an unstable write replies at once.
Write(t, v, stable) == mode = "nfs" /\ Pwrite(t, v, stable)

\* nfs_flush and nfs_fsync (fsync or fdatasync of fi->fh): commit the
\* handle's file and return fsync's error.  (local_flush is close(dup(fh)),
\* which changes nothing the model tracks.)
Fsync(t) ==
    /\ mode = "nfs"
    /\ pc[t] = "idle" /\ hd[t] # None /\ HandleFile(t) # None
    /\ downer' = [downer EXCEPT ![HandleFile(t)] = t]
    /\ pc' = [pc EXCEPT ![t] = "sync"]
    /\ todo' = [todo EXCEPT ![t] = <<HandleFile(t)>>]
    /\ UNCHANGED <<mode, dirs, vol, dur, kind, target, vdata, ddata, fdtab, cfd, hd,
                   hino, owner, promised, dpromised, misdirected, halfDone>>

\* local_fsync: fsync(fi->fh), whose result is ignored; the call returns 0
\* whether or not the data reached the disk.
local_fsync(t) ==
    /\ mode = "local"
    /\ pc[t] = "idle" /\ hd[t] # None /\ HandleFile(t) # None
    /\ \/ Persist(HandleFile(t))
       \/ mode \in Faults /\ UNCHANGED <<dur, ddata>>
    /\ downer' = [downer EXCEPT ![HandleFile(t)] = t]
    /\ pc' = [pc EXCEPT ![t] = "sync"]
    /\ UNCHANGED <<mode, dirs, vol, kind, target, vdata, fdtab, todo, cfd, hd, hino,
                   owner, promised, dpromised, misdirected, halfDone>>

\* nfs_truncate: truncate(path), following symlinks.
Truncate(t, l) ==
    /\ pc[t] = "idle" /\ KindOf(Lookup(l)) = "reg"
    /\ Truncated(Lookup(l))
    /\ UNCHANGED misdirected

\* nfs_ftruncate: ftruncate(fi->fh).
Ftruncate(t) ==
    /\ pc[t] = "idle" /\ hd[t] # None /\ HandleFile(t) # None
    /\ Truncated(HandleFile(t))
    /\ misdirected' = (misdirected \/ HandleFile(t) # hino[t])

\* nfs_release: close(fi->fh).
Release(t) ==
    /\ pc[t] = "idle" /\ hd[t] # None
    /\ local_release(hd[t])
    /\ misdirected' = (misdirected \/ HandleFile(t) \notin {None, hino[t]})
    /\ hd' = [hd EXCEPT ![t] = None]
    /\ hino' = [hino EXCEPT ![t] = None]
    /\ UNCHANGED <<mode, dirs, vol, dur, kind, target, vdata, ddata, pc, todo, cfd,
                   owner, downer, promised, dpromised, halfDone>>

-----------------------------------------------------------------------------
(* Directory handles.  opendir mallocs a dir_handle, opens the directory   *)
(* stream into it and hands its address to the client as fi->fh; readdir  *)
(* and releasedir cast the fi->fh the client sends back to a pointer.      *)
(* Entries and offsets the stream walks through are not modelled.          *)

\* opendir(path) of a path that resolves to a directory, into the
\* dir_handle malloc returned at address a (opendir failing frees it, which
\* leaves no trace).
local_opendir(x, a) ==
    /\ heap[a] = None /\ KindOf(Lookup(x)) = "dir"
    /\ heap' = [heap EXCEPT ![a] = Lookup(x)]

\* Whether the handle's fi->fh still points at the dir_handle its opendir
\* allocated; dereferencing anything else is undefined behaviour.
DirHandleLive(t) == heap[dh[t]] = dobj[t]

\* nfs_opendir: malloc, opendir; the client keeps the address.
OpenDir(t, x) ==
    /\ pc[t] = "idle" /\ dh[t] = None
    /\ \E a \in Addrs :
        /\ local_opendir(x, a)
        /\ dh' = [dh EXCEPT ![t] = a]
        /\ dobj' = [dobj EXCEPT ![t] = Lookup(x)]
    /\ UNCHANGED <<mode, vol, dur, kind, target, vdata, ddata, fdtab, pc, todo, cfd,
                   hd, hino, ghost, wild>>

\* nfs_readdir: seekdir/readdir/telldir through the dir_handle at fi->fh.
ReadDir(t) ==
    /\ pc[t] = "idle" /\ dh[t] # None
    /\ wild' = (wild \/ ~DirHandleLive(t))
    /\ UNCHANGED <<mode, vol, dur, kind, target, vdata, ddata, fdtab, pc, todo, cfd,
                   hd, hino, ghost, heap, dh, dobj>>

\* local_releasedir: closedir, whose result is ignored, and free.
local_releasedir(a) == heap' = [heap EXCEPT ![a] = None]

\* FUSE drops a directory handle once releasedir has been called, whatever
\* it returns.
DropDir(t) ==
    /\ pc[t] = "idle" /\ dh[t] # None
    /\ wild' = (wild \/ ~DirHandleLive(t))
    /\ dh' = [dh EXCEPT ![t] = None] /\ dobj' = [dobj EXCEPT ![t] = None]
    /\ UNCHANGED <<mode, vol, dur, kind, target, vdata, ddata, fdtab, pc, todo, cfd,
                   hd, hino, ghost>>

\* nfs_releasedir: closedir succeeds and the dir_handle is freed.
ReleaseDir(t) == DropDir(t) /\ local_releasedir(dh[t])

\* nfs_releasedir: closedir fails and the call returns -errno before free.
ReleaseDirFails(t) == mode \in Faults /\ mode = "nfs" /\ DropDir(t) /\ UNCHANGED heap

-----------------------------------------------------------------------------
(* The sync steps.  An inode in todo is fsync of a descriptor the call     *)
(* holds; a path is sync_path: open(path, O_RDONLY) follows symlinks,      *)
(* blocks on a FIFO until a writer opens it, fails with ENXIO on a         *)
(* socket; then fsync and close.                                           *)

\* What open(x, O_RDONLY) reaches.
SyncTarget(x) == IF x \in Inos THEN x ELSE Lookup(x)

\* The sync succeeds: the object is made durable and the call goes on.
Sync(t) ==
    /\ pc[t] = "sync" /\ todo[t] # <<>>
    /\ LET r == SyncTarget(Head(todo[t])) IN
       /\ KindOf(r) \in {"reg", "dir"}
       /\ Persist(r)
    /\ todo' = [todo EXCEPT ![t] = Tail(@)]
    /\ UNCHANGED <<mode, dirs, vol, kind, target, vdata, fdtab, pc, cfd, hd, hino, ghost>>

\* A call returns the error of a failed step: what its system call did
\* stays done, a descriptor nfs_create opened stays open.
Fail(t) ==
    /\ pc' = [pc EXCEPT ![t] = "idle"]
    /\ todo' = [todo EXCEPT ![t] = <<>>]
    /\ cfd' = [cfd EXCEPT ![t] = None]
    /\ owner' = [l \in Leaves |-> IF owner[l] = t THEN None ELSE owner[l]]
    /\ downer' = [i \in Inos |-> IF downer[i] = t THEN None ELSE downer[i]]
    /\ halfDone' = (halfDone \/ \E l \in Leaves : owner[l] = t)
    /\ UNCHANGED <<mode, dirs, vol, dur, kind, target, vdata, ddata, fdtab, hd, hino,
                   promised, dpromised, misdirected>>

\* sync_path returns -errno: the path no longer resolves (ENOENT, ELOOP)
\* or open fails on a socket (ENXIO).
SyncError(t) ==
    /\ pc[t] = "sync" /\ todo[t] # <<>>
    /\ KindOf(SyncTarget(Head(todo[t]))) \in Errors \cup {"sock"}
    /\ Fail(t)

\* open or fsync fails with an I/O error.
SyncFails(t) ==
    /\ mode \in Faults /\ pc[t] = "sync" /\ todo[t] # <<>>
    /\ Fail(t)

\* open(O_RDONLY) of a FIFO waits for a writer.
Block(t) ==
    /\ pc[t] = "sync" /\ todo[t] # <<>>
    /\ KindOf(SyncTarget(Head(todo[t]))) = "fifo"
    /\ pc' = [pc EXCEPT ![t] = "blocked"]
    /\ UNCHANGED <<mode, dirs, vol, dur, kind, target, vdata, ddata, fdtab, todo, cfd, hd,
                   hino, ghost>>

\* Another process opens the FIFO for writing; the open returns and fsync
\* of a FIFO fails with EINVAL.
FifoPeer(t) ==
    /\ pc[t] = "blocked"
    /\ Fail(t)

\* Every step succeeded: the call returns 0.  The data it changed or
\* committed, and in the NFS backend the entries it changed, that no later
\* call has changed since are what its reply reports stable; nfs_create
\* and local_create hand their descriptor to the client.
Reply(t) ==
    /\ pc[t] = "sync" /\ todo[t] = <<>>
    /\ pc' = [pc EXCEPT ![t] = "idle"]
    /\ promised' = [l \in Leaves |-> IF owner[l] = t /\ mode = "nfs"
                                      THEN {vol[l]} ELSE promised[l]]
    /\ dpromised' = [i \in Inos |-> IF downer[i] = t THEN {vdata[i]} ELSE dpromised[i]]
    /\ owner' = [l \in Leaves |-> IF owner[l] = t THEN None ELSE owner[l]]
    /\ downer' = [i \in Inos |-> IF downer[i] = t THEN None ELSE downer[i]]
    /\ IF cfd[t] # None
         THEN /\ hd' = [hd EXCEPT ![t] = cfd[t]]
              /\ hino' = [hino EXCEPT ![t] = fdtab[cfd[t]]]
              /\ cfd' = [cfd EXCEPT ![t] = None]
         ELSE UNCHANGED <<hd, hino, cfd>>
    /\ UNCHANGED <<mode, dirs, vol, dur, kind, target, vdata, ddata, fdtab, todo,
                   misdirected,
                   halfDone>>

\* The server process dies and is restarted: the kernel's memory is what
\* the disk holds, every descriptor is gone and no running call replies.
\* FUSE clients keep their handles.
Crash ==
    /\ vol' = dur /\ vdata' = ddata
    /\ fdtab' = [f \in Fds |-> None]
    /\ pc' = [t \in Threads |-> "idle"] /\ todo' = [t \in Threads |-> <<>>]
    /\ cfd' = [t \in Threads |-> None]
    /\ owner' = [l \in Leaves |-> None] /\ downer' = [i \in Inos |-> None]
    /\ heap' = [a \in Addrs |-> None]
    /\ UNCHANGED <<mode, dur, kind, target, ddata, hd, hino, promised, dpromised, misdirected,
                   halfDone, dh, dobj, wild>>

Targets == Leaves \cup Dirs

Next ==
    \/ \E t \in Threads :
        \/ \E l \in Leaves :
            \/ \E k \in MknodKinds : Mknod(t, l, k)
            \/ Mkdir(t, l) \/ Unlink(t, l) \/ Rmdir(t, l)
            \/ Create(t, l) \/ Open(t, l) \/ Truncate(t, l)
            \/ \E x \in Targets : Symlink(t, x, l)
            \/ \E to \in Leaves : Rename(t, l, to) \/ Link(t, l, to)
        \/ \E v \in Vals, stable \in BOOLEAN : Write(t, v, stable)
        \/ \E v \in Vals : local_write(t, v)
        \/ Fsync(t) \/ local_fsync(t) \/ Ftruncate(t) \/ Release(t)
        \/ \E x \in DirPaths : OpenDir(t, x)
        \/ ReadDir(t) \/ ReleaseDir(t) \/ ReleaseDirFails(t)
        \/ Sync(t) \/ SyncError(t) \/ SyncFails(t) \/ Block(t) \/ FifoPeer(t)
        \/ Reply(t)
    \/ Crash

\* The server's threads run their calls to the end (a local_fsync's reply
\* included); clients, other
\* processes, faults and crashes come when they come.
Fairness == \A t \in Threads : WF_vars(Sync(t) \/ SyncError(t) \/ Reply(t))

Spec == Init /\ [][Next]_vars /\ Fairness

-----------------------------------------------------------------------------
Entries == Inos \cup {None}

TypeOK ==
    /\ mode \in Modes
    /\ vol \in [Leaves -> Entries] /\ dur \in [Leaves -> Entries]
    /\ kind \in [Inos -> Kinds \cup {None}]
    /\ target \in [Inos -> Targets \cup {None}]
    /\ vdata \in [Inos -> Vals \cup {0}] /\ ddata \in [Inos -> Vals \cup {0}]
    /\ fdtab \in [Fds -> Entries]
    /\ pc \in [Threads -> {"idle", "sync", "blocked"}]
    /\ todo \in [Threads -> Seq(Inos \cup Targets)]
    /\ cfd \in [Threads -> Fds \cup {None}] /\ hd \in [Threads -> Fds \cup {None}]
    /\ hino \in [Threads -> Entries]
    /\ owner \in [Leaves -> Threads \cup {None}]
    /\ downer \in [Inos -> Threads \cup {None}]
    /\ promised \in [Leaves -> SUBSET Entries]
    /\ dpromised \in [Inos -> SUBSET (Vals \cup {0})]
    /\ heap \in [Addrs -> Inos \cup Dirs \cup {None}]
    /\ dh \in [Threads -> Addrs \cup {None}]
    /\ dobj \in [Threads -> Inos \cup Dirs \cup {None}]

\* NFS's synchronous calls (the comment atop nfs_operations.cpp): once
\* mknod, mkdir, symlink, unlink, rmdir, rename, link or create has
\* replied success, the directory entries it changed are on disk as it
\* left them, until a later call changes them, across server crashes.
NamespaceDurable == \A l \in Leaves : promised[l] \subseteq {dur[l]}

\* A write with the stable flag (fi->flush), and flush/fsync, that replied
\* success leave the file's data on disk until it is written again.
DataDurable == \A i \in Inos : dpromised[i] \subseteq {ddata[i]}

\* Every backend call returns: sync_path never waits forever.
CallsReturn == \A t \in Threads : (pc[t] # "idle") ~> (pc[t] = "idle")

\* Every descriptor the server holds open belongs to a client's handle or
\* to the nfs_create that is running.
FdsHeld == \A f \in Fds : fdtab[f] # None => f \in Range(hd) \cup Range(cfd)

\* A call through a client's handle (write, ftruncate, release) reaches the
\* file the handle was opened on.
HandlesReachTheirFile == ~misdirected

\* A call that returns an error has changed no directory entry, as for the
\* system calls it stands for.
ErrorMeansUnchanged == ~halfDone
\* readdir and releasedir reach, through the address the client sends back
\* as fi->fh, the live dir_handle its opendir allocated: never freed memory
\* (a handle from before a server restart) nor a handle malloc has since
\* given to another opendir.
DirHandlesValid == ~wild

\* Every dir_handle on the heap belongs to a client's open directory handle.
DirHandlesHeld == \A a \in Addrs : heap[a] # None => a \in Range(dh)
====
