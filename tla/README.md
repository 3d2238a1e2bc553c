# TLA+ models of RSafeFS

RSafeFS is a FUSE file system built as a stack of layers. Each layer
implements the FUSE `fuse_operations` table and delegates to the next
one (`utils::stack_operation`). Going from the mount point down, the
layers are:

| Layer | Source | What it does |
|---|---|---|
| read-ahead | `src/lib/layers/read_ahead/` | keeps one buffer per path; a read inside the buffer is served from it |
| data cache | `src/lib/layers/data_cache/` | caches fixed-size blocks of files; a miss reads the whole block from the next layer; eviction is by an LRU or random policy (`common/cache/*_manager.hpp`); a block is refreshed when the file's mtime changes |
| metadata cache | `src/lib/layers/metadata_cache/` | caches `getattr` results with a TTL; every mutating operation removes the path's entry before it delegates |
| rpc_client | `src/lib/layers/rpc_client/` | forwards every operation over gRPC to the server |

The rpc_client layer uses one of two clients:

- `sync_client` sends unary RPCs. It also keeps a per-path pair of bidirectional read and write streams.
- `async_client` buffers writes and sends them in the background on client-streaming RPCs ("write-back").

The server (`fuse_rpc/grpc/server.cpp`) has one `call_data` state machine per outstanding request. Each one re-arms itself when a request arrives and applies the operation to a local or NFS backend (`layers/local/`).

## Inventory

### Async write-back client (`async_client.cpp`)

- **State:**
  - `blocks_`, the deque of pending writes;
  - `blocks_queue_size_`;
  - atomic `cache_size_`, the bytes not yet acknowledged;
  - `mtx_blocks_`, a recursive mutex;
  - `calls_`, a FIFO of scheduled `call_data` under `mtx_calls_`;
  - `channel_`, a queue of events (`TERMINATED`, `CALL_ENDED`, `FLUSH_REQUEST`);
  - the scheduler's local `flushing` and `terminated`;
  - `timer_`, the idle timer;
  - for each `call_data`: its own deque, `call_status_` (CREATE / WRITE / WRITES_DONE / FINISHED), `n_blocks_sent_` and a promise.
- **Operations:**
  - `write` has three paths: direct, over the flush threshold, and over the cache size (blocks on the flush future);
  - `flush` and `fsync`;
  - the timer handler;
  - `scheduler` handles one event per loop;
  - `schedule_flush`;
  - `call_data::start`, `proceed` (one case per state), `send_block` (merges adjacent blocks) and `end`;
  - the destructor.
- **Actors:** FUSE threads, the io_context thread, the scheduler thread, the completion-queue threads and the unmounting thread.
- **Hard behaviours:**
  - several flushes can be scheduled at once;
  - a broken stream;
  - a failing backend write;
  - the timer racing writes;
  - backpressure while the lock is held;
  - the destructor draining the queue.
- **Properties:**
  - writes are applied in order;
  - `cache_size_` accounting;
  - the buffer bound;
  - flush and unmount durability;
  - every write is eventually applied;
  - every waiter is eventually released.

### Server stream-write handler (`server.cpp`, `ac_stream_write_data`)

- **State:** CREATE / READ / FINISHED.
- **Behaviour:**
  - CREATE re-arms a new handler and issues `Read`;
  - each successful `Read` writes the request through the backend and reads again;
  - a failed `Read` (the client half-closed) finishes with `Status::OK`;
  - the backend result is ignored.

### Data cache (`data_cache/cache.cpp`) — modelled in `DataCache`

- **State:** `cache_` maps (path, block index) to a block (buffer, size, offset, mtime), plus `cache_size_`, the eviction policy, the per-path mtimes recorded at open, and a mutex.
- **Read steps:**
  - look up the block;
  - if it is valid, copy from it;
  - if it is stale, refresh it in place;
  - on a miss, evict once when over budget, read the block, then `try_emplace` it and touch it in the policy.
- **Hazards:**
  - a negative `size_` is visible before `remove_block`;
  - `size_ - offset` underflows;
  - the cache and the policy can diverge;
  - the cache can go over budget.

### Eviction policies (`common/cache/lru_manager.hpp`, `rnd_manager.hpp`)

`touch`, `remove` and `evict` run under their own mutex. The abstract promise (`EvictionContract`): `evict` returns a key that was touched and not removed, under LRU the one touched longest ago, and the set of tracked keys is exactly the set of cached keys.

### Metadata cache (`metadata_cache/cache.cpp`, `metadata_cache.cpp`) — modelled in `MetadataCache`

- **State:** a map from path to (stat, timestamp) and a policy.
- **Operations:**
  - `get` erases a stale entry;
  - `put` evicts when full and then uses `emplace`, which does not overwrite;
  - `remove` is called before every mutating operation is delegated.
- **Hazards:**
  - a `getattr` miss racing a mutation caches stale attributes;
  - `emplace` keeps an older entry;
  - `write` does not invalidate.

### Read-ahead (`read_ahead/read_ahead_cache.cpp`) — modelled in `ReadAhead`

- **State:** one buffer per path.
- **Operations:** `read_ahead_init` creates the cache and `read_ahead_destroy` deletes it with every buffer (`read_ahead.cpp`); `open` creates a path's buffer, `read` serves from it or refills it, and `release` erases it.
- **Hazards:**
  - a release while another handle of the same path reads;
  - a buffer left behind by an `open` the next layer failed (freed only at destroy);
  - the buffer is not invalidated on write;
  - a read near EOF, and two readers replacing one buffer.

### Sync client streams (`sync_client.cpp`) — modelled in `SyncStreams`

- **State:** per path, a read stream and a write stream, each with `mtx_write_` and `mtx_read_`. The maps themselves are guarded by a mutex.
- **Operations:**
  - `read` and `write` take the stream's locks hand over hand (write lock, then read lock, then release the write lock) so that replies pair with requests;
  - on a failure they call `remove_streams` and retry with a unary call.
- **Hazards:**
  - reply pairing;
  - `remove_streams` erasing a stream that another thread still uses;
  - a write applied by the server whose reply is lost, then sent again as a unary Write.
- The client's other calls each send one unary request and copy the reply back; they keep no client state, and what they change on the server is the local layer's model.

### Server dispatch (`server.cpp`, `run`, `handle_async_requests`, the `*_data` handlers) — modelled in `ServerDispatch`

- **State:** a pool of `call_data` objects per request kind on each completion queue, and the pollers of each queue.
- **Behaviour:**
  - `run()` pre-spawns 20 `call_data` of each of the 35 kinds on every queue;
  - a unary handler goes PROCESS (spawn a sibling, call the backend, set FINISHED, `Finish`) and then deletes itself;
  - a stream handler goes CREATE (spawn a sibling, `Read`), then READ and WRITE alternately, then FINISHED when a `Read` fails.
- **Hazards:**
  - two pollers running `proceed` on one object;
  - a tag left for a deleted object, or an object with nothing left to complete;
  - the pool not re-arming;
  - a stream handler that never finishes.

### Local layer (`layers/local/local.cpp`, `local_operations.cpp`, `nfs_operations.cpp`) — modelled in `NfsBackend`

`local_config` reads the mode (`local`, the default, or `nfs`), and `init_layer` installs either the local or the NFS operation table. Both backends make the same system calls. The local backend adds nothing to them: `local_write` is `pwrite` followed by `fsync` whatever the stable flag says, and a failed `fsync` becomes its error; `local_fsync` calls `fsync` and returns 0 whatever it returned; `local_flush` is `close(dup(fh))`, which changes nothing the model keeps. The NFS backend adds the sync steps below.

- **State:** the server's directory tree as the kernel holds it and as the disk holds it, file contents in the page cache and on disk, the process's descriptor table, its heap of `dir_handle`s, and the `fi->fh` each client file or directory handle carries.
- **Behaviour (NFS mode):** every data-modifying call does its system call, then `sync_path` (open `O_RDONLY`, `fsync`, close) of the new object and of the directories whose entries changed, in a fixed order, and returns the first error. A write with `fi->flush` set (NFS's stable flag) is followed by `fsync`; flush and fsync commit the handle's file. The comment atop the file quotes RFC 1813: a synchronous call that returns has its result on stable storage.
- **Hazards:**
  - a server crash between the system call and the last sync;
  - `sync_path` blocking on a FIFO;
  - an error returned for a call whose system call succeeded;
  - a descriptor `nfs_create` leaks when a sync fails;
  - descriptor numbers reused after a restart while clients still hold the old ones;
  - in local mode, an `fsync` that fails and is reported as a success;
  - a directory handle's `fi->fh`, a heap address of the server process, sent back by the client after a server restart and dereferenced by `readdir`/`releasedir`;
  - `nfs_releasedir` returning before `free` when `closedir` fails.

### Not modelled

- In both backends, `chmod`, `chown` and `utime(ns)` change attributes the model abstracts away. Neither backend syncs them (SETATTR is not among RFC 1813's synchronous calls), so no property reads them, and tracking them would only multiply the states of the durability run. The read-only calls (`getattr`, `access`, `readlink`, `read`, `statfs`) change nothing, and the entries a directory stream walks with `seekdir`/`telldir` are not modelled.
- The struct fillers (`structs_fillers.hpp`) copy `struct stat` and friends into protobuf messages and back. The `.proto` files are not in the repository, so the widths the fields are converted through are unknown, and a model of the conversion would have to guess them.
- Configuration parsing (`config.cpp`), the CLI and logging have no concurrent state; the one configuration value the model depends on, the local layer's mode, is the constant `Modes`.
- The rpc_client layer (`rpc_client.cpp`) forwards each call to the sync or async client chosen at start-up and keeps no state of its own.
- The server's destructor (shutdown, then draining the queues) cannot run: `run()` blocks in `server_->Wait()` and nothing calls `Shutdown`. It would also race the pollers, whose `GPR_ASSERT(cq->Next(...))` fails once a queue is shut down.

## Modules

| Module | Models | Notes |
|---|---|---|
| `WriteMerge` | `call_data::send_block`'s merge loop (`MergeFrom`, RECURSIVE), `block::is_mergeable`, and the message a call sends | pure operators, parameterised by `MaxMerge` (`max_block_size_`) |
| `WriteBack` | the whole write-back pipeline and the server handler | see below |
| `AsyncRead` | extends `WriteBack` with `Read(w)`: `sync_client::read` as the asynchronous client inherits it (async_client.hpp:18 overrides only write, flush and fsync). A read is one step returning the ids the server has applied; the ghost variables `got` and `expected` record what it returned and which writes had returned before it | sync_client.cpp 489-545, async_client.hpp 18-47 |
| `MCAsyncRead` | instantiates `AsyncRead` with the call slots of `MCWriteBack` | — |
| `MCWriteBack` | instantiates `WriteBack`: `CallSlots` is sized so that schedule_flush never runs out of slots; writer symmetry for the safety run; `MergeMatchesRule` checks `NBlocksSent` against a reference definition (`MergeRef`) over every deque of up to 3 blocks | — |
| `DataCache` | `data_cache::cache` open / release / read with the LRU and random eviction managers | see below |
| `MCDataCache` | read arguments as model values, reader symmetry | — |
| `CacheManager` | `lru_cache_manager` and `rnd_cache_manager`: `touch`, `remove`, `evict` on the sequence of tracked keys, and `MgrOrder`, the recency order the LRU list stands for | shared by `DataCache` and `MetadataCache` |
| `EvictionContract` | the abstract eviction manager of spec §4.1: a set of tracked keys and a recency relation, with `Touch`, `Remove`, `Evict` (LRU: a key older than all others) and `EvictTouch` (the pair put performs in one critical section) | instantiated by `DataCache` and `MetadataCache` with `tracked <- ToSet(policy)`, `older <- MgrOrder(policy)`; its `Spec` is their property `EvictsByPolicy` |
| `MetadataCache` | the metadata caching layer: `getattr`/`fgetattr` over `cache::get`/`put`, and every mutating interceptor | see below |
| `SyncStreams` | the sync client's read and write streams: `open`/`create`, `read` and `write` with their failure paths and unary fallback, `release`, `create_streams` by access mode, `remove_streams` over both maps, and the server's `stream_read_data` and `stream_write_data` | see below |
| `MCSyncStreams` | thread and slot symmetry | — |
| `ReadAhead` | `read_ahead::cache` open / read / release, `buffer::read` and `update`, and the write the layer lets through | see below |
| `MCReadAhead` | thread symmetry | — |
| `ServerDispatch` | the server's dispatch: the pool `run()` creates, the pollers (`Next_`), the unary PROCESS/FINISHED cycle all 32 unary handlers share, the stream handlers' CREATE/READ/WRITE/FINISHED cycle, and the gRPC runtime as matching and completions | see below |
| `MCServerDispatch` | — | — |
| `NfsBackend` | the local layer's data-modifying calls, in local or NFS mode (constant `Modes`), over a volatile and a durable copy of the file system, with server crashes and I/O faults | see below |
| `MCNfsBackend` | export root `root` holding leaf `a` and directory `d`, which holds leaf `b`; inode symmetry | — |
| `MCMetadataCache` | a four-path tree (root, directory `d` holding `x`, file `f`), the call sets each run uses, thread symmetry | — |

### How `WriteBack` corresponds to the code

**State.**
- Each variable is named after the member it stands for.
- A `call_data` lives in a slot of `CallSlots` from `schedule_flush` until `end()` deletes it.
- Data is abstracted to write ids. The server's backend is the sequence `applied` of ids it wrote.
- `stream[s]` holds the messages in transit on call `s`. The stream is reliable and ordered unless `Faults` is TRUE.
- `srvMsg[s]` is the message the server handler of call `s` has read and is writing through the backend. The handler issues its next `Read` only after that write, so it finishes only with no write in progress.
- `StreamBreak` drops the unread messages. A message already read stays with its handler, which outlives the client's call: it moves to `orphans` and is written (or fails) whenever that write returns, possibly after the client has ended the call and started the next one.

**Actions.** Each action is one handler, or one branch of a handler, taken atomically:
- `write`: `WriteDirect`, `WriteThreshold`, `WriteBackpressure`, and `WriteResume` once its future resolves;
- `Flush` and `FlushReturn`;
- `TimerExpire` and `TimerHandler`;
- the scheduler: `SchedulerCallEnded`, `SchedulerFlushRequest` and `SchedulerTerminated`;
- `proceed`: `CqCreate`, `CqWrite`, `CqWritesDone` and `CqFinish`;
- the server: `ServerRead` (a `Read` completes and the handler takes the message), `ServerApply` or `ServerWriteFails` (its `operations_.write` returns; the result is ignored and the next `Read` is issued), and `ServerFinish`;
- the late write of a broken stream: `ServerApplyOrphan`;
- transport failure: `StreamBreak`;
- the destructor: `DestroyFlush` and `DestroyTerminate`.

`mtx_blocks_` is represented only where it is held across a wait: the backpressure path of `write`. Every other critical section is a single step.

### How `DataCache` corresponds to the code

**Scope.** The model has one path, opened by two FUSE threads (`Readers`). The backend file is rewritten by other clients (`BackendWrite`); its version doubles as its mtime. A byte is modelled as `<<version, position>>`, and a fresh buffer is `Zero`-filled.

**Steps.** `read` is split wherever it drops a lock or calls the backend:
1. `ReadStart` or `ReadBypass`;
2. `LookupDone`, `LookupHit`, `LookupStale` or `LookupMiss`;
3. on a stale block, `Refresh` or `RefreshFails`, then `Recopy`, or `RemoveAfterError` followed by `PolicyRemoveAfterError`;
4. on a miss, `MissEvict` or `MissNoEvict`, then `EvictRemove` (after an eviction), then `Fetch` or `FetchFails`, then `Insert` and `Count`;
5. `Touch`.

**Locks.** The shared cache lock held across a refresh is `SharedHolders`. `remove_block` and `try_emplace` wait for it to be free.

**Arithmetic.** The size_t arithmetic of the copy is kept: a negative `size_`, or an offset past it, wraps, so the whole remaining request is copied. `cache_size_ > size_` is true for a wrapped (negative) count.

**Eviction.** `Policy` selects the victim:
- LRU evicts the tail of the list;
- random evicts any tracked key.

**Not modelled.** TTL expiry is the nondeterministic `Expire` step. Failing `open`/`getattr` calls are not modelled, because they return before touching any state.

### How `MetadataCache` corresponds to the code

The attributes of a path are abstracted to a version, `ver[p]`. The backend bumps it when a delegated operation changes what `getattr` would return. `cache[p]` holds the version that was put, and whether `is_valid` still holds (`Expire` models the TTL running out).

- **`getattr`/`fgetattr`** are one sequence of steps:
  - `GetHit`, `GetMiss` and `GetStale` are the shared-lock part of `cache::get`;
  - `GetErase` is the unique-lock part of the stale branch;
  - `Fetch` or `FetchFails` is the backend call;
  - `Put` is `cache::put`: evict when the map holds `size_` entries, then `emplace` (`Emplace` keeps an existing entry), then touch.
- **Mutating interceptors:** each is a record (`PathAndParent`, `Attr`, `Handle`, `Symlink`, `Link`, `Rename`). It holds the paths passed to `cache->remove`, in the code's order, and the paths the POSIX call changes.
  - `Begin` starts one.
  - `CacheRemove` is one `cache->remove` (its own unique-lock section).
  - `Delegate` or `DelegateFails` is the backend call. The removals happen whether it succeeds or not.
- **`write`:** `Write` is the write the layer does not intercept. It has no removals.

Every getattr path and mutating step is a separate step, because the code takes and releases the lock between them.

### How `SyncStreams` corresponds to the code

A stream object lives in one of the `Slots`. `streams["r"][p]` is the entry of `read_streams_` and `streams["w"][p]` the entry of `write_streams_`. `alive` holds the slots whose stream is constructed and not yet destroyed. A thread's `ref` is the `read_stream &` or `write_stream &` it copied out of the iterator, and `side` says whether it is in `read` or `write`, which run the same code. The mutexes are owner functions:
- `mapLock["r"]` and `mapLock["w"]` are `mtx_read_streams_` and `mtx_write_streams_`;
- `wLock[s]` and `rLock[s]` are the stream's `mtx_write_` and `mtx_read_`.

`toSrv[s]` and `toCli[s]` are the two directions of the gRPC stream. Each carries thread ids, so the model can tell which request a reply answers. `Serve` is the server's `stream_read_data` or `stream_write_data` loop: Read, call the backend, Write. `applies[t]` counts how often the server has run the backend write of thread `t`'s current `write` call (`Applied`).

`read` is a chain of steps, one per lock or stream operation in the code:
1. `Lookup(t, p, d)`: find the stream in map `d` under its lock, then unlock.
2. `LockWrite`.
3. `StreamWrite`: on failure, unlock and go to `remove_streams`, then to the unary read.
4. `LockReadUnlockWrite`.
5. `StreamRead` or `StreamReadFails`.

Then:
- `SyncCall` is the unary fallback, followed by `create_streams(path, O_RDONLY)` or `O_WRONLY`.
- `Open(t, p, m)` is `open` or `create` with access mode `m` (a set of sides). `CreateStreams` emplaces one map per step, the read map first, as `create_streams` takes one map lock at a time.
- `Release` is the unary Release followed by `remove_streams`. That has two steps:
  - `RemoveFind` takes the map lock and finds the stream.
  - `RemoveErase` waits for both stream mutexes while it holds the map lock, then calls WritesDone and erases.
  - Both run on the read map, then on the write map (`rmSide`, `RemoveNext`). A failure on a write stream therefore also tears down the path's read stream, and the other way round.
- `Break` is a failed connection. Requests not yet read by the server are never served. The replies not yet taken by the client may be lost with it.

A slot is reused only when no thread refers to it. A thread that locks an erased stream's mutex is modelled as the memory still holding the finished stream, so its Write fails. That is one outcome of the undefined behaviour; a crash is another.

### How `ServerDispatch` corresponds to the code

A `call_data` is an id in `CallIds`, and `calls[id]` is its kind, queue and `call_status_`. `live` holds the objects not yet deleted. An object waits for an asynchronous operation it started (`pending`: the call request of its constructor, a stream `Read` or `Write`, a `Finish`), or its tag is ready in its queue (`cq`), or a poller has taken the tag (`taken`).

- The runtime completes operations one at a time:
  - `Match` pairs an incoming call with an object that requested its kind;
  - `ReadDone` delivers the next request on the stream, or `ok = false` once the client has ended it;
  - `SendDone` delivers a reply.
- `Next_` is `cq->Next` in `handle_async_requests`.
- One action per branch of `proceed`:
  - `UnaryProcess`, `UnaryFinished`;
  - `StreamCreate`, `StreamRead` (ok), `StreamReadEnd` (not ok), `StreamWrite`, `StreamFinished`.

  Each branch sets the status and starts its operation in one step (`Proceed`). The code writes `call_status_` before it starts the operation and touches nothing afterwards, so the step is atomic.
- The clients send unary calls, open one stream, write requests on it and end it (`WritesDone` or a broken connection that loses what the server has not read).

What the backend computes is left out, and so is `ok` where the code ignores it (unary PROCESS and stream WRITE).

### How `NfsBackend` corresponds to the code

- **Mode.** `mode` is chosen in `Init` from `Modes` and never changes, as `local_config` reads it once. `SyncSteps` is `init_layer`'s choice: in local mode a call's sync list is empty. `Faults` is the set of modes in which `open`, `fsync` and `sync_path` may fail with EIO.
- **System calls.** `local_mknod`, `local_mkdir`, `local_symlink`, `local_unlink`, `local_rmdir`, `local_rename`, `local_link`, `local_create`, `local_open` and `local_release` are the calls both backends make; the NFS handlers call the local ones and then sync. `local_write` is `Pwrite` with the stable flag forced on. `local_fsync` either persists the handle's file or, in a faulty mode, fails and still replies 0.
- **File system.**
  - `vol` and `dur` map each leaf path to an inode or `None`. They are the kernel's directory entries and the disk's.
  - `vdata` and `ddata` are file contents.
  - `kind` and `target` are each inode's type and a symlink's contents.
  - `fsync` of a fixed directory copies its children's entries to `dur`; `fsync` of a regular file copies its data (`Persist`).
  - `Resolve` follows symlinks as `open` does, up to ELOOP.
- **A call** is one action for its system call, with the guard of its success: the entry free for mknod, mkdir, symlink and create; `Renames` for rename; not a directory for unlink and link. Failing system calls change nothing and are not actions. The action leaves the call's sync list in `todo`:
  - mknod, symlink, unlink, rmdir: `<<parent>>`;
  - mkdir: `<<path, parent>>`;
  - rename: `<<to, parent(from), parent(to)>>`;
  - link: `<<from, to, parent(from), parent(to)>>`;
  - create: `<<inode, parent>>` (the first is `fsync(fd)`);
  - a stable write and flush/fsync: `<<inode>>`.
- **Sync steps.** `Sync` takes the head of `todo`. `SyncError` returns ENOENT/ELOOP/ENXIO when the path no longer resolves or is a socket. `SyncFails` is EIO. `Block` is `open` waiting on a FIFO, and `FifoPeer` is a writer arriving (then fsync of the FIFO fails with EINVAL). `Fail` returns the error and leaves create's descriptor open. `Reply` returns 0 and gives create's descriptor to the client.
- **Directory handles.** `heap` maps each address malloc may return (`Addrs`) to the directory a live `dir_handle` streams. `OpenDir` is `nfs_opendir` (and `local_opendir`): a free address, the directory the path resolves to, the address given to the client as `dh`, the directory remembered in `dobj`. `ReadDir` and `ReleaseDir` dereference `dh`; `DirHandleLive` says whether it still points at that handle, and `wild` records a dereference that did not. `ReleaseDir` frees the handle (`local_releasedir` ignores `closedir`'s result); `ReleaseDirFails` is `nfs_releasedir` returning when `closedir` fails, before `free`. FUSE drops the client's handle either way (`DropDir`). The paths `opendir` is asked for are the constant `DirPaths`.
- **Crash** is the server process restarting: `vol := dur`, `vdata := ddata`, no descriptors, an empty heap, no running call. Clients keep their `fi->fh`, of files and of directories.
- **Ghost variables.**
  - `owner[l]` is the thread whose call last changed entry `l`.
  - `promised[l]` is `{entry}` once a successful reply covers it. A later change resets it to `{}`.
  - `downer` and `dpromised` do the same for file data.
  - `misdirected` and `halfDone` record a handle reaching another file and an error returned after a change.

### How `ReadAhead` corresponds to the code

`buffers` is `buffers_`: a partial function from path to a record of `offset_` (`off`), `size_` (`size`) and `buf_` (`data`). A file byte is the pair of its offset and the write that produced it, so a byte served from the wrong offset, or the zero fill of `make_unique<char[]>` past `res`, is visible. `content` is the file as the next layer reads it.

`session` is the FUSE session around the cache object: `RaInit` (`read_ahead_init`, `new read_ahead::cache`) comes first, and every operation needs `session = "running"`. `RaDestroy` (`read_ahead_destroy`, `delete cache`) comes when no request is running, possibly with handles still open, and frees every buffer.

`mtx_` is a shared_mutex. `read` holds it shared from the lookup to its return; `shared` is the set of threads inside that section. The unique sections (the emplace in `open`, the erase in `release`) are single steps guarded by `shared = {}`. Each buffer's own mutex makes `buffer::read` and `buffer::update` atomic, so each is part of one step.

The operations map to actions as follows:
- `open` is `OpenExisting` (the shared lookup finds a buffer) or `OpenMiss` then `OpenEmplace`. The shared lock is dropped between the lookup and the emplace, so another open may emplace first, and the emplace is then a no-op. `operations_.open` may fail when `Faults` is TRUE, and the buffer stays.
- `read` is `ReadStart`, which takes the shared lock and looks the path up with no `end()` check. A missing buffer sets `crashed`: the dereference of `end()` brings the daemon down, and every action then stops. A hit copies from the buffer and returns. A miss goes on to `ReadFetch`, which reads `max(size, config.size_)` bytes. Then comes either `ReadFetchFails` (return the error) or `ReadUpdate` (copy `min(res, size)`, then `update(res, offset)`).
- `release` is `Release`, which erases the path's buffer whoever else has it open.
- `write` is not stacked by `read_ahead_config::init_layer`, so it goes straight to the next layer. `WriteThrough` overwrites one byte of the file and tells no buffer.

`got` records each read's result. It also records the file's bytes for that range at the read's start and at its return.

## Runs

| Run | Module / cfg | Expect | Checks |
|---|---|---|---|
| `wb_safety` | MCWriteBack / MCWriteBack.cfg | pass | `TypeOK`, `MergeMatchesRule` (the recursive merge loop equals the reference "longest mergeable prefix within the size limit"; a constant formula, evaluated once), `AppliedInWriteOrder`, `CacheSizeAccounting`, `BufferBounded`, `TerminatedDurable`, `FlushDurable` on a reliable transport |
| `wb_faults` | MCWriteBack / MCWriteBack_faults.cfg | pass | `WaitersReleased` when streams break and backend writes fail, also while a broken stream's handler is still writing (one offset, so no merging: `wb_safety` covers merges) |
| `wb_liveness` | MCWriteBack / MCWriteBack_live.cfg | pass | `EventuallyApplied`: every accepted write reaches the server |
| `dc_safety` | MCDataCache / MCDataCache.cfg | pass | `TypeOK`, `CacheSizeAccounting`, `NoLeakedBlock`, `ReadNotOlderThanOpen`: two readers, a file that grows, expiry, refresh and eviction, random policy |
| `dc_faults` | MCDataCache / MCDataCache_faults.cfg | pass | `CacheSizeAccounting` with failing backend reads and refreshes, one-byte blocks and a one-block budget, so that a miss evicts one of two cached blocks while other blocks are removed after errors |
| `dc_phantom_policy_key` | MCDataCache / MCDataCache_phantom.cfg | violation | `PolicyTracksCached`: a read's late `touch` re-adds to the policy a key that a concurrent miss has just evicted |
| `mc_safety` | MCMetadataCache / MCMetadataCache.cfg | pass | `TypeOK`, `PolicyMatchesCache`, `CacheBounded`, `EvictsByPolicy` (the cache's policy refines `EvictionContract`): two threads, file mutations, expiry, LRU eviction at 2 entries |
| `sync_streams` | MCSyncStreams / MCSyncStreams.cfg | pass | `TypeOK`, `ReplyMatchesRequest`, `LocksHeldInExchange`: two threads opening, reading, writing and releasing one path over read and write streams that can break and lose replies; deadlock is checked |
| `sync_use_after_erase` | MCSyncStreams / MCSyncStreams_uaf.cfg | violation | `NoUseAfterErase`: a release destroys the stream a concurrent read has just looked up |
| `ra_reads` | MCReadAhead / MCReadAhead.cfg | pass | `TypeOK` (which includes that no buffer outgrows `max(size, config.size_)`) and `ReadServesFileRange`. Between `read_ahead_init` and `read_ahead_destroy`, two threads open, read and release one path; the next layer's open and read fail, and two writes go on underneath. Every read returns its size in bytes (or up to EOF), each from the right offset |
| `nfs_durability` | MCNfsBackend / MCNfsBackend.cfg | pass | `TypeOK`, `NamespaceDurable`, `DataDurable`: one server thread, in local or in NFS mode, runs every call on two leaves in two directories. There are I/O faults (in NFS mode), FIFOs and sockets (whose `sync_path` fails or blocks), symlinks, directory handles opened on the root, read and released, and crashes at any step. Every entry a successful reply reports, and the data of every successful stable write or commit, is on disk until a later call changes it |
| `server_dispatch` | MCServerDispatch / MCServerDispatch.cfg | pass | `TypeOK`, `CallDataTracked`, `RequestsAnswered`, `StreamsEnd`: one queue with two pollers, a pool of one `call_data` per kind, one unary kind, one stream and three requests. Every object is always in exactly one place: one outstanding operation, a ready tag, or one poller. Every request is answered unless its stream broke first, and an ended stream's handler deletes itself |

### Further configurations

These configurations are not among the listed runs. Each of them makes TLC report the violation described, and their hazards in PROJECT.json point to them. MCMetadataCache_seq.cfg is the one that passes: with one thread, `CacheCurrent` holds for the file operations it enumerates (unlink, mknod, chmod, flush, open, link, symlink, a file rename). It is not a run because the project keeps twelve.

| Configuration | Module | Property violated |
|---|---|---|
| MCDataCache_negsize.cfg (`dc_refresh_error_race`) | MCDataCache | `ReadReturnsFileBytes`: a reader hits a block whose refresh just failed (below) |
| MCDataCache_overshoot.cfg (`dc_overshoot`) | MCDataCache | `OvershootBounded`: with a zero budget, two readers' misses leave three one-byte blocks cached; the keys a late `touch` re-added are evicted and free nothing |
| MCNfsBackend_dirptr.cfg (`nfs_dangling_dir_handle`) | MCNfsBackend | `DirHandlesValid`: `opendir` of the root hands the client address `a1`; the server restarts; the client's `readdir` sends `a1` back and the new process dereferences it, which is freed memory (or, after another `opendir`, someone else's stream). Either mode |
| MCNfsBackend_dirleak.cfg (`nfs_releasedir_leak`) | MCNfsBackend | `DirHandlesHeld`: `opendir`, then `releasedir` whose `closedir` fails; `nfs_releasedir` returns `-errno` before `free(d)`, and FUSE has dropped the handle, so the `dir_handle` stays allocated with no owner |
| MCNfsBackend_localfsync.cfg (`local_fsync_lost`) | MCNfsBackend | `DataDurable`: in local mode a write's `fsync` fails and `write` reports the error, then `fsync()` fails too and `local_fsync` replies 0 with the data not on disk |
| MCDataCache_leak.cfg (`dc_leak`) | MCDataCache | `NoLeakedBlock`: a failed refresh races a re-insert of the same block |
| MCDataCache_short.cfg (`dc_short_read`) | MCDataCache | `ErrorOnlyWhenNothingCopied`: an error after a copied block |
| MCMetadataCache_write.cfg (`mc_write_not_invalidated`) | MCMetadataCache | `CacheCurrent`: a write after a getattr |
| MCMetadataCache_renamedir.cfg (`mc_rename_dir`) | MCMetadataCache | `CacheCurrent`: `x` stays cached after its directory `d` is renamed |
| MCDataCache_eof.cfg (`dc_eof`) | MCDataCache | `ReadReturnsFileBytes`: one read starting 2 bytes past EOF inside the last block |
| MCMetadataCache_race.cfg (`mc_stale_put`) | MCMetadataCache | `CacheCurrent`: a getattr's put lands after a concurrent chmod's removal |
| MCReadAhead_release.cfg (`ra_release`) | MCReadAhead | `NoMissingBuffer`: `t2` opens `p1` (emplace), `t1` opens it too (buffer exists), `t1` releases it (erase), and `t2`'s read dereferences `buffers_.find(p1)`, which is `end()`. Two handles of one file and one close are enough, with no concurrency needed |
| MCReadAhead_stale.cfg (`ra_stale`) | MCReadAhead | `ReadReturnsFileBytes`: a read fetches bytes 0-1, a write changes byte 0 before the buffer is updated, and the next read of byte 0 is served the old byte from the buffer. Spec §4.4 describes the buffer with no invalidation, against the §1 goal that caches never serve stale data |
| MCAsyncRead.cfg (`async_read_stale`) | MCAsyncRead | `ReadSeesWrites`: one `write()` returns with its block in `blocks_`, then a read of the same file goes to the server, which has not applied it, and returns the old bytes. The asynchronous client gives no read-your-writes until a flush, the idle timer or the threshold has sent the block. Whether an application sees this also depends on the kernel's page cache, which is outside the model |
| MCWriteBack_reorder.cfg (`wb_late_write`) | MCWriteBack | `AppliedInWriteOrder`: the server handler reads write 1 and is inside `operations_.write` when the stream breaks; the client's call ends on the error, the next call carries write 2 and the server writes it; then the late write of 1 lands over it. Spec §2 promises in-order streaming per open file |
| MCDataCache_stale.cfg (`dc_stale_refresh`) | MCDataCache | `ReadNotOlderThanOpen`: a block is fetched, the file is rewritten and reopened, a refresh fails and stamps the new mtime on the old bytes (cache.cpp:88-90), and the other reader's hit copies them before `remove_block`. Needs three reads, one more than `dc_faults` had |
| MCWriteBack_flushloss.cfg (`wb_flush_loss`) | MCWriteBack | `FlushDurable`: under faults a flush returns success with its writes lost (below) |
| MCNfsBackend_hang.cfg (`nfs_fifo_hang`) | MCNfsBackend | `CallsReturn`: mknod of a FIFO at `a`, then a rename of `a`; `sync_path(new_to)` opens the FIFO `O_RDONLY` and waits for a writer that never comes, and the server thread never returns |
| MCNfsBackend_halfdone.cfg (`nfs_error_after_rename`) | MCNfsBackend | `ErrorMeansUnchanged`: mknod of a socket, a rename of it; `rename()` succeeds, `sync_path` of the new path fails with ENXIO and the client is told the rename failed. A dangling symlink (ENOENT), or a concurrent unlink of the new path, does the same |
| MCNfsBackend_fdleak.cfg (`nfs_create_fd_leak`) | MCNfsBackend | `FdsHeld`: `nfs_create` opens a descriptor, its `fsync` fails, and it returns `-errno` with the descriptor still open and nobody holding it |
| MCNfsBackend_restart.cfg (`nfs_stale_fh`) | MCNfsBackend | `HandlesReachTheirFile`: `t1` creates `a` and gets descriptor 1; the server restarts; `t2` creates another file and gets descriptor 1 again; `t1`'s next write, with its old `fi->fh`, lands in `t2`'s file |
| MCSyncStreams_retry.cfg (`sync_write_retry`) | MCSyncStreams | `WriteAppliedOnce`: a write goes out on the write stream and the server writes it; the connection breaks and loses the reply; `Read` fails (sync_client.cpp:582), `remove_streams` tears down the path's streams, and the unary `Write` writes the same request again. Spec §7 says a transport error is returned to the caller with no retry. The second write appends the bytes twice on a file opened `O_APPEND` (the local backend opens with `fi->flags` and calls `pwrite`). It also overwrites any write another handle made to the range in between |

### What the `wb_flush_loss` configuration shows

TLC finds this trace:
1. a write;
2. a flush;
3. the call starts and sends its message;
4. the stream breaks;
5. `Finish` returns an error;
6. `end(false)`;
7. `FlushReturn`.

The flush returns and nothing was applied. `async_client::flush` (line 73) and `fsync` (line 80) discard the future's value, and the server ignores backend write errors (server.cpp:1419). A failed write-back is therefore reported to the application as a successful flush. This is recorded as a finding in PROJECT.json.

### What the data-cache violations show

**`dc_eof`**
- Block size 3 and a 4-byte file; `pread(off=5, size=1)`.
- The miss fetches the last block (1 byte) and loops. `offset_in_the_block` (2) exceeds `size_` (1), so `size_ - 2` wraps (cache.cpp:106).
- The read returns one zero byte instead of 0.
- In production terms: with a 16 KiB block, any read that starts 2 or more bytes past EOF in the last block returns zeros.

**`dc_phantom_policy_key`**
- Reader 1 hits a block and drops the locks; its `touch` (cache.cpp:143) has not run yet.
- Reader 2 misses over the budget: `evict()` removes reader 1's key from the policy (line 120) and `remove_block` frees the block (line 122).
- Reader 1's `touch` now pushes the key back into the policy, with no block behind it.
- Spec §3 says every key of the value map has a policy entry and vice versa. Once such keys pile up, an eviction can pick one and free nothing, so `cache_size_` stays over the budget (`dc_overshoot`).

**`dc_refresh_error_race`**
- A refresh stores `size_ = -1` together with a fresh timestamp and the current mtime (cache.cpp:88), and only then removes the block.
- A second reader that already holds the cache lock sees a valid block and copies the whole request out of it, past the buffer.

**`dc_leak`**
- Reader 1's refresh fails and it calls `remove_block`.
- Reader 2 misses, re-inserts the block and touches it.
- Reader 1 then calls `eviction_policy_->remove` (cache.cpp:97).
- The block stays cached and is tracked by no policy, so it can never be evicted.

**`dc_short_read`**
- `read` returns the backend error (cache.cpp:98 and 131) even after copying earlier blocks.
- The spec's error taxonomy says that bytes already copied win over the error.

### What the metadata-cache violations show

- **`mc_stale_put`** (7 states):
  1. `t1` misses on `x` and fetches version 0.
  2. `t2` begins `chmod(x)` and removes `x`.
  3. `t1` puts version 0.
  4. `t2`'s chmod completes, and the backend is at version 1.

  Every later getattr of `x` gets version 0 until the entry expires (60 s by default). Spec section 4.3 says removing before delegating prevents exactly this. It does not, because the put carries attributes read before the backend call ended. `emplace` widens the window: a later put of the new attributes does not replace the stale entry.
- **`mc_write_not_invalidated`:** `init_layer` stacks no `write` interceptor. A write that extends a file leaves the cached `st_size` behind. The spec lists write-through among the operations that must remove the entry. With the async client the backend size changes only at `flush`/`release`, which do remove the entry. With the sync client the cached size is wrong until the TTL expires.
- **`mc_rename_dir`:** after `getattr(x)` and `rename(d, f)`, `x` no longer exists, yet `getattr(x)` hits. The contract in the spec (the path and its parent) does not cover the entries under a renamed directory. This is a gap in the spec that the code inherits.

### What the `sync_use_after_erase` violation shows

1. `t1` opens `p1`, which creates stream `s1`.
2. `t1` starts a read, finds `s1` and unlocks the map.
3. `t2` releases `p1`. `remove_streams` takes the map lock and finds `s1`. Both of its mutexes are free, because `t1` holds neither yet. It calls WritesDone and erases the entry, destroying the stream.
4. `t1` is now about to lock `mtx_write_` of the destroyed stream.

The same window exists for every thread that is queued on `mtx_write_` when a failing reader or a release tears the stream down. `write()` has the same code on `write_streams_`. FUSE issues `release` for one handle while reads on another handle of the same path are in flight, so two opens of one file are enough.

### Bounds

The constants are:
- two writers;
- one path;
- offsets {0,1};
- sizes {1,2};
- cache size 2;
- threshold 50%;
- `MaxMerge` 2;
- 3 writes in `wb_safety`, 2 in the other runs;
- one flush.

These bounds reach every path of `write`:
- the threshold path needs a queue of more than 1 byte;
- the backpressure path needs more than 2 unacknowledged bytes;
- merging needs adjacent offsets 0 and 1.

They also reach:
- two concurrent calls (timer plus flush, or threshold plus destroy);
- a writer blocked while another flushes;
- the destructor racing a pending timer.

`CallSlots` is `2*MaxWrites + MaxFlushes + 1`, the most `call_data` objects that can be alive at once. Slot exhaustion therefore never masks a behaviour.

For `DataCache` the bounds are:
- block size 2;
- files of up to 3 bytes (two blocks);
- a budget of one block, so the second insert puts the cache over budget and the next miss evicts;
- reads that start inside the first block, straddle both blocks, or start in the last block;
- one rewrite of the file;
- two reads in total.

These reach the following:
- refresh on both mtime change and expiry;
- eviction racing a hit;
- two threads missing on the same block;
- a refresh racing a copy.

MetadataCache bounds:
- paths: root, `d`, `x` in `d`, `f`, enough for a parent, a grandparent and a sibling;
- `Size = 2` with four paths, so puts evict;
- mutating calls: at most 2 in `mc_safety` (two threads) and 3 in MCMetadataCache_seq.cfg. That is enough for two calls to hit the same path and for a call to follow an eviction.

The file calls cover:
- unlink and mknod (path and parent);
- chmod and flush (path only);
- open (nothing changes);
- link, symlink and a file rename.

SyncStreams bounds: two threads, one path opened `O_RDWR` and four slots. Four is the fewest that always leave a free slot: a read and a write stream for the path plus one stale reference per thread. Read-only and write-only opens are reached anyway, because a unary fallback creates the one stream of its side. Two paths would only repeat the same interleavings, and with both sides the run takes about three minutes. Two threads are enough for one to queue behind the other on each stream mutex, which is where reply pairing can go wrong.

In `dc_safety` the file only grows (`Truncate = FALSE`), and there are no faults. Neither a negative `size_` nor a read past the end of a short block can then occur, so `ReadReturnsFileBytes` is not checked there: it is checked where those cases occur, in `dc_refresh_error_race` and `dc_eof`, and both find it violated. `dc_eof` uses 3-byte blocks because the underflow needs a gap of 2 bytes inside the last block.

`CHECK_DEADLOCK FALSE` is set for WriteBack because a behaviour stops once the write bound is used up and the destructor has joined. Blocked waits are covered by the liveness properties instead.

ReadAhead bounds:
- files of 3 bytes;
- `config.size_` 2;
- request sizes 1 and 2;
- offsets 0 to 3.

With these, a 1-byte read prefetches more than it returns. A read can also hit inside a buffer, straddle its end, start at EOF, or be cut short by EOF. Two threads on one path share its buffer, and two writes change the file under it. `CHECK_DEADLOCK FALSE` is set because a crash (a read whose buffer another handle's release erased) stops the model, as it stops the daemon.

The refinement `EvictsByPolicy` is checked in `mc_safety`, where four paths compete for two entries, so put evicts from a full two-key list and a wrong end of the list is caught (put pairs the eviction with a touch, `EvictTouch`). `DataCache` states the same refinement but no run checks it. There `evict()` and `remove_block` are separate steps, so under the mapping an eviction is a `Remove` step of the contract. A data cache that evicts the wrong key still refines it, and its touches and removes refine it by the shape of `MgrTouch` and `MgrRemove`.

`dc_phantom_policy_key` uses one-byte blocks, a budget of one block, a 3-byte file and two reads per reader: small, yet enough for a miss is over the budget while another reader's hit is between unlock and `touch`.

ServerDispatch bounds: one queue with two pollers, so two pollers can compete for the tags of one object. Requests are matched to objects on any queue and queues share nothing else, so a second queue adds states and no new interleaving. A pool of one object per kind means a second call of a kind is accepted only through the sibling. With three requests, two unary calls can be in flight while the stream carries one, or the stream can carry two.

NfsBackend bounds:
- two leaves, each in a different directory, so a rename can cross directories and needs both parent syncs;
- two inodes, enough for two live objects or for one object and the unlinked one whose removal is not yet durable;
- one descriptor (descriptor reuse only needs one number);
- one data value besides empty, enough to tell written from truncated or lost;
- both modes in the durability run, with faults in NFS mode only: a fault in local mode breaks `DataDurable` through `local_fsync` (`local_fsync_lost`), and the run is kept for what else it checks;
- one heap address and `opendir` of the export root only in the durability run (opening `d` as well made it 4 million states and four and a half minutes); the directory-handle configurations open both directories.

The durability run has one server thread. With two, the state space passed three million states without finishing; the calls share no lock, and an interleaved call only changes which reply the ghost variables credit. The further configuration for descriptor reuse has two threads, because it needs two handles.

### Fairness

Weak fairness is assumed for the threads the library owns, which run whenever they have work:
- the io_context thread (the timer);
- the scheduler thread;
- the completion-queue threads;
- the server handler;
- a FUSE thread whose future has resolved (`WriteResume`, `FlushReturn`);
- the destructor's second step.

In ServerDispatch the pollers (`Next_` and `proceed`) are weakly fair, because each is a thread looping on `cq->Next`. So are the runtime's matching and completions, because gRPC delivers what it was asked to. Clients have no fairness.

In NfsBackend a running call's `Sync`, `SyncError` and `Reply` are weakly fair, because the thread runs them itself. A FIFO's writer, faults and crashes have no fairness, so a blocked `open` may wait forever (`nfs_fifo_hang`).

FUSE callers are under no obligation to issue operations, so `write`, `flush` and the start of destroy have no fairness. `StreamBreak` and `ServerWriteFails` are faults and have no fairness either. `ServerRead` and `ServerApply` are weakly fair per call, and so is the late write of a broken stream, because each is a step of a server thread that has the work in hand.

### Mutants

Every property of a passing run has a mutant of a mapped definition that TLC catches:
- a dropped single-flight guard;
- an off-by-one in the pop loop;
- the backpressure path without its wait;
- the destructor not waiting for its flush;
- `end()` without the status;
- a writer not re-arming the timer;
- a `<` for `<=` in the merge loop;
- in the metadata cache: a failed getattr result put in the cache, `remove` that forgets the policy, eviction only above `size_`, and `unlink` without the parent removal;
- in the eviction managers: LRU evicting the front of the list, and a touch that pushes a key without erasing its old node;
- in read-ahead: a buffer of `size + config.size_` bytes, and `update` recording `buf_size` instead of `res`;
- in the server dispatch: a sibling spawned in every state of a unary handler, a stream `Read` started together with the `Write`, a unary handler that spawns no sibling, and a failed stream `Read` retried instead of finishing;
- in the NFS backend: a rename that does not sync the old parent, a write that ignores the stable flag (in NFS mode), and an open that does not check `open()`'s -1 and stores it in `fi->fh`;
- in the sync client: unlocking `mtx_write_` before locking `mtx_read_`, calling `remove_streams` still holding `mtx_write_`, and a failed read that does not fall back.

## Plan

Still to do:
1. Give the violations now kept as further configurations (`sync_write_retry`, `async_read_stale`, `ra_release`, `wb_flush_loss` and the NFS ones) a run each. This needs fewer runs elsewhere, because runs are capped at twelve.
2. The `async_client` read path together with `SyncStreams`.

The hazards each module is meant to cover are listed in PROJECT.json, at the line where they bite.
