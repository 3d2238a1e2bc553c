------------------------------ MODULE WriteBack ------------------------------
(***************************************************************************)
(* The asynchronous write-back pipeline of the remote client              *)
(* (fuse_rpc/grpc/async_client.cpp) together with the server handler that *)
(* consumes it (ac_stream_write_data in fuse_rpc/grpc/server.cpp).        *)
(*                                                                         *)
(* Actors: FUSE writer threads (write, flush/fsync), the idle timer on    *)
(* the asio io_context thread, the scheduler thread reading the event     *)
(* channel, the completion-queue threads driving each call_data, the      *)
(* server handler reading the client stream, and the main thread running  *)
(* the destructor.  mtx_blocks_ is modelled only where it is held across  *)
(* a wait (the backpressure path of write); every other critical section  *)
(* is one atomic step taken while the lock is free.                       *)
(*                                                                         *)
(* A call_data lives in a slot of CallSlots from schedule_flush until      *)
(* end() deletes it.  Data is abstracted to write ids: the server keeps   *)
(* the sequence of ids it applied, in order.                              *)
(***************************************************************************)
EXTENDS WriteMerge, FiniteSets, FiniteSetsExt

CONSTANTS
    Writers,      \* FUSE threads calling write / flush
    Paths, Offsets, Sizes, Flags,   \* arguments of a write
    CacheSize,    \* config_.cache_size_
    ThresholdPct, \* config_.flush_threshold_ as a percentage (may be < 0 or > 100)
    MaxWrites,    \* bound: number of write() calls in a behaviour
    MaxFlushes,   \* bound: number of flush()/fsync() calls in a behaviour
    CallSlots,    \* bound: call_data objects alive at once
    Faults,       \* TRUE: the stream may break and server writes may fail
    None

ASSUME /\ CacheSize \in Nat /\ ThresholdPct \in Int
       /\ MaxWrites \in Nat /\ MaxFlushes \in Nat
       /\ Faults \in BOOLEAN

Main == "main"          \* the thread running ~async_client
Threads == Writers \cup {Main}

VARIABLES
    blocks,           \* blocks_: pending writes not yet detached
    blocksQueueSize,  \* blocks_queue_size_
    cacheSize,        \* cache_size_: bytes written and not yet acknowledged
    lock,             \* holder of mtx_blocks_ across a backpressure wait
    timerArmed,       \* timer_ has a pending async_wait
    handlerPending,   \* the timer fired; its handler waits to run
    call,             \* slot -> call_data or None
    calls,            \* calls_: slots waiting to be started, FIFO
    channel,          \* channel_: events for the scheduler thread
    flushing,         \* scheduler(): a call is transmitting
    terminated,       \* scheduler(): loop has exited
    stream,           \* slot -> messages in transit to the server
    srvFinished,      \* slot -> the server handler sent its Finish status
    srvMsg,           \* slot -> blocks its handler read and is writing, or None
    orphans,          \* blocks still being written by the handler of a
                      \* stream that has broken since it read them
    applied,          \* ids the server wrote through the backend, in order
    pc,               \* thread -> "idle" | "backpressure" | "flushwait" | ...
    waiting,          \* thread -> slot whose future it waits on, or None
    pendingWrite,     \* writer -> the block it will append after backpressure
    flushMark,        \* writer -> first id not yet written when flush began
    nextId,           \* id of the next write
    nFlushes

vars == <<blocks, blocksQueueSize, cacheSize, lock, timerArmed, handlerPending,
          call, calls, channel, flushing, terminated, stream, srvFinished,
          srvMsg, orphans, applied, pc, waiting, pendingWrite, flushMark, nextId, nFlushes>>

Ids == 1 .. MaxWrites
Block == [id : Ids, path : Paths, off : Offsets, size : Sizes, fi : Flags]
Data(bs) == [eos |-> FALSE, blocks |-> bs]   \* one WriteRequest
EOS == [eos |-> TRUE, blocks |-> <<>>]      \* WritesDone: the client half-closes
Events == {"TERMINATED", "CALL_ENDED", "FLUSH_REQUEST"}
CallStatus == {"CREATE", "WRITE", "WRITES_DONE", "FINISHED"}
CallData == [blocks : Seq(Block), status : CallStatus, started : BOOLEAN,
             nsent : Nat, broken : BOOLEAN]

FreeSlots == {s \in CallSlots : call[s] = None}
LiveSlots == CallSlots \ FreeSlots
Ids_(bs) == [i \in 1 .. Len(bs) |-> bs[i].id]

-----------------------------------------------------------------------------
(* Helpers, each one a piece of a handler below                           *)

\* schedule_flush(): under mtx_blocks_, move blocks_ into a new call_data in
\* slot s, reset blocks_queue_size_, push the call on calls_ and send
\* FLUSH_REQUEST.  The caller states blocks' and blocksQueueSize'.
ScheduleFlush(s) ==
    /\ call' = [call EXCEPT ![s] = [blocks |-> blocks, status |-> "CREATE",
                                    started |-> FALSE, nsent |-> 0,
                                    broken |-> FALSE]]
    /\ calls' = Append(calls, s)
    /\ channel' = Append(channel, "FLUSH_REQUEST")

\* The threshold test of write(): blocks_queue_size_ > flush_threshold_,
\* where flush_threshold_ = cache_size * min(1, |threshold|).
OverThreshold ==
    LET pct == IF ThresholdPct < 0 THEN -ThresholdPct ELSE ThresholdPct
    IN blocksQueueSize * 100 > CacheSize * (IF pct > 100 THEN 100 ELSE pct)

NewBlock(p, o, sz, f) == [id |-> nextId, path |-> p, off |-> o, size |-> sz, fi |-> f]

\* The tail of write(): append the block, grow both counters, re-arm timer_
\* (expires_after + async_wait), return size.
Enqueue(b, base, baseSize) ==
    /\ blocks' = Append(base, b)
    /\ blocksQueueSize' = baseSize + b.size
    /\ cacheSize' = cacheSize + b.size
    /\ timerArmed' = TRUE
    /\ nextId' = nextId + 1

\* call_data::end(status): send CALL_ENDED, fulfil the promise (wakes the
\* threads waiting on the future), delete this.  ch is the channel the
\* event is appended to.
End(s, ch) ==
    /\ channel' = Append(ch, "CALL_ENDED")
    /\ call' = [call EXCEPT ![s] = None]
    /\ stream' = [stream EXCEPT ![s] = <<>>]
    /\ srvFinished' = [srvFinished EXCEPT ![s] = FALSE]
    /\ waiting' = [t \in Threads |-> IF waiting[t] = s THEN None ELSE waiting[t]]

\* send_block(): build one message from the front of the call's deque and
\* Write it on the stream (the message is lost if the stream is broken).
SendBlock(s, c) ==
    /\ call' = [call EXCEPT ![s] = [c EXCEPT !.nsent = NBlocksSent(c.blocks)]]
    /\ stream' = IF c.broken THEN stream
                 ELSE [stream EXCEPT ![s] = Append(@, Data(Message(c.blocks)))]

Accepting == pc[Main] = "idle"   \* FUSE calls no operation after destroy

-----------------------------------------------------------------------------
(* async_client::write                                                     *)

\* Mutant: write() appends without re-arming the idle timer.
WriteDirectNoTimer(w, p, o, sz, f) ==
    /\ Accepting /\ pc[w] = "idle" /\ lock = None /\ nextId <= MaxWrites
    /\ ~(cacheSize > CacheSize)
    /\ ~OverThreshold
    /\ blocks' = Append(blocks, NewBlock(p, o, sz, f))
    /\ blocksQueueSize' = blocksQueueSize + sz
    /\ cacheSize' = cacheSize + sz
    /\ nextId' = nextId + 1
    /\ UNCHANGED <<lock, timerArmed, handlerPending, call, calls, channel,
                   flushing, terminated, stream, srvFinished, srvMsg, orphans, applied, pc,
                   waiting, pendingWrite, flushMark, nFlushes>>

\* cache_size_ <= cache size and the queue is under the threshold: only
\* cancel the timer, append, re-arm.
WriteDirect(w, p, o, sz, f) ==
    /\ Accepting /\ pc[w] = "idle" /\ lock = None /\ nextId <= MaxWrites
    /\ ~(cacheSize > CacheSize)
    /\ ~OverThreshold
    /\ Enqueue(NewBlock(p, o, sz, f), blocks, blocksQueueSize)
    /\ UNCHANGED <<lock, handlerPending, call, calls, channel, flushing,
                   terminated, stream, srvFinished, srvMsg, orphans, applied, pc, waiting,
                   pendingWrite, flushMark, nFlushes>>

\* The queue is over flush_threshold_: schedule_flush() without waiting,
\* then append to the now empty blocks_.
WriteThreshold(w, p, o, sz, f) ==
    /\ Accepting /\ pc[w] = "idle" /\ lock = None /\ nextId <= MaxWrites
    /\ ~(cacheSize > CacheSize)
    /\ OverThreshold
    /\ FreeSlots # {}
    /\ ScheduleFlush(Min(FreeSlots))
    /\ Enqueue(NewBlock(p, o, sz, f), <<>>, 0)
    /\ UNCHANGED <<lock, handlerPending, flushing, terminated, stream,
                   srvFinished, srvMsg, orphans, applied, pc, waiting, pendingWrite, flushMark,
                   nFlushes>>

\* Mutant: backpressure schedules the flush but does not wait for it.
WriteBackpressureNoWait(w, p, o, sz, f) ==
    /\ Accepting /\ pc[w] = "idle" /\ lock = None /\ nextId <= MaxWrites
    /\ cacheSize > CacheSize
    /\ FreeSlots # {}
    /\ ScheduleFlush(Min(FreeSlots))
    /\ Enqueue(NewBlock(p, o, sz, f), <<>>, 0)
    /\ UNCHANGED <<lock, handlerPending, flushing, terminated, stream,
                   srvFinished, srvMsg, orphans, applied, pc, waiting, pendingWrite, flushMark,
                   nFlushes>>

\* cache_size_ > cache size: schedule_flush().get() while still holding
\* mtx_blocks_; the timer was cancelled first.
WriteBackpressure(w, p, o, sz, f) ==
    /\ Accepting /\ pc[w] = "idle" /\ lock = None /\ nextId <= MaxWrites
    /\ cacheSize > CacheSize
    /\ FreeSlots # {}
    /\ LET s == Min(FreeSlots) IN
       /\ ScheduleFlush(s)
       /\ waiting' = [waiting EXCEPT ![w] = s]
    /\ blocks' = <<>> /\ blocksQueueSize' = 0
    /\ lock' = w
    /\ timerArmed' = FALSE
    /\ pc' = [pc EXCEPT ![w] = "backpressure"]
    /\ pendingWrite' = [pendingWrite EXCEPT ![w] = NewBlock(p, o, sz, f)]
    /\ nextId' = nextId + 1
    /\ UNCHANGED <<cacheSize, handlerPending, flushing, terminated, stream,
                   srvFinished, srvMsg, orphans, applied, flushMark, nFlushes>>

\* The future resolved: append the block, re-arm the timer, unlock.
WriteResume(w) ==
    /\ pc[w] = "backpressure" /\ waiting[w] = None
    /\ blocks' = Append(blocks, pendingWrite[w])
    /\ blocksQueueSize' = blocksQueueSize + pendingWrite[w].size
    /\ cacheSize' = cacheSize + pendingWrite[w].size
    /\ timerArmed' = TRUE
    /\ lock' = None
    /\ pc' = [pc EXCEPT ![w] = "idle"]
    /\ UNCHANGED <<handlerPending, call, calls, channel, flushing, terminated,
                   stream, srvFinished, srvMsg, orphans, applied, waiting, pendingWrite,
                   flushMark, nextId, nFlushes>>

-----------------------------------------------------------------------------
(* async_client::flush and ::fsync: schedule_flush().get(), then the       *)
(* synchronous flush/fsync of sync_client, whose result is returned.      *)

Flush(w) ==
    /\ Accepting /\ pc[w] = "idle" /\ lock = None /\ nFlushes < MaxFlushes
    /\ FreeSlots # {}
    /\ LET s == Min(FreeSlots) IN
       /\ ScheduleFlush(s)
       /\ waiting' = [waiting EXCEPT ![w] = s]
    /\ blocks' = <<>> /\ blocksQueueSize' = 0
    /\ pc' = [pc EXCEPT ![w] = "flushwait"]
    /\ flushMark' = [flushMark EXCEPT ![w] = nextId]
    /\ nFlushes' = nFlushes + 1
    /\ UNCHANGED <<cacheSize, lock, timerArmed, handlerPending, flushing,
                   terminated, stream, srvFinished, srvMsg, orphans, applied, pendingWrite,
                   nextId>>

\* get() returned; the value of the future is discarded and the result of
\* sync_client::flush is returned to FUSE.
FlushReturn(w) ==
    /\ pc[w] = "flushwait" /\ waiting[w] = None
    /\ pc' = [pc EXCEPT ![w] = "idle"]
    /\ UNCHANGED <<blocks, blocksQueueSize, cacheSize, lock, timerArmed,
                   handlerPending, call, calls, channel, flushing, terminated,
                   stream, srvFinished, srvMsg, orphans, applied, waiting, pendingWrite,
                   flushMark, nextId, nFlushes>>

-----------------------------------------------------------------------------
(* The idle timer on the io_context thread                                *)

\* One second passes without a cancel: the handler is dispatched.  The
\* single io_context thread runs one handler at a time.
TimerExpire ==
    /\ timerArmed /\ ~handlerPending
    /\ timerArmed' = FALSE /\ handlerPending' = TRUE
    /\ UNCHANGED <<blocks, blocksQueueSize, cacheSize, lock, call, calls,
                   channel, flushing, terminated, stream, srvFinished, srvMsg, orphans, applied,
                   pc, waiting, pendingWrite, flushMark, nextId, nFlushes>>

\* The handler (error code not operation_aborted): schedule_flush().
TimerHandler ==
    /\ handlerPending /\ lock = None /\ FreeSlots # {}
    /\ ScheduleFlush(Min(FreeSlots))
    /\ blocks' = <<>> /\ blocksQueueSize' = 0
    /\ handlerPending' = FALSE
    /\ UNCHANGED <<cacheSize, lock, timerArmed, flushing, terminated, stream,
                   srvFinished, srvMsg, orphans, applied, pc, waiting, pendingWrite, flushMark,
                   nextId, nFlushes>>

-----------------------------------------------------------------------------
(* async_client::scheduler: one event per step, under mtx_calls_           *)

\* Pop calls_.front() and start() it; start() on an empty deque ends the
\* call at once, sending CALL_ENDED from the scheduler thread itself.
StartFront(rest) ==
    LET s == Head(calls) IN
    /\ calls' = Tail(calls)
    /\ flushing' = TRUE
    /\ IF call[s].blocks = <<>>
       THEN End(s, rest)
       ELSE /\ call' = [call EXCEPT ![s].started = TRUE]   \* StartCall
            /\ channel' = rest
            /\ UNCHANGED <<stream, srvFinished, waiting>>

SchedulerCallEnded ==
    /\ ~terminated /\ channel # <<>> /\ Head(channel) = "CALL_ENDED"
    /\ IF calls # <<>>
       THEN StartFront(Tail(channel))
       ELSE /\ flushing' = FALSE /\ channel' = Tail(channel)
            /\ UNCHANGED <<call, calls, stream, srvFinished, waiting>>
    /\ UNCHANGED <<blocks, blocksQueueSize, cacheSize, lock, timerArmed,
                   handlerPending, terminated, srvMsg, orphans, applied, pc, pendingWrite,
                   flushMark, nextId, nFlushes>>

\* Mutant: FLUSH_REQUEST starts the next call even while one transmits.
SchedulerFlushRequestNoSingleFlight ==
    /\ ~terminated /\ channel # <<>> /\ Head(channel) = "FLUSH_REQUEST"
    /\ IF calls # <<>>
       THEN StartFront(Tail(channel))
       ELSE /\ channel' = Tail(channel)
            /\ UNCHANGED <<call, calls, flushing, stream, srvFinished, waiting>>
    /\ UNCHANGED <<blocks, blocksQueueSize, cacheSize, lock, timerArmed,
                   handlerPending, terminated, srvMsg, orphans, applied, pc, pendingWrite,
                   flushMark, nextId, nFlushes>>

SchedulerFlushRequest ==
    /\ ~terminated /\ channel # <<>> /\ Head(channel) = "FLUSH_REQUEST"
    /\ IF calls # <<>> /\ ~flushing
       THEN StartFront(Tail(channel))
       ELSE /\ channel' = Tail(channel)
            /\ UNCHANGED <<call, calls, flushing, stream, srvFinished, waiting>>
    /\ UNCHANGED <<blocks, blocksQueueSize, cacheSize, lock, timerArmed,
                   handlerPending, terminated, srvMsg, orphans, applied, pc, pendingWrite,
                   flushMark, nextId, nFlushes>>

\* TERMINATED is re-sent behind any pending event; the loop exits only when
\* it is the last one.
SchedulerTerminated ==
    /\ ~terminated /\ channel # <<>> /\ Head(channel) = "TERMINATED"
    /\ IF Tail(channel) # <<>>
       THEN channel' = Append(Tail(channel), "TERMINATED") /\ UNCHANGED terminated
       ELSE terminated' = TRUE /\ channel' = <<>>
    /\ UNCHANGED <<blocks, blocksQueueSize, cacheSize, lock, timerArmed,
                   handlerPending, call, calls, flushing, stream, srvFinished, srvMsg, orphans,
                   applied, pc, waiting, pendingWrite, flushMark, nextId,
                   nFlushes>>

-----------------------------------------------------------------------------
(* call_data::proceed on a completion-queue thread.  Each started call has *)
(* exactly one operation outstanding, so its steps are serialised.        *)

\* CREATE: StartCall completed; start() guarantees a non-empty deque.
CqCreate(s) ==
    /\ call[s] # None /\ call[s].started /\ call[s].status = "CREATE"
    /\ SendBlock(s, [call[s] EXCEPT !.status = "WRITE"])
    /\ UNCHANGED <<blocks, blocksQueueSize, cacheSize, lock, timerArmed,
                   handlerPending, calls, channel, flushing, terminated,
                   srvFinished, srvMsg, orphans, applied, pc, waiting, pendingWrite, flushMark,
                   nextId, nFlushes>>

\* Mutant: cache_size_ is decremented by the whole remaining deque on
\* every acknowledged message.
CqWriteDoubleCount(s) ==
    /\ call[s] # None /\ call[s].started /\ call[s].status = "WRITE"
    /\ LET c    == call[s]
           rest == SubSeq(c.blocks, c.nsent + 1, Len(c.blocks))
       IN /\ cacheSize' = cacheSize - SizeOf(c.blocks)
          /\ IF rest = <<>>
             THEN /\ call' = [call EXCEPT ![s] = [c EXCEPT !.blocks = rest,
                                     !.nsent = 0, !.status = "WRITES_DONE"]]
                  /\ stream' = IF c.broken THEN stream
                               ELSE [stream EXCEPT ![s] = Append(@, EOS)]
             ELSE SendBlock(s, [c EXCEPT !.blocks = rest])
    /\ UNCHANGED <<blocks, blocksQueueSize, lock, timerArmed, handlerPending,
                   calls, channel, flushing, terminated, srvFinished, srvMsg, orphans, applied,
                   pc, waiting, pendingWrite, flushMark, nextId, nFlushes>>

\* Mutant: the pop loop starts at 1, so only n_blocks_sent_ - 1 sizes of
\* a merged message are subtracted (the first block's is).
CqWriteOffByOne(s) ==
    /\ call[s] # None /\ call[s].started /\ call[s].status = "WRITE"
    /\ LET c    == call[s]
           rest == SubSeq(c.blocks, c.nsent + 1, Len(c.blocks))
       IN /\ cacheSize' = cacheSize - c.blocks[1].size
          /\ IF rest = <<>>
             THEN /\ call' = [call EXCEPT ![s] = [c EXCEPT !.blocks = rest,
                                     !.nsent = 0, !.status = "WRITES_DONE"]]
                  /\ stream' = IF c.broken THEN stream
                               ELSE [stream EXCEPT ![s] = Append(@, EOS)]
             ELSE SendBlock(s, [c EXCEPT !.blocks = rest])
    /\ UNCHANGED <<blocks, blocksQueueSize, lock, timerArmed, handlerPending,
                   calls, channel, flushing, terminated, srvFinished, srvMsg, orphans, applied,
                   pc, waiting, pendingWrite, flushMark, nextId, nFlushes>>

\* WRITE completed (ok is ignored): pop the n_blocks_sent_ blocks and
\* decrement cache_size_ by their sizes; then send the next message or
\* WritesDone.
CqWrite(s) ==
    /\ call[s] # None /\ call[s].started /\ call[s].status = "WRITE"
    /\ LET c    == call[s]
           rest == SubSeq(c.blocks, c.nsent + 1, Len(c.blocks))
       IN /\ cacheSize' = cacheSize - SizeOf(SubSeq(c.blocks, 1, c.nsent))
          /\ IF rest = <<>>
             THEN /\ call' = [call EXCEPT ![s] = [c EXCEPT !.blocks = rest,
                                     !.nsent = 0, !.status = "WRITES_DONE"]]
                  /\ stream' = IF c.broken THEN stream
                               ELSE [stream EXCEPT ![s] = Append(@, EOS)]
             ELSE SendBlock(s, [c EXCEPT !.blocks = rest])
    /\ UNCHANGED <<blocks, blocksQueueSize, lock, timerArmed, handlerPending,
                   calls, channel, flushing, terminated, srvFinished, srvMsg, orphans, applied,
                   pc, waiting, pendingWrite, flushMark, nextId, nFlushes>>

\* WRITES_DONE completed: Finish(&status_).
CqWritesDone(s) ==
    /\ call[s] # None /\ call[s].started /\ call[s].status = "WRITES_DONE"
    /\ call' = [call EXCEPT ![s].status = "FINISHED"]
    /\ UNCHANGED <<blocks, blocksQueueSize, cacheSize, lock, timerArmed,
                   handlerPending, calls, channel, flushing, terminated, stream,
                   srvFinished, srvMsg, orphans, applied, pc, waiting, pendingWrite, flushMark,
                   nextId, nFlushes>>

\* Mutant: the call ends as soon as Finish is issued, without the status.
CqFinishNoStatus(s) ==
    /\ call[s] # None /\ call[s].started /\ call[s].status = "FINISHED"
    /\ End(s, channel)
    /\ UNCHANGED <<blocks, blocksQueueSize, cacheSize, lock, timerArmed,
                   handlerPending, calls, flushing, terminated, srvMsg, orphans, applied, pc,
                   pendingWrite, flushMark, nextId, nFlushes>>

\* Mutant: the status is awaited from the server only, so a broken stream
\* never completes Finish.
CqFinishServerOnly(s) ==
    /\ call[s] # None /\ call[s].started /\ call[s].status = "FINISHED"
    /\ srvFinished[s]
    /\ End(s, channel)
    /\ UNCHANGED <<blocks, blocksQueueSize, cacheSize, lock, timerArmed,
                   handlerPending, calls, flushing, terminated, srvMsg, orphans, applied, pc,
                   pendingWrite, flushMark, nextId, nFlushes>>

\* FINISHED: the status arrived (the server's OK, or an error on a broken
\* stream); log on error and end(status_.ok()).
CqFinish(s) ==
    /\ call[s] # None /\ call[s].started /\ call[s].status = "FINISHED"
    /\ srvFinished[s] \/ call[s].broken
    /\ End(s, channel)
    /\ UNCHANGED <<blocks, blocksQueueSize, cacheSize, lock, timerArmed,
                   handlerPending, calls, flushing, terminated, srvMsg, orphans, applied, pc,
                   pendingWrite, flushMark, nextId, nFlushes>>

-----------------------------------------------------------------------------
(* ac_stream_write_data::proceed on the server, and transport faults      *)

\* A Read completes with ok: the handler holds the message until its
\* backend write returns; the next Read is issued only after that.
ServerRead(s) ==
    /\ stream[s] # <<>> /\ ~Head(stream[s]).eos /\ srvMsg[s] = None
    /\ srvMsg' = [srvMsg EXCEPT ![s] = Head(stream[s]).blocks]
    /\ stream' = [stream EXCEPT ![s] = Tail(@)]
    /\ UNCHANGED <<blocks, blocksQueueSize, cacheSize, lock, timerArmed,
                   handlerPending, call, calls, channel, flushing, terminated,
                   srvFinished, orphans, applied, pc, waiting, pendingWrite,
                   flushMark, nextId, nFlushes>>

\* operations_.write returns: the message's blocks are on the backend, and
\* the handler issues the next Read.
ServerApply(s) ==
    /\ srvMsg[s] # None
    /\ applied' = applied \o Ids_(srvMsg[s])
    /\ srvMsg' = [srvMsg EXCEPT ![s] = None]
    /\ UNCHANGED <<blocks, blocksQueueSize, cacheSize, lock, timerArmed,
                   handlerPending, call, calls, channel, flushing, terminated,
                   stream, srvFinished, orphans, pc, waiting, pendingWrite,
                   flushMark, nextId, nFlushes>>

\* The backend write fails; res == -1 is ignored and the handler reads on.
ServerWriteFails(s) ==
    /\ Faults /\ srvMsg[s] # None
    /\ srvMsg' = [srvMsg EXCEPT ![s] = None]
    /\ UNCHANGED <<blocks, blocksQueueSize, cacheSize, lock, timerArmed,
                   handlerPending, call, calls, channel, flushing, terminated,
                   stream, srvFinished, orphans, applied, pc, waiting,
                   pendingWrite, flushMark, nextId, nFlushes>>

\* The handler of a broken stream finishes its backend write (or fails
\* it); its next Read then fails and it finishes unseen by the client.
ServerApplyOrphan(m) ==
    /\ orphans' = orphans \ {m}
    /\ \/ applied' = applied \o Ids_(m)
       \/ Faults /\ UNCHANGED applied
    /\ UNCHANGED <<blocks, blocksQueueSize, cacheSize, lock, timerArmed,
                   handlerPending, call, calls, channel, flushing, terminated,
                   stream, srvFinished, srvMsg, pc, waiting, pendingWrite,
                   flushMark, nextId, nFlushes>>

\* READ not ok (client half-closed): Finish with Status::OK.  The Read
\* that sees the half-close is only issued once no write is in progress.
ServerFinish(s) ==
    /\ stream[s] # <<>> /\ Head(stream[s]).eos /\ srvMsg[s] = None
    /\ stream' = [stream EXCEPT ![s] = <<>>]
    /\ srvFinished' = [srvFinished EXCEPT ![s] = TRUE]
    /\ UNCHANGED <<blocks, blocksQueueSize, cacheSize, lock, timerArmed,
                   handlerPending, call, calls, channel, flushing, terminated,
                   srvMsg, orphans, applied, pc, waiting, pendingWrite,
                   flushMark, nextId, nFlushes>>

\* The connection breaks: messages not yet read are lost, later writes
\* fail, Finish returns an error status.  A message the server handler has
\* already read is still written, whenever its write returns.
StreamBreak(s) ==
    /\ Faults
    /\ call[s] # None /\ call[s].started /\ ~call[s].broken /\ ~srvFinished[s]
    /\ call' = [call EXCEPT ![s].broken = TRUE]
    /\ stream' = [stream EXCEPT ![s] = <<>>]
    /\ srvMsg' = [srvMsg EXCEPT ![s] = None]
    /\ orphans' = IF srvMsg[s] = None THEN orphans ELSE orphans \cup {srvMsg[s]}
    /\ UNCHANGED <<blocks, blocksQueueSize, cacheSize, lock, timerArmed,
                   handlerPending, calls, channel, flushing, terminated,
                   srvFinished, applied, pc, waiting, pendingWrite, flushMark,
                   nextId, nFlushes>>

-----------------------------------------------------------------------------
(* ~async_client: schedule_flush().get(), send TERMINATED, join.           *)

DestroyFlush ==
    /\ pc[Main] = "idle" /\ lock = None /\ FreeSlots # {}
    /\ \A w \in Writers : pc[w] = "idle"
    /\ LET s == Min(FreeSlots) IN
       /\ ScheduleFlush(s)
       /\ waiting' = [waiting EXCEPT ![Main] = s]
    /\ blocks' = <<>> /\ blocksQueueSize' = 0
    /\ pc' = [pc EXCEPT ![Main] = "flushwait"]
    /\ UNCHANGED <<cacheSize, lock, timerArmed, handlerPending, flushing,
                   terminated, stream, srvFinished, srvMsg, orphans, applied, pendingWrite,
                   flushMark, nextId, nFlushes>>

\* Mutant: the destructor sends TERMINATED without waiting for its flush.
DestroyTerminateNoWait ==
    /\ pc[Main] = "flushwait"
    /\ channel' = Append(channel, "TERMINATED")
    /\ pc' = [pc EXCEPT ![Main] = "joining"]
    /\ UNCHANGED <<blocks, blocksQueueSize, cacheSize, lock, timerArmed,
                   handlerPending, call, calls, flushing, terminated, stream,
                   srvFinished, srvMsg, orphans, applied, waiting, pendingWrite, flushMark,
                   nextId, nFlushes>>

DestroyTerminate ==
    /\ pc[Main] = "flushwait" /\ waiting[Main] = None
    /\ channel' = Append(channel, "TERMINATED")
    /\ pc' = [pc EXCEPT ![Main] = "joining"]
    /\ UNCHANGED <<blocks, blocksQueueSize, cacheSize, lock, timerArmed,
                   handlerPending, call, calls, flushing, terminated, stream,
                   srvFinished, srvMsg, orphans, applied, waiting, pendingWrite, flushMark,
                   nextId, nFlushes>>

-----------------------------------------------------------------------------

Init ==
    /\ blocks = <<>> /\ blocksQueueSize = 0 /\ cacheSize = 0
    /\ lock = None /\ timerArmed = FALSE /\ handlerPending = FALSE
    /\ call = [s \in CallSlots |-> None] /\ calls = <<>> /\ channel = <<>>
    /\ flushing = FALSE /\ terminated = FALSE
    /\ stream = [s \in CallSlots |-> <<>>]
    /\ srvFinished = [s \in CallSlots |-> FALSE]
    /\ srvMsg = [s \in CallSlots |-> None] /\ orphans = {}
    /\ applied = <<>>
    /\ pc = [t \in Threads |-> "idle"]
    /\ waiting = [t \in Threads |-> None]
    /\ pendingWrite = [w \in Writers |-> None]
    /\ flushMark = [w \in Writers |-> 0]
    /\ nextId = 1 /\ nFlushes = 0

WriteArgs(A(_, _, _, _, _)) ==
    \E w \in Writers, p \in Paths, o \in Offsets, sz \in Sizes, f \in Flags :
        A(w, p, o, sz, f)

Next ==
    \/ WriteArgs(WriteDirect) \/ WriteArgs(WriteThreshold)
    \/ WriteArgs(WriteBackpressure)
    \/ \E w \in Writers : WriteResume(w) \/ Flush(w) \/ FlushReturn(w)
    \/ TimerExpire \/ TimerHandler
    \/ SchedulerCallEnded \/ SchedulerFlushRequest \/ SchedulerTerminated
    \/ \E s \in CallSlots :
          \/ CqCreate(s) \/ CqWrite(s) \/ CqWritesDone(s) \/ CqFinish(s)
          \/ ServerRead(s) \/ ServerApply(s) \/ ServerWriteFails(s)
          \/ ServerFinish(s) \/ StreamBreak(s)
    \/ \E m \in orphans : ServerApplyOrphan(m)
    \/ DestroyFlush \/ DestroyTerminate

\* Threads of the library (timer, scheduler, completion queues, server) are
\* weakly fair; FUSE callers resume once their future is ready.  Callers
\* are free to stop issuing operations, so write/flush/destroy are not.
Fairness ==
    /\ WF_vars(TimerExpire) /\ WF_vars(TimerHandler)
    /\ WF_vars(SchedulerCallEnded) /\ WF_vars(SchedulerFlushRequest)
    /\ WF_vars(SchedulerTerminated)
    /\ \A s \in CallSlots : /\ WF_vars(CqCreate(s)) /\ WF_vars(CqWrite(s))
                            /\ WF_vars(CqWritesDone(s)) /\ WF_vars(CqFinish(s))
                            /\ WF_vars(ServerRead(s)) /\ WF_vars(ServerApply(s))
                            /\ WF_vars(ServerFinish(s))
    /\ WF_vars(\E m \in orphans : ServerApplyOrphan(m))
    /\ \A w \in Writers : WF_vars(WriteResume(w)) /\ WF_vars(FlushReturn(w))
    /\ WF_vars(DestroyTerminate)

Spec == Init /\ [][Next]_vars /\ Fairness

-----------------------------------------------------------------------------
(* Properties                                                              *)

TypeOK ==
    /\ blocks \in Seq(Block)
    /\ blocksQueueSize \in Nat /\ cacheSize \in Nat
    /\ lock \in Writers \cup {None}
    /\ timerArmed \in BOOLEAN /\ handlerPending \in BOOLEAN
    /\ call \in [CallSlots -> CallData \cup {None}]
    /\ calls \in Seq(CallSlots) /\ channel \in Seq(Events)
    /\ flushing \in BOOLEAN /\ terminated \in BOOLEAN
    /\ stream \in [CallSlots -> Seq([eos : BOOLEAN, blocks : Seq(Block)])]
    /\ srvFinished \in [CallSlots -> BOOLEAN]
    /\ srvMsg \in [CallSlots -> Seq(Block) \cup {None}]
    /\ \A m \in orphans : m \in Seq(Block)
    /\ applied \in Seq(Ids)
    /\ pc \in [Threads -> {"idle", "backpressure", "flushwait", "joining"}]
    /\ waiting \in [Threads -> CallSlots \cup {None}]
    /\ pendingWrite \in [Writers -> Block \cup {None}]
    /\ flushMark \in [Writers -> Nat]
    /\ nextId \in 1 .. MaxWrites + 1 /\ nFlushes \in 0 .. MaxFlushes

Written == {i \in Ids : i < nextId} \ {pendingWrite[w].id : w \in {w \in Writers : pc[w] = "backpressure"}}
AppliedSet == Range(applied)

\* The server writes blocks in the order write() accepted them: every id is
\* applied at most once and after all smaller ids it applies.  Broken by
\* two flush calls transmitting at once (the scheduler's single-flight
\* rule) or by a call overtaking one scheduled before it.
AppliedInWriteOrder ==
    \A i, j \in 1 .. Len(applied) : i < j => applied[i] < applied[j]

\* cache_size_ is the number of bytes accepted by write() and not yet
\* acknowledged by a completed stream Write: the bytes in blocks_ plus the
\* bytes left in the deques of all live call_data.
CacheSizeAccounting ==
    cacheSize = SizeOf(blocks)
                + SumFunction([s \in LiveSlots |-> SizeOf(call[s].blocks)])

\* Backpressure bounds the buffered bytes: at most the configured cache
\* size plus one write is ever held unacknowledged.
BufferBounded == cacheSize <= CacheSize + Max(Sizes)

\* When flush()/fsync() returns to FUSE, every write that had returned
\* before the flush started has been written by the server.
FlushDurable ==
    [][\A w \in Writers :
         (pc[w] = "flushwait" /\ pc'[w] = "idle")
            => \A i \in 1 .. flushMark[w] - 1 : i \in AppliedSet]_vars

\* Unmount loses nothing: once the scheduler has terminated, every write
\* accepted before destroy has been written by the server.
TerminatedDurable == terminated => Written \subseteq AppliedSet

\* Every accepted write is eventually written by the server, through the
\* idle timer if nothing else flushes it.
EventuallyApplied == \A i \in Ids : (i \in Written) ~> (i \in AppliedSet)

\* A thread blocked on a flush future (backpressure, flush, destroy) is
\* eventually released.
WaitersReleased == \A t \in Threads : (waiting[t] # None) ~> (waiting[t] = None)

=============================================================================
