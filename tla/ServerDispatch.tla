--------------------------- MODULE ServerDispatch ---------------------------
(***************************************************************************)
(* The completion-driven dispatch loop of the gRPC server                 *)
(* (fuse_rpc/grpc/server.cpp): run() pre-spawns PoolSize call_data        *)
(* objects per request kind on every completion queue, the pollers of a   *)
(* queue (handle_async_requests) take ready tags and call proceed, and    *)
(* each call_data re-arms the pool by spawning a sibling when its request *)
(* arrives.                                                                *)
(*                                                                         *)
(* A unary call_data (one class per operation, all of the same shape)     *)
(* goes PROCESS -> FINISHED -> deleted; a bidirectional stream call_data  *)
(* (stream_read_data, stream_write_data) goes CREATE -> READ -> WRITE ->  *)
(* READ ... -> FINISHED -> deleted.  ac_stream_write_data is modelled in  *)
(* WriteBack.  The backend call inside proceed is synchronous and is part *)
(* of the proceed step; what it computes is left out.                     *)
(*                                                                         *)
(* The gRPC runtime is modelled by what it promises: an incoming call is  *)
(* matched to a call_data that requested it, an operation a call_data     *)
(* started completes once by putting its tag on the call_data's queue,    *)
(* and a stream Read completes with ok = FALSE once the client has ended  *)
(* or broken the stream.  The destructor's shutdown and drain are left    *)
(* out: run() blocks in server_->Wait() and nothing calls Shutdown.       *)
(***************************************************************************)
EXTENDS Naturals, Sequences, FiniteSets, SequencesExt

CONSTANTS
    Queues,           \* config_.n_queues_ completion queues
    PollersPerQueue,  \* config_.n_pollers_per_queue_
    Unary,            \* unary request kinds (getattr_data, write_data, ...)
    PoolSize,         \* call_data pre-spawned per kind and queue (20)
    MaxRequests,      \* bound: requests the clients send in a behaviour
    MaxStreams,       \* bound: streams the clients open in a behaviour
    None

Stream == "stream"             \* stream_read_data / stream_write_data
Kinds == Unary \cup {Stream}
Pollers == Queues \X (1 .. PollersPerQueue)

\* Ids for every call_data a behaviour can create: the pool, one sibling per
\* unary request and one per stream.
MaxCallData == Cardinality(Queues) * Cardinality(Kinds) * PoolSize
               + MaxRequests + MaxStreams
CallIds == 1 .. MaxCallData
ReqIds == 1 .. MaxRequests
StreamIds == 1 .. MaxStreams

VARIABLES
    calls,      \* id -> [kind, q, status, req, stream] of a created call_data
    live,       \* ids of the call_data not yet deleted
    nextCall,   \* id of the next call_data
    pending,    \* <<id, op>>: an operation a call_data started, not complete
    cq,         \* queue -> tags <<id, ok>> ready for Next
    taken,      \* poller -> the tag it took from Next, or None
    unmatched,  \* unary requests and streams the server has not matched yet
    toSrv,      \* stream id -> requests the client wrote, not yet read
    closed,     \* streams the client ended (WritesDone) or that broke
    dropped,    \* requests lost with a broken stream
    answered,   \* requests whose reply reached the client
    nReqs, nStreams

vars == <<calls, live, nextCall, pending, cq, taken, unmatched,
          toSrv, closed, dropped, answered, nReqs, nStreams>>

\* A new call_data in its initial state; its constructor requests a call.
NewCall(k, q) == [kind |-> k, q |-> q, req |-> None, stream |-> None,
                  status |-> IF k = Stream THEN "CREATE" ELSE "PROCESS"]

\* run(): PoolSize call_data of every kind on every queue, ids 1 .. |Pool|.
Pool == SetToSeq(Queues \X Kinds \X (1 .. PoolSize))

Init ==
    /\ calls = [id \in CallIds |->
                  IF id <= Len(Pool) THEN NewCall(Pool[id][2], Pool[id][1])
                  ELSE NewCall(Stream, None)]
    /\ live = 1 .. Len(Pool)
    /\ nextCall = Len(Pool) + 1
    /\ pending = {<<id, "request">> : id \in 1 .. Len(Pool)}
    /\ cq = [q \in Queues |-> {}]
    /\ taken = [p \in Pollers |-> None]
    /\ unmatched = {}
    /\ toSrv = [s \in StreamIds |-> <<>>]
    /\ closed = {}
    /\ dropped = {}
    /\ answered = {}
    /\ nReqs = 0 /\ nStreams = 0

-----------------------------------------------------------------------------
(* Clients                                                                 *)

\* A unary call of kind k.
ClientCall(k) ==
    /\ nReqs < MaxRequests
    /\ nReqs' = nReqs + 1
    /\ unmatched' = unmatched \cup {[kind |-> k, id |-> nReqs + 1]}
    /\ UNCHANGED <<calls, live, nextCall, pending, cq, taken, toSrv, closed,
                   dropped, answered, nStreams>>

\* A client opens a stream (sync_client::create_streams).
ClientOpen ==
    /\ nStreams < MaxStreams
    /\ nStreams' = nStreams + 1
    /\ unmatched' = unmatched \cup {[kind |-> Stream, id |-> nStreams + 1]}
    /\ UNCHANGED <<calls, live, nextCall, pending, cq, taken, toSrv,
                   closed, dropped, answered, nReqs>>

\* A client writes a request on an open stream.
ClientWrite(s) ==
    /\ s <= nStreams /\ s \notin closed /\ nReqs < MaxRequests
    /\ nReqs' = nReqs + 1
    /\ toSrv' = [toSrv EXCEPT ![s] = Append(@, nReqs + 1)]
    /\ UNCHANGED <<calls, live, nextCall, pending, cq, taken, unmatched,
                   closed, dropped, answered, nStreams>>

\* WritesDone (remove_streams), or the connection breaks and the requests
\* the server has not read are lost.
ClientEnd(s) ==
    /\ s <= nStreams /\ s \notin closed
    /\ closed' = closed \cup {s}
    /\ \/ UNCHANGED <<toSrv, dropped>>
       \/ /\ dropped' = dropped \cup {toSrv[s][i] : i \in DOMAIN toSrv[s]}
          /\ toSrv' = [toSrv EXCEPT ![s] = <<>>]
    /\ UNCHANGED <<calls, live, nextCall, pending, cq, taken, unmatched,
                   answered, nReqs, nStreams>>

-----------------------------------------------------------------------------
(* The gRPC runtime                                                        *)

\* An incoming call is matched to a call_data that requested its kind, on
\* any queue; the call_data's tag becomes ready with ok = TRUE.
Match(id) ==
    /\ <<id, "request">> \in pending
    /\ \E c \in unmatched :
         /\ c.kind = calls[id].kind
         /\ unmatched' = unmatched \ {c}
         /\ calls' = [calls EXCEPT ![id] =
                        [@ EXCEPT !.req = IF c.kind = Stream THEN None ELSE c.id,
                                  !.stream = IF c.kind = Stream THEN c.id ELSE None]]
    /\ pending' = pending \ {<<id, "request">>}
    /\ cq' = [cq EXCEPT ![calls[id].q] = @ \cup {<<id, TRUE>>}]
    /\ UNCHANGED <<live, nextCall, taken, toSrv, closed, dropped,
                   answered, nReqs, nStreams>>

\* A stream Read completes: with the next request, or with ok = FALSE once
\* the client has ended the stream and nothing is left to read.
ReadDone(id) ==
    /\ <<id, "read">> \in pending
    /\ LET s == calls[id].stream
       IN  \/ /\ toSrv[s] # <<>>
              /\ calls' = [calls EXCEPT ![id].req = Head(toSrv[s])]
              /\ toSrv' = [toSrv EXCEPT ![s] = Tail(@)]
              /\ cq' = [cq EXCEPT ![calls[id].q] = @ \cup {<<id, TRUE>>}]
           \/ /\ toSrv[s] = <<>> /\ s \in closed
              /\ cq' = [cq EXCEPT ![calls[id].q] = @ \cup {<<id, FALSE>>}]
              /\ UNCHANGED <<calls, toSrv>>
    /\ pending' = pending \ {<<id, "read">>}
    /\ UNCHANGED <<live, nextCall, taken, unmatched, closed, dropped,
                   answered, nReqs, nStreams>>

\* A Write or Finish carrying a reply completes: the reply reaches the
\* client (a unary Finish carries the reply, a stream Finish only the
\* status).
SendDone(id) ==
    /\ \E op \in {"write", "finish"} :
         /\ <<id, op>> \in pending
         /\ pending' = pending \ {<<id, op>>}
         /\ answered' = IF calls[id].req # None /\ (op = "write" \/ calls[id].kind # Stream)
                        THEN answered \cup {calls[id].req} ELSE answered
    /\ cq' = [cq EXCEPT ![calls[id].q] = @ \cup {<<id, TRUE>>}]
    /\ UNCHANGED <<calls, live, nextCall, taken, unmatched, toSrv,
                   closed, dropped, nReqs, nStreams>>

-----------------------------------------------------------------------------
(* handle_async_requests and call_data::proceed                           *)

\* cq->Next on the poller's queue.
Next_(p) ==
    /\ taken[p] = None
    /\ \E tag \in cq[p[1]] :
         /\ taken' = [taken EXCEPT ![p] = tag]
         /\ cq' = [cq EXCEPT ![p[1]] = @ \ {tag}]
    /\ UNCHANGED <<calls, live, nextCall, pending, unmatched, toSrv,
                   closed, dropped, answered, nReqs, nStreams>>

\* The end of one branch of proceed: the call_data takes status st and
\* starts the operations ops; with sib it first spawns its sibling, a new
\* call_data of the same kind on the same queue.
Proceed(p, st, ops, sib) ==
    LET id == taken[p][1]
    IN  /\ calls' = [calls EXCEPT ![id].status = st,
                                  ![nextCall] = IF sib THEN NewCall(calls[id].kind, calls[id].q)
                                                       ELSE @]
        /\ live' = IF sib THEN live \cup {nextCall} ELSE live
        /\ nextCall' = IF sib THEN nextCall + 1 ELSE nextCall
        /\ pending' = pending \cup {<<id, op>> : op \in ops}
                              \cup (IF sib THEN {<<nextCall, "request">>} ELSE {})
        /\ taken' = [taken EXCEPT ![p] = None]
        /\ UNCHANGED <<cq, unmatched, toSrv, closed, dropped, answered, nReqs,
                       nStreams>>

\* default: GPR_ASSERT(call_status_ == FINISHED); delete this.
Delete(p) ==
    /\ calls[taken[p][1]].status = "FINISHED"
    /\ live' = live \ {taken[p][1]}
    /\ taken' = [taken EXCEPT ![p] = None]
    /\ UNCHANGED <<calls, nextCall, pending, cq, unmatched, toSrv, closed,
                   dropped, answered, nReqs, nStreams>>

Taken(p, k, st) ==
    /\ taken[p] # None
    /\ (calls[taken[p][1]].kind = Stream) = (k = Stream)
    /\ calls[taken[p][1]].status = st

\* Mutant: the sibling is not spawned.
UnaryProcessNoSibling(p) ==
    /\ Taken(p, "unary", "PROCESS")
    /\ Proceed(p, "FINISHED", {"finish"}, FALSE)

\* Unary PROCESS (ok ignored): new sibling, the backend call, set
\* FINISHED, then responder_.Finish with the reply.
UnaryProcess(p) ==
    /\ Taken(p, "unary", "PROCESS")
    /\ Proceed(p, "FINISHED", {"finish"}, TRUE)

\* Mutant: the sibling is spawned at the top of proceed, in every state.
UnaryFinishedSpawns(p) ==
    /\ Taken(p, "unary", "FINISHED")
    /\ LET id == taken[p][1]
       IN  /\ calls' = [calls EXCEPT ![nextCall] = NewCall(calls[id].kind, calls[id].q)]
           /\ live' = (live \ {id}) \cup {nextCall}
           /\ nextCall' = nextCall + 1
           /\ pending' = pending \cup {<<nextCall, "request">>}
           /\ taken' = [taken EXCEPT ![p] = None]
           /\ UNCHANGED <<cq, unmatched, toSrv, closed, dropped, answered,
                          nReqs, nStreams>>

UnaryFinished(p) == Taken(p, "unary", "FINISHED") /\ Delete(p)

\* Stream CREATE: new sibling, READ, stream_.Read.
StreamCreate(p) ==
    /\ Taken(p, Stream, "CREATE")
    /\ Proceed(p, "READ", {"read"}, TRUE)

\* Mutant: the next Read is started together with the Write of the reply.
StreamReadPipelined(p) ==
    /\ Taken(p, Stream, "READ") /\ taken[p][2]
    /\ Proceed(p, "WRITE", {"write", "read"}, FALSE)

\* READ ok: the backend call, WRITE, stream_.Write(reply_).
StreamRead(p) ==
    /\ Taken(p, Stream, "READ") /\ taken[p][2]
    /\ Proceed(p, "WRITE", {"write"}, FALSE)

\* Mutant: a failed Read is retried instead of finishing the call.
StreamReadEndRetry(p) ==
    /\ Taken(p, Stream, "READ") /\ ~taken[p][2]
    /\ Proceed(p, "READ", {"read"}, FALSE)

\* READ not ok (the client ended the stream): FINISHED, stream_.Finish.
StreamReadEnd(p) ==
    /\ Taken(p, Stream, "READ") /\ ~taken[p][2]
    /\ Proceed(p, "FINISHED", {"finish"}, FALSE)

\* WRITE (ok ignored): READ, stream_.Read.
StreamWrite(p) ==
    /\ Taken(p, Stream, "WRITE")
    /\ Proceed(p, "READ", {"read"}, FALSE)

StreamFinished(p) == Taken(p, Stream, "FINISHED") /\ Delete(p)

ProceedSteps(p) ==
    \/ UnaryProcess(p) \/ UnaryFinished(p)
    \/ StreamCreate(p) \/ StreamRead(p) \/ StreamReadEnd(p) \/ StreamWrite(p)
    \/ StreamFinished(p)

Next ==
    \/ \E k \in Unary : ClientCall(k)
    \/ ClientOpen
    \/ \E s \in StreamIds : ClientWrite(s) \/ ClientEnd(s)
    \/ \E id \in CallIds : Match(id) \/ ReadDone(id) \/ SendDone(id)
    \/ \E p \in Pollers : Next_(p) \/ ProceedSteps(p)

\* The runtime completes what it was asked to, and every poller thread
\* loops on Next and proceed; clients are free to stop.
Fairness ==
    /\ \A id \in CallIds : WF_vars(Match(id)) /\ WF_vars(ReadDone(id))
                          /\ WF_vars(SendDone(id))
    /\ \A p \in Pollers : WF_vars(Next_(p)) /\ WF_vars(ProceedSteps(p))

Spec == Init /\ [][Next]_vars /\ Fairness

-----------------------------------------------------------------------------
(* Properties                                                              *)

Status == {"PROCESS", "CREATE", "READ", "WRITE", "FINISHED"}

TypeOK ==
    /\ nextCall \in 1 .. MaxCallData + 1
    /\ live \subseteq 1 .. nextCall - 1
    /\ \A id \in live : calls[id].kind \in Kinds /\ calls[id].status \in Status
    /\ pending \subseteq CallIds \X {"request", "read", "write", "finish"}
    /\ cq \in [Queues -> SUBSET (CallIds \X BOOLEAN)]
    /\ taken \in [Pollers -> (CallIds \X BOOLEAN) \cup {None}]
    /\ closed \subseteq StreamIds /\ dropped \subseteq ReqIds
    /\ answered \subseteq ReqIds

\* Where a call_data is: waiting on an operation it started, as a ready tag
\* in a completion queue, or in the proceed of a poller.
Places(id) ==
    {<<"op", op>> : op \in {op \in {"request", "read", "write", "finish"} :
                               <<id, op>> \in pending}}
    \cup {<<"cq", q>> : q \in {q \in Queues : \E ok \in BOOLEAN : <<id, ok>> \in cq[q]}}
    \cup {<<"poller", p>> : p \in {p \in Pollers : taken[p] # None /\ taken[p][1] = id}}

\* Every call_data is in exactly one place until it deletes itself, and in
\* none after: proceed always leaves exactly one operation outstanding (a
\* stream never has two pending Reads, or a Read and a Write), so no two
\* pollers run proceed on one call_data at once, none is leaked with
\* nothing left to complete, and no tag of a deleted call_data is left.
CallDataTracked ==
    \A id \in 1 .. nextCall - 1 :
        Cardinality(Places(id)) = IF id \in live THEN 1 ELSE 0

\* Every request a client sends is eventually answered, unless it was lost
\* with its stream: the pool re-arms itself, so a call of every kind can
\* always be accepted on every queue.
RequestsAnswered ==
    \A r \in ReqIds : (r <= nReqs) ~> (r \in answered \cup dropped)

\* Once a client has ended a stream, its call_data eventually finishes and
\* deletes itself.
StreamsEnd ==
    \A s \in StreamIds :
        (s \in closed) ~> ~\E id \in live : calls[id].stream = s

=============================================================================
