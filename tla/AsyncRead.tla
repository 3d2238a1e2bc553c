------------------------------ MODULE AsyncRead ------------------------------
(***************************************************************************)
(* Reads composed with the asynchronous write-back pipeline.              *)
(* async_client derives from sync_client and overrides only write, flush  *)
(* and fsync (async_client.hpp), so read is sync_client::read: it asks    *)
(* the server, over the path's read stream or a unary Read, and never     *)
(* looks at blocks_ or at the call_data still transmitting.  The stream   *)
(* mechanics of that read are the subject of SyncStreams; here a read is  *)
(* one step that returns what the server's backend holds, abstracted, as  *)
(* in WriteBack, to the set of write ids the server has applied.  A read  *)
(* whose request fails returns -1 and no data, and is left out.           *)
(***************************************************************************)
EXTENDS WriteBack

VARIABLES
    got,        \* writer -> ids whose bytes its last read returned
    expected    \* writer -> ids whose write() had returned when it read

readVars == <<vars, got, expected>>

\* sync_client::read called by an idle FUSE thread: the reply carries the
\* server's data.
Read(w) ==
    /\ Accepting /\ pc[w] = "idle"
    /\ got' = [got EXCEPT ![w] = AppliedSet]
    /\ expected' = [expected EXCEPT ![w] = Written]
    /\ UNCHANGED vars

ReadInit == Init /\ got = [w \in Writers |-> {}]
                 /\ expected = [w \in Writers |-> {}]

ReadNext ==
    \/ Next /\ UNCHANGED <<got, expected>>
    \/ \E w \in Writers : Read(w)

ReadSpec == ReadInit /\ [][ReadNext]_readVars

\* Read-your-writes (spec section 1: the caches never serve stale data;
\* section 4.5: write returns once the block is buffered): a read returns
\* the bytes of every write that had returned before it was issued.
ReadSeesWrites == \A w \in Writers : expected[w] \subseteq got[w]

=============================================================================
