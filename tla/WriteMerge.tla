----------------------------- MODULE WriteMerge -----------------------------
(***************************************************************************)
(* The block-merge rule of the write-back client (async_client.cpp,       *)
(* call_data::send_block and block::is_mergeable): a message starts with   *)
(* the first pending block of a flush call and absorbs the following      *)
(* blocks while each one continues the previous byte range of the same   *)
(* path with the same open-file flags and the merged buffer stays within  *)
(* the configured block size (max_block_size_).                          *)
(***************************************************************************)
EXTENDS Integers, Sequences, SequencesExt

CONSTANT MaxMerge   \* async_client::config::block_size_ (max_block_size_)

\* A pending write block: its write id, path, byte offset, size and the
\* snapshot of the fuse_file_info fields compared by is_mergeable.
\* block::is_mergeable: same path, exactly contiguous, identical fi_.
IsMergeable(last, next) ==
    /\ last.path = next.path
    /\ last.off + last.size = next.off
    /\ last.fi = next.fi

\* The loop of send_block: blocks 1..i are already in the message of
\* bufSize bytes; the next one is taken if it fits and is mergeable,
\* otherwise the loop breaks and i blocks are sent (n_blocks_sent_).
\* Mutant: the size test written with < instead of <=.
RECURSIVE MergeFromLt(_, _, _)
MergeFromLt(bs, i, bufSize) ==
    IF /\ i < Len(bs)
       /\ bufSize + bs[i + 1].size < MaxMerge
       /\ IsMergeable(bs[i], bs[i + 1])
    THEN MergeFromLt(bs, i + 1, bufSize + bs[i + 1].size)
    ELSE i

RECURSIVE MergeFrom(_, _, _)
MergeFrom(bs, i, bufSize) ==
    IF /\ i < Len(bs)
       /\ bufSize + bs[i + 1].size <= MaxMerge
       /\ IsMergeable(bs[i], bs[i + 1])
    THEN MergeFrom(bs, i + 1, bufSize + bs[i + 1].size)
    ELSE i

\* n_blocks_sent_ for a non-empty deque of blocks.
NBlocksSent(bs) == MergeFrom(bs, 1, bs[1].size)

\* The bytes a prefix of blocks carries.
SizeOf(bs) == FoldLeft(LAMBDA acc, b : acc + b.size, 0, bs)

\* The message a flush call sends for the blocks at the front of its deque.
Message(bs) == SubSeq(bs, 1, NBlocksSent(bs))

=============================================================================
