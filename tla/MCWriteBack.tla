---------------------------- MODULE MCWriteBack ----------------------------
(***************************************************************************)
(* Model-checking instance of WriteBack.  CallSlots is large enough that  *)
(* schedule_flush never waits for a free slot: each write schedules at    *)
(* most one call and arms the timer at most once, and flush and destroy   *)
(* schedule one each.                                                     *)
(***************************************************************************)
EXTENDS WriteBack, TLC

MCCallSlots == 1 .. (2 * MaxWrites + MaxFlushes + 1)

MCWriterSymmetry == Permutations(Writers)

(***************************************************************************)
(* The merge loop of send_block, checked against a direct definition of   *)
(* the rule of the spec (section 4.5, block merge rule) over every deque  *)
(* of up to three blocks drawn from two paths, two flag snapshots, three  *)
(* offsets and sizes 1..3 (so a lone block can exceed MaxMerge).  The     *)
(* claim is about constants only, so it is evaluated in the states before *)
(* the first write (the initial state) and taken as TRUE after it.        *)
(***************************************************************************)
MergeBlock == [path : {1, 2}, off : 0 .. 2, size : 1 .. 3, fi : {1, 2}]

MergeDeques == {s \in BoundedSeq(MergeBlock, 3) : s # <<>>}

\* Reference: the longest prefix whose consecutive blocks are all mergeable
\* and whose total size fits MaxMerge; a lone first block is always sent,
\* even when it alone is larger than MaxMerge.
MergeRef(bs) ==
    LET ok(n) == \/ n = 1
                 \/ /\ SizeOf(SubSeq(bs, 1, n)) <= MaxMerge
                    /\ \A i \in 1 .. n - 1 : IsMergeable(bs[i], bs[i + 1])
    IN CHOOSE n \in 1 .. Len(bs) : ok(n) /\ \A m \in n + 1 .. Len(bs) : ~ok(m)

\* send_block sends exactly the maximal mergeable prefix of the deque: no
\* write is split from a contiguous run it fits in, and no message mixes
\* paths, flags, gaps or exceeds the block size (unless it is one block).
MergeMatchesRule ==
    nextId = 1 => \A bs \in MergeDeques : NBlocksSent(bs) = MergeRef(bs)

=============================================================================
