---------------------------- MODULE MCDataCache ----------------------------
(* Model values for DataCache: read arguments that start inside the first *)
(* block, straddle both blocks, and start inside the last block.          *)
EXTENDS DataCache, TLC

MCReqs == {<<0, 3>>, <<1, 2>>, <<3, 1>>}

\* One-byte blocks: a read of the whole file and one of its last two bytes.
MCReqsSmall == {<<0, 3>>, <<1, 2>>}

\* With three-byte blocks and a four-byte file: a read inside the file and
\* one that starts two bytes past its end, inside the last block.
MCReqsEOF == {<<0, 4>>, <<5, 1>>}

\* The readers are interchangeable threads.
MCReaderSymmetry == Permutations(Readers)
====
