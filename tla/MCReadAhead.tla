---------------------------- MODULE MCReadAhead ----------------------------
(***************************************************************************)
(* Model-checking instance of ReadAhead.  With FileSize 3, PrefetchSize 2 *)
(* and request sizes 1 and 2, a read can hit inside a buffer, straddle its *)
(* end, start at EOF, or be cut short by EOF, and a fetch is longer than  *)
(* a 1-byte request.                                                      *)
(***************************************************************************)
EXTENDS ReadAhead, TLC

MCThreadSymmetry == Permutations(Threads)

=============================================================================
