--------------------------- MODULE MCSyncStreams ---------------------------
EXTENDS SyncStreams, TLC

\* Threads and stream slots are interchangeable.
MCSymmetry == Permutations(Threads) \cup Permutations(Slots)
====
