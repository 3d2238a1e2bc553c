--------------------------- MODULE MCNfsBackend ----------------------------
EXTENDS NfsBackend, TLC

\* a in the export root, b in its subdirectory d.
MCParent == [l \in Leaves |-> IF l = "b" THEN "d" ELSE "root"]

\* Inode numbers are interchangeable, and so are server threads.
MCInoSymmetry == Permutations(Inos)
MCSymmetry == Permutations(Threads) \cup Permutations(Inos)
====
