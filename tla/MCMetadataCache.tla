-------------------------- MODULE MCMetadataCache --------------------------
EXTENDS MetadataCache, TLC

CONSTANTS root, d, x, f

\* The tree: root holds the directory d and the file f; d holds x.
MCPaths == {root, d, x, f}
MCParent == (root :> root) @@ (d :> root) @@ (f :> root) @@ (x :> d)

\* Mutating calls on files only (no directory rename), no write.
MCFileCalls ==
    {PathAndParent("unlink", f), PathAndParent("mknod", x), Attr("chmod", x),
     Handle("open", f), Handle("flush", x), Link(x, f), Symlink(f, x),
     Rename(f, x)}

\* Threads are interchangeable.
MCThreadSymmetry == Permutations(Threads)

MCWriteCalls == {Attr("chmod", f), Write(f)}

MCRenameDirCalls == {Rename(d, f)}
====
