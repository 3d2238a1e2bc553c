CONSTANTS
    Threads = {t1}
    Dirs = {"root", "d"}
    Leaves = {"a", "b"}
    Parent <- MCParent
    Inos = {i1, i2}
    MaxFd = 1
    Vals = {1}
    MknodKinds = {"fifo", "sock"}
    Modes = {"local", "nfs"}
    Faults = {"nfs"}
    DirPaths = {"root"}
    Addrs = {a1}
    None = None
SPECIFICATION Spec
INVARIANT TypeOK
INVARIANT NamespaceDurable
INVARIANT DataDurable
SYMMETRY MCInoSymmetry
