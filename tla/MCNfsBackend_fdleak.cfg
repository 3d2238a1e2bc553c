CONSTANTS
    Threads = {t1}
    Dirs = {"root", "d"}
    Leaves = {"a", "b"}
    Parent <- MCParent
    Inos = {i1, i2}
    MaxFd = 1
    Vals = {1}
    MknodKinds = {"sock"}
    Modes = {"nfs"}
    Faults = {"nfs"}
    DirPaths = {"root"}
    Addrs = {a1}
    None = None
SPECIFICATION Spec
INVARIANT FdsHeld
