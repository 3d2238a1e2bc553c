CONSTANTS
    Threads = {t1, t2}
    Dirs = {"root", "d"}
    Leaves = {"a", "b"}
    Parent <- MCParent
    Inos = {i1, i2}
    MaxFd = 1
    Vals = {1}
    MknodKinds = {"sock"}
    Modes = {"local", "nfs"}
    Faults = {}
    DirPaths = {"root", "d"}
    Addrs = {a1}
    None = None
SPECIFICATION Spec
INVARIANT DirHandlesValid
SYMMETRY MCSymmetry
