CONSTANTS
    Threads = {t1, t2}
    Paths = {p1}
    FileSize = 3
    PrefetchSize = 2
    Sizes = {1, 2}
    Faults = FALSE
    MaxWrites = 0
    None = None
SPECIFICATION Spec
INVARIANT NoMissingBuffer
CHECK_DEADLOCK FALSE
