CONSTANTS
    Threads = {t1}
    Paths = {p1}
    FileSize = 3
    PrefetchSize = 2
    Sizes = {1, 2}
    Faults = FALSE
    MaxWrites = 1
    None = None
SPECIFICATION Spec
INVARIANT ReadReturnsFileBytes
CHECK_DEADLOCK FALSE
