CONSTANTS
    Threads = {t1, t2}
    Paths = {p1}
    FileSize = 3
    PrefetchSize = 2
    Sizes = {1, 2}
    Faults = TRUE
    MaxWrites = 2
    None = None
SPECIFICATION Spec
INVARIANT TypeOK
INVARIANT ReadServesFileRange
CHECK_DEADLOCK FALSE
SYMMETRY MCThreadSymmetry
