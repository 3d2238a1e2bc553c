CONSTANTS
    Readers = {r1, r2}
    BlockSize = 2
    Budget = 2
    MaxLen = 3
    Reqs <- MCReqs
    Policy = "lru"
    TimeOut = FALSE
    Truncate = FALSE
    Faults = TRUE
    MaxVersion = 1
    MaxReads = 3
    None = None
SPECIFICATION Spec
INVARIANT ReadNotOlderThanOpen
SYMMETRY MCReaderSymmetry
