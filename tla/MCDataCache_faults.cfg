CONSTANTS
    Readers = {r1, r2}
    BlockSize = 1
    Budget = 1
    MaxLen = 3
    Reqs <- MCReqsSmall
    Policy = "lru"
    TimeOut = FALSE
    Truncate = FALSE
    Faults = TRUE
    MaxVersion = 1
    MaxReads = 2
    None = None
SPECIFICATION Spec
INVARIANT CacheSizeAccounting
SYMMETRY MCReaderSymmetry
