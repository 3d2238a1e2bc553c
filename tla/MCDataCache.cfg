CONSTANTS
    Readers = {r1, r2}
    BlockSize = 2
    Budget = 2
    MaxLen = 3
    Reqs <- MCReqs
    Policy = "rnd"
    TimeOut = TRUE
    Truncate = FALSE
    Faults = FALSE
    MaxVersion = 1
    MaxReads = 2
    None = None
SPECIFICATION Spec
INVARIANT TypeOK
INVARIANT CacheSizeAccounting
INVARIANT NoLeakedBlock
INVARIANT ReadNotOlderThanOpen
SYMMETRY MCReaderSymmetry
