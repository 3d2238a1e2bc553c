CONSTANTS
    Readers = {r1, r2}
    BlockSize = 2
    Budget = 2
    MaxLen = 3
    Reqs <- MCReqs
    Policy = "rnd"
    TimeOut = TRUE
    Truncate = FALSE
    Faults = TRUE
    MaxVersion = 1
    MaxReads = 2
    None = None
SPECIFICATION Spec
INVARIANT NoLeakedBlock
