CONSTANTS
    Readers = {r1}
    BlockSize = 3
    Budget = 3
    MaxLen = 4
    Reqs <- MCReqsEOF
    Policy = "rnd"
    TimeOut = FALSE
    Truncate = FALSE
    Faults = FALSE
    MaxVersion = 0
    MaxReads = 2
    None = None
SPECIFICATION Spec
INVARIANT ReadReturnsFileBytes
