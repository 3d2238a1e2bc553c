CONSTANTS
    Writers = {w1, w2}
    Paths = {p1}
    Offsets = {0, 1}
    Sizes = {1, 2}
    Flags = {f1}
    CacheSize = 2
    ThresholdPct = 50
    MaxMerge = 2
    MaxWrites = 3
    MaxFlushes = 1
    CallSlots <- MCCallSlots
    Faults = FALSE
    None = None
SPECIFICATION Spec
INVARIANT TypeOK
INVARIANT MergeMatchesRule
INVARIANT AppliedInWriteOrder
INVARIANT CacheSizeAccounting
INVARIANT BufferBounded
INVARIANT TerminatedDurable
PROPERTY FlushDurable
CHECK_DEADLOCK FALSE
SYMMETRY MCWriterSymmetry
