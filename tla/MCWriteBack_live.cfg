CONSTANTS
    Writers = {w1, w2}
    Paths = {p1}
    Offsets = {0, 1}
    Sizes = {1, 2}
    Flags = {f1}
    CacheSize = 2
    ThresholdPct = 50
    MaxMerge = 2
    MaxFlushes = 1
    CallSlots <- MCCallSlots
    None = None
    MaxWrites = 2
    Faults = FALSE
SPECIFICATION Spec
PROPERTY EventuallyApplied
CHECK_DEADLOCK FALSE
