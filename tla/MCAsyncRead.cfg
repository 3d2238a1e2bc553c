CONSTANTS
    Writers = {w1}
    Paths = {p1}
    Offsets = {0}
    Sizes = {1}
    Flags = {f1}
    CacheSize = 2
    ThresholdPct = 50
    MaxMerge = 2
    MaxFlushes = 1
    CallSlots <- MCReadCallSlots
    None = None
    MaxWrites = 1
    Faults = FALSE
SPECIFICATION ReadSpec
INVARIANT ReadSeesWrites
CHECK_DEADLOCK FALSE
