CONSTANTS
    Threads = {t1, t2}
    Paths = {p1}
    Slots = {s1, s2, s3, s4}
    Modes = {{"r", "w"}}
    Faults = TRUE
    None = None
SPECIFICATION Spec
INVARIANT TypeOK
INVARIANT ReplyMatchesRequest
INVARIANT LocksHeldInExchange
SYMMETRY MCSymmetry
