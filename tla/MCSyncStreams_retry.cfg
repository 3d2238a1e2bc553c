CONSTANTS
    Threads = {t1}
    Paths = {p1}
    Modes = {{"w"}}
    Slots = {s1, s2}
    Faults = TRUE
    None = None
SPECIFICATION Spec
INVARIANT WriteAppliedOnce
