CONSTANTS
    Threads = {t1, t2}
    Paths = {p1}
    Slots = {s1, s2, s3}
    Modes = {{"r"}, {"w"}, {"r", "w"}}
    Faults = TRUE
    None = None
SPECIFICATION Spec




INVARIANT NoUseAfterErase
