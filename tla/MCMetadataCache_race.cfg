CONSTANTS
    root = root
    d = d
    x = x
    f = f
    Threads = {t1, t2}
    Paths <- MCPaths
    Parent <- MCParent
    Size = 2
    Policy = "lru"
    TimeOut = FALSE
    Calls <- MCFileCalls
    MaxCalls = 2
    None = None
SPECIFICATION Spec
INVARIANT CacheCurrent
