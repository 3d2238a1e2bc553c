CONSTANTS
    root = root
    d = d
    x = x
    f = f
    Threads = {t1}
    Paths <- MCPaths
    Parent <- MCParent
    Size = 2
    Policy = "lru"
    TimeOut = TRUE
    Calls <- MCFileCalls
    MaxCalls = 3
    None = None
SPECIFICATION Spec
INVARIANT CacheCurrent
