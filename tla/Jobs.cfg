SPECIFICATION SuiteSpec
CONSTANTS
    j1 = j1
    j2 = j2
    w1 = w1
    w2 = w2
    c1 = c1
    c2 = c2
    Jobs = {j1, j2}
    Threads = {w1, w2}
    MaxJobs = 2
    Spots = {s1}
    Workers = {w1, w2}
    PreSolvers = {p}
    MaxCalls = 1
INVARIANTS QueuesSafe InProcessSafe SidecarSafe
PROPERTY WorkEnds
CHECK_DEADLOCK FALSE
