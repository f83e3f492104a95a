SPECIFICATION Spec
CONSTANTS
    d1 = d1
    d2 = d2
    d3 = d3
    c1 = c1
    c2 = c2
    t1 = t1
    t2 = t2
    NoDispatch = NoDispatch
    Dispatches = {d1, d2, d3}
    Commands = {c1, c2}
    CommandOf <- MCCommandOf
    Threads = {t1, t2}
    ThreadOf <- MCTwoThreads
    MaxBatch = 2
    ReadLimit = 10
    Deadlines = TRUE
    Faults = {}
    MaxRestarts = 0
    MaxMaintenance = 0
INVARIANT NoSkippedRefresh
CHECK_DEADLOCK FALSE
