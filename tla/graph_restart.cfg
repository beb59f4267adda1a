SPECIFICATION FairSpec
CONSTANTS
    Job = j1
    Threads = {t1, t2}
    CliProcs = {p1}
    Nobody = Nobody
    Absent = Absent
    Torn = Torn
    Partial = Partial
    Theirs = Theirs
    MaxInputs = 1
    MaxFailures = 1
    MaxRequests = 2
    MaxCliRuns = 1
    MaxStops = 1
    Evictions = TRUE
INVARIANT NeverServesTorn
PROPERTIES WholeGraphKept GraphRequestReturns
CHECK_DEADLOCK FALSE
