SPECIFICATION Spec
CONSTANTS
    Job = j1
    Threads = {t1, t2}
    CliProcs = {p1, p2}
    Nobody = Nobody
    Absent = Absent
    Torn = Torn
    Partial = Partial
    Theirs = Theirs
    MaxInputs = 2
    MaxFailures = 0
    MaxRequests = 2
    MaxCliRuns = 2
    MaxStops = 0
    Evictions = FALSE
SYMMETRY Interchangeable
INVARIANTS CurrentMeansFresh CliServesWhatItSaw ServesWhatItSaw
CHECK_DEADLOCK FALSE
