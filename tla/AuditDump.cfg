SPECIFICATION Spec
CONSTANTS
    a = a
    b = b
    c = c
    s1 = s1
    s2 = s2
    Items <- MCItems
    Chunks <- MCChunks
    Samples <- OneSample
    ok = ok
    failed = failed
    absent = absent
    OK = ok
    Absent = absent
    Statuses <- MCStatuses
    FlushEvery = 2
    RetryFailed = TRUE
    MaxOrd = 4
    MaxFaults = 2
SYMMETRY Swap
INVARIANTS IndexBacked FinishedIsComplete CountsMatchDisk
PROPERTIES PublishedIsImmutable LatestOnlyAdvances ImplementsResultLog
