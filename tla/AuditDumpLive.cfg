SPECIFICATION FairSpec
CONSTANTS
    a = a
    b = b
    c = c
    s1 = s1
    s2 = s2
    Items <- MCPairs
    Chunks <- MCOneChunk
    Samples <- OneSample
    ok = ok
    failed = failed
    absent = absent
    OK = ok
    Absent = absent
    Statuses <- MCStatuses
    FlushEvery = 1
    RetryFailed = FALSE
    MaxOrd = 6
    MaxFaults = 2
PROPERTIES RepeatedRunsComplete
