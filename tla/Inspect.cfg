SPECIFICATION InspectSpec
CONSTANTS
    a = a
    b = b
    s1 = s1
    ok = ok
    failed = failed
    absent = absent
    Items <- MCItems
    Chunks <- MCChunks
    Samples <- MCSamples
    OK = ok
    Absent = absent
    Statuses <- MCStatuses
    FlushEvery = 1
    RetryFailed = FALSE
    MaxOrd = 4
    MaxFaults = 1
SYMMETRY Swap
INVARIANTS ReadsAreOfOneMoment EstimateCoversTheRun
PROPERTIES EmptyEstimateIsFinal
