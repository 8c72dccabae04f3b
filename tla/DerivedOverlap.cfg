SPECIFICATION Spec
CONSTANTS
    None = None
    Torn = Torn
    NMetrics = 2
    NAnalysis = 2
    Tallies <- TwoTallies
    Overlap = TRUE
    MaxRows = 1
    MaxSessions = 1
    MaxStamps = 1
    MaxFaults = 0
CHECK_DEADLOCK FALSE
INVARIANTS AcceptedMetricsAreCurrent
