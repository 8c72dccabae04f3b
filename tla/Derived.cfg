SPECIFICATION Spec
CONSTANTS
    None = None
    Torn = Torn
    NMetrics = 2
    NAnalysis = 2
    Tallies <- TwoTallies
    Overlap = FALSE
    MaxRows = 2
    MaxSessions = 2
    MaxStamps = 4
    MaxFaults = 2
CHECK_DEADLOCK FALSE
INVARIANTS AcceptedStoresAreCurrent JoinsAreOfOneDump LabelsAreNotOlderThanTheirReport
PROPERTIES ImplementsSnapshot
