SPECIFICATION MeasureSpec
CONSTANTS
    s1 = s1
    s2 = s2
    a = a
    b = b
    c = c
    e = e
    absent = absent
    noLimit = noLimit
    Samples <- TwoSamples
    Chunks <- ThreeChunks
    Shape <- Shapes
    TargetBatchSize = 4
    MaxBatchSize = 3
    NoLimit = noLimit
    FailFastModes = {TRUE, FALSE}
    Absent = absent
    absence = absence
    Absence = absence
    Verdict <- MCVerdict
    Width <- MCWidth
    Bytes <- MCBytes
    Situations <- MCSituations
CHECK_DEADLOCK FALSE
INVARIANTS BatchesAreSound EstimateIsSound
PROPERTIES SubmissionsFollowTheCap CancelIsObserved ImplementsWorkList RunEnds
