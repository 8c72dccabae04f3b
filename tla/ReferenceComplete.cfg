SPECIFICATION Spec
CONSTANTS
    None = None
    Torn = Torn
    Batches <- MCBatches
    Audits <- MCAudits
    Cells <- MCCells
    Controls = 2
    FlushAt = 3
    Limits <- MCLimits
    MaxKills = 0
    MaxEdits = 0
CHECK_DEADLOCK FALSE
INVARIANTS CompleteMeansWhole
