SPECIFICATION FairSpec
CONSTANTS
    None = None
    Torn = Torn
    Batches <- MCBatches
    Audits <- MCAudits
    Cells <- MCCells
    Controls = 2
    FlushAt = 3
    Limits <- MCLimits
    MaxKills = 2
    MaxEdits = 1
CHECK_DEADLOCK FALSE
INVARIANTS StoreIsConsistent
PROPERTIES CompletedRowsAreFinal ResumedAuditsFinish
