SPECIFICATION Spec
CONSTANTS
    None = None
    Classes <- MCClasses
    Prob <- MCProb
    Scale = 12
    TopK = 1
    Primary = "margin_drop"
    Operators <- MCOperators
    Declared <- MCDeclared
    ZThreshold = 2
    CvPercent = 20
    Tolerance = 5
    Family <- MCFamily
    Group <- MCGroup
    RegionTopK = 2
    Blank = Blank
    Knobs <- MCKnobs
    Lost = {2}
    Dumps <- MCDumps
    Followed <- MCFollowed
    Settings <- MCSettings
CHECK_DEADLOCK FALSE
INVARIANTS RefusalsAreExact RowsAreAccountedFor EvidenceIsSound ReportShowsTheTables RiskMeansAFlip
           IndependentPathsAgree StricterNeverRaises
