SPECIFICATION FairSpec
CONSTANTS
    None = None
    Undecodable = Undecodable
    Untracked = Untracked
    New = New
    SubPixels = 4
    Bitmap <- MCBitmap
    Tracks <- MCTracks
    MarginPercent = 25
    MinValidJoints = 1
    Frames <- MCFrames
    Levels <- MCLevels
    Channels <- MCChannels
    PartsTracked <- MCPartsTracked
    UnitsPerDigit = 10
    Configs <- MCConfigs
    Contents <- MCContents
    CacheSize = 1
    MaxWorkers = 2
    Prefetch = 2
    MaxReplaced = 1
    AdapterConfigs <- MCAdapterConfigs
    AdapterFrames <- MCAdapterFrames
    SourceConfigs <- MCSourceConfigs
    Registrations <- MCRegistrations
    MaxClip = 9
    StrategyTypes <- MCStrategyTypes
    RawPerturbations <- MCRawPerturbations
    RawRegions <- MCRawRegions
    Tenths = 10
    NotANumber = NotANumber
CHECK_DEADLOCK FALSE
INVARIANTS PlanIsSound PlanIsStable MasksAreWhatTheyClaim PreparedAreSound InputsAreSound
PROPERTIES EveryChunkIsAccepted
