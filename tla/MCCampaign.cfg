SPECIFICATION FairSpec
CONSTANTS
    Hand = Hand
    NoDir = NoDir
    Levels <- TwoLoads
    Dirs <- AllDirs
    ModeSets <- SomeModes
    Count = 2
    MaxRuns = 2
    Faults <- AllFaults
    MaxFaults = 2
INVARIANTS
    TypeOK
    SetupMatchesMode
    LoadMatchesLevel
    PrefixRecorded
    BatchOkIsComplete
    CaptureBrackets
PROPERTIES
    NeverOverwritten
    CampaignEnds
