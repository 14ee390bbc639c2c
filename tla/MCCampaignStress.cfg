SPECIFICATION Spec
CONSTANTS
    Hand = Hand
    NoDir = NoDir
    Levels <- TwoLoads
    Dirs <- AllDirs
    ModeSets <- SomeModes
    Count = 2
    MaxRuns = 1
    Faults <- AllFaults
    MaxFaults = 0
INVARIANTS
    StressMeasures
