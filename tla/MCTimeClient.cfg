SPECIFICATION FairSpec
CONSTANTS
    Times <- DeadlineOrNone
    Buf = 2
    SockBuf = 2
    Rate = 2
    MaxClock = 4
    Faults <- AllFaults
    MaxFaults = 3
INVARIANTS
    TypeOK
    CountError
    OneLateCall
    NotEarly
    InterruptKeepsResult
PROPERTIES
    InterruptGivesResult
    ServedRunEnds
