SPECIFICATION Spec
CONSTANTS
    Times <- DeadlineOrNone
    Buf = 2
    SockBuf = 2
    Rate = 2
    MaxClock = 4
    Faults <- AllFaults
    MaxFaults = 1
INVARIANT SentWasSent
