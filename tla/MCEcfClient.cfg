SPECIFICATION FairSpec
CONSTANTS
    BadLine = BadLine
    Files <- BlockFiles
    KB = 3
    Word = 100
    IntRange = 20
    Scripts = 2
    SendBuf = 2
    SockBuf = 2
    Faults <- AllFaults
    MaxFaults = 3
INVARIANTS
    TypeOK
    ScriptsBetweenBlocks
    ExitZeroComplete
    AbortMeansFailure
    RunCmdWaits
PROPERTY RunEnds
