SPECIFICATION Spec
CONSTANTS
    KB = 4
    Word = 64
    IntRange = 16
    MaxKb = 20
    MaxBuf = 9
INVARIANT PlanIsRequest
CHECK_DEADLOCK FALSE
