\* One crash, only before cleanup begins; no false suspicion.
CONSTANTS
    N = 3
    S = 2
    MaxIdx = 0
    MaxCrashes = 1
    CrashDuringCleanup = FALSE
    FalseSuspicion = FALSE
SPECIFICATION Spec
PROPERTY
    EpochTerminates
CHECK_DEADLOCK FALSE
