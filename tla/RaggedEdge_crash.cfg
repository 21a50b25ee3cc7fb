\* One crash, possibly in the middle of cleanup, from the drain outcome WitnessRcv.
CONSTANTS
    N = 3
    S = 2
    MaxIdx = 0
    MaxCrashes = 1
    CrashDuringCleanup = TRUE
    FalseSuspicion = FALSE
SPECIFICATION Spec
INVARIANT
    InstallAgreement
CONSTRAINT
    WitnessRcv
CHECK_DEADLOCK FALSE
