\* No crash; member 2 may falsely suspect member 1; drain outcome WitnessRcv.
CONSTANTS
    N = 3
    S = 2
    MaxIdx = 0
    MaxCrashes = 0
    CrashDuringCleanup = FALSE
    FalseSuspicion = TRUE
SPECIFICATION Spec
INVARIANT
    InstallAgreement
CONSTRAINT
    WitnessRcv
    WitnessSuspicion
CHECK_DEADLOCK FALSE
