\* Up to two crashes, only before cleanup begins (the second makes the survivors abort); no false suspicion.
\* Checks the invariants and that epoch termination implements RaggedTrim.
CONSTANTS
    N = 3
    S = 2
    MaxIdx = 0
    MaxCrashes = 2
    CrashDuringCleanup = FALSE
    FalseSuspicion = FALSE
SPECIFICATION Spec
INVARIANTS
    TypeOK
    UniformAgreement
    NoMissingMessage
PROPERTY ImplementsRaggedTrim
CHECK_DEADLOCK FALSE
