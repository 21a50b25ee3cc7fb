\* Three members, one joiner, one crash or leave; one trigger's puts are written together.
CONSTANTS
    N = 3
    j1 = j1
    j2 = j2
    Joiners <- MCJoiners
    K = 2
    MinMembers = 2
    MaxCrashes = 1
    FalseSuspicion = FALSE
    BatchPuts = TRUE
SPECIFICATION Spec
INVARIANTS
    NextViewAgreement
CHECK_DEADLOCK FALSE
