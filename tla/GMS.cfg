\* Three members, no joiner, one crash or leave.
CONSTANTS
    N = 3
    j1 = j1
    j2 = j2
    Joiners <- NoJoiners
    K = 1
    MinMembers = 2
    MaxCrashes = 1
    FalseSuspicion = FALSE
    BatchPuts = FALSE
SPECIFICATION Spec
INVARIANTS
    TypeOK
    CountersOrdered
PROPERTY
    ViewChangeCompletes
CHECK_DEADLOCK FALSE
