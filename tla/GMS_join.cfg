\* Two members, one joiner, two slots, one crash or leave.
CONSTANTS
    N = 2
    j1 = j1
    j2 = j2
    Joiners <- MCJoiners
    K = 2
    MinMembers = 2
    MaxCrashes = 1
    FalseSuspicion = FALSE
    BatchPuts = FALSE
SPECIFICATION Spec
INVARIANTS
    CountersOrdered
CHECK_DEADLOCK FALSE
