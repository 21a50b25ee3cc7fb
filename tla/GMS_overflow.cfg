\* Two members, one joiner, one slot in changes[], one leave; a join is never taken between commit and meta-wedge.
CONSTANTS
    N = 2
    j1 = j1
    j2 = j2
    Joiners <- MCJoiners
    K = 1
    MinMembers = 2
    MaxCrashes = 1
    FalseSuspicion = FALSE
    BatchPuts = FALSE
SPECIFICATION Spec
INVARIANTS
    ChangesWithinCapacity
CHECK_DEADLOCK FALSE
CONSTRAINT
    NoJoinBeforeMetaWedge
