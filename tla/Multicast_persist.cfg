\* A later view (vid 1): does the sender thread still keep RDMC sends
\* within W messages of what every member has persisted?
CONSTANTS
    N = 2
    S = 2
    W = 1
    MaxSends = 2
    Vid = 1
    Transports <- BothTransports
SPECIFICATION Spec
INVARIANTS PersistWindow
CHECK_DEADLOCK FALSE
