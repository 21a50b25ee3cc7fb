\* One sender and one member that only receives, window 1, two large
\* messages, vid 0; sender_trig notifies without msg_state_mtx, as in the
\* code.  The application sends nothing more after its second message.
CONSTANTS
    N = 2
    S = 1
    W = 1
    MaxSends = 2
    Vid = 0
    Transports <- LargeOnly
    TrigLocks = FALSE
SPECIFICATION Spec
PROPERTIES AllDelivered
CHECK_DEADLOCK FALSE
