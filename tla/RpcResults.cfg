\* A query delivered to two shard members, n1 and n2 (model values): each
\* may reply, be removed before or after its reply is handled, or both
\* are removed.  Every thread stops once each get has returned, so
\* deadlock is not an error.
CONSTANTS
    n1 = n1
    n2 = n2
    Members = {n1, n2}
SPECIFICATION Spec
INVARIANT NoFutureError
PROPERTY CallerNeverBlocks
CHECK_DEADLOCK FALSE
