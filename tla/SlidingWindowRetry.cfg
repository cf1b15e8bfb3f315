\* Three requests, one and the same correlation id, clocks that agree.
SPECIFICATION Spec
CONSTANTS
    Requests = {r1, r2, r3}
    Members = {r1, r2, r3}
    Member <- MCRepeated
    Skews <- MCRight
    Limit = 2
    Window = 4
    Drift = 0
    MaxTime = 4
INVARIANT NeverOverLimit
CHECK_DEADLOCK FALSE
