SPECIFICATION Spec
CONSTANTS
    Callers = {c1, c2}
    Keys = {k1, k2}
    MaxSize = 1
    MaxCalls = 4
    Free = Free
INVARIANT Serialized
CHECK_DEADLOCK FALSE
