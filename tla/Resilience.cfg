SPECIFICATION MCSpec
CONSTANTS
    Calls = {b1, b2, b3, b4}
    FailureThreshold = 2
    SuccessThreshold = 2
    HalfOpenMaxCalls = 1
    Timeout = 2
    Callers = {c1, c2}
    Keys = {k1, k2}
    MaxSize = 1
    MaxCalls = 4
    Free = Free
INVARIANTS ProbeAccounting OnlyPanicLatches SerializedButForEvictions SingleFlight
PROPERTIES Recovers CallsReturn
CHECK_DEADLOCK FALSE
