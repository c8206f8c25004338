SPECIFICATION GatewaySpec
CONSTANTS
    n1 = n1  n2 = n2  a1 = a1  a2 = a2  a3 = a3  x1 = x1  x2 = x2
    Names = {n1, n2}
    Adds = {a1, a2, a3}
    Removes = {x1, x2}
    UnhealthyThreshold = 1
    None = None
SYMMETRY Symmetry
INVARIANTS ConnectionsOwned ConfigsPublished ClosedButForLate
CHECK_DEADLOCK FALSE
