SPECIFICATION FairSpec
CONSTANTS
    c1 = c1  c2 = c2  x1 = x1
    Calls = {c1, c2}
    Cancels = {x1}
    Limit = 2
    MaxCost = 2
    Thresholds = {1, 2}
INVARIANTS SpendBounded AlertsFired
PROPERTIES TasksSettle
