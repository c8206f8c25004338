SPECIFICATION FairSpec
CONSTANTS
    c1 = c1  c2 = c2  c3 = c3
    g1 = g1
    Workers = {w1, w2}
    Calls = {c1, c2, c3}
    Closers = {s1}
    Groups = {g1}
    NoGroup = NoGroup
    Limits <- OneGroupLimits
    QueueSize = 2
    Priorities = {0, 2}
    HasPriorityFunc = FALSE
    DefaultPriority = 1
    None = None
CONSTRAINT MCBound
INVARIANTS GroupAccounting OneHome NoLostWakeup
PROPERTIES FirstJobFirst EveryJobRuns ShutdownCompletes
CHECK_DEADLOCK FALSE
