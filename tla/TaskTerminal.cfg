SPECIFICATION FairSpec
CONSTANTS
    t1 = t1  t2 = t2  r1 = r1  r2 = r2  r3 = r3  c1 = c1  c2 = c2
    Tasks = {t1, t2}
    Requests = {r1, r2, r3}
    Cancels = {c1, c2}
    MaxExecutions = 1
    MaxRetries = 2
    PipeSize = 1
    None = None
CONSTRAINT MCBound
PROPERTY TerminalImmutable
CHECK_DEADLOCK FALSE
