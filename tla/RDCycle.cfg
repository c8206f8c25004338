SPECIFICATION CycleFairSpec
CONSTANTS
    MaxCycles = 3
    NoProgressThreshold = 2
    WindowSize = 2
    AlarmPerCycle = 2
    UnproductiveCap = 2
    Costs = {1, 3}
    MaxStarts = 2
INVARIANTS ProbeReopens FailuresCapped OneUnlessRaced
PROPERTY Terminates
CHECK_DEADLOCK FALSE
