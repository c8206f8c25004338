SPECIFICATION WorkflowFairSpec
CONSTANTS
    fetch = fetch  work = work  ship = ship
    Nodes = {fetch, work, ship}
    Start = fetch
    EndNode = EndNode
    Unknown = Unknown
    Targets <- CyclicTargets
    Compensable = {fetch, work}
    MaxSteps = 4
    CompensateOnFailure = TRUE
    HasStore = TRUE
    NoCheckpoint = NoCheckpoint
    MaxAttempts = 3
INVARIANTS CheckpointCurrent CompensatesInReverse AttemptRolledBack
PROPERTY Terminates
CHECK_DEADLOCK FALSE
