SPECIFICATION FairSpec
CONSTANTS
    scan = scan  build = build  part = part
    Ids = {scan, build, part}
    Tasks = {scan, build}
    SubTasks <- BuildSubTasks
    DependsOn <- BuildDependsOn
    NoTask = NoTask
    NoError = NoError
    Errors = {e1}
    MaxIterations = 3
    MaxConsecutiveSamplerFailures = 2
    NoProgressThreshold = 3
    SameErrorThreshold = 2
    HardBudgetTokens = 3
    VelocityWindow = 2
    VelocityAlarm = 1
    UnproductiveMax = 2
    BudgetLimit = 4
    MaxRuns = 2
    MaxFaults = 2
CONSTRAINT MCBound
INVARIANTS DependencyOrder OneIterationAtRisk OutcomeRecorded WorkBounded
PROPERTIES ProgressKept RunReturns
CHECK_DEADLOCK FALSE
