SPECIFICATION Spec
CONSTANTS
    MaxAttempts = 2
    MaxTime = 1
    FutureTolerance = 0
    Configs = {1}
    Attempts <- MCAttempts
    Answers = {"good", "bad", "error"}
    Faults = {"op", "crash"}
INVARIANTS
    OkIsUncancelledAndComplete
    CodeTellsTheCause
PROPERTIES
    DisposeResolves
    AttemptSettles
    StaleIsRefreshed
CHECK_DEADLOCK FALSE
