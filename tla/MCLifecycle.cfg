SPECIFICATION Spec
CONSTANTS
    MaxAttempts = 2
    MaxTime = 2
    FutureTolerance = 0
    Configs = {0, 1}
    Attempts <- MCAttempts
    Answers = {"good"}
    Faults = {"op", "power", "refuse"}
INVARIANTS
    SingleFlight
    Accounting
    ReconciledAgainstCurrent
PROPERTIES
    NoRenameAfterDispose
    QuiescentAfterDispose
    ObservationsMoveForward
    CommitsThenServes
CHECK_DEADLOCK FALSE
