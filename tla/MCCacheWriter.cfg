SPECIFICATION WriterSpec
CONSTANTS
    Attempts <- MCAttempts
    Faults <- MCFaults
INVARIANTS
    TargetAlwaysWhole
    CommitReportIsTrue
    NoTempResidue
CHECK_DEADLOCK FALSE
