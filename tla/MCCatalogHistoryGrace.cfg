SPECIFICATION HistorySpec
SYMMETRY MCSymmetry
CONSTANTS
    x = x
    y = y
    m1 = m1
    Underviable = Underviable
    Ids <- MCIds
    Models <- MCModels
    BuildTimes <- MCBuildTimes
    MaxRuns = 2
    Grace = 1
    MaxTime = 4
    FutureTolerance = 1
INVARIANT GraceStaysSelectable
CHECK_DEADLOCK FALSE
