SPECIFICATION Spec
CONSTANTS
    MaxInt = 31
    Counts <- MCCounts
    Sizes <- MCSizes
    Steps <- MCSteps
INVARIANTS
    TypeOK
    PartitionsRange
    WorthTheirThreads
    SortIsWhole
    PrimesAreWhole
    PointsAreWhole
CHECK_DEADLOCK FALSE
