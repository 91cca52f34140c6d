SPECIFICATION Spec
CONSTANTS
    MaxInt = 31
    Counts <- MCCounts
    Sizes <- MCSizes
    Steps <- MCSteps
INVARIANTS
    PartitionsEveryRange
CHECK_DEADLOCK FALSE
