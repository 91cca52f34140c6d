SPECIFICATION FairSpec
CONSTANTS
    a1 = a1
    a2 = a2
    sort = sort
    empty = empty
    NoWork = NoWork
    Addr <- OnePeer
    Work <- OneWork
    Chunks <- TwoChunks
    Kinds <- AllKinds
    MaxInputs = 3
PROPERTIES
    EveryTaskEnds
    EverythingIsAnswered
    FairlyImplementsContract
CHECK_DEADLOCK FALSE
