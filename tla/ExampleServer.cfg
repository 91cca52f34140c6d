SPECIFICATION Spec
CONSTANTS
    a1 = a1
    a2 = a2
    sort = sort
    empty = empty
    NoWork = NoWork
    Addr <- TwoPeers
    Work <- TwoWorks
    Chunks <- ChunkOrNone
    Kinds <- TaskKinds
    MaxInputs = 3
INVARIANTS
    TypeOK
    CallOutsFindTheirTask
    FinishedComesLast
    ResultsAreComplete
    RepliesInOrder
    EveryRequestAnsweredOnce
    OrphansAreCanceled
PROPERTY
    ImplementsContract
SYMMETRY Peers
CHECK_DEADLOCK FALSE
