SPECIFICATION Spec
CONSTANTS
    a1 = a1
    a2 = a2
    sort = sort
    NoWork = NoWork
    NoAddr = NoAddr
    Addr <- TwoAddrs
    Work <- MCWork
    Chunks <- NoChunk
    MaxClicks = 2
    MaxOpens = 2
PROPERTIES
    NobodyIsLockedOut
    CancelIsAnswered
CHECK_DEADLOCK FALSE
