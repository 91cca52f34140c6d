SPECIFICATION Spec
CONSTANTS
    a1 = a1
    a2 = a2
    sort = sort
    NoWork = NoWork
    NoAddr = NoAddr
    Addr <- OneAddr
    Work <- MCWork
    Chunks <- OneChunk
    MaxClicks = 3
    MaxOpens = 1
INVARIANTS
    ButtonIsBlocked
CHECK_DEADLOCK FALSE
