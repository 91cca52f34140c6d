SPECIFICATION Spec
CONSTANTS
    a1 = a1
    a2 = a2
    sort = sort
    NoWork = NoWork
    NoAddr = NoAddr
    Addr <- TwoAddrs
    Work <- MCWork
    Chunks <- NoChunk
    MaxClicks = 3
    MaxOpens = 2
SYMMETRY AddrSymmetry
INVARIANTS
    TypeOK
    DialogShowsATask
    OverlapsAreAccounted
CHECK_DEADLOCK FALSE
