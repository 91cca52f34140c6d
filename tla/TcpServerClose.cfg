SPECIFICATION Spec
CONSTANTS
    s1 = s1
    s2 = s2
    a1 = a1
    a2 = a2
    a3 = a3
    u1 = u1
    u2 = u2
    h1 = h1
    pw = pw
    NoAddr = NoAddr
    NoLogin = NoLogin
    Socket <- MCSocket
    Addr <- MCAddr
    Host <- MCHost
    HostOf <- MCHostOf
    User <- MCUser
    UserOf <- MCUserOf
    Password <- MCPassword
    MaxAccepts = 3
INVARIANT
    CloseConnectionEnds
CHECK_DEADLOCK FALSE
