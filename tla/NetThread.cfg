SPECIFICATION Spec
CONSTANTS
    Host = {"h1", "h2"}
    NoHost = "none"
    Settings <- MCSettings
    MaxCalls = 3
INVARIANTS
    TypeOK
    TimerIsInStep
    LoginsInOrder
    OpenLeadsThere
PROPERTIES
    KeepsTrying
    EveryWaitEnds
CHECK_DEADLOCK FALSE
