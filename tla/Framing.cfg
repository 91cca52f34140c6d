SPECIFICATION Spec
CONSTANTS
    Base = 2
    HeaderSize = 2
    HostOrder = "little"
    NetOrder = "little"
    Message <- MCMessage
    NoMessage = NoMessage
    MaxSent = 4
    MaxLosses = 2
INVARIANTS
    TypeOK
PROPERTIES
    KeepsStream
    EverythingIsRead
CHECK_DEADLOCK FALSE
