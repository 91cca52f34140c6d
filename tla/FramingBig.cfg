SPECIFICATION Spec
CONSTANTS
    Base = 2
    HeaderSize = 2
    HostOrder = "little"
    NetOrder = "big"
    Message <- MCMessage
    NoMessage = NoMessage
    MaxSent = 4
    MaxLosses = 2
PROPERTIES
    EverythingIsRead
CHECK_DEADLOCK FALSE
