CONSTANTS
    Before = 32
    MinLen = 32
    DefaultLen = 32
    Junk = junk
    Traffic <- Conversations
    ObjectName <- Object
    MaxPackage = 200
    RecvLen = 16
SPECIFICATION Spec
INVARIANTS
    BuffersFit
    Delivered
    Recovers
    ErrorsConsume
CHECK_DEADLOCK FALSE
