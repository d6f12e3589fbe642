SPECIFICATION FairSpec
CONSTANTS
    BlocksPerFrame = 3
    HighWater = 2
    Fits <- MCFits
    Kind <- MCKind
    MaxBlocks = 5
    MaxReceived = 3
INVARIANTS
    TypeOK
    LessThanAFrameCached
    NoLostWakeup
    InboundInOrder
    EverythingReadAtEof
PROPERTIES
    ImplementsChannel
    BlocksGetOut
    MessagesGetIn
CHECK_DEADLOCK FALSE
