SPECIFICATION Spec

CONSTANTS
    MaxFaults = 1
    MaxData <- MCMaxData
    BlockSize = 2
    ContentLen <- MCContentLen
    SessionConfirmedLen = {1, 2, 3, 6}
    FrameLen = 2
    MessageSize = {1, 3, 7}
    NTCP_MTU = 2
    NTCP2_MTU = 6

INVARIANTS
    CipherInStep
    ReadsInStep
    Agreement

PROPERTIES
    LinkSettles
    FramesGetThrough

CHECK_DEADLOCK FALSE
