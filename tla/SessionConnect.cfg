SPECIFICATION Spec
CONSTANTS
    Peer = {p1}
    MaxFrames = 2
    MaxSessions = 2
PROPERTY SendTriesToConnect
CHECK_DEADLOCK FALSE
