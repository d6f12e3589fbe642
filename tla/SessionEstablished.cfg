SPECIFICATION Spec
CONSTANTS
    Peer = {p1}
    MaxFrames = 2
    MaxSessions = 2
INVARIANT EstablishedWhileOpen
CHECK_DEADLOCK FALSE
