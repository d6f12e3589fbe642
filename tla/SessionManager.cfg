SPECIFICATION FairSpec
CONSTANTS
    Peer = {p1, p2}
    MaxFrames = 3
    MaxSessions = 3
INVARIANTS
    TypeOK
    StoredSessionIsAlive
    NothingPendingBesideSession
    FramesInOrder
    EveryFrameAccounted
PROPERTY EveryFrameSettles
CHECK_DEADLOCK FALSE
