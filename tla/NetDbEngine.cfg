SPECIFICATION FairSpec
CONSTANTS
    MinimumRouters = 1
    KeepRouters = 2
    MaxRouters = 3
    ReseedEnable = TRUE
    MaxQueued = 2
INVARIANTS
    TypeOK
    NoLostMessage
PROPERTY PolledTimersServed
CHECK_DEADLOCK FALSE
