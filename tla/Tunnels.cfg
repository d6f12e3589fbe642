SPECIFICATION Spec
CONSTANTS
    TunnelLifetime = 2
    Buffer = 0
    BuildMessage <- MCBuildMessage
    MaxBuilds = 2
    Us = "us"
    Hour = 4
    MaxRequestAge = 6
    MaxRequestFuture = 1
    DataMessage <- MCDataMessage
    MaxData = 2
    ExpireTunnelsInterval = 1
    StartTime = 6
    MaxTime = 10
INVARIANTS
    ForwardedWithinLifetime
    NoDuplicateForwarded
    HeldUnlessDisplaced
    NeverUnimplemented
PROPERTY
    BuildsEnd
CHECK_DEADLOCK FALSE
