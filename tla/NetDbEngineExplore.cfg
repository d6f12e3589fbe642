SPECIFICATION FairSpec
CONSTANTS
    MinimumRouters = 1
    KeepRouters = 2
    MaxRouters = 3
    ReseedEnable = TRUE
    MaxQueued = 2

PROPERTY ExploresRegularly
CHECK_DEADLOCK FALSE
