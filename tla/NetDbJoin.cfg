SPECIFICATION RouterSpec
CONSTANTS
    RouterKey = {f1}
    LeaseKey = {l1}
    Floodfill = {f1}
    KeepRouters = 1
    MaxLookups = 2
    MaxStores = 1
    MinimumRouters = 1
    ReseedHosts = 2
    MinRiWanted = 2
    MinReseedServers = 2
    HostRouterInfo = {"stale", "invalid"}
    MaxFetched = 2
    MaxReseeds = 1
    ROUTER_KEYFILE = TRUE
    RI_FILE = TRUE
    MaxRouterKeys = 2
    MaxStaticKeys = 2
PROPERTY JoinsARunningSearch
CHECK_DEADLOCK FALSE
