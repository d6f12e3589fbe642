SPECIFICATION Spec
CONSTANTS
    p1 = p1
    p2 = p2
    s1 = s1
    s2 = s2
    k1 = k1
    NoPeer = NoPeer
    Peer <- MCPeer
    Search <- MCSearch
    Key <- MCKey
    KeyOf <- MCKeyOf
    Distance <- MCDistance
    MaxReplies = 2
PROPERTY CollectsWhatSucceeds
CHECK_DEADLOCK FALSE
