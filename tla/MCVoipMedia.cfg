SPECIFICATION Spec
CONSTANTS
    p1 = p1
    p2 = p2
    s1 = s1
    login = login
    Login <- login
    Peers <- PeersValue
    SessionIds <- SessionIdsValue
    RtpSessions <- RtpSessionsValue
    QueueFrames = 1
    MaxCalls = 2
    MaxRevision = 7
    MaxTokens = 1
    MaxTroubles = 1
INVARIANTS OneOwner OwnCallOnly NothingLeft UplinkOfThisCall
SYMMETRY PeerSymmetry
CHECK_DEADLOCK FALSE
