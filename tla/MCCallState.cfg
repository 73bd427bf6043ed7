SPECIFICATION FairCallSpec
CONSTANTS
    browser = "browser"
    lan_sip = "lan_sip"
    Endpoints <- EndpointsValue
    IdleClccPoll = TRUE
    MaxVoiceCalls = 2
    MaxQueue = 4
    MaxTones = 1
    MaxCallTroubles = 1
PROPERTIES OwnerKept NoFalseRelease CallEndNoticed
