SPECIFICATION FairSpec
CONSTANTS
    web = web
    sip = sip
    Targets <- TargetsValue
    MaxTexts = 3
    MaxFaults = 2
CHECK_DEADLOCK FALSE
INVARIANTS DoneMeansForwarded NewestForwarded
PROPERTIES QueuedIsForwarded
