SPECIFICATION FairSpec
CONSTANTS
    s1 = s1
    s2 = s2
    w1 = w1
    w2 = w2
    Slots <- SlotsValue
    Owner <- OwnSlots
    ScanSection = scan_all
    Workers <- WorkersValue
    RetryMax = 1
    RetryDelay = 1
    Delays = {0, 1}
    MaxRequests = 2
CHECK_DEADLOCK FALSE
INVARIANTS SlotSerialized QueuedRequestWins
PROPERTIES NoStaleCommit QueueDrains
