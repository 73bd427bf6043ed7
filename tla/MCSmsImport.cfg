SPECIFICATION FairSpec
CONSTANTS
    a1 = a1
    a2 = a2
    c = c
    w = w
    m1 = m1
    m2 = m2
    Modems <- OneModem
    Pdus <- TwoMessages
    Message <- OneModemMessages
    Part <- PartValue
    Indices = {1, 2}
    Free = free
    AutoDelete = TRUE
    Retention = 1
    MaxArrivals = 3
    MaxAborts = 1
INVARIANTS ImportDurable NoDuplicateText DeletedStaysDeleted CompleteIsWhole
PROPERTIES EveryPartSurfaces
