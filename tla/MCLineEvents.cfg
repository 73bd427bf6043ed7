SPECIFICATION FairSpec
CONSTANTS
    p1 = p1
    p2 = p2
    Ports <- PortsValue
    Capacity = 2
    Budget = 1
    PipeSize = 1
    MaxLines = 2
    MaxReopens = 1
    Renewable <- RenewableValue
CHECK_DEADLOCK FALSE
INVARIANTS NoLostWakeup NoLossForgotten EveryLineAccounted
PROPERTIES StreamPromise RingDrains
