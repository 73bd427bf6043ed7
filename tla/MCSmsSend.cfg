SPECIFICATION SendSpec
CONSTANTS
    r1 = r1
    r2 = r2
    p1 = p1
    p2 = p2
    Requests <- RequestsValue
    Payloads <- PayloadsValue
    Parts <- PartsValue
    MaxCalls = 4
    MaxSendFaults = 2
INVARIANTS AtMostOnce OkMeansSent
CHECK_DEADLOCK FALSE
