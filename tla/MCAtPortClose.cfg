SPECIFICATION Spec
CONSTANTS
    Ops = {"open", "close"}
    Shutdown = FALSE
    MaxOps = 3
    MaxChecks = 1
    MaxPlugs = 0
INVARIANTS OneReader
CHECK_DEADLOCK FALSE
