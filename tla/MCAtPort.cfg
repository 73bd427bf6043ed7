SPECIFICATION FairSpec
CONSTANTS
    Ops = {"open", "send", "close"}
    Shutdown = TRUE
    MaxOps = 3
    MaxChecks = 2
    MaxPlugs = 2
INVARIANTS OneReaderUntilClose NoUseAfterFree OpenIsRead
PROPERTIES ThreadsReturn
CHECK_DEADLOCK FALSE
