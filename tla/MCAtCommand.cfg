SPECIFICATION FairCommandSpec
CONSTANTS
    CommandTypes <- CommandTypesValue
    UrcKinds <- UrcKindsValue
    MaxCommands = 2
    MaxUrcs = 1
    MaxResponse = 2
    MaxLost = 1
    MaxStrays = 1
INVARIANTS OwnAnswer TerminalEventIsAnswer
PROPERTIES CommandReturns
CHECK_DEADLOCK FALSE
