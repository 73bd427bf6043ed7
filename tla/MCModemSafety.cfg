SPECIFICATION Spec
CONSTANTS
    Method = "serial_pcm"
    Baseline <- BaselineValue
    MaxAttempts = 2
    MaxRequests = 2
    MaxTroubles = 2
INVARIANTS BaselineKept NoTraceWithoutJournal CallHasVoice
PROPERTIES ActivationSettles
CHECK_DEADLOCK FALSE
