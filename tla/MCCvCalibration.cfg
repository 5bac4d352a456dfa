SPECIFICATION FairSpec
CONSTANTS
    Voices = {v1, v2}
    Resolution = 1
    Timeout = 1
    Tone <- MCTone
    MaxRequests = 2
    MaxBacklog = 1
CHECK_DEADLOCK FALSE
INVARIANTS
    ResultWhole
    LookupExact
    GateClosed
PROPERTIES
    CalibrationEnds
