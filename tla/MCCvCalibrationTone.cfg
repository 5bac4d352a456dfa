SPECIFICATION FairSpec
CONSTANTS
    Voices = {v1}
    Resolution = 2
    Timeout = 1
    Tone <- MCTone
    MaxRequests = 2
    MaxBacklog = 2
CHECK_DEADLOCK FALSE
INVARIANT SamplesCorrespond
