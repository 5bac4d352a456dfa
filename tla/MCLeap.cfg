SPECIFICATION FairSpec
CONSTANTS
    HANDS = 2
    Ids = {1, 2, 3}
    Moves = {1}
    Positions <- MCPositions
    Origin = 0
    Frames <- MCFrames
    IdMod = 4
    MaxFrames = 3
    MaxBacklog = 3
    MaxNow = 1
INVARIANTS
    SlotsDistinct
    WireTracksSlot
    IdleAtOrigin
    TrackedExact
    PositionsFresh
PROPERTIES
    HandsStay
    LoopAgrees
    WireContract
    HandReleased
CHECK_DEADLOCK FALSE
