SPECIFICATION TopologySpec
CONSTANTS
    CubeFaces <- MCFaces
    Tables <- MCTables
    MaxLinks = 3
    MaxTables = 3
    MaxNow = 2
CHECK_DEADLOCK FALSE
INVARIANTS
    SettledExact
    LastingHeard
PROPERTIES
    LinksHaveOrigin
    FluxKeepsPrevious
    EventPerTable
