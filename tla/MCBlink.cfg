SPECIFICATION FairSpec
CONSTANTS
    NBlinks = 2
    Units = {1, 2}
    Colours = {"red", "blue"}
    MaxEvents = 3
INVARIANTS
    ColourShown
    HandlesCurrent
    UnitsApart
PROPERTIES
    UnitEventuallyOpen
CHECK_DEADLOCK FALSE
