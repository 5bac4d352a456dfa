SPECIFICATION FairSpec
CONSTANTS
    Cubes = {1, 15}
    Creatable = {1}
    Faces = {0, 1}
    Channels = {"red", "green"}
    Levels = {0, 1}
    Full = 1
    Readings = {0, 1}
    Zero = 0
    MaxEvents = 6
    MaxBacklog = 2
INVARIANTS
    ColourShown
    ReadingsShown
    OutputsStarted
PROPERTIES
    ColourEventuallyShown
CHECK_DEADLOCK FALSE
