SPECIFICATION Spec
CONSTANTS
    MaxFrames = 2
    MaxEvents = 4
    MaxNet = 2
    SeenMax = 3
    Questions = {2}
    MaxQueries = 2
    MaxFaults = 1
    MaxLoad = 6
    None = None

    
PROPERTIES
    ImplementsFeed
    LockComesFree
CHECK_DEADLOCK FALSE
