SPECIFICATION LaunchedSpec
CONSTANTS
    Names = {m1}
    MaxGen = 1
    MaxFaults = 1
    Undrainable = {}
PROPERTIES
    LostPoolIsNoticed
    GuardedOrphanIsCollected
    
CHECK_DEADLOCK FALSE
