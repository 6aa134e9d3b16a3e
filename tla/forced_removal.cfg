SPECIFICATION FairSpec
CONSTANTS
    Names = {m1}
    MaxGen = 1
    MaxFaults = 0
    Undrainable = {}
PROPERTIES
    ForcedRemovalIsCovered
CHECK_DEADLOCK FALSE
