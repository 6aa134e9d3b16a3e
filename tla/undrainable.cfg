SPECIFICATION LaunchedSpec
CONSTANTS
    Names = {m1}
    MaxGen = 1
    MaxFaults = 1
    Undrainable = {m1}
PROPERTIES
    VanishedInstanceFreesNode
CHECK_DEADLOCK FALSE
