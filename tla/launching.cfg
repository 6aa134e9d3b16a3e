SPECIFICATION FairSpec
CONSTANTS
    Names = {m1}
    MaxGen = 1
    MaxFaults = 0
    Undrainable = {}
PROPERTIES
    DeletionCompletes
    LaunchedOrDeleted
CHECK_DEADLOCK FALSE
