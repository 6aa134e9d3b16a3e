SPECIFICATION Spec
CONSTANTS
    Names = {m1}
    MaxGen = 2
    MaxFaults = 1
    Undrainable = {}
INVARIANTS
    TypeOK
    FinalizerGuardsPool
    CleanExit
    LinkedBeforeLaunched
    ReadyMeansReady
    RegisteredNodeIsGuarded
CHECK_DEADLOCK FALSE
PROPERTIES
    OnePoolPerMachine
    ImplementsOwnership
