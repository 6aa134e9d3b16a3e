CONSTANTS
    Order <- MCOrder
    Machines <- MCMachines
    SpecOf <- MCSpecOf
    TooLong <- MCTooLong
    GpuSizes = {"N1", "N2"}
SPECIFICATION ProviderSpec
INVARIANTS  ListIsComplete LabelsAreKept
PROPERTY ImplementsContract
