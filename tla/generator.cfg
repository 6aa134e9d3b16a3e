CONSTANTS
    Regions = {"eastus", "new"}
    Skus = {"a", "b"}
    Prices = {1, 2, 3}
    NoPrice = 0
    Catalogs <- MCCatalogs
    InitialPrices <- MCInitialPrices
    EastUS = "eastus"
    Period = 1
    Order <- MCOrder
    LogEvery = 3
    Deadline = 2
SPECIFICATION GeneratorFairSpec
INVARIANT FileIsFresh
PROPERTY GeneratorEnds
CHECK_DEADLOCK FALSE
