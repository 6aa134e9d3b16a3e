CONSTANTS
    Regions = {"eastus"}
    Skus = {"a", "b"}
    Prices = {1, 2}
    NoPrice = 0
    Catalogs <- MCCatalogs
    InitialPrices <- MCInitialPrices
    EastUS = "eastus"
    Period = 2
SPECIFICATION PricingFairSpec
INVARIANTS NoPriceIsLost AttemptsGoOn
PROPERTIES PricesBecomeFresh ImplementsPriceBook
