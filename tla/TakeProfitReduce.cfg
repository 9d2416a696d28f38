SPECIFICATION FairSpec
CONSTANTS
    Recipe <- MCRecipe
    Ratios <- MCRatios
    StartQty = 3
    MarketMin = 2
    MaxResubmits = 1
    Asks = {"reduce"}
    MaxFaults = 1
PROPERTY ReductionEnds
CHECK_DEADLOCK FALSE
