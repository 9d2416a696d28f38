SPECIFICATION PartsSpec
CONSTANTS
    Recipe <- MCRecipe
    Ratios <- MCRatios
    StartQty = 3
    MarketMin = 2
    MaxResubmits = 1
    Asks = {"update", "reduce"}
    MaxFaults = 1
    open = open
    reduce = reduce
    Chroma = TRUE
    MaxStops = 1
INVARIANTS PartsTypeOK RejectedNeverSent NeverOversold FillsKept
PROPERTY SignalsAndLadderSettle
CHECK_DEADLOCK FALSE
