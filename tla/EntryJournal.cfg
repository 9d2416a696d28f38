SPECIFICATION PartsSpec
CONSTANTS
    Split = TRUE
    LegQty <- MCLegQty
    Foreign = 1
    open = open
    reduce = reduce
    Known = {2}
    Chroma = FALSE
    MaxStops = 1
    MaxFaults = 1
INVARIANTS PartsTypeOK CancelledIsOver WorkingIsTrue ExecutedOnce ExecutedIsReal
PROPERTIES LatchIsOneWay SecondLegProtected
CHECK_DEADLOCK FALSE
