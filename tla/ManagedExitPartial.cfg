SPECIFICATION FairSpec
CONSTANTS
    full = full
    part = part
    None = None
    Signals = {part}
    FullClose = {}
    StartQty = 4
    LateFill = 0
    MaxResubmits = 1
    MinLot = 1
    MaxOrders = 3
    Breakeven = FALSE
    MaxOpens = 0
    OpenQty = 1
CHECK_DEADLOCK FALSE
INVARIANT PartialNotRepeated
PROPERTY ExitResolves
