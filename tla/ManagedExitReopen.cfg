SPECIFICATION Spec
CONSTANTS
    full = full
    part = part
    None = None
    Signals <- MCFullClose
    FullClose <- MCFullClose
    StartQty = 2
    LateFill = 1
    MaxResubmits = 1
    MinLot = 1
    MaxOrders = 3
    Breakeven = FALSE
    MaxOpens = 1
    OpenQty = 1
CHECK_DEADLOCK FALSE
PROPERTY StaleNeverReopens
