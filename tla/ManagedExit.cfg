SPECIFICATION Spec
CONSTANTS
    full = full
    part = part
    None = None
    Signals <- MCSignals
    FullClose <- MCFullClose
    StartQty = 2
    LateFill = 1
    MaxResubmits = 1
    MinLot = 1
    MaxOrders = 3
    Breakeven = FALSE
    MaxOpens = 1
    OpenQty = 1
INVARIANTS TypeOK OneExitInMarket ExitAccounted ClosedIsOver
CHECK_DEADLOCK FALSE
