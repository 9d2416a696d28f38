SPECIFICATION ComponentsSpec
CONSTANTS
    t1 = t1
    t2 = t2
    acA = acA
    acB = acB
    procA = procA
    procB = procB
    Traders = {t1, t2}
    Accounts = {acA, acB}
    Managed = {acA}
    Processes = {procA, procB}
    Home <- TwoHomes
    Ids = {i, j}
    None = None
    MaxChanges = 1
    MaxCrashes = 1
    Symbols = {s, o}
    Watched = s
    TTL = 3
    Interval = 2
    Latency = 1
    CacheChanges = 2
    Prices = {1, 2}
    MaxIds = 4
    GuardFaults = 1
    GuardMoves = 1
    Grace = 1
    Alert = 2
    Closes = {c}
    Reduces = {r}
    Cancels = {x}
    Moves = {m}
    Size = 2
    MaxOwner = 1
    LegacyFaults = 1
    N = 2
    Card = 2
    Page = 1
    Capacity = 4
    Buffer = 2
    SourceFaults = 1
CHECK_DEADLOCK FALSE
INVARIANTS SideExclusive GroundHolds PartsTypeOK TwoMissesMeanGone
INVARIANTS OneStopOut ClosedIsClean RecordIsReal ExitSentOnce EndedIsOver ReadyIsGapless
PROPERTIES StopKept RevisionsInOrder Reprotected Concluded
