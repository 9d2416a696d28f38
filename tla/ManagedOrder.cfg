SPECIFICATION OrderFairSpec
CONSTANTS
    mkt = mkt
    lmt = lmt
    Rows <- MCRows
    Market <- MCMarket
    Qty = 2
    Grace = 2
    MaxDelay = 1
INVARIANTS SubmitOnce VoidedNeverLands SettledIsExact OrderInv
PROPERTIES ContractSpec SubmissionResolves LedgerConverges
