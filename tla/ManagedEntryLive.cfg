SPECIFICATION FairSpec
CONSTANTS
    Split = TRUE
    LegQty = 1
    Foreign = 0
PROPERTY EntryResolves
CHECK_DEADLOCK FALSE
