SPECIFICATION Spec
CONSTANTS
    Split = TRUE
    LegQty <- MCLegQty
    Foreign = 0
PROPERTY ReductionEndsEntry
CHECK_DEADLOCK FALSE
