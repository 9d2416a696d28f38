SPECIFICATION Spec
CONSTANTS
    open = open
    reduce = reduce
    Instructions <- MCInstructions
    Entry <- MCEntry
    Text <- MCEdit
    Known = {}
    Chroma = FALSE
    MaxStops = 0
    MaxFaults = 0
INVARIANT ReducedOnce
CHECK_DEADLOCK FALSE
