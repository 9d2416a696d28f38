SPECIFICATION Spec
CONSTANTS
    open = open
    reduce = reduce
    Instructions <- MCInstructions
    Entry <- MCEntry
    Text <- MCOne
    Known = {}
    Chroma = TRUE
    MaxStops = 1
    MaxFaults = 0
INVARIANT NeverSwallowed
CHECK_DEADLOCK FALSE
