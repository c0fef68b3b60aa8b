CONSTANTS
    ChunkSize = 2
    Sizes = {3}
    Locations <- MCBuffer
    Faults = {}
    ShortWrites = TRUE
    MaxWrites = 3
SPECIFICATION Spec
INVARIANT FullWriteExact
