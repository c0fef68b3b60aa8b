CONSTANTS
    WIM_CHUNK_SIZE = 4
    WideAt = 8
    MaxSize = 5
    ResOffset = 2
    Corrupt = TRUE
    IOFaults = TRUE
SPECIFICATION Spec
INVARIANTS NoSilentTruncation
