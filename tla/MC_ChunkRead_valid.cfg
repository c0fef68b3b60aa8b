CONSTANTS
    WIM_CHUNK_SIZE = 4
    WideAt = 8
    MaxSize = 9
    ResOffset = 2
    Corrupt = FALSE
    IOFaults = FALSE
SPECIFICATION Spec
INVARIANTS TypeOK ReadCorrect ChunkOffsetsInBounds
