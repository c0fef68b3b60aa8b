CONSTANTS
    ChunkSize = 2
    Sizes = {0, 1, 3}
    Locations <- MCLocations
    Faults = {"read", "open", "write", "eintr"}
    ShortWrites = FALSE
    MaxWrites = 2
SPECIFICATION Spec
INVARIANTS TypeOK ExtractCorrect NoFileLeak
