CONSTANTS
    W = 3
    Chunks <- MCChunks
    MallocMayFail = TRUE
SPECIFICATION MxSpec
CHECK_DEADLOCK FALSE
INVARIANTS
    ReleasedOnError
