CONSTANTS
    W = 3
    Chunks <- MCChunks
    MallocMayFail = FALSE
SPECIFICATION MxSpec
INVARIANTS
    MxTypeOK
    AdapterMemorySafe
    NoLeakWhenDone
PROPERTIES
    ExchangeRefined
    AllRanksDone
