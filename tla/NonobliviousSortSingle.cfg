CONSTANTS
    W = 1
    N = 5
    BUF = 2
    BUF_CHUNK = 1
    Elems <- MCElems
SPECIFICATION HostSpec
INVARIANTS
    SortedAcrossWorkers
    
