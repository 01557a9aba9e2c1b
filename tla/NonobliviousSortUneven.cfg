CONSTANTS
    W = 2
    N = 3
    BUF = 2
    BUF_CHUNK = 1
    Elems <- MCElems
SPECIFICATION HostSpec
INVARIANT
    ReceiveFitsBuffer
