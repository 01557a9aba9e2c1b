CONSTANTS
    W = 3
    N = 6
    BUF = 2
    BUF_CHUNK = 1
    Elems <- MCElems
SPECIFICATION HostSpec
INVARIANTS
    NsTypeOK
    ExchangeConserves
    SortedAcrossWorkers
    HostTypeOK
    HostNoFalseAlarm
    StreamsStayInStep
    NoEmptySlice
    SelectionCorrect
