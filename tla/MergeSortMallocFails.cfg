CONSTANTS
    BUF = 2
    MaxLen = 5
    MallocMayFail = TRUE
    Elems <- MCElems
SPECIFICATION Spec
INVARIANT
    MergeSortSorts
