CONSTANTS
    W = 4
    N = 2
    Elems <- MCElems
SPECIFICATION QsSpec
INVARIANT
    NoEmptySlice
