CONSTANTS
    L = 8
    NumThreads = 2
SPECIFICATION ShSpec
INVARIANTS
    ShTypeOK
    ScratchFreedOnce
PROPERTIES
    CompactPlacesMarked
