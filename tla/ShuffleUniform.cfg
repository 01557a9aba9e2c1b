CONSTANTS
    L = 4
    NumThreads = 2
SPECIFICATION ShSpec
INVARIANTS
    ShuffleUniform
