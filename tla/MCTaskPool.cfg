CONSTANTS
    t1 = t1
    t2 = t2
    t3 = t3
    Threads <- MCThreads
    Main = t1
    Rounds = 2
    TasksPerRound = 2
SPECIFICATION PoolSpec
INVARIANTS
    PoolTypeOK
    RoundCompleteOnReturn
PROPERTIES
    AllFinish
    FifoRefined
