SPECIFICATION FairSpec
CONSTANTS
    NumClients = 2
    BufferSizes <- BufferSizes01
    TaskCounts <- TaskCounts03
    MaxLoops = 2
    Eager = FALSE
PROPERTIES
    LoopEnds
