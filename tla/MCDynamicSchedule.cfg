SPECIFICATION Spec
CONSTANTS
    NumClients = 2
    BufferSizes <- BufferSizes012
    TaskCounts <- TaskCounts034
    MaxLoops = 2
    Eager = TRUE
INVARIANTS
    TypeOK
    AtMostOnce
    AllRanWhenLeaderLeaves
    NothingLeftOver
    Conservation
    FirstRoundIsFair
    FinishedClientHasNoValue
PROPERTY ImplementsTaskPool
