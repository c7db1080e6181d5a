SPECIFICATION Spec
CONSTANTS
    NumRanks = 3
    IntMax = 2
    Capacity = 2
    AreaLists <- Lists
INVARIANTS
    TypeOK
    CallsTile
    CompleteOnReturn
