SPECIFICATION Spec
CONSTANTS
    Thread = {t1, t2}
    NoThread = NoThread
    HeapPages = 4
    Step = 2
    MaxLen = 2
    ForeignSets <- NoneOrOne
    MaxTries = 1
    MaxOps = 2
SYMMETRY Threads
INVARIANTS
    TypeOK
    OnlyTheRange
    MmapMeetsReserved
    OwnedIsTold
    MapsAgree
