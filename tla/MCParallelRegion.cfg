SPECIFICATION FairSpec
CONSTANTS
    NumWorkers = 2
    Kinds <- AllKinds
    MaxRegions = 2
    MayFail <- Anything
    Fortran = TRUE
    SendMayFail = TRUE
    MainMayThrow = TRUE
INVARIANTS
    TypeOK
    CollectivesAgree
    ReductionIsComplete
    OnlyCheckedRanksRun
    AbortAfterReports
    RefusedMeansNested
PROPERTIES
    RegionsForkAndJoin
    RegionReachedUnlessFault
    AllRanksStopUnlessFault
CHECK_DEADLOCK FALSE
