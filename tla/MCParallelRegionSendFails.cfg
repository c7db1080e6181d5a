SPECIFICATION FairSpec
CONSTANTS
    NumWorkers = 1
    Kinds <- PlainOnly
    MaxRegions = 1
    MayFail <- NoChecks
    Fortran = FALSE
    SendMayFail = TRUE
    MainMayThrow = FALSE
PROPERTIES
    RegionReached
CHECK_DEADLOCK FALSE
