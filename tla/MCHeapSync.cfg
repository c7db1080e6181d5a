SPECIFICATION Spec
CONSTANTS
    NumPages = 2
    CellsPerPage = 2
    Value = {0, 1}
    ReduceAreas <- Areas
    Threaded = TRUE
INVARIANTS
    TypeOK
    InSync
    SentPagesMapped
    NothingForgotten
