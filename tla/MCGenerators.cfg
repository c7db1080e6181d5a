SPECIFICATION Spec3
CONSTANTS
    Modulus = 16
    Ranges <- AllRanges
    GrainSizes <- UInt
    ProcessCounts <- AllProcesses
    DoLoopBounds = {0, 1, 2, 3, 6, 9, 14}
INVARIANTS
    ChunksTile
    Guided
    PairsTile
    PairsDoNotFail
    IndicesOnce
