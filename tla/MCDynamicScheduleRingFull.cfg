SPECIFICATION Spec
CONSTANTS
    NumClients = 2
    BufferSizes <- BufferSizes12
    TaskCounts <- TaskCounts03
    MaxLoops = 1
    Eager = FALSE
INVARIANTS
    RoomForSend
