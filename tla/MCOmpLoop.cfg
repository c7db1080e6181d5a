SPECIFICATION Spec
CONSTANTS
    Thread = {t1, t2, t3}
    NoThread = NoThread
    NumLoops = 2
    MaxTasks = 2
    Programs <- CounterKept
SYMMETRY Threads
INVARIANTS
    TypeOK
    TasksRunOnce
    DeletedByLast
    SerializedWhenSeparated
PROPERTY LoopsAreTaskPools
