SPECIFICATION Spec
CONSTANTS
    Thread = {t1, t2}
    NoThread = NoThread
    NumLoops = 2
    MaxTasks = 1
    Programs <- LoopRepeats
INVARIANT DeletedByLast
