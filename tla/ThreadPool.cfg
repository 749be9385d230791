CONSTANTS
    w1 = w1
    w2 = w2
    w3 = w3
    c1 = c1
    c2 = c2
    Workers <- ThreeWorkers
    Callers <- TwoCallers
    MaxTasks = 4
SPECIFICATION FairSpec
INVARIANTS
    NothingLost
    NoTaskSleeps
    DestroyedMeansDone
PROPERTIES
    LoopsStart
    DestructorReturns
\* Without further calls, every worker sleeps; and the pool may be destroyed.
CHECK_DEADLOCK FALSE
