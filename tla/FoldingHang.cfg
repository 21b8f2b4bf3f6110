SPECIFICATION FairSpec
CONSTANTS
    Requests = {r1, r2}
    MaxConcurrentTasks = 1
    PoolThreads = 3
    Terminate = terminate
PROPERTIES
    DestructorReturns
CHECK_DEADLOCK FALSE
