SPECIFICATION FairSpec
CONSTANTS
    Requests = {r1, r2, r3}
    MaxConcurrentTasks = 2
    PoolThreads = 3
    Terminate = terminate
INVARIANTS
    TypeOK
    ConcurrencyLimit
    DestroyedAfterBodies
    DrainedBeforeJoin
    OneWaiter
PROPERTIES
    StopsUnlessWakeupLost
    ImplementsService
CHECK_DEADLOCK FALSE
