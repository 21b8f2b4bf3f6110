SPECIFICATION SystemSpec
CONSTANTS
    p = p  q = q  f = f
    Requests = {r1, r2, r3}
    MaxConcurrentTasks = 2
    PoolThreads = 3
    Terminate = terminate
    Threads <- MCThreads
    Attrs <- MCAttrs
    Size <- SameSize
    Value <- MCValue
    Settings <- LargeOnly
    Modulus = 64
    NoThread = noThread
    NoAttr = noAttr
    Forms <- MCForms
    CompileThread = compileThread
    Wrong = wrong
    MinRefCount = 1
SYMMETRY RequestSymmetry
INVARIANTS
    CounterExact
CHECK_DEADLOCK FALSE
