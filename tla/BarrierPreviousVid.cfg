SPECIFICATION Spec
CONSTANTS
    NumTasks = 3
    NumBarriers = 4
    Limit = 2
    NumQueues = 2
    Programs <- DmaAndDpu
    Modes = {"legalize"}
    WlmFlags = {TRUE}
    DmaQueues = {1}
INVARIANTS
    PreviousVidIsKnown
CHECK_DEADLOCK FALSE
