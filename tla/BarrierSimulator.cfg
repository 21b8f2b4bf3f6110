SPECIFICATION Spec
CONSTANTS
    NumTasks = 3
    NumBarriers = 3
    Limit = 2
    NumQueues = 2
    Programs <- DmaAndDpu
    Modes = {"assign", "validate", "legalize"}
    WlmFlags = {TRUE, FALSE}
    DmaQueues = {1}
INVARIANTS
    SimulatorTypeOK
    ReuseFollowsDependency
    ControlMapIsClosure
PROPERTIES
    Returns
    ImplementsMachine
CHECK_DEADLOCK FALSE
