SPECIFICATION PipelineSpec
CONSTANTS
    NumTasks = 5
    NumBarriers = 20
    Limit = 2
    NumQueues = 2
    MaxVariantCount = 4
    MaxVariantSum = 4
    UnevenFlags = {TRUE, FALSE}
    MaxIterations = 4
    Programs <- DmaAndDpu
    Modes = {"assign"}
    WlmFlags = {TRUE, FALSE}
    DmaQueues = {1}
INVARIANTS
    NeverFails
    RingHoldsFreePids
    ActiveAgreesWithConfig
    LegalizedIsAccepted
    HardwareNeverStuck
    BlockedIsBlocked
    ControlFlowKept
    LegalizationSucceeds
PROPERTIES
    EventuallyDone
CHECK_DEADLOCK FALSE
