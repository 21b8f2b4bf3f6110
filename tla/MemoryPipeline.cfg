SPECIFICATION PipelineSpec
CONSTANTS
    TotalSize = 7
    Ranges = {}
    InvalidAddress = InvalidAddress
    Programs <- MCPrograms
    ComputeQueues <- MCComputeQueues
    SpillReadQueue = "DDR"
    SpillWriteQueue = "CMX"
    BarrierLimit = 4
    SizeModulus = 1024
    SimplifiedThreshold = 100
INVARIANTS
    PipelineTypeOK
    MemoryTiled
    CyclesRespectOrder
    ReadsSeeTheirData
    RaceFree
    NothingImpliedIsLeft
    FailsOnlyIfTooBig
PROPERTIES
    OrderKept
    Terminates
