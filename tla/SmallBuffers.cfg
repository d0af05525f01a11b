SPECIFICATION FairHistorySpec
CONSTANTS
    NumKernels = 4
    Inputs <- GrepInputs
    NoTerminate = {1}
    MultiBlock = {2, 3}
    EarlyTerminators = {2}
    Stride <- GrepStrides
    SegmentSize = 2
    FileSize = 7
    ThreadNum = 2
    SerializeThreads = FALSE
    BufferSegments = 1
    ScaleBuffers = FALSE
    PageSize = 2
INVARIANTS
    MultiBlockInputIntact
