SPECIFICATION FairHistorySpec
CONSTANTS
    NumKernels = 4
    Inputs <- GrepInputs
    NoTerminate = {1}
    MultiBlock = {2, 3}
    EarlyTerminators = {2}
    Stride <- GrepStrides
    SegmentSize = 2
    FileSize = 9
    ThreadNum = 3
    SerializeThreads = FALSE
    BufferSegments = 1
    ScaleBuffers = TRUE
    PageSize = 2
INVARIANTS
    TypeOK
    KernelExclusive
    SegmentsInOrder
    NoOverrun
    DiscardedIsProcessed
    CompleteOutput
PROPERTIES
    Terminates
    ImplementsDataflow
