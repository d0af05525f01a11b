SPECIFICATION FairReadSpec
CONSTANTS
    NumKernels = 4
    Inputs <- GrepInputs
    NoTerminate = {1}
    MultiBlock = {2, 3}
    EarlyTerminators = {2}
    Stride <- GrepStrides
    SegmentSize = 2
    FileSize = 17
    ThreadNum = 2
    SerializeThreads = FALSE
    BufferSegments = 1
    ScaleBuffers = TRUE
    PageSize = 2
    ReadSize = 4
    InitialCapacity = 8
    Alignment = 2
    ShortReads = FALSE
INVARIANTS
    ReadTypeOK
    InputInBuffer
    WrittenInBounds
    CompleteRead
PROPERTIES
    ImplementsMapped
    MovedUnread
    Terminates
