SPECIFICATION Spec
CONSTANTS
    NumKernels = 4
    Inputs <- GrepInputs
    NoTerminate = {1}
    MultiBlock = {2, 3}
    EarlyTerminators = {2}
    Stride <- GrepStrides
    SegmentSize = 3
    FileSize = 25
    PageSize = 8
INVARIANTS
    TypeOK
    DiscardedIsProcessed
    CompleteOutput
PROPERTIES
    DropLengthIsValid
    ImplementsDataflow
