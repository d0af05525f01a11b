SPECIFICATION Spec
CONSTANTS
    BlockSize = 2
    BlocksPerGroup = 2
    SegmentBlocks = 3
    Length = 15
    Limits = {1, 2, 3}
INVARIANTS
    TypeOK
    AllOfFewer
    FirstNOfMore
PROPERTIES
    AsInPipeline
