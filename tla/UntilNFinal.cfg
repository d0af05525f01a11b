SPECIFICATION Spec
CONSTANTS
    BlockSize = 2
    BlocksPerGroup = 2
    SegmentBlocks = 3
    Length = 5
    Limits = {1}
INVARIANTS
    KeepsFirstN
