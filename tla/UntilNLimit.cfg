SPECIFICATION Spec
CONSTANTS
    BlockSize = 2
    BlocksPerGroup = 2
    SegmentBlocks = 3
    Length = 12
    Limits = {2}
INVARIANTS
    AtMostN
