CONSTANTS
    BlockWidth = 4
    LongAdvance = 2
    IfInsertionGap = 2
    WordWidth = 2
    Classes <- MCClasses
    Cases <- MCWhileInIf
    Pipelines <- CasePipelines
SPECIFICATION Spec
INVARIANT SummaryCoversCarries
