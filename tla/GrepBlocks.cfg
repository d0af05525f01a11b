CONSTANTS
    BlockWidth = 4
    LongAdvance = 2
    IfInsertionGap = 2
    WordWidth = 2
    Classes <- MCClasses
    Cases <- MCCases
    Pipelines <- CasePipelines
SPECIFICATION Spec
INVARIANTS
    KernelTypeOK
    TypeOK
    BlockwiseIsStream
    MatchesRE
    ReportedLines
    SummaryCoversCarries
    SkippedIfsAreIdle
    ResultsAreStreams
PROPERTIES
    ImplementsKernels
