SPECIFICATION FairSpec
CONSTANTS
    Requests <- MCRequests
    N <- MCN
    Mixes <- MCMixes
    Streaming <- MCStreaming
    PromptLen <- MCPromptLen
    MaxLen <- MCMaxLen
    MaxSeqLen = 3
    Reserve = 1
    TokBound = 4
    MaxHolds = 1
    MaxSampleErrors = 1
    MaxForwardErrors = 1
    MaxAllocErrors = 1
CHECK_DEADLOCK FALSE
INVARIANTS
    TruncatedFits
    NChoicesCountsTheRest
    DoneMeansOver
    AnsweredWhenOver
    StreamFlows
    DeathNeedsACause
PROPERTIES
    SingleStreamEnds
