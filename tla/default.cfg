SPECIFICATION FairSpec
CONSTANTS
    SeqIds <- MCSeqIds
    MaxSeqs = 2
    Adapters <- MCAdapters
    HasImages <- MCHasImages
    PromptLen <- MCPromptLen
    MaxLen <- MCMaxLen
    MaxSeqLen = 6
    Grow = 2
    MaxSampleErrors = 0
    MaxForwardErrors = 0
CHECK_DEADLOCK FALSE
INVARIANTS
    CompletionReadsOwnCache
    BatchIsUniform
PROPERTIES
    EveryRequestEnds
