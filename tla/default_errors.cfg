SPECIFICATION Spec
CONSTANTS
    SeqIds <- MCThreeIds
    MaxSeqs = 2
    Adapters <- MCNoAdapters
    HasImages <- MCNoImages
    PromptLen <- MCTwoPrompts
    MaxLen <- MCSameMaxLen
    MaxSeqLen = 4
    Grow = 2
    MaxSampleErrors = 1
    MaxForwardErrors = 1
CHECK_DEADLOCK FALSE
INVARIANTS
    NoSequenceLost
    CachesConcatenate
    NoForeignCache
    LeftoverPromptNeedsAFailure
