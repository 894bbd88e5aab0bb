SPECIFICATION Spec
CONSTANTS
    SeqIds <- MCThreeIds
    MaxSeqs = 2
    Adapters <- MCNoAdapters
    HasImages <- MCNoImages
    PromptLen <- MCShortAndLong
    MaxLen <- MCSameMaxLen
    MaxSeqLen = 8
    Grow = 2
    MaxSampleErrors = 0
    MaxForwardErrors = 0
CHECK_DEADLOCK FALSE
INVARIANTS
    PrefillCachesConcatenate
