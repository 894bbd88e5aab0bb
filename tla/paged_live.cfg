SPECIFICATION FairSpec
CONSTANTS
    Blocks = {b1, b2, b3}
    SeqIds <- MCSeqIds
    Nobody = Nobody
    BlockSize = 2
    MaxNumSeqs = 3
    PromptLen <- MCShortPrompts
    MaxLen <- MCMaxLen
    MaxSeqLen = 6
    Timestamp <- MCTimestamp
    MaxSampleErrors = 1
    MaxForwardErrors = 0
INVARIANTS
    RunningBelowMax
PROPERTIES
    EveryRequestEnds
