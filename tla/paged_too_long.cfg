SPECIFICATION FairSpec
CONSTANTS
    Blocks = {b1, b2, b3}
    SeqIds <- MCSeqIds
    Nobody = Nobody
    BlockSize = 2
    MaxNumSeqs = 4
    PromptLen <- MCLongPrompt
    MaxLen <- MCMaxLen
    MaxSeqLen = 6
    Timestamp <- MCTimestamp
    MaxSampleErrors = 0
    MaxForwardErrors = 0
PROPERTIES
    TooLongIsIgnored
