SPECIFICATION Spec
CONSTANTS
    Blocks = {b1, b2, b3, b4}
    SeqIds <- MCSeqIds
    Nobody = Nobody
    BlockSize = 2
    MaxNumSeqs = 4
    PromptLen <- MCPromptLen
    MaxLen <- MCMaxLen
    MaxSeqLen = 6
    Timestamp <- MCTimestamp
    MaxSampleErrors = 1
    MaxForwardErrors = 1
SYMMETRY BlockSymmetry
INVARIANTS
    TypeOK
    BlocksConserved
    RefcountMatchesTables
    BlocksFollowService
    SlotsCoverStep
    SurplusNeedsAnError
    CompletionHasCache
    BatchIsUniform
    PreemptedFirst
    LengthIsBounded
PROPERTIES
    MakesLegalCalls
    IsBlockPool
