SPECIFICATION Spec
CONSTANTS
    SeqIds <- MCSeqIds
    Tok <- MCTok
    Eos = "eos"
    Prompt <- MCPrompt
    MaxLen <- MCMaxLen
    Likely <- MCLikely
    gamma = 2
    MaxFailures = 1
    MaxToks = 4
CHECK_DEADLOCK FALSE
INVARIANTS
    FailureIsAnswered
