--------------------------- MODULE MCPagedScheduler ---------------------------
(* Instances of PagedScheduler for TLC: three sequences, the second and    *)
(* the third created in the same millisecond.                              *)
EXTENDS PagedScheduler, TLC

MCSeqIds    == 1..3
MCPromptLen == [s \in MCSeqIds |-> s]
MCMaxLen    == [s \in MCSeqIds |-> IF s = 1 THEN 3 ELSE 2]
MCTimestamp == [s \in MCSeqIds |-> IF s = 1 THEN 1 ELSE 2]

\* The prompt of the first sequence does not fit in three blocks of two tokens.
MCLongPrompt == [s \in MCSeqIds |-> IF s = 1 THEN 6 ELSE 1]

\* All three prompts fit at once, but not what follows them.
MCShortPrompts == [s \in MCSeqIds |-> 1]

BlockSymmetry == Permutations(Blocks)
=============================================================================
