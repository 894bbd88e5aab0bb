--------------------------- MODULE MCDefaultEngine ---------------------------
(* Instances of DefaultEngine for TLC: requests of different lengths, one  *)
(* with images, two adapter sets.                                          *)
EXTENDS DefaultEngine

MCSeqIds    == 1..4
MCPromptLen == [s \in MCSeqIds |-> IF s \in {1, 4} THEN 1 ELSE 3]
MCMaxLen    == [s \in MCSeqIds |-> IF s = 1 THEN 3 ELSE 2]
MCAdapters  == [s \in MCSeqIds |-> IF s = 3 THEN {"lora"} ELSE {}]
MCHasImages == [s \in MCSeqIds |-> s = 2]

\* Fewer requests, that may meet in one bucket.
MCThreeIds  == 1..3
MCTwoPrompts == [s \in MCThreeIds |-> IF s = 1 THEN 2 ELSE 3]
MCShortAndLong == [s \in MCThreeIds |-> IF s = 1 THEN 1 ELSE 3]
MCSameMaxLen == [s \in MCThreeIds |-> 2]
MCNoAdapters == [s \in MCThreeIds |-> {}]
MCNoImages   == [s \in MCThreeIds |-> FALSE]
=============================================================================
