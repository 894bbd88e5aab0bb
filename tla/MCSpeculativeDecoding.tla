------------------------ MODULE MCSpeculativeDecoding ------------------------
(* Instances of SpeculativeDecoding for TLC: two requests of different     *)
(* length, a target model whose samples depend on the last token and on    *)
(* the place, and a sampler that looks at how many tokens it has seen.     *)
EXTENDS SpeculativeDecoding

MCSeqIds == 1..2
MCPrompt == [s \in MCSeqIds |-> IF s = 1 THEN <<"a">> ELSE <<"b", "a", "b">>]
MCMaxLen == [s \in MCSeqIds |-> IF s = 1 THEN 4 ELSE 2]
MCTok    == {"a", "b", "eos"}

\* After an "a" comes a "b", at times another "a"; after a "b" an "a", or the end if
\* the place is even.
MCLikely(c, h, t) ==
    CASE c[Len(c)] = "a"   -> t = "b" \/ (t = "a" /\ Len(h) % 3 = 1)
      [] c[Len(c)] = "b"   -> t = "a" \/ (t = "eos" /\ Len(c) % 2 = 0)
      [] c[Len(c)] = "eos" -> t = "b"
=============================================================================
