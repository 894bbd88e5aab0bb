---------------------------- MODULE TargetDecoding ----------------------------
(* What decoding promises: every token of an answer is one that the model  *)
(* itself may sample after all the tokens before it, whatever produces it. *)
(* The sampler (penalties, logits processors, grammar) may see the         *)
(* sequence as it was up to Lag tokens ago; plain decoding has no lag.     *)
(* Nothing is promised of a sequence that is misled.                       *)
EXTENDS Integers, Sequences

CONSTANTS SeqIds,
          Tok,            \* vocabulary
          Prompt,         \* prompt of each sequence
          Lag,            \* how many tokens the sampler may be late
          Likely(_, _, _) \* Likely(c, h, t): the target may sample t after context c,
                          \* with a sampler that sees h

VARIABLES output,         \* sequence -> prompt and answer
          misled          \* sequences of which nothing is promised

Init == output = Prompt /\ misled = {}

Seen(s, n) == SubSeq(output[s], 1, Len(output[s]) - n)

Decode(s) ==
    /\ \E n \in 0..Lag, t \in Tok :
          /\ Likely(output[s], Seen(s, n), t)
          /\ output' = [output EXCEPT ![s] = Append(@, t)]
    /\ UNCHANGED misled

\* A misled sequence goes on with any token.
Stray(s) ==
    /\ s \in misled
    /\ \E t \in Tok : output' = [output EXCEPT ![s] = Append(@, t)]
    /\ UNCHANGED misled

\* A sequence is misled, or put right again.
Mislead(s) == misled' \in {misled \cup {s}, misled \ {s}} /\ UNCHANGED output

Next == \E s \in SeqIds : Decode(s) \/ Stray(s) \/ Mislead(s)

Spec == Init /\ [][Next]_<<output, misled>>
=============================================================================
