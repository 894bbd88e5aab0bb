-------------------------- MODULE SpeculativeProofs --------------------------
(***************************************************************************)
(* Theorems about SpeculativeDecoding for any number of guesses, any draft *)
(* model, any target model, any requests and whichever steps fail: both    *)
(* caches of a running sequence hold its tokens but the last, and the      *)
(* answers are those of decoding with the target model and a sampler that  *)
(* lags, but for the sequences that a failed step misled.                  *)
(*                                                                         *)
(* SDInv says what the caches hold at each point of a step, in terms of    *)
(* the tokens the sequence had when the step began.                        *)
(***************************************************************************)
EXTENDS SpeculativeDecoding, SequenceTheorems, TLAPS

But(q) == Prefix(q, Len(q) - 1)

SDTypeOK ==
    /\ state \in [SeqIds -> {"Waiting", "Running", "Skipped", "Done", "Error"}]
    /\ tokens \in [SeqIds -> Seq(Tok)] /\ tmp \in [SeqIds -> Nat]
    /\ \A s \in SeqIds : tmp[s] < Len(tokens[s])
    /\ prefill_prompt_toks \in [SeqIds -> Seq(Tok)]
    /\ draft \in Seq(Tok) /\ target \in Seq(Tok)
    /\ normal_draft_cache \in [SeqIds -> Seq(Tok)] /\ normal_cache \in [SeqIds -> Seq(Tok)]
    /\ phase \in {"idle", "draft", "target", "sample", "add",
                  "clone_in_panic", "assert_panic", "slice_panic"}
    /\ seq \in SeqIds /\ is_prompt \in BOOLEAN
    /\ draft_samples \in Seq(Tok) /\ accepted_tokens \in Seq(Tok)
    /\ failures \in Nat /\ misled \in SUBSET SeqIds

\* A sequence that no step is working on.
Resting(s) == phase = "idle" \/ s # seq

AtRest ==
    \A s \in SeqIds : Resting(s) /\ Alive(s) =>
        /\ tmp[s] = 0 /\ prefill_prompt_toks[s] = <<>>
        /\ state[s] = "Running" => Len(tokens[s]) > 1
        /\ state[s] = "Running" /\ s \notin misled =>
              normal_cache[s] = But(tokens[s]) /\ normal_draft_cache[s] = But(tokens[s])

\* The caches of the last batch are in place, or a failed step has emptied them.
Emptied == draft = <<>> /\ target = <<>> /\ failures > 0

InPlace(s) == draft = But(tokens[s]) /\ target = But(tokens[s])

LastBatch ==
    phase = "idle" => \A s \in SeqIds : last_completion_ids = {s} /\ state[s] = "Running" =>
        (s \notin misled => InPlace(s) \/ Emptied)

\* Only a failure misleads.
Blame == failures = 0 => misled = {}

\* The tokens the sequence of the step began with, and what the target's cache
\* held of them.
Base  == Verified[seq]
Start == IF is_prompt THEN <<>> ELSE But(Base)

Drafting ==
    /\ tokens[seq] = Base \o draft_samples /\ tmp[seq] = Len(draft_samples)
    /\ Base \in Seq(Tok) /\ Len(Base) > 0 /\ Len(draft_samples) <= gamma
    /\ prefill_prompt_toks[seq] = <<>>

DraftCaches ==
    /\ target = Start
    /\ draft = IF draft_samples = <<>> THEN Start ELSE Base \o But(draft_samples)

\* The gamma tokens to verify, on top of what the target has.
Prefilled == tmp[seq] = 0 /\ Len(draft_samples) = gamma

PrefilledCaches ==
    /\ draft = tokens[seq] \o But(draft_samples)
    /\ target \o prefill_prompt_toks[seq] = draft

Verifying == Prefilled /\ prefill_prompt_toks[seq] = <<>>

VerifyingCaches == target = tokens[seq] \o But(draft_samples) /\ draft = target

Adding ==
    /\ tmp[seq] = 0 /\ prefill_prompt_toks[seq] = <<>>
    /\ Len(tokens[seq]) + Len(accepted_tokens) > 1

\* The caches are ahead by the tokens that are still to be added, and the target
\* sampled each of these after those before it; its sampler saw the tokens without the
\* last n, which the step has added.
AddingCaches == target = But(tokens[seq] \o accepted_tokens) /\ draft = target

SampledAfter(n) ==
    \A k \in 1..Len(accepted_tokens) :
        Likely(tokens[seq] \o Prefix(accepted_tokens, k - 1),
               Prefix(tokens[seq], Len(tokens[seq]) - n), accepted_tokens[k])

AddingSamples ==
    \E n \in 0..Len(tokens[seq]) : n + Len(accepted_tokens) <= gamma /\ SampledAfter(n)

StepInv ==
    /\ phase = "draft" => Drafting
    /\ phase = "target" => Prefilled
    /\ phase = "sample" => Verifying
    /\ phase = "add" => Adding

CacheInv ==
    seq \notin misled =>
        /\ phase = "draft" => DraftCaches
        /\ phase = "target" => PrefilledCaches
        /\ phase = "sample" => VerifyingCaches
        /\ phase = "add" => AddingCaches /\ AddingSamples

SDInv == SDTypeOK /\ AtRest /\ LastBatch /\ Blame /\ StepInv /\ CacheInv

-----------------------------------------------------------------------------
\* Sequences.

LEMMA PrefixFacts ==
    ASSUME NEW S, NEW q \in Seq(S), NEW n \in 0..Len(q)
    PROVE  /\ Prefix(q, n) \in Seq(S) /\ Len(Prefix(q, n)) = n
           /\ \A i \in 1..n : Prefix(q, n)[i] = q[i]
<1>1. Len(q) \in Nat /\ \A i \in 1..n : q[i] \in S
  BY ElementOfSeq, LenProperties
<1>2. n \in Int /\ n >= 0
  BY <1>1
<1> QED
  BY <1>1, <1>2, SubSeqProperties DEF Prefix

LEMMA PrefixEnds ==
    ASSUME NEW S, NEW q \in Seq(S)
    PROVE  Prefix(q, 0) = <<>> /\ Prefix(q, Len(q)) = q
BY SubSeqFull, SubSeqEmpty DEF Prefix

\* Sequences that agree up to n have the same prefix.
LEMMA SamePrefix ==
    ASSUME NEW S, NEW p \in Seq(S), NEW q \in Seq(S),
           NEW n \in 0..Len(p), n <= Len(q), \A i \in 1..n : p[i] = q[i]
    PROVE  Prefix(p, n) = Prefix(q, n)
<1>1. n \in 0..Len(q)
  BY LenProperties
<1>2. /\ Prefix(p, n) \in Seq(S) /\ Len(Prefix(p, n)) = n
      /\ Prefix(q, n) \in Seq(S) /\ Len(Prefix(q, n)) = n
      /\ \A i \in 1..n : Prefix(p, n)[i] = p[i] /\ Prefix(q, n)[i] = q[i]
  BY <1>1, PrefixFacts
<1> QED
  BY <1>2, SeqEqual

LEMMA PrefixOfConcat ==
    ASSUME NEW S, NEW p \in Seq(S), NEW q \in Seq(S), NEW n \in 0..Len(q)
    PROVE  Prefix(p \o q, Len(p) + n) = p \o Prefix(q, n)
<1> DEFINE a == Prefix(p \o q, Len(p) + n)
           b == p \o Prefix(q, n)
<1>1. Len(p) \in Nat /\ Len(q) \in Nat /\ n \in Nat /\ n <= Len(q)
  BY LenProperties
<1>2. /\ p \o q \in Seq(S) /\ Len(p \o q) = Len(p) + Len(q)
      /\ \A i \in 1..Len(p) + Len(q) :
            (p \o q)[i] = IF i <= Len(p) THEN p[i] ELSE q[i - Len(p)]
  BY ConcatProperties
<1>3. Len(p) + n \in 0..Len(p \o q)
  BY <1>1, <1>2
<1>4. a \in Seq(S) /\ Len(a) = Len(p) + n /\ \A i \in 1..Len(p) + n : a[i] = (p \o q)[i]
  BY <1>2, <1>3, PrefixFacts
<1>5. /\ Prefix(q, n) \in Seq(S) /\ Len(Prefix(q, n)) = n
      /\ \A i \in 1..n : Prefix(q, n)[i] = q[i]
  BY PrefixFacts
<1>6. /\ b \in Seq(S) /\ Len(b) = Len(p) + n
      /\ \A i \in 1..Len(p) + n :
            b[i] = IF i <= Len(p) THEN p[i] ELSE Prefix(q, n)[i - Len(p)]
  <2> HIDE DEF b
  <2>1. Len(b) = Len(p) + Len(Prefix(q, n))
    BY <1>5, ConcatProperties DEF b
  <2> QED
    BY <1>5, <2>1, ConcatProperties DEF b
<1>7. ASSUME NEW i \in 1..Len(p) + n PROVE a[i] = b[i]
  <2> HIDE DEF a, b
  <2>1. a[i] = IF i <= Len(p) THEN p[i] ELSE q[i - Len(p)]
    BY <1>1, <1>2, <1>4
  <2>2. CASE i <= Len(p)
    BY <2>1, <2>2, <1>6
  <2>3. CASE ~(i <= Len(p))
    <3>1. i - Len(p) \in 1..n
      BY <1>1, <2>3
    <3> QED
      BY <2>1, <2>3, <3>1, <1>5, <1>6
  <2> QED
    BY <2>2, <2>3
<1> QED
  <2> HIDE DEF a, b
  <2>1. a = b
    BY <1>4, <1>6, <1>7, SeqEqual
  <2> QED
    BY <2>1 DEF a, b

LEMMA Singleton ==
    ASSUME NEW S, NEW t \in S, NEW q \in Seq(S)
    PROVE  /\ <<t>> \in Seq(S) /\ Len(<<t>>) = 1 /\ <<t>>[1] = t
           /\ Append(q, t) = q \o <<t>>
           /\ Append(q, t) \in Seq(S) /\ Len(Append(q, t)) = Len(q) + 1
<1>1. <<t>> \in Seq(S) /\ Len(<<t>>) = 1 /\ <<t>>[1] = t
  OBVIOUS
<1>2. Append(q, t) \in Seq(S) /\ Len(Append(q, t)) = Len(q) + 1
  OBVIOUS
<1>3. Append(q, t) = q \o <<t>>
  BY AppendIsConcat
<1> QED
  BY <1>1, <1>2, <1>3

\* What But keeps.
LEMMA ButFacts ==
    ASSUME NEW S, NEW q \in Seq(S), Len(q) > 0
    PROVE  /\ But(q) \in Seq(S) /\ Len(But(q)) = Len(q) - 1
           /\ Last(q) \in S /\ But(q) \o <<Last(q)>> = q
<1>1. Len(q) \in Nat /\ Len(q) - 1 \in 0..Len(q) /\ Len(q) \in 1..Len(q)
  BY LenProperties
<1>2. But(q) \in Seq(S) /\ Len(But(q)) = Len(q) - 1
  BY <1>1, PrefixFacts DEF But
<1>3. Last(q) \in S
  BY <1>1, ElementOfSeq DEF Last
<1>4. 1 \in 1..Len(q)
  BY <1>1
<1>5. SubSeq(q, 1, Len(q)) = SubSeq(q, 1, Len(q) - 1) \o <<q[Len(q)]>>
  BY <1>1, <1>4, SubSeqRecursiveSecond
<1>6. SubSeq(q, 1, Len(q)) = q
  BY SubSeqFull
<1> QED
  BY <1>2, <1>3, <1>5, <1>6 DEF But, Prefix, Last

LEMMA ButOfConcat ==
    ASSUME NEW S, NEW p \in Seq(S), NEW q \in Seq(S), Len(q) > 0
    PROVE  But(p \o q) = p \o But(q) /\ Last(p \o q) = Last(q)
<1>1. Len(p) \in Nat /\ Len(q) \in Nat /\ Len(q) - 1 \in 0..Len(q)
  BY LenProperties
<1>2. Len(p \o q) = Len(p) + Len(q)
  BY ConcatProperties
<1>3. Len(p \o q) - 1 = Len(p) + (Len(q) - 1)
  BY <1>1, <1>2
<1>4. Prefix(p \o q, Len(p) + (Len(q) - 1)) = p \o Prefix(q, Len(q) - 1)
  BY <1>1, PrefixOfConcat
<1>5. (p \o q)[Len(p) + Len(q)] = q[Len(q)]
  BY <1>1, ConcatProperties
<1> QED
  BY <1>2, <1>3, <1>4, <1>5 DEF But, Last

LEMMA ButOfAppend ==
    ASSUME NEW S, NEW q \in Seq(S), NEW t \in S
    PROVE  But(Append(q, t)) = q
<1>1. Len(Append(q, t)) - 1 = Len(q) + 0
  BY Singleton, LenProperties
<1>2. 0 \in 0..Len(<<t>>)
  BY Singleton
<1>3. Prefix(q \o <<t>>, Len(q) + 0) = q \o Prefix(<<t>>, 0)
  BY <1>2, Singleton, PrefixOfConcat
<1>4. Prefix(<<t>>, 0) = <<>>
  BY Singleton, PrefixEnds
<1> QED
  BY <1>1, <1>3, <1>4, Singleton, ConcatEmptySeq DEF But
-----------------------------------------------------------------------------
\* Steps.

LEMMA InitSD == SpeculativeAssumption /\ Init => SDInv
<1> SUFFICES ASSUME SpeculativeAssumption, Init PROVE SDInv
  OBVIOUS
<1>1. SDTypeOK
  BY EmptySeq DEF Init, SDTypeOK, SpeculativeAssumption
<1>2. AtRest /\ LastBatch /\ Blame /\ StepInv /\ CacheInv
  BY DEF Init, AtRest, LastBatch, Blame, StepInv, CacheInv
<1> QED
  BY <1>1, <1>2 DEF SDInv

\* The tokens of a sequence without guesses.
LEMMA NoGuesses ==
    ASSUME SDTypeOK, NEW s \in SeqIds, tmp[s] = 0
    PROVE  Verified[s] = tokens[s] /\ tokens[s] \in Seq(Tok) /\ Len(tokens[s]) > 0
<1>1. tokens[s] \in Seq(Tok) /\ Len(tokens[s]) > 0
  BY DEF SDTypeOK
<1>2. Len(tokens[s]) - 0 = Len(tokens[s])
  BY <1>1, LenProperties
<1> QED
  BY <1>1, <1>2, PrefixEnds DEF Verified

LEMMA BeginStep ==
    ASSUME SDInv, NEW s \in SeqIds, BeginPrompt(s) \/ BeginCompletion(s)
    PROVE  SDInv' /\ misled' \in {misled, misled \cup {s}, misled \ {s}}
<1>1. /\ phase = "idle" /\ phase' = "draft" /\ seq' = s /\ draft_samples' = <<>>
      /\ UNCHANGED <<state, tokens, tmp, prefill_prompt_toks, normal_draft_cache, normal_cache,
                     accepted_tokens, last_completion_ids, failures>>
      /\ Alive(s) /\ is_prompt' \in BOOLEAN
  BY DEF BeginPrompt, BeginCompletion, Begin, Schedulable, seqVars
<1>2. tmp[s] = 0 /\ prefill_prompt_toks[s] = <<>>
  BY <1>1 DEF SDInv, AtRest, Resting
<1>3. Verified[s] = tokens[s] /\ tokens[s] \in Seq(Tok) /\ Len(tokens[s]) > 0
  BY <1>2, NoGuesses DEF SDInv
<1>4. Verified' = Verified
  BY <1>1 DEF Verified
<1>5. /\ misled' \in {misled, misled \cup {s}, misled \ {s}}
      /\ draft' \in Seq(Tok) /\ target' \in Seq(Tok)
      /\ s \notin misled' => IF is_prompt' THEN draft' = <<>> /\ target' = <<>>
                             ELSE draft' = But(tokens[s]) /\ target' = But(tokens[s])
      /\ misled' \subseteq misled \/ failures > 0
  <2>1. CASE BeginPrompt(s)
    BY <2>1, EmptySeq DEF BeginPrompt
  <2>2. CASE BeginCompletion(s)
    <3>1. state[s] = "Running" /\ is_prompt' = FALSE
      BY <2>2 DEF BeginCompletion
    <3>2. CASE last_completion_ids = {s}
      <4>1. /\ misled' = IF target = <<>> THEN misled \cup {s} ELSE misled
            /\ draft' = draft /\ target' = target
        BY <2>2, <3>2 DEF BeginCompletion, pipeVars
      <4>2. Len(tokens[s]) > 1 /\ (s \notin misled => InPlace(s) \/ Emptied)
        BY <1>1, <3>1, <3>2 DEF SDInv, LastBatch, AtRest, Resting
      <4>3. draft' \in Seq(Tok) /\ target' \in Seq(Tok)
        BY <4>1 DEF SDInv, SDTypeOK
      <4>4. s \notin misled' => InPlace(s)
        BY <4>1, <4>2 DEF Emptied
      <4>5. misled' \subseteq misled \/ failures > 0
        <5>1. But(tokens[s]) # <<>>
          <6>1. Len(But(tokens[s])) = Len(tokens[s]) - 1 /\ Len(tokens[s]) \in Nat
            BY <1>3, ButFacts, LenProperties
          <6>2. Len(But(tokens[s])) > 0
            BY <4>2, <6>1
          <6> QED
            BY <6>2, EmptySeq
        <5>2. CASE s \in misled
          BY <4>1, <5>2
        <5>3. CASE s \notin misled
          BY <4>1, <4>2, <5>1, <5>3 DEF InPlace, Emptied
        <5> QED
          BY <5>2, <5>3
      <4> QED
        BY <3>1, <4>1, <4>3, <4>4, <4>5 DEF InPlace
    <3>3. CASE last_completion_ids # {s}
      <4>1. misled' = misled /\ draft' = normal_draft_cache[s] /\ target' = normal_cache[s]
        BY <2>2, <3>3 DEF BeginCompletion
      <4>2. s \notin misled =>
               normal_cache[s] = But(tokens[s]) /\ normal_draft_cache[s] = But(tokens[s])
        BY <1>1, <3>1 DEF SDInv, AtRest, Resting
      <4>3. draft' \in Seq(Tok) /\ target' \in Seq(Tok)
        BY <4>1 DEF SDInv, SDTypeOK
      <4> QED
        BY <3>1, <4>1, <4>2, <4>3
    <3> QED
      BY <3>2, <3>3
  <2> QED
    BY <2>1, <2>2
<1>6. SDTypeOK'
  BY <1>1, <1>5, EmptySeq DEF SDInv, SDTypeOK
<1>7. AtRest'
  <2> SUFFICES ASSUME NEW t \in SeqIds, t # s, Alive(t)
               PROVE  /\ tmp[t] = 0 /\ prefill_prompt_toks[t] = <<>>
                      /\ state[t] = "Running" => Len(tokens[t]) > 1
                      /\ state[t] = "Running" /\ t \notin misled' =>
                            normal_cache[t] = But(tokens[t]) /\ normal_draft_cache[t] = But(tokens[t])
    BY <1>1 DEF AtRest, Resting, Alive, But, Prefix
  <2>1. t \notin misled' => t \notin misled
    BY <1>5
  <2> QED
    BY <1>1, <2>1 DEF SDInv, AtRest, Resting
<1>8. LastBatch' /\ Blame'
  <2>1. LastBatch'
    BY <1>1 DEF LastBatch
  <2>2. failures = 0 => misled' = {}
    BY <1>5 DEF SDInv, Blame
  <2> QED
    BY <1>1, <2>1, <2>2 DEF Blame
<1>9. StepInv' /\ CacheInv'
  <2>1. Base' = tokens[s]
    BY <1>1, <1>3, <1>4 DEF Base
  <2>2. Start' = IF is_prompt' THEN <<>> ELSE But(tokens[s])
    BY <2>1 DEF Start, But, Prefix
  <2>3. Len(draft_samples') = 0
    BY <1>1
  <2>4. tokens'[seq'] = Base' \o draft_samples'
    BY <1>1, <1>3, <2>1, ConcatEmptySeq
  <2>5. 0 <= gamma
    BY SpeculativeAssumption DEF SpeculativeAssumption
  <2>6. Drafting'
    BY <1>1, <1>2, <1>3, <2>1, <2>3, <2>4, <2>5 DEF Drafting
  <2>7. seq' \notin misled' => DraftCaches'
    BY <1>1, <1>5, <2>2 DEF DraftCaches
  <2> QED
    BY <1>1, <2>6, <2>7 DEF StepInv, CacheInv
<1> QED
  BY <1>5, <1>6, <1>7, <1>8, <1>9 DEF SDInv

LEMMA DraftStep == ASSUME SDInv, Draft PROVE SDInv' /\ UNCHANGED <<Verified, misled>>
<1> DEFINE q == tokens[seq]
           n == Len(draft_samples)
<1>1. PICK t \in Tok : /\ draft_samples' = Append(draft_samples, t)
                        /\ tokens' = [tokens EXCEPT ![seq] = Append(@, t)]
  BY DEF Draft
<1>2. /\ phase = "draft" /\ phase' = "draft" /\ n < gamma
      /\ draft' = draft \o DraftInput /\ tmp' = [tmp EXCEPT ![seq] = @ + 1]
      /\ UNCHANGED <<target, state, prefill_prompt_toks, normal_draft_cache, normal_cache,
                     phase, seq, is_prompt, accepted_tokens, last_completion_ids, failures,
                     misled>>
  BY DEF Draft
<1>3. SDTypeOK /\ Drafting
  BY <1>2 DEF SDInv, StepInv
<1>4. /\ seq \in SeqIds /\ q \in Seq(Tok) /\ draft_samples \in Seq(Tok) /\ Base \in Seq(Tok)
      /\ n \in Nat /\ Len(q) \in Nat /\ Len(Base) \in Nat /\ Len(Base) > 0 /\ gamma \in Nat
      /\ q = Base \o draft_samples /\ tmp[seq] = n /\ prefill_prompt_toks[seq] = <<>>
  BY <1>3, LenProperties, SpeculativeAssumption DEF SDTypeOK, Drafting, SpeculativeAssumption
<1>5. /\ Append(q, t) \in Seq(Tok) /\ Len(Append(q, t)) = Len(q) + 1
      /\ Append(q, t) = q \o <<t>> /\ <<t>> \in Seq(Tok)
  BY <1>4, Singleton
<1>6. /\ draft_samples' \in Seq(Tok) /\ Len(draft_samples') = n + 1
      /\ draft_samples' = draft_samples \o <<t>> /\ But(draft_samples') = draft_samples
      /\ draft_samples' # <<>>
  BY <1>1, <1>4, Singleton, ButOfAppend, AppendProperties
<1>7. tokens'[seq] = Base \o draft_samples'
  <2>1. tokens'[seq] = (Base \o draft_samples) \o <<t>>
    BY <1>1, <1>3, <1>4, <1>5 DEF SDTypeOK
  <2>2. (Base \o draft_samples) \o <<t>> = Base \o (draft_samples \o <<t>>)
    BY <1>4, <1>5, ConcatAssociative
  <2> QED
    BY <1>6, <2>1, <2>2
<1>8. UNCHANGED Verified
  <2>1. ASSUME NEW s \in SeqIds
        PROVE  Prefix(tokens'[s], Len(tokens'[s]) - tmp'[s]) = Prefix(tokens[s], Len(tokens[s]) - tmp[s])
    <3>1. CASE s # seq
      BY <1>1, <1>2, <1>3, <3>1 DEF SDTypeOK
    <3>2. CASE s = seq
      <4>1. tokens'[seq] = Append(q, t) /\ tmp'[seq] = n + 1
        BY <1>1, <1>2, <1>3, <1>4 DEF SDTypeOK
      <4>2. Len(tokens'[seq]) - tmp'[seq] = Len(q) - n
        BY <1>4, <1>5, <4>1
      <4>3. n <= Len(q)
        BY <1>3, <1>4 DEF SDTypeOK
      <4>4. /\ Len(q) - n \in 0..Len(Append(q, t)) /\ Len(q) - n <= Len(q)
            /\ \A i \in 1..Len(q) - n : i \in 1..Len(q)
        BY <1>4, <1>5, <4>3
      <4>5. \A i \in 1..Len(q) - n : Append(q, t)[i] = q[i]
        BY <1>4, <4>4, AppendProperties
      <4>6. Prefix(Append(q, t), Len(q) - n) = Prefix(q, Len(q) - n)
        BY <1>4, <1>5, <4>4, <4>5, SamePrefix
      <4> QED
        BY <1>4, <3>2, <4>1, <4>2, <4>6
    <3> QED
      BY <3>1, <3>2
  <2> QED
    BY <2>1 DEF Verified
<1>9. Base' = Base /\ Start' = Start
  BY <1>2, <1>8 DEF Base, Start, But, Prefix
<1>10. ASSUME DraftCaches PROVE draft' = Base \o draft_samples
  <2>1. Toks(seq) = q
    BY <1>4 DEF Toks
  <2>2. CASE draft_samples = <<>>
    <3>1. q = Base /\ draft = Start
      BY <1>4, <1>10, <2>2, ConcatEmptySeq DEF DraftCaches
    <3>2. CASE is_prompt
      <4>1. draft' = <<>> \o Base
        BY <1>2, <2>1, <2>2, <3>1, <3>2 DEF DraftInput, Start
      <4> QED
        BY <1>4, <2>2, <4>1, ConcatEmptySeq
    <3>3. CASE ~is_prompt
      <4>1. draft' = But(Base) \o <<Last(Base)>>
        BY <1>2, <2>1, <3>1, <3>3 DEF DraftInput, Start
      <4> QED
        BY <1>4, <2>2, <4>1, ButFacts, ConcatEmptySeq
    <3> QED
      BY <3>2, <3>3
  <2>3. CASE draft_samples # <<>>
    <3>1. Len(draft_samples) > 0
      BY <1>4, <2>3, EmptySeq
    <3>2. /\ But(draft_samples) \in Seq(Tok) /\ Last(draft_samples) \in Tok
          /\ But(draft_samples) \o <<Last(draft_samples)>> = draft_samples
      BY <1>4, <3>1, ButFacts
    <3>3. draft' = (Base \o But(draft_samples)) \o <<Last(q)>>
      BY <1>2, <1>10, <2>1, <2>3 DEF DraftInput, DraftCaches
    <3>4. Last(q) = Last(draft_samples)
      BY <1>4, <3>1, ButOfConcat
    <3>5. <<Last(draft_samples)>> \in Seq(Tok)
      BY <3>2, <1>4, Singleton
    <3>6. (Base \o But(draft_samples)) \o <<Last(draft_samples)>>
             = Base \o (But(draft_samples) \o <<Last(draft_samples)>>)
      <4>1. Base \in Seq(Tok) /\ But(draft_samples) \in Seq(Tok)
        BY <1>4, <3>2
      <4> HIDE DEF q, n
      <4> QED
        BY <3>5, <4>1, ConcatAssociative
    <3> QED
      BY <3>2, <3>3, <3>4, <3>6
  <2> QED
    BY <2>2, <2>3
<1>11. draft' \in Seq(Tok)
  <2>1. Toks(seq) = q
    BY <1>4 DEF Toks
  <2>2. Len(q) \in 1..Len(q)
    BY <1>3, <1>4 DEF SDTypeOK
  <2>3. Last(q) \in Tok
    <3> HIDE DEF q, n
    <3> QED
      BY <1>4, <2>2, ElementOfSeq DEF Last
  <2>4. DraftInput \in Seq(Tok)
    BY <1>4, <2>1, <2>3, Singleton DEF DraftInput
  <2>5. draft \in Seq(Tok)
    BY <1>3 DEF SDTypeOK
  <2> QED
    BY <1>2, <2>4, <2>5, ConcatProperties
<1>12. SDTypeOK'
  <2>1. tokens' \in [SeqIds -> Seq(Tok)] /\ tmp' \in [SeqIds -> Nat]
    BY <1>1, <1>2, <1>3, <1>5 DEF SDTypeOK
  <2>2. \A s \in SeqIds : tmp'[s] < Len(tokens'[s])
    <3> TAKE s \in SeqIds
    <3>1. CASE s = seq
      <4>1. tokens'[seq] = Append(q, t) /\ tmp'[seq] = n + 1 /\ n < Len(q)
        BY <1>1, <1>2, <1>3, <1>4 DEF SDTypeOK
      <4> QED
        BY <1>4, <1>5, <3>1, <4>1
    <3>2. CASE s # seq
      BY <1>1, <1>2, <1>3, <3>2 DEF SDTypeOK
    <3> QED
      BY <3>1, <3>2
  <2> QED
    BY <1>2, <1>3, <1>6, <1>11, <2>1, <2>2 DEF SDTypeOK
<1>13. AtRest'
  <2>1. \A s \in SeqIds : s # seq => tokens'[s] = tokens[s] /\ tmp'[s] = tmp[s]
    BY <1>1, <1>2, <1>3 DEF SDTypeOK
  <2> QED
    BY <1>2, <2>1 DEF SDInv, AtRest, Resting, Alive, But, Prefix
<1>14. StepInv' /\ CacheInv'
  <2>1. tmp'[seq] = n + 1 /\ n + 1 <= gamma
    BY <1>2, <1>3, <1>4 DEF SDTypeOK
  <2>2. Drafting'
    BY <1>2, <1>3, <1>4, <1>6, <1>7, <1>9, <2>1 DEF Drafting
  <2>3. ASSUME seq \notin misled PROVE DraftCaches'
    <3>1. DraftCaches
      BY <1>2, <2>3 DEF SDInv, CacheInv
    <3>2. draft' = Base \o draft_samples
      BY <1>10, <3>1
    <3>3. target' = Start'
      BY <1>2, <1>9, <3>1 DEF DraftCaches
    <3> QED
      BY <1>6, <1>9, <3>2, <3>3 DEF DraftCaches
  <2> QED
    BY <1>2, <2>2, <2>3 DEF StepInv, CacheInv
<1> QED
  BY <1>2, <1>8, <1>12, <1>13, <1>14 DEF SDInv, LastBatch, Blame

LEMMA EndDraftStep == ASSUME SDInv, EndDraft PROVE SDInv' /\ UNCHANGED <<Verified, misled>>
<1> DEFINE q == tokens[seq]
<1>1. /\ phase = "draft" /\ Len(draft_samples) = gamma /\ phase' = "target"
      /\ tokens' = [tokens EXCEPT ![seq] = Removed] /\ tmp' = [tmp EXCEPT ![seq] = 0]
      /\ prefill_prompt_toks' = [prefill_prompt_toks EXCEPT ![seq] = Prefill]
      /\ UNCHANGED <<draft, target, state, normal_draft_cache, normal_cache, seq, is_prompt,
                     draft_samples, accepted_tokens, last_completion_ids, failures, misled>>
  BY DEF EndDraft, pipeVars
<1>2. SDTypeOK /\ Drafting
  BY <1>1 DEF SDInv, StepInv
<1>3. /\ seq \in SeqIds /\ q \in Seq(Tok) /\ draft_samples \in Seq(Tok) /\ Base \in Seq(Tok)
      /\ Len(q) \in Nat /\ Len(Base) \in Nat /\ Len(Base) > 0 /\ gamma \in Nat /\ gamma > 0
      /\ q = Base \o draft_samples /\ tmp[seq] = gamma
  <2>1. seq \in SeqIds /\ q \in Seq(Tok) /\ draft_samples \in Seq(Tok)
    BY <1>2 DEF SDTypeOK
  <2>2. gamma \in Nat /\ gamma > 0
    BY SpeculativeAssumption DEF SpeculativeAssumption
  <2>3. /\ q = Base \o draft_samples /\ tmp[seq] = gamma
        /\ Base \in Seq(Tok) /\ Len(Base) > 0
    BY <1>1, <1>2 DEF Drafting
  <2>4. Len(q) \in Nat /\ Len(Base) \in Nat
    <3> HIDE DEF q
    <3> QED
      BY <2>1, <2>3, LenProperties
  <2> QED
    BY <2>1, <2>2, <2>3, <2>4
<1>4. Removed = Base
  <2>1. Len(q) - gamma = Len(Base) + 0
    <3>1. Len(Base \o draft_samples) = Len(Base) + Len(draft_samples)
      BY <1>3, ConcatProperties
    <3> HIDE DEF q
    <3> QED
      BY <1>1, <1>3, <3>1
  <2>2. 0 \in 0..Len(draft_samples)
    BY <1>1, <1>3
  <2>3. Prefix(q, Len(Base) + 0) = Base \o Prefix(draft_samples, 0)
    BY <1>3, <2>2, PrefixOfConcat
  <2>4. Prefix(draft_samples, 0) = <<>>
    BY <1>3, PrefixEnds
  <2> QED
    BY <1>3, <2>1, <2>3, <2>4, ConcatEmptySeq DEF Removed
<1>5. But(draft_samples) \in Seq(Tok) /\ Prefix(draft_samples, gamma - 1) = But(draft_samples)
  BY <1>1, <1>3, ButFacts DEF But
<1>6. Prefill \in Seq(Tok) /\ (DraftCaches => target \o Prefill = Base \o But(draft_samples))
  <2>1. CASE is_prompt
    <3>1. (DraftCaches => target = <<>>) /\ Prefill = Base \o But(draft_samples)
      BY <1>4, <1>5, <2>1 DEF Prefill, DraftCaches, Start
    <3>2. Prefill \in Seq(Tok)
      BY <1>3, <1>5, <3>1, ConcatProperties
    <3> QED
      BY <3>1, <3>2, ConcatEmptySeq
  <2>2. CASE ~is_prompt
    <3>1. /\ DraftCaches => target = But(Base)
          /\ Prefill = <<Last(Base)>> \o But(draft_samples)
      BY <1>4, <1>5, <2>2 DEF Prefill, DraftCaches, Start
    <3>2. /\ But(Base) \in Seq(Tok) /\ Last(Base) \in Tok
          /\ But(Base) \o <<Last(Base)>> = Base
      BY <1>3, ButFacts
    <3>3. <<Last(Base)>> \in Seq(Tok)
      BY <1>3, <3>2, Singleton
    <3>4. (But(Base) \o <<Last(Base)>>) \o But(draft_samples)
             = But(Base) \o (<<Last(Base)>> \o But(draft_samples))
      <4> HIDE DEF q
      <4>1. But(Base) \in Seq(Tok) /\ But(draft_samples) \in Seq(Tok)
        BY <1>5, <3>2
      <4> QED
        BY <4>1, <3>3, ConcatAssociative
    <3>5. Prefill \in Seq(Tok)
      BY <1>5, <3>1, <3>3, ConcatProperties
    <3> QED
      BY <3>1, <3>2, <3>4, <3>5
  <2> QED
    BY <1>2, <2>1, <2>2
<1>7. tokens'[seq] = Base /\ tmp'[seq] = 0 /\ prefill_prompt_toks'[seq] = Prefill
  BY <1>1, <1>2, <1>4 DEF SDTypeOK
<1>8. \A s \in SeqIds : s # seq => /\ tokens'[s] = tokens[s] /\ tmp'[s] = tmp[s]
                                   /\ prefill_prompt_toks'[s] = prefill_prompt_toks[s]
  BY <1>1, <1>2 DEF SDTypeOK
<1>9. UNCHANGED Verified
  <2>1. ASSUME NEW s \in SeqIds
        PROVE  Prefix(tokens'[s], Len(tokens'[s]) - tmp'[s]) = Prefix(tokens[s], Len(tokens[s]) - tmp[s])
    <3>1. CASE s # seq
      BY <1>8, <3>1
    <3>2. CASE s = seq
      <4>1. Prefix(q, Len(q) - tmp[seq]) = Base
        BY <1>3, <1>4 DEF Removed
      <4>2. Len(Base) - 0 = Len(Base)
        BY <1>3
      <4>3. Prefix(tokens'[seq], Len(tokens'[seq]) - tmp'[seq]) = Base
        BY <1>3, <1>7, <4>2, PrefixEnds
      <4> QED
        BY <3>2, <4>1, <4>3
    <3> QED
      BY <3>1, <3>2
  <2> QED
    BY <2>1 DEF Verified
<1>11. SDTypeOK'
  <2>1. /\ tokens' \in [SeqIds -> Seq(Tok)] /\ tmp' \in [SeqIds -> Nat]
        /\ prefill_prompt_toks' \in [SeqIds -> Seq(Tok)]
    BY <1>1, <1>2, <1>3, <1>4, <1>6 DEF SDTypeOK
  <2>2. \A s \in SeqIds : tmp'[s] < Len(tokens'[s])
    BY <1>2, <1>3, <1>7, <1>8 DEF SDTypeOK
  <2> QED
    BY <1>1, <1>2, <2>1, <2>2 DEF SDTypeOK
<1>12. AtRest'
  BY <1>1, <1>8 DEF SDInv, AtRest, Resting, Alive, But, Prefix
<1>13. StepInv' /\ CacheInv'
  <2>1. ASSUME seq \notin misled PROVE PrefilledCaches'
    <3>1. DraftCaches
      BY <1>1, <2>1 DEF SDInv, CacheInv
    <3>2. draft_samples # <<>>
      BY <1>1, <1>3, EmptySeq
    <3>3. draft = Base \o But(draft_samples)
      BY <3>1, <3>2 DEF DraftCaches
    <3>4. But(draft_samples)' = But(draft_samples)
      BY <1>1 DEF But, Prefix
    <3>5. draft' = tokens'[seq] \o But(draft_samples)'
      BY <1>1, <1>7, <3>3, <3>4
    <3>6. target' \o prefill_prompt_toks'[seq'] = draft'
      BY <1>1, <1>6, <1>7, <3>1, <3>3
    <3> QED
      BY <1>1, <3>5, <3>6 DEF PrefilledCaches
  <2>2. Prefilled'
    BY <1>1, <1>7 DEF Prefilled
  <2> QED
    BY <1>1, <2>1, <2>2 DEF StepInv, CacheInv
<1> QED
  BY <1>1, <1>9, <1>11, <1>12, <1>13 DEF SDInv, LastBatch, Blame

LEMMA TargetForwardStep ==
    ASSUME SDInv, TargetForward PROVE SDInv' /\ UNCHANGED <<Verified, misled>>
<1>1. /\ phase = "target" /\ phase' = "sample"
      /\ target' = target \o prefill_prompt_toks[seq]
      /\ prefill_prompt_toks' = [prefill_prompt_toks EXCEPT ![seq] = <<>>]
      /\ UNCHANGED <<draft, state, tokens, tmp, normal_draft_cache, normal_cache, seq, is_prompt,
                     draft_samples, accepted_tokens, last_completion_ids, failures, misled>>
  BY DEF TargetForward
<1>2. SDTypeOK /\ Prefilled
  BY <1>1 DEF SDInv, StepInv
<1>3. UNCHANGED Verified
  BY <1>1 DEF Verified
<1>4. target' \in Seq(Tok)
  <2>1. target \in Seq(Tok) /\ prefill_prompt_toks[seq] \in Seq(Tok)
    BY <1>2 DEF SDTypeOK
  <2> QED
    BY <1>1, <2>1, ConcatProperties
<1>5. SDTypeOK'
  BY <1>1, <1>2, <1>4, EmptySeq DEF SDTypeOK
<1>6. AtRest'
  <2>1. \A s \in SeqIds : s # seq => prefill_prompt_toks'[s] = prefill_prompt_toks[s]
    BY <1>1, <1>2 DEF SDTypeOK
  <2> QED
    BY <1>1, <2>1 DEF SDInv, AtRest, Resting, Alive, But, Prefix
<1>7. StepInv' /\ CacheInv'
  <2>1. prefill_prompt_toks'[seq] = <<>>
    BY <1>1, <1>2 DEF SDTypeOK
  <2>2. Verifying'
    BY <1>1, <1>2, <2>1 DEF Prefilled, Verifying
  <2>3. ASSUME seq \notin misled PROVE VerifyingCaches'
    <3>1. PrefilledCaches
      BY <1>1, <2>3 DEF SDInv, CacheInv
    <3>2. But(draft_samples)' = But(draft_samples)
      BY <1>1 DEF But, Prefix
    <3> QED
      BY <1>1, <3>1, <3>2 DEF PrefilledCaches, VerifyingCaches
  <2> QED
    BY <1>1, <2>2, <2>3 DEF StepInv, CacheInv
<1> QED
  BY <1>1, <1>3, <1>5, <1>6, <1>7 DEF SDInv, LastBatch, Blame

\* Accepting n samples: the caches are cut back to what they say of the sequence.
LEMMA VerifyStep == ASSUME SDInv, Verify PROVE SDInv' /\ UNCHANGED <<Verified, misled>>
<1> DEFINE q == tokens[seq]
           d == draft_samples
<1>1. PICK x \in TargetSamples : \E m \in Accepted(x) :
          /\ accepted_tokens' = Prefix(x, m)
          /\ draft' = CutBack(draft, m) /\ target' = CutBack(target, m)
  BY DEF Verify
<1>2. PICK n \in Accepted(x) :
          /\ accepted_tokens' = Prefix(x, n)
          /\ draft' = CutBack(draft, n) /\ target' = CutBack(target, n)
  BY <1>1
<1>3. /\ phase = "sample" /\ phase' = "add"
      /\ UNCHANGED <<state, tokens, tmp, prefill_prompt_toks, normal_draft_cache, normal_cache,
                     seq, is_prompt, draft_samples, last_completion_ids, failures, misled>>
  BY DEF Verify, seqVars
<1>4. SDTypeOK /\ Verifying /\ tmp[seq] = 0
  BY <1>3 DEF SDInv, StepInv, Verifying, Prefilled
<1>5. /\ seq \in SeqIds /\ q \in Seq(Tok) /\ Len(q) \in Nat /\ Len(q) > 0
      /\ d \in Seq(Tok) /\ Len(d) = gamma
  BY <1>4, LenProperties DEF SDTypeOK, Verifying, Prefilled
<1>6. gamma \in Nat /\ gamma > 0 /\ n \in 1..gamma /\ \A k \in 1..n - 1 : x[k] = d[k]
  BY SpeculativeAssumption DEF SpeculativeAssumption, Accepted
<1>7. x \in Seq(Tok) /\ Len(x) = gamma /\ \A k \in 1..gamma : Likely(Context(k), q, x[k])
  <2>1. Toks(seq) = q
    BY <1>4 DEF Verifying, Toks
  <2> QED
    BY <1>6, <2>1 DEF TargetSamples
<1>8. But(d) \in Seq(Tok) /\ Len(But(d)) = gamma - 1
  BY <1>5, <1>6, ButFacts
<1>9. n \in 0..Len(x) /\ Prefix(x, n) \in Seq(Tok) /\ Len(Prefix(x, n)) = n
      /\ \A k \in 1..n : Prefix(x, n)[k] = x[k]
  <2>1. n \in 0..Len(x)
    BY <1>6, <1>7
  <2> QED
    BY <1>7, <2>1, PrefixFacts
<1>10. \A k \in 1..n : Prefix(Prefix(x, n), k - 1) = Prefix(x, k - 1)
  <2> TAKE k \in 1..n
  <2>1. /\ k - 1 \in 0..Len(Prefix(x, n)) /\ k - 1 <= Len(x)
        /\ \A i \in 1..k - 1 : i \in 1..n
    BY <1>6, <1>7, <1>9
  <2> QED
    BY <1>7, <1>9, <2>1, SamePrefix
<1>11. draft' \in Seq(Tok) /\ target' \in Seq(Tok)
  <2>1. ASSUME NEW c \in Seq(Tok) PROVE CutBack(c, n) \in Seq(Tok)
    <3>1. Len(c) \in Nat /\ Len(c) - (gamma - n) \in Int /\ Len(c) - (gamma - n) <= Len(c)
      BY <1>6, LenProperties
    <3>2. CASE Len(c) - (gamma - n) \in 0..Len(c)
      BY <3>2, PrefixFacts DEF CutBack
    <3>3. CASE Len(c) - (gamma - n) < 0
      BY <3>1, <3>3, SubSeqEmpty, EmptySeq DEF CutBack, Prefix
    <3> QED
      BY <3>1, <3>2, <3>3
  <2> QED
    BY <1>2, <1>4, <2>1 DEF SDTypeOK
<1>12. ASSUME seq \notin misled PROVE AddingCaches' /\ AddingSamples'
  <2>1. target = q \o But(d) /\ draft = target /\ Len(target) = Len(q) + (gamma - 1)
    <3>1. VerifyingCaches
      BY <1>3, <1>12 DEF SDInv, CacheInv
    <3>2. target = q \o But(d) /\ draft = target
      BY <3>1 DEF VerifyingCaches
    <3>3. Len(q \o But(d)) = Len(q) + Len(But(d))
      BY <1>5, <1>8, ConcatProperties
    <3> HIDE DEF q, d
    <3> QED
      BY <1>8, <3>2, <3>3
  \* What the target computed before its k-th sample.
  <2>2. ASSUME NEW k \in 1..n
        PROVE  Prefix(target, Len(q) + (k - 1)) = q \o Prefix(x, k - 1)
    <3>1. k - 1 \in 0..Len(But(d)) /\ k - 1 \in 0..Len(d) /\ k - 1 <= Len(x) /\ k - 1 \in 0..Len(x)
      BY <1>5, <1>6, <1>7, <1>8
    <3>2. \A i \in 1..k - 1 : But(d)[i] = d[i] /\ x[i] = d[i]
      <4>1. gamma - 1 \in 0..Len(d) /\ \A i \in 1..k - 1 : i \in 1..gamma - 1 /\ i \in 1..n - 1
        BY <1>5, <1>6
      <4>2. \A i \in 1..gamma - 1 : Prefix(d, gamma - 1)[i] = d[i]
        BY <1>5, <4>1, PrefixFacts
      <4> QED
        BY <1>5, <1>6, <4>1, <4>2 DEF But
    <3>3. Prefix(But(d), k - 1) = Prefix(x, k - 1)
      BY <1>7, <1>8, <3>1, <3>2, SamePrefix
    <3>4. Prefix(q \o But(d), Len(q) + (k - 1)) = q \o Prefix(But(d), k - 1)
      BY <1>5, <1>8, <3>1, PrefixOfConcat
    <3> QED
      BY <2>1, <3>3, <3>4
  <2>3. AddingCaches'
    <3>1. Len(target) - (gamma - n) = Len(q) + (n - 1) /\ n \in 1..n
      BY <1>5, <1>6, <2>1
    <3>2. target' = q \o Prefix(x, n - 1)
      BY <1>2, <2>2, <3>1 DEF CutBack
    <3>3. But(Prefix(x, n)) = Prefix(x, n - 1) /\ Len(Prefix(x, n)) > 0
      BY <1>6, <1>9, <1>10, <3>1 DEF But
    <3>4. But(q \o Prefix(x, n)) = q \o But(Prefix(x, n))
      BY <1>5, <1>9, <3>3, ButOfConcat
    <3>5. tokens'[seq'] \o accepted_tokens' = q \o Prefix(x, n)
      BY <1>2, <1>3
    <3>6. target' = But(tokens'[seq'] \o accepted_tokens')
      BY <3>2, <3>3, <3>4, <3>5
    <3>7. draft' = target'
      BY <1>2, <2>1
    <3> QED
      BY <3>6, <3>7 DEF AddingCaches, But, Prefix
  <2>4. Prefix(q, Len(q) - 0) = q
    <3>1. Len(q) - 0 = Len(q)
      BY <1>5
    <3> QED
      BY <1>5, <3>1, PrefixEnds
  <2>5. \A k \in 1..n : Likely(q \o Prefix(Prefix(x, n), k - 1), Prefix(q, Len(q) - 0), Prefix(x, n)[k])
    <3> TAKE k \in 1..n
    <3>1. Len(target) - gamma + k = Len(q) + (k - 1) /\ k \in 1..gamma
      BY <1>5, <1>6, <2>1
    <3>2. Context(k) = q \o Prefix(x, k - 1)
      BY <2>2, <3>1 DEF Context
    <3>3. Likely(Context(k), q, x[k])
      BY <1>7, <3>1
    <3>4. q \o Prefix(Prefix(x, n), k - 1) = Context(k) /\ Prefix(x, n)[k] = x[k]
      BY <1>9, <1>10, <3>2
    <3> HIDE DEF q
    <3> QED
      BY <2>4, <3>3, <3>4
  <2>6. AddingSamples'
    <3>1. 0 \in 0..Len(tokens'[seq']) /\ 0 + Len(accepted_tokens') <= gamma
      BY <1>2, <1>3, <1>5, <1>6, <1>9
    <3>2. SampledAfter(0)'
      BY <1>2, <1>3, <1>9, <2>5 DEF SampledAfter, Prefix
    <3> QED
      BY <3>1, <3>2 DEF AddingSamples, SampledAfter, Prefix
  <2> QED
    BY <2>3, <2>6
<1>13. UNCHANGED Verified
  BY <1>3 DEF Verified
<1>14. SDTypeOK'
  BY <1>2, <1>3, <1>4, <1>9, <1>11 DEF SDTypeOK
<1>15. AtRest'
  BY <1>3 DEF SDInv, AtRest, Resting, Alive, But, Prefix
<1>16. StepInv' /\ CacheInv'
  <2>1. Len(tokens'[seq']) + Len(accepted_tokens') > 1
    BY <1>2, <1>3, <1>5, <1>6, <1>9
  <2>2. Adding'
    BY <1>3, <1>4, <2>1 DEF Adding, Verifying
  <2> QED
    BY <1>3, <1>12, <2>2 DEF StepInv, CacheInv
<1> QED
  BY <1>3, <1>13, <1>14, <1>15, <1>16 DEF SDInv, LastBatch, Blame

\* The next accepted token is one the target may sample after the sequence.
LEMMA AddStep ==
    ASSUME SDInv, AddAccepted
    PROVE  /\ SDInv'
           /\ T!Decode(seq) \/ T!Stray(seq)
<1> DEFINE q == tokens[seq]
           a == accepted_tokens
           t == Head(accepted_tokens)
<1>1. /\ phase = "add" /\ a # <<>> /\ tokens' = [tokens EXCEPT ![seq] = Append(@, t)]
      /\ state' = [state EXCEPT ![seq] = "Done"] \/ state' = state
      /\ prefill_prompt_toks' = [prefill_prompt_toks EXCEPT ![seq] = <<>>]
      /\ accepted_tokens' = Tail(a)
      /\ UNCHANGED <<draft, target, tmp, normal_draft_cache, normal_cache,
                     phase, seq, is_prompt, draft_samples, last_completion_ids, failures, misled>>
  BY DEF AddAccepted, pipeVars
<1>2. SDTypeOK /\ Adding
  BY <1>1 DEF SDInv, StepInv
<1>3. /\ seq \in SeqIds /\ q \in Seq(Tok) /\ a \in Seq(Tok) /\ tmp[seq] = 0
      /\ Len(q) \in Nat
  <2>1. seq \in SeqIds /\ q \in Seq(Tok) /\ a \in Seq(Tok)
    BY <1>2 DEF SDTypeOK
  <2> QED
    BY <1>2, <2>1, LenProperties DEF Adding
<1>4. /\ t \in Tok /\ Tail(a) \in Seq(Tok) /\ t = a[1] /\ Len(a) \in Nat /\ Len(a) > 0
      /\ Len(Tail(a)) = Len(a) - 1 /\ \A i \in 1..Len(a) - 1 : Tail(a)[i] = a[i + 1]
  <2>1. Len(a) \in Nat /\ Len(a) > 0
    BY <1>1, <1>3, EmptySeq, LenProperties
  <2>2. t = a[1]
    BY <1>3, <2>1
  <2> QED
    BY <1>1, <1>3, <2>1, <2>2, HeadTailProperties
<1>5. /\ Append(q, t) \in Seq(Tok) /\ Len(Append(q, t)) = Len(q) + 1
      /\ Append(q, t) = q \o <<t>> /\ <<t>> \in Seq(Tok)
  <2> HIDE DEF q, t
  <2> QED
    BY <1>3, <1>4, Singleton
<1>6. /\ tokens'[seq] = Append(q, t) /\ prefill_prompt_toks'[seq] = <<>>
      /\ \A s \in SeqIds : s # seq => /\ tokens'[s] = tokens[s] /\ state'[s] = state[s]
                                      /\ prefill_prompt_toks'[s] = prefill_prompt_toks[s]
  BY <1>1, <1>2, <1>3 DEF SDTypeOK
\* What is to be added stays the same from here on.
<1>7. \A k \in 0..Len(a) - 1 : Append(q, t) \o Prefix(Tail(a), k) = q \o Prefix(a, k + 1)
  <2> TAKE k \in 0..Len(a) - 1
  <2>1. k \in 0..Len(Tail(a)) /\ k + 1 \in 1..Len(a) /\ 1 \in 1..Len(a)
    BY <1>4
  <2>2. Prefix(a, k + 1) = <<t>> \o SubSeq(a, 2, k + 1)
    <3>1. k + 1 \in 1..Len(a) /\ 1 + 1 = 2
      BY <2>1
    <3> HIDE DEF t
    <3> QED
      BY <1>3, <1>4, <2>1, <3>1, SubSeqRecursiveFirst DEF Prefix
  <2>3. SubSeq(a, 2, k + 1) = Prefix(Tail(a), k)
    <3>1. /\ \A i \in 2..k + 1 : a[i] \in Tok
          /\ 2 \in Int /\ k + 1 \in Int
      BY <1>3, <1>4, <2>1, ElementOfSeq
    <3>2. /\ SubSeq(a, 2, k + 1) \in Seq(Tok) /\ Len(SubSeq(a, 2, k + 1)) = k
          /\ \A i \in 1..k : SubSeq(a, 2, k + 1)[i] = a[i + 1]
      <4>1. /\ SubSeq(a, 2, k + 1) \in Seq(Tok)
            /\ Len(SubSeq(a, 2, k + 1)) = IF 2 <= k + 1 THEN (k + 1) - 2 + 1 ELSE 0
            /\ \A i \in 1..(k + 1) - 2 + 1 : SubSeq(a, 2, k + 1)[i] = a[2 + i - 1]
        BY <3>1, SubSeqProperties
      <4>2. /\ (IF 2 <= k + 1 THEN (k + 1) - 2 + 1 ELSE 0) = k /\ (k + 1) - 2 + 1 = k
            /\ \A i \in 1..k : 2 + i - 1 = i + 1
        BY <2>1
      <4> QED
        BY <4>1, <4>2
    <3>3. /\ Prefix(Tail(a), k) \in Seq(Tok) /\ Len(Prefix(Tail(a), k)) = k
          /\ \A i \in 1..k : Prefix(Tail(a), k)[i] = Tail(a)[i]
      BY <1>4, <2>1, PrefixFacts
    <3>4. \A i \in 1..k : SubSeq(a, 2, k + 1)[i] = Prefix(Tail(a), k)[i]
      <4>1. \A i \in 1..k : i \in 1..Len(a) - 1
        BY <1>4, <2>1
      <4> QED
        BY <1>4, <3>2, <3>3, <4>1
    <3> QED
      BY <3>2, <3>3, <3>4, SeqEqual
  <2>4. Prefix(Tail(a), k) \in Seq(Tok)
    BY <1>4, <2>1, PrefixFacts
  <2>5. (q \o <<t>>) \o Prefix(Tail(a), k) = q \o (<<t>> \o Prefix(Tail(a), k))
    <3> HIDE DEF q, a, t
    <3> QED
      BY <1>3, <1>5, <2>4, ConcatAssociative
  <2> QED
    BY <1>5, <2>2, <2>3, <2>5
<1>8. SDTypeOK'
  <2>1. /\ tokens' \in [SeqIds -> Seq(Tok)]
        /\ prefill_prompt_toks' \in [SeqIds -> Seq(Tok)]
        /\ state' \in [SeqIds -> {"Waiting", "Running", "Skipped", "Done", "Error"}]
    BY <1>1, <1>2, <1>5, EmptySeq DEF SDTypeOK
  <2>2. \A s \in SeqIds : tmp'[s] < Len(tokens'[s])
    BY <1>1, <1>2, <1>3, <1>5, <1>6 DEF SDTypeOK
  <2> QED
    BY <1>1, <1>2, <1>4, <2>1, <2>2 DEF SDTypeOK
<1>9. AtRest'
  BY <1>1, <1>6 DEF SDInv, AtRest, Resting, Alive, But, Prefix
\* Its sampler has seen the sequence as it was n tokens ago, and sees no more of it.
<1>10. ASSUME NEW n \in 0..Len(q)
       PROVE  Prefix(Append(q, t), Len(Append(q, t)) - (n + 1)) = Prefix(q, Len(q) - n)
  <2>1. /\ Len(Append(q, t)) - (n + 1) = Len(q) - n
        /\ Len(q) - n \in 0..Len(Append(q, t)) /\ Len(q) - n <= Len(q)
        /\ \A i \in 1..Len(q) - n : i \in 1..Len(q)
    BY <1>3, <1>5
  <2>2. \A i \in 1..Len(q) - n : Append(q, t)[i] = q[i]
    BY <1>3, <1>4, <2>1, AppendProperties
  <2> QED
    BY <1>3, <1>5, <2>1, <2>2, SamePrefix
<1>11. ASSUME seq \notin misled PROVE AddingCaches' /\ AddingSamples'
  <2>1. AddingCaches /\ AddingSamples
    BY <1>1, <1>11 DEF SDInv, CacheInv
  <2>2. Prefix(Tail(a), Len(Tail(a))) = Tail(a) /\ Prefix(a, Len(a)) = a
    BY <1>3, <1>4, PrefixEnds
  <2>3. Append(q, t) \o Tail(a) = q \o a
    <3>1. Len(Tail(a)) \in 0..Len(a) - 1 /\ Len(Tail(a)) + 1 = Len(a)
      BY <1>4
    <3> QED
      BY <1>7, <2>2, <3>1
  <2>4. AddingCaches'
    <3>1. target' = But(tokens'[seq'] \o accepted_tokens') /\ draft' = target'
      BY <1>1, <1>6, <2>1, <2>3 DEF AddingCaches
    <3> QED
      BY <3>1 DEF AddingCaches, But, Prefix
  <2>5. PICK n \in 0..Len(q) : n + Len(a) <= gamma /\ SampledAfter(n)
    BY <2>1 DEF AddingSamples
  <2>6. ASSUME NEW k \in 1..Len(Tail(a))
        PROVE  Likely(Append(q, t) \o Prefix(Tail(a), k - 1),
                      Prefix(Append(q, t), Len(Append(q, t)) - (n + 1)), Tail(a)[k])
    <3>1. /\ k - 1 \in 0..Len(a) - 1 /\ k + 1 \in 1..Len(a) /\ k \in 1..Len(a) - 1
          /\ (k - 1) + 1 = k /\ (k + 1) - 1 = k
      BY <1>4
    <3>2. Likely(q \o Prefix(a, (k + 1) - 1), Prefix(q, Len(q) - n), a[k + 1])
      BY <2>5, <3>1 DEF SampledAfter
    <3>3. /\ Append(q, t) \o Prefix(Tail(a), k - 1) = q \o Prefix(a, (k + 1) - 1)
          /\ Tail(a)[k] = a[k + 1]
      BY <1>4, <1>7, <3>1
    <3>4. Prefix(Append(q, t), Len(Append(q, t)) - (n + 1)) = Prefix(q, Len(q) - n)
      BY <1>10
    <3> HIDE DEF q, a, t
    <3> QED
      BY <3>2, <3>3, <3>4
  <2>7. SampledAfter(n + 1)'
    BY <1>1, <1>6, <2>6 DEF SampledAfter, Prefix
  <2>8. n + 1 \in 0..Len(tokens'[seq']) /\ (n + 1) + Len(accepted_tokens') <= gamma
    <3>1. gamma \in Nat
      BY SpeculativeAssumption DEF SpeculativeAssumption
    <3> QED
      BY <1>1, <1>3, <1>4, <1>5, <1>6, <2>5, <3>1
  <2>9. AddingSamples'
    BY <2>7, <2>8 DEF AddingSamples, SampledAfter, Prefix
  <2> QED
    BY <2>4, <2>9
<1>12. StepInv' /\ CacheInv'
  <2>1. Len(tokens'[seq']) + Len(accepted_tokens') > 1
    <3>1. Len(q) > 0
      BY <1>2, <1>3 DEF SDTypeOK
    <3>2. Len(q) + Len(a) > 1
      BY <1>2 DEF Adding
    <3> QED
      BY <1>1, <1>3, <1>4, <1>5, <1>6, <3>2
  <2>2. Adding'
    BY <1>1, <1>3, <1>6, <2>1 DEF Adding
  <2> QED
    BY <1>1, <1>11, <2>2 DEF StepInv, CacheInv
<1>13. SDInv'
  BY <1>1, <1>8, <1>9, <1>12 DEF SDInv, LastBatch, Blame
<1>14. Verified[seq] = q
  BY <1>2, <1>3, NoGuesses
<1>15. Verified' = [Verified EXCEPT ![seq] = Append(@, t)]
  <2>1. Verified'[seq] = Append(q, t)
    <3>1. SDTypeOK' /\ tmp'[seq] = 0
      BY <1>1, <1>3, <1>8
    <3>2. Len(Append(q, t)) - 0 = Len(Append(q, t))
      BY <1>3, <1>5
    <3>3. Prefix(Append(q, t), Len(Append(q, t))) = Append(q, t)
      BY <1>5, PrefixEnds
    <3> QED
      BY <1>3, <1>6, <3>1, <3>2, <3>3 DEF Verified
  <2>2. \A s \in SeqIds : s # seq => Verified'[s] = Verified[s]
    BY <1>1, <1>6 DEF Verified
  <2>3. Verified = [s \in SeqIds |-> Verified[s]] /\ Verified' = [s \in SeqIds |-> Verified'[s]]
    BY DEF Verified
  <2> QED
    BY <1>3, <1>14, <2>1, <2>2, <2>3
<1>16. CASE seq \in misled
  <2>1. misled' = misled /\ t \in Tok
    BY <1>1, <1>4
  <2>2. \E u \in Tok : Verified' = [Verified EXCEPT ![seq] = Append(@, u)]
    <3> HIDE DEF t
    <3> QED
      BY <1>15, <2>1
  <2> QED
    BY <1>13, <1>16, <2>1, <2>2 DEF T!Stray
<1>17. CASE seq \notin misled
  <2>1. AddingSamples
    BY <1>1, <1>17 DEF SDInv, CacheInv
  <2>2. PICK n \in 0..Len(q) : n + Len(a) <= gamma /\ SampledAfter(n)
    BY <2>1 DEF AddingSamples
  <2>3. n \in 0..gamma - 1 /\ 1 \in 1..Len(a) /\ 1 - 1 = 0
    <3>1. gamma \in Nat
      BY SpeculativeAssumption DEF SpeculativeAssumption
    <3> QED
      BY <1>3, <1>4, <2>2, <3>1
  <2>4. Likely(q \o Prefix(a, 0), Prefix(q, Len(q) - n), a[1])
    BY <2>2, <2>3 DEF SampledAfter
  <2>5. q \o Prefix(a, 0) = q
    BY <1>3, PrefixEnds, ConcatEmptySeq
  <2>6. T!Seen(seq, n) = Prefix(q, Len(q) - n)
    BY <1>14 DEF T!Seen, Prefix
  <2>7. Likely(Verified[seq], T!Seen(seq, n), t)
    <3>1. a[1] = t
      BY <1>4
    <3> HIDE DEF q, t
    <3> QED
      BY <1>14, <2>4, <2>5, <2>6, <3>1
  <2> QED
    <3>1. misled' = misled /\ t \in Tok
      BY <1>1, <1>4
    <3>2. \E m \in 0..gamma - 1, u \in Tok :
             /\ Likely(Verified[seq], T!Seen(seq, m), u)
             /\ Verified' = [Verified EXCEPT ![seq] = Append(@, u)]
      <4> HIDE DEF t
      <4> QED
        BY <1>15, <2>3, <2>7, <3>1
    <3> QED
      BY <1>13, <3>1, <3>2 DEF T!Decode
<1> QED
  BY <1>13, <1>16, <1>17

LEMMA EndStep == ASSUME SDInv, End PROVE SDInv' /\ UNCHANGED <<Verified, misled>>
<1>1. /\ phase = "add" /\ phase' = "idle" /\ accepted_tokens = <<>>
      /\ normal_draft_cache' = [normal_draft_cache EXCEPT ![seq] = draft]
      /\ normal_cache' = [normal_cache EXCEPT ![seq] = target]
      /\ state' = [state EXCEPT ![seq] = "Running"] \/ state' = state
      /\ last_completion_ids' = {} \/ last_completion_ids' = {seq}
      /\ UNCHANGED <<draft, target, tokens, tmp, prefill_prompt_toks, seq, is_prompt,
                     draft_samples, accepted_tokens, failures, misled>>
  BY DEF End, pipeVars
<1>2. SDTypeOK /\ Adding
  BY <1>1 DEF SDInv, StepInv
<1>3. UNCHANGED Verified
  BY <1>1 DEF Verified
<1>4. SDTypeOK'
  BY <1>1, <1>2 DEF SDTypeOK
<1>5. seq \notin misled => InPlace(seq)
  <2>1. tokens[seq] \o accepted_tokens = tokens[seq]
    BY <1>1, <1>2, ConcatEmptySeq DEF SDTypeOK
  <2>2. seq \notin misled => AddingCaches
    BY <1>1 DEF SDInv, CacheInv
  <2> QED
    BY <2>1, <2>2 DEF AddingCaches, InPlace
<1>6. AtRest'
  <2> SUFFICES ASSUME NEW s \in SeqIds, Alive(s)'
               PROVE  /\ tmp'[s] = 0 /\ prefill_prompt_toks'[s] = <<>>
                      /\ state'[s] = "Running" => Len(tokens'[s]) > 1
                      /\ state'[s] = "Running" /\ s \notin misled' =>
                            /\ normal_cache'[s] = But(tokens'[s])
                            /\ normal_draft_cache'[s] = But(tokens'[s])
    BY DEF AtRest, Alive, But, Prefix
  <2>1. CASE s = seq
    <3>1. normal_cache'[seq] = target /\ normal_draft_cache'[seq] = draft
      BY <1>1, <1>2 DEF SDTypeOK
    <3>2. Len(tokens[seq]) > 1
      <4>1. Len(accepted_tokens) = 0 /\ Len(tokens[seq]) \in Nat
        BY <1>1, <1>2, LenProperties DEF SDTypeOK
      <4> QED
        BY <1>2, <4>1 DEF Adding
    <3> QED
      BY <1>1, <1>2, <1>5, <2>1, <3>1, <3>2 DEF Adding, InPlace
  <2>2. CASE s # seq
    <3>1. /\ normal_cache'[s] = normal_cache[s] /\ state'[s] = state[s]
          /\ normal_draft_cache'[s] = normal_draft_cache[s]
      BY <1>1, <1>2, <2>2 DEF SDTypeOK
    <3> QED
      BY <1>1, <2>2, <3>1 DEF SDInv, AtRest, Resting, Alive
  <2> QED
    BY <2>1, <2>2
<1>7. LastBatch'
  <2> SUFFICES ASSUME NEW s \in SeqIds, last_completion_ids' = {s}
               PROVE  s \notin misled' => draft' = But(tokens'[s]) /\ target' = But(tokens'[s])
    BY DEF LastBatch, InPlace, But, Prefix
  <2>1. s = seq
    BY <1>1
  <2> QED
    BY <1>1, <1>5, <2>1 DEF InPlace
<1> QED
  BY <1>1, <1>3, <1>4, <1>6, <1>7 DEF SDInv, StepInv, CacheInv, Blame

\* A failed step empties the caches, which may be those of another batch.
LEMMA FailStep == ASSUME SDInv, Fail PROVE SDInv' /\ UNCHANGED <<Verified, misled>>
<1>1. /\ phase \in {"draft", "target", "sample", "add"} /\ failures' = failures + 1
      /\ phase' \in {"idle", "slice_panic"}
      /\ phase' = "slice_panic" => UNCHANGED <<state, draft, target>>
      /\ UNCHANGED <<tokens, tmp, prefill_prompt_toks, normal_draft_cache, normal_cache, seq,
                     is_prompt, draft_samples, accepted_tokens, last_completion_ids, misled>>
  BY DEF Fail, pipeVars
<1>2. ASSUME phase' = "idle"
      PROVE  /\ draft' = <<>> /\ target' = <<>>
             /\ \E S \in SUBSET {s \in SeqIds : state[s] = "Waiting"} :
                   state' = [s \in SeqIds |-> IF s = seq THEN "Error"
                                              ELSE IF s \in S THEN "Skipped" ELSE state[s]]
  BY <1>2 DEF Fail, SkippedPrompts
<1>3. SDTypeOK
  BY DEF SDInv
<1>4. UNCHANGED Verified
  BY <1>1 DEF Verified
<1>5. /\ state' \in [SeqIds -> {"Waiting", "Running", "Skipped", "Done", "Error"}]
      /\ draft' \in Seq(Tok) /\ target' \in Seq(Tok)
  BY <1>1, <1>2, <1>3, EmptySeq DEF SDTypeOK
<1>6. \A s \in SeqIds : /\ s # seq /\ Alive(s)' => Alive(s)
                        /\ s # seq /\ state'[s] = "Running" => state[s] = "Running"
                        /\ phase' = "idle" /\ s = seq => ~Alive(s)' /\ state'[s] # "Running"
  <2> TAKE s \in SeqIds
  <2>1. CASE phase' = "slice_panic"
    <3>1. state' = state /\ phase' # "idle"
      BY <1>1, <2>1
    <3> QED
      BY <3>1 DEF Alive
  <2>2. CASE phase' = "idle"
    <3>1. PICK S \in SUBSET {r \in SeqIds : state[r] = "Waiting"} :
             state' = [r \in SeqIds |-> IF r = seq THEN "Error"
                                        ELSE IF r \in S THEN "Skipped" ELSE state[r]]
      BY <1>2, <2>2
    <3>2. state'[s] = IF s = seq THEN "Error" ELSE IF s \in S THEN "Skipped" ELSE state[s]
      BY <3>1
    <3>3. s \in S => Alive(s)
      BY <3>1 DEF Alive
    <3> QED
      BY <3>2, <3>3 DEF Alive
  <2> QED
    BY <1>1, <2>1, <2>2
<1>7. SDTypeOK'
  <2>1. /\ UNCHANGED <<tokens, tmp, prefill_prompt_toks, normal_draft_cache, normal_cache, seq,
                       is_prompt, draft_samples, accepted_tokens, misled>>
        /\ failures' \in Nat
        /\ phase' \in {"idle", "slice_panic"}
    BY <1>1, <1>3 DEF SDTypeOK
  <2> QED
    BY <1>3, <1>5, <2>1 DEF SDTypeOK
<1>8. AtRest'
  <2> SUFFICES ASSUME NEW s \in SeqIds, Resting(s)', Alive(s)'
               PROVE  /\ tmp'[s] = 0 /\ prefill_prompt_toks'[s] = <<>>
                      /\ state'[s] = "Running" => Len(tokens'[s]) > 1
                      /\ state'[s] = "Running" /\ s \notin misled' =>
                            /\ normal_cache'[s] = But(tokens'[s])
                            /\ normal_draft_cache'[s] = But(tokens'[s])
    BY DEF AtRest, Resting, Alive, But, Prefix
  <2>1. s # seq /\ Resting(s) /\ Alive(s) /\ (state'[s] = "Running" => state[s] = "Running")
    BY <1>1, <1>6 DEF Resting
  <2> QED
    BY <1>1, <2>1 DEF SDInv, AtRest
<1>9. LastBatch' /\ Blame'
  <2>1. failures' > 0
    BY <1>1, <1>3 DEF SDTypeOK
  <2>2. phase' = "idle" => Emptied'
    BY <1>2, <2>1 DEF Emptied
  <2>3. LastBatch'
    BY <2>2 DEF LastBatch, Emptied, InPlace, But, Prefix
  <2> QED
    BY <2>1, <2>3 DEF Blame
<1> QED
  BY <1>1, <1>4, <1>7, <1>8, <1>9 DEF SDInv, StepInv, CacheInv

LEMMA PanicStep ==
    ASSUME SDInv, NEW s \in SeqIds, CloneInPanics(s) \/ AssertPanics(s)
    PROVE  SDInv' /\ UNCHANGED <<Verified, misled>>
<1>1. /\ phase' \in {"clone_in_panic", "assert_panic"}
      /\ UNCHANGED <<draft, target, state, tokens, tmp, prefill_prompt_toks, normal_draft_cache,
                     normal_cache, seq, is_prompt, draft_samples, accepted_tokens,
                     last_completion_ids, failures, misled>>
      /\ phase = "idle"
  BY DEF CloneInPanics, AssertPanics, Schedulable, pipeVars, seqVars
<1>2. UNCHANGED Verified
  BY <1>1 DEF Verified
<1>3. SDTypeOK'
  BY <1>1 DEF SDInv, SDTypeOK
<1>4. AtRest'
  BY <1>1 DEF SDInv, AtRest, Resting, Alive, But, Prefix
<1> QED
  BY <1>1, <1>2, <1>3, <1>4 DEF SDInv, LastBatch, Blame, StepInv, CacheInv

LEMMA StutterStep == ASSUME SDInv, UNCHANGED vars PROVE SDInv' /\ UNCHANGED <<Verified, misled>>
<1>1. UNCHANGED <<draft, target, state, tokens, tmp, prefill_prompt_toks, normal_draft_cache,
                  normal_cache, last_completion_ids, phase, seq, is_prompt, draft_samples,
                  accepted_tokens, failures, misled>>
  BY DEF vars, pipeVars, seqVars, stepVars
<1>2. UNCHANGED Verified
  BY <1>1 DEF Verified
<1>3. SDTypeOK'
  BY <1>1 DEF SDInv, SDTypeOK
<1>4. AtRest' /\ LastBatch' /\ Blame'
  BY <1>1 DEF SDInv, AtRest, LastBatch, Blame, InPlace, Emptied, Resting, Alive, But, Prefix
<1>5. StepInv'
  BY <1>1, <1>2 DEF SDInv, StepInv, Drafting, Prefilled, Verifying, Adding, Base
<1>6. CacheInv'
  BY <1>1, <1>2 DEF SDInv, CacheInv, DraftCaches, PrefilledCaches, VerifyingCaches, AddingCaches,
                    AddingSamples, SampledAfter, Base, Start, But, Prefix
<1> QED
  BY <1>1, <1>2, <1>3, <1>4, <1>5, <1>6 DEF SDInv

\* Verified grows with an accepted token only; the beginning of a step may mislead its
\* sequence or put it right.
LEMMA EveryStep ==
    ASSUME SDInv, [Next]_vars
    PROVE  SDInv' /\ [T!Next]_<<Verified, misled>>
<1>1. ASSUME NEW s \in SeqIds, BeginPrompt(s) \/ BeginCompletion(s)
      PROVE  SDInv' /\ [T!Next]_<<Verified, misled>>
  <2>1. UNCHANGED Verified
    BY <1>1 DEF BeginPrompt, BeginCompletion, Begin, seqVars, Verified
  <2>2. SDInv' /\ misled' \in {misled, misled \cup {s}, misled \ {s}}
    BY <1>1, BeginStep
  <2>3. CASE misled' = misled
    BY <2>1, <2>2, <2>3
  <2>4. CASE misled' # misled
    BY <2>1, <2>2, <2>4 DEF T!Next, T!Mislead
  <2> QED
    BY <2>3, <2>4
<1>2. ASSUME NEW s \in SeqIds, CloneInPanics(s) \/ AssertPanics(s)
      PROVE  SDInv' /\ UNCHANGED <<Verified, misled>>
  BY <1>2, PanicStep
<1>3. CASE Draft
  BY <1>3, DraftStep
<1>4. CASE EndDraft
  BY <1>4, EndDraftStep
<1>5. CASE TargetForward
  BY <1>5, TargetForwardStep
<1>6. CASE Verify
  BY <1>6, VerifyStep
<1>7. CASE AddAccepted
  <2>1. seq \in SeqIds
    BY DEF SDInv, SDTypeOK
  <2> QED
    BY <1>7, <2>1, AddStep DEF T!Next
<1>8. CASE End
  BY <1>8, EndStep
<1>9. CASE Fail
  BY <1>9, FailStep
<1>10. CASE UNCHANGED vars
  BY <1>10, StutterStep
<1> QED
  BY <1>1, <1>2, <1>3, <1>4, <1>5, <1>6, <1>7, <1>8, <1>9, <1>10 DEF Next

-----------------------------------------------------------------------------
\* The theorems.

(* SDInv holds in every state: at each point of a step, what both caches   *)
(* hold in terms of the tokens the sequence had when the step began.       *)
THEOREM InvariantSD == Spec => []SDInv
<1>1. Init => SDInv
  BY InitSD, SpeculativeAssumption
<1>2. SDInv /\ [Next]_vars => SDInv'
  BY EveryStep
<1> QED
  BY <1>1, <1>2, PTL DEF Spec

(* Whatever the draft model guesses, however many guesses are confirmed    *)
(* and whichever steps fail, both caches of a running sequence lack its    *)
(* last token only, unless a failed step of another batch misled it.       *)
THEOREM CachesAreAligned == Spec => []CachesAligned
<1>1. SDInv => CachesAligned
  <2> SUFFICES ASSUME SDInv PROVE CachesAligned
    OBVIOUS
  <2>1. ASSUME phase = "idle", NEW s \in SeqIds \ misled, state[s] = "Running"
        PROVE  normal_cache[s] = AllButLast(s) /\ normal_draft_cache[s] = AllButLast(s)
    BY <2>1 DEF SDInv, AtRest, Resting, Alive, AllButLast, But
  <2>2. ASSUME phase = "draft", ~is_prompt, draft_samples = <<>>, seq \notin misled
        PROVE  draft = AllButLast(seq) /\ target = AllButLast(seq)
    <3>1. draft = Start /\ target = Start /\ Start = But(Base)
      BY <2>2 DEF SDInv, CacheInv, DraftCaches, Start
    <3>2. tokens[seq] = Base \o <<>> /\ Base \in Seq(Tok)
      BY <2>2 DEF SDInv, StepInv, Drafting
    <3>3. tokens[seq] = Base
      BY <3>2, ConcatEmptySeq
    <3> QED
      BY <3>1, <3>3 DEF AllButLast, But
  <2>3. failures = 0 => misled = {}
    BY DEF SDInv, Blame
  <2> QED
    BY <2>1, <2>2, <2>3 DEF CachesAligned
<1> QED
  BY <1>1, InvariantSD, PTL

(* Speculation changes nothing of what is said: but for misled sequences,  *)
(* the tokens that are not guesses grow as if the target model alone       *)
(* decoded them, with a sampler that lags by less than gamma tokens.       *)
THEOREM SpeculationIsTargetDecoding == Spec => ImplementsTargetDecoding
<1>1. Init => T!Init
  <2> SUFFICES ASSUME Init PROVE Verified = Prompt
    BY DEF T!Init, Init
  <2>1. SDTypeOK
    BY InitSD, SpeculativeAssumption DEF SDInv
  <2>2. \A s \in SeqIds : Verified[s] = Prompt[s]
    BY <2>1, NoGuesses DEF Init
  <2> QED
    BY <2>2, SpeculativeAssumption DEF Verified, SpeculativeAssumption
<1>2. SDInv /\ [Next]_vars => [T!Next]_<<Verified, misled>>
  BY EveryStep
<1>3. Spec => []SDInv
  BY InvariantSD
<1> QED
  BY <1>1, <1>2, <1>3, PTL DEF Spec, ImplementsTargetDecoding, T!Spec
=============================================================================
