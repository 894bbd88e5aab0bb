------------------------- MODULE SpeculativeDecoding -------------------------
(***************************************************************************)
(* Speculative decoding (SpeculativePipeline::step of                      *)
(* pipeline/speculative.rs, under the DefaultScheduler arm of Engine::run):*)
(* the draft model guesses `gamma` tokens, the target model computes all   *)
(* of them at once, the guesses that the target's own samples confirm are  *)
(* kept, and both KV caches are cut back to what is kept.                  *)
(*                                                                         *)
(* A KV cache is the sequence of tokens whose keys and values it holds.    *)
(* The draft model may guess anything.  Batches are chosen at will; their  *)
(* scheduling is DefaultScheduler's, responses are RequestGroups'.  X-LoRA *)
(* and models with a full cache are left out.                              *)
(*                                                                         *)
(* A failed step empties both caches and keeps `last_completion_ids`.  If  *)
(* that is another batch, its next completion step takes the empty caches  *)
(* for its own: the sequence is then `misled`, until it is prefilled anew. *)
(***************************************************************************)
EXTENDS Integers, Sequences, FiniteSets

CONSTANTS SeqIds,
          Tok, Eos,         \* vocabulary, with its end-of-sequence token
          Prompt,           \* prompt tokens of each sequence
          MaxLen,           \* max_len of each request's sampling parameters
          Likely(_, _, _),  \* Likely(c, h, t): the target may sample t after context c,
                            \* with a sampler that sees the tokens h
          gamma,            \* tokens the draft model guesses in a step
          MaxFailures,      \* bound: steps that fail
          MaxToks           \* bound: tokens of a sequence at which steps begin

ASSUME SpeculativeAssumption ==
    /\ Eos \in Tok
    /\ Prompt \in [SeqIds -> Seq(Tok)] /\ \A s \in SeqIds : Len(Prompt[s]) > 0
    /\ MaxLen \in [SeqIds -> Nat]
    /\ gamma \in Nat \ {0}
    /\ MaxFailures \in Nat /\ MaxToks \in Nat

VARIABLES state,               \* SequenceState; "Skipped": RunningPrompt, without its prompt step
          tokens,              \* the tokens of a sequence
          tmp,                 \* how many of them are guesses (`is_tmp`: any at all)
          prefill_prompt_toks, \* tokens that stand in for them, <<>> if none
          draft, target,       \* caches in the two pipelines
          normal_draft_cache, normal_cache,  \* caches kept in the sequences
          last_completion_ids, \* the batch whose caches the loop believes are in place
          phase,               \* where step() is
          seq, is_prompt,      \* its arguments
          draft_samples, accepted_tokens,
          failures,
          misled               \* history: sequences whose caches a failed step took

pipeVars == <<draft, target>>
seqVars  == <<state, tokens, tmp, prefill_prompt_toks, normal_draft_cache, normal_cache>>
stepVars == <<phase, seq, is_prompt, draft_samples, accepted_tokens>>
vars == <<pipeVars, seqVars, stepVars, last_completion_ids, failures, misled>>

Init ==
    /\ state = [s \in SeqIds |-> "Waiting"]
    /\ tokens = Prompt
    /\ tmp = [s \in SeqIds |-> 0]
    /\ prefill_prompt_toks = [s \in SeqIds |-> <<>>]
    /\ draft = <<>> /\ target = <<>>
    /\ normal_draft_cache = [s \in SeqIds |-> <<>>] /\ normal_cache = [s \in SeqIds |-> <<>>]
    /\ last_completion_ids = {}
    /\ phase = "idle"
    /\ seq \in SeqIds /\ is_prompt = FALSE
    /\ draft_samples = <<>> /\ accepted_tokens = <<>>
    /\ failures = 0 /\ misled = {}

\* get_toks
Toks(s) == IF prefill_prompt_toks[s] # <<>> THEN prefill_prompt_toks[s] ELSE tokens[s]

Prefix(c, n) == SubSeq(c, 1, n)
Last(c)      == c[Len(c)]

-----------------------------------------------------------------------------
Alive(s) == state[s] \in {"Waiting", "Running", "Skipped"}

Schedulable(s) == phase = "idle" /\ Alive(s) /\ Len(tokens[s]) <= MaxToks

\* Others of the same length may wait or be in the same batch.
Bucket(s) == {t \in SeqIds : Alive(t) /\ Len(tokens[t]) = Len(tokens[s])}

Begin(s) ==
    /\ Schedulable(s)
    /\ seq' = s
    /\ draft_samples' = <<>>
    /\ phase' = "draft"
    /\ UNCHANGED <<seqVars, accepted_tokens, last_completion_ids, failures>>

\* pre_op of a prompt step, which a sequence that was waitlisted may take again: both
\* caches are emptied.
BeginPrompt(s) ==
    /\ Begin(s)
    /\ is_prompt' = TRUE
    /\ draft' = <<>> /\ target' = <<>>
    /\ misled' = misled \ {s}

\* pre_op of a completion step: the caches are those of the sequence already, or
\* cloned in.
BeginCompletion(s) ==
    /\ state[s] = "Running" /\ Begin(s)
    /\ is_prompt' = FALSE
    /\ IF last_completion_ids = {s}
       THEN /\ misled' = IF target = <<>> THEN misled \cup {s} ELSE misled
            /\ UNCHANGED pipeVars
       ELSE draft' = normal_draft_cache[s] /\ target' = normal_cache[s] /\ UNCHANGED misled

\* clone_in_cache for a sequence without a cache: while nothing waits, everything in
\* `running` is decoded, a prompt that was skipped too.
CloneInPanics(s) ==
    /\ Schedulable(s) /\ state[s] = "Skipped"
    /\ phase' = "clone_in_panic"
    /\ UNCHANGED <<pipeVars, seqVars, seq, is_prompt, draft_samples, accepted_tokens,
                   last_completion_ids, failures, misled>>

\* assert_eq!(input_seqs.len(), 1)
AssertPanics(s) ==
    /\ Schedulable(s) /\ Bucket(s) # {s}
    /\ phase' = "assert_panic"
    /\ UNCHANGED <<pipeVars, seqVars, seq, is_prompt, draft_samples, accepted_tokens,
                   last_completion_ids, failures, misled>>

-----------------------------------------------------------------------------
\* The inputs processor: the whole sequence in the first pass of a prompt step,
\* the last token in the others.
DraftInput ==
    IF is_prompt /\ draft_samples = <<>> THEN Toks(seq) ELSE <<Last(Toks(seq))>>

\* The draft model runs, and its guess is added as a temporary token.
Draft ==
    /\ phase = "draft" /\ Len(draft_samples) < gamma
    /\ draft' = draft \o DraftInput
    /\ \E t \in Tok : /\ draft_samples' = Append(draft_samples, t)
                      /\ tokens' = [tokens EXCEPT ![seq] = Append(@, t)]
    /\ tmp' = [tmp EXCEPT ![seq] = @ + 1]
    /\ UNCHANGED <<target, state, prefill_prompt_toks, normal_draft_cache, normal_cache,
                   phase, seq, is_prompt, accepted_tokens, last_completion_ids, failures, misled>>

\* remove_tmp_tok
Removed == Prefix(tokens[seq], Len(tokens[seq]) - gamma)

\* set_prefill_toks: all guesses but the last, after what the target lacks.
Prefill ==
    (IF is_prompt THEN Removed ELSE <<Last(Removed)>>) \o Prefix(draft_samples, gamma - 1)

\* The guesses are over: they stop being tokens of the sequence, and stand in for
\* them as its prefill tokens.
EndDraft ==
    /\ phase = "draft" /\ Len(draft_samples) = gamma
    /\ tokens' = [tokens EXCEPT ![seq] = Removed]
    /\ tmp' = [tmp EXCEPT ![seq] = 0]
    /\ prefill_prompt_toks' = [prefill_prompt_toks EXCEPT ![seq] = Prefill]
    /\ phase' = "target"
    /\ UNCHANGED <<pipeVars, state, normal_draft_cache, normal_cache, seq, is_prompt,
                   draft_samples, accepted_tokens, last_completion_ids, failures, misled>>

\* The target model runs on the prefill tokens, which are then reset.
TargetForward ==
    /\ phase = "target"
    /\ target' = target \o prefill_prompt_toks[seq]
    /\ prefill_prompt_toks' = [prefill_prompt_toks EXCEPT ![seq] = <<>>]
    /\ phase' = "sample"
    /\ UNCHANGED <<draft, state, tokens, tmp, normal_draft_cache, normal_cache, seq, is_prompt,
                   draft_samples, accepted_tokens, last_completion_ids, failures, misled>>

\* sample_target_sequence_speculative: one sample from each of the last `gamma`
\* logits, the k-th of them computed in this context.  The sampler is given the same
\* tokens for each, without the samples before it.
Context(k) == Prefix(target, Len(target) - gamma + k)
TargetSamples ==
    {x \in [1..gamma -> Tok] : \A k \in 1..gamma : Likely(Context(k), Toks(seq), x[k])}

\* Mutation: a sample that differs from the guess is not taken, but for the first.
AcceptedOnlyConfirmed(x) ==
    {n \in 1..gamma : /\ \A k \in 1..n : k > 1 => x[k] = draft_samples[k]
                      /\ n < gamma => x[n + 1] # draft_samples[n + 1]}

\* The samples up to the first one that differs from the guess, which is taken too.
Accepted(x) ==
    {n \in 1..gamma : /\ \A k \in 1..n - 1 : x[k] = draft_samples[k]
                      /\ n < gamma => x[n] # draft_samples[n]}

\* set_len(current_seq_len - n_not_accepted)
CutBack(c, n) == Prefix(c, Len(c) - (gamma - n))

\* Mutation: only the target's cache is cut back.
VerifyKeepsDraft ==
    /\ phase = "sample"
    /\ \E x \in TargetSamples : \E n \in Accepted(x) :
          /\ accepted_tokens' = Prefix(x, n)
          /\ target' = CutBack(target, n)
    /\ phase' = "add"
    /\ UNCHANGED <<draft, seqVars, seq, is_prompt, draft_samples, last_completion_ids, failures, misled>>

Verify ==
    /\ phase = "sample"
    /\ \E x \in TargetSamples : \E n \in Accepted(x) :
          /\ accepted_tokens' = Prefix(x, n)
          /\ draft' = CutBack(draft, n) /\ target' = CutBack(target, n)
    /\ phase' = "add"
    /\ UNCHANGED <<seqVars, seq, is_prompt, draft_samples, last_completion_ids, failures, misled>>

\* Stops that is_done, asked before add_token, cannot miss; stop strings and tool
\* calls may come at any token.
MustStop(t) == t = Eos \/ Len(tokens[seq]) - Len(Prompt[seq]) = MaxLen[seq]

\* finish_or_add_toks_to_seq for the next accepted token, also after a stop.
AddAccepted ==
    /\ phase = "add" /\ accepted_tokens # <<>>
    /\ LET t == Head(accepted_tokens)
       IN  /\ tokens' = [tokens EXCEPT ![seq] = Append(@, t)]
           /\ \/ state' = [state EXCEPT ![seq] = "Done"]
              \/ ~MustStop(t) /\ UNCHANGED state
    /\ prefill_prompt_toks' = [prefill_prompt_toks EXCEPT ![seq] = <<>>]
    /\ accepted_tokens' = Tail(accepted_tokens)
    /\ UNCHANGED <<pipeVars, tmp, normal_draft_cache, normal_cache,
                   phase, seq, is_prompt, draft_samples, last_completion_ids, failures, misled>>

\* post_op: both caches are copied to the sequence.  After a prompt step the engine
\* sets it running, whatever has happened, and forgets the last completion batch.
End ==
    /\ phase = "add" /\ accepted_tokens = <<>>
    /\ normal_draft_cache' = [normal_draft_cache EXCEPT ![seq] = draft]
    /\ normal_cache' = [normal_cache EXCEPT ![seq] = target]
    /\ IF is_prompt THEN /\ state' = [state EXCEPT ![seq] = "Running"]
                         /\ last_completion_ids' = {}
       ELSE last_completion_ids' = {seq} /\ UNCHANGED state
    /\ phase' = "idle"
    /\ UNCHANGED <<pipeVars, tokens, tmp, prefill_prompt_toks, seq, is_prompt, draft_samples,
                   accepted_tokens, failures, misled>>

-----------------------------------------------------------------------------
(* A forward pass, a sampling or the commit of a token fails, and `?`      *)
(* leaves step() as it is.  handle_pipeline_forward_error takes the tokens *)
(* after the prompt, which panics when there are fewer, sets the sequence  *)
(* Error and empties both caches; `last_completion_ids` stays.  A failed   *)
(* completion step also skips the prompt step of its pass (continue 'lp),  *)
(* whose sequences the scheduler has set to RunningPrompt.                 *)
SkippedPrompts ==
    IF is_prompt THEN {{}} ELSE SUBSET {t \in SeqIds \ {seq} : state[t] = "Waiting"}

Fail ==
    /\ phase \in {"draft", "target", "sample", "add"}
    /\ failures < MaxFailures
    /\ failures' = failures + 1
    /\ IF Len(Toks(seq)) < Len(Prompt[seq])
       THEN phase' = "slice_panic" /\ UNCHANGED <<state, pipeVars>>
       ELSE /\ phase' = "idle"
            /\ \E S \in SkippedPrompts :
                  state' = [s \in SeqIds |-> IF s = seq THEN "Error"
                                             ELSE IF s \in S THEN "Skipped" ELSE state[s]]
            /\ draft' = <<>> /\ target' = <<>>
    /\ UNCHANGED <<tokens, tmp, prefill_prompt_toks, normal_draft_cache, normal_cache, seq,
                   is_prompt, draft_samples, accepted_tokens, last_completion_ids, misled>>

Next == \/ \E s \in SeqIds : \/ BeginPrompt(s) \/ BeginCompletion(s)
                             \/ CloneInPanics(s) \/ AssertPanics(s)
        \/ Draft \/ EndDraft \/ TargetForward \/ Verify \/ AddAccepted \/ End
        \/ Fail

Spec == Init /\ [][Next]_vars

-----------------------------------------------------------------------------

\* A cache that lacks the last token only, the input of the next step.
AllButLast(s) == Prefix(tokens[s], Len(tokens[s]) - 1)

(* However many guesses are confirmed, whichever sequences take turns and  *)
(* whichever steps fail: between steps both caches of a running sequence   *)
(* hold all its tokens but the last, and so does what a completion step    *)
(* starts from.  The exception is a sequence that is misled: a step of     *)
(* another batch failed, and the loop took the emptied caches for those of *)
(* the sequence.  Without a failure there is none.                         *)
CachesAligned ==
    /\ phase = "idle" =>
          \A s \in SeqIds \ misled : state[s] = "Running" =>
              normal_cache[s] = AllButLast(s) /\ normal_draft_cache[s] = AllButLast(s)
    /\ phase = "draft" /\ ~is_prompt /\ draft_samples = <<>> /\ seq \notin misled =>
          draft = AllButLast(seq) /\ target = AllButLast(seq)
    /\ failures = 0 => misled = {}

(* "Rejection sampling": the draft model never changes what is said.  Each *)
(* token of an answer that is not misled is one that the target model      *)
(* itself may sample after all the tokens before it, with penalties,       *)
(* logits processors and a grammar that see the sequence as it was when    *)
(* the step began, up to gamma - 1 tokens earlier.                         *)
Verified == [s \in SeqIds |-> Prefix(tokens[s], Len(tokens[s]) - tmp[s])]
T == INSTANCE TargetDecoding WITH output <- Verified, Lag <- gamma - 1
ImplementsTargetDecoding == T!Spec

(* "Step 2: Respond with all groups": a step that fails is answered with   *)
(* what the sequence has, and the engine goes on.                          *)
FailureIsAnswered == phase # "slice_panic"
=============================================================================
