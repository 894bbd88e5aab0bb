---------------------------- MODULE DefaultEngine ----------------------------
(***************************************************************************)
(* The engine loop over the DefaultScheduler (the DefaultScheduler arm of  *)
(* Engine::run in engine/mod.rs, Pipeline::step in pipeline/mod.rs, the    *)
(* NormalCacheManager of pipeline/cache_manager.rs): one completion step,  *)
(* then one prompt step per pass, with the KV cache moved between the      *)
(* sequences and the pipeline.                                             *)
(*                                                                         *)
(* A KV cache is the number of tokens it holds and the number it has room  *)
(* for; all layers, keys and values alike, are in step.  The pipeline      *)
(* keeps the cache of the last batch it ran, with one length for the whole *)
(* batch; a sequence keeps the copy that clone_out_cache made.             *)
(***************************************************************************)
EXTENDS DefaultScheduler

CONSTANTS PromptLen,        \* prompt tokens of each sequence
          MaxLen,           \* max_len of each request's sampling parameters
          MaxSeqLen,        \* max_seq_len of the model
          Grow,             \* CACHE_GROW_SIZE
          MaxSampleErrors,  \* bound: steps in which sampling fails
          MaxForwardErrors  \* bound: steps that fail as a whole

ASSUME EngineAssumption ==
    /\ MaxSeqLen \in Nat
    /\ PromptLen \in [SeqIds -> 1..MaxSeqLen]
    /\ MaxLen \in [SeqIds -> Nat]
    /\ Grow \in Nat \ {0}
    /\ MaxSampleErrors \in Nat
    /\ MaxForwardErrors \in Nat

VARIABLES phase,                \* where the engine loop is
          pipe_cache,           \* cache in the pipeline, and the sequences whose it is
          seq_cache,            \* normal_cache of each sequence
          last_completion_ids,  \* the batch whose cache the loop believes is in the pipeline
          choices,              \* final choices each sequence has put in its group
          sampleErrors, forwardErrors

cacheVars == <<pipe_cache, seq_cache, last_completion_ids>>
errors    == <<sampleErrors, forwardErrors>>
vars == <<queueVars, state, toks, terminate, phase, cacheVars, choices, errors>>

States == {"Absent", "Waiting", "RunningPrompt", "RunningCompletion",
           "Done", "Canceled", "Error"}
EndStates == {"Done", "Canceled", "Error"}

NoCache == [len |-> 0, cap |-> 0]

\* Room is made in blocks of CACHE_GROW_SIZE.
Rounded(n) == ((n + Grow - 1) \div Grow) * Grow

\* Mutation: room for the prompt, and no more.
PreallocatedExact(s) == PromptLen[s]

\* add_request: the room a sequence starts with.
Preallocated(s) == Rounded(PromptLen[s])

\* SingleCache::append: the room after n more tokens, which grows by the blocks
\* that are missing, and must then not exceed the maximum.
CapWith(c, n) ==
    IF c.len + n > c.cap THEN c.cap + Rounded(c.len + n - c.cap) ELSE c.cap
CacheFull(c, n) == CapWith(c, n) # c.cap /\ CapWith(c, n) > MaxSeqLen

Appended(c, n) == [seqs |-> c.seqs, len |-> c.len + n, cap |-> CapWith(c, n)]

\* `reset`, which keeps the room.
Emptied(c) == [seqs |-> {}, len |-> 0, cap |-> c.cap]

Init ==
    /\ waiting = {} /\ running = {} /\ completion = {} /\ prompt = {}
    /\ state = [s \in SeqIds |-> "Absent"]
    /\ toks = PromptLen
    /\ urgency = [s \in SeqIds |-> 0]
    /\ terminate = FALSE
    /\ phase = "top"
    /\ pipe_cache = [seqs |-> {}, len |-> 0, cap |-> Grow]
    /\ seq_cache = [s \in SeqIds |-> NoCache]
    /\ last_completion_ids = {}
    /\ choices = [s \in SeqIds |-> 0]
    /\ sampleErrors = 0 /\ forwardErrors = 0

\* A request is drained from the channel, or wakes the loop that sleeps on it.
AddSeq(s) ==
    /\ phase \in {"top", "asleep"}
    /\ state[s] = "Absent"
    /\ \A t \in SeqIds : t < s => state[t] # "Absent"
    /\ AddToQueue(s)
    /\ phase' = "top"
    /\ UNCHANGED <<running, completion, prompt, toks, urgency, terminate, cacheVars, choices, errors>>

\* Another thread (the Ctrl-C handler of interactive mode) stores the flag.
SetTerminate ==
    /\ ~terminate
    /\ terminate' = TRUE
    /\ UNCHANGED <<queueVars, state, toks, phase, cacheVars, choices, errors>>

\* schedule(), and what comes next in the pass: the loop sleeps when nothing is
\* scheduled and nothing waits.
SchedulePass ==
    /\ phase = "top"
    /\ Schedule
    /\ phase' = IF completion' # {} THEN "completion"
                ELSE IF prompt' # {} THEN "prompt"
                ELSE "asleep"
    /\ UNCHANGED <<cacheVars, choices, errors>>

-----------------------------------------------------------------------------
(* Sampling, common to both kinds of step.                                 *)

\* `is_done`, asked before `add_token`: a canceled sequence stops, and one that
\* has exactly as many tokens as a limit says.
MustStop(s) == \/ state[s] = "Canceled"
               \/ toks[s] - PromptLen[s] \in {MaxLen[s], MaxSeqLen}

TokensAdded(P) == [s \in SeqIds |-> IF s \in P THEN toks[s] + 1 ELSE toks[s]]

\* finish_or_add_toks_to_seq for the sequences P of a batch: those of F stop
\* (end of sequence, stop string, ...), and those that must.  A sequence that
\* stops is Done and puts its final choice in its group.
Stopping(P, F) == {s \in P : s \in F \/ MustStop(s)}

StatesAfter(P, F) ==
    [s \in SeqIds |-> IF s \in Stopping(P, F) /\ state[s] # "Canceled" THEN "Done" ELSE state[s]]

ChoicesAfter(P, F) ==
    [s \in SeqIds |-> IF s \in Stopping(P, F) THEN choices[s] + 1 ELSE choices[s]]

\* sample_and_add_toks goes through the batch B.
AllSampled(B) == toks' = TokensAdded(B) /\ UNCHANGED errors

\* Sampling fails for a sequence of B after those of P got their token.  The
\* function returns Ok, and the rest of B gets no token.
SamplingFails(B, P) ==
    /\ sampleErrors < MaxSampleErrors
    /\ sampleErrors' = sampleErrors + 1
    /\ toks' = TokensAdded(P)
    /\ P # B
    /\ UNCHANGED forwardErrors

\* handle_pipeline_forward_error: every sequence of the batch puts an error
\* choice in its group and is in state Error, the pipeline has no cache, and the
\* loop starts over.  By then some sequences may have their token, and a choice;
\* not so when the failure is that the cache c has no room for n more tokens.
ForwardFails(B, c, n) ==
    /\ IF CacheFull(c, n) THEN UNCHANGED forwardErrors
       ELSE /\ forwardErrors < MaxForwardErrors
            /\ forwardErrors' = forwardErrors + 1
    /\ \E P \in IF CacheFull(c, n) THEN {{}} ELSE SUBSET B : \E F \in SUBSET P :
          /\ toks' = TokensAdded(P)
          /\ choices' = [s \in SeqIds |-> ChoicesAfter(P, F)[s] + IF s \in B THEN 1 ELSE 0]
    /\ state' = [s \in SeqIds |-> IF s \in B THEN "Error" ELSE state[s]]
    /\ pipe_cache' = Emptied([c EXCEPT !.cap = CapWith(c, n)])
    /\ phase' = "top"
    /\ UNCHANGED <<queueVars, terminate, seq_cache, last_completion_ids, sampleErrors>>

\* The forward pass of the batch B appends n tokens to the cache c, and
\* clone_out_cache copies the result to the sequences.
Forward(B, c, n) ==
    /\ ~CacheFull(c, n)
    /\ pipe_cache' = Appended(c, n)
    /\ seq_cache' = [s \in SeqIds |-> IF s \in B THEN [len |-> pipe_cache'.len, cap |-> pipe_cache'.cap]
                                      ELSE seq_cache[s]]

-----------------------------------------------------------------------------
(* Completion step.                                                        *)

\* CacheInstruction::In unless the batch is the one whose cache is in place.
CloneIn == last_completion_ids # completion

Uncached == {s \in completion : seq_cache[s] = NoCache}

\* `Tensor::cat` takes the caches of a batch only if they have the same room.
Concatenable == Uncached = {} => \A s, t \in completion : seq_cache[s].cap = seq_cache[t].cap

\* The cache the forward pass works on.  clone_in_cache takes its lengths from the
\* first sequence of the batch, and no data at all if one of the others has none.
CachesUsed ==
    IF CloneIn
    THEN {[seqs |-> IF Uncached = {} THEN completion ELSE {},
           len |-> seq_cache[first].len, cap |-> seq_cache[first].cap]
             : first \in completion \ Uncached}
    ELSE {pipe_cache}

\* clone_in_cache unwraps the cache of the first sequence of the batch, and what
\* `cat` returns.
CloneInPanics ==
    /\ phase = "completion" /\ CloneIn
    /\ Uncached # {} \/ ~Concatenable
    /\ phase' = "dead"
    /\ UNCHANGED <<queueVars, state, toks, terminate, cacheVars, choices, errors>>

\* One token of each sequence is computed.  The prompts of the pass come next.
CompletionForward ==
    /\ phase = "completion"
    /\ CloneIn => Concatenable
    /\ \E c \in CachesUsed : Forward(completion, c, 1)
    /\ last_completion_ids' = completion
    /\ phase' = IF prompt # {} THEN "prompt" ELSE "top"
    /\ UNCHANGED <<queueVars, terminate>>

CompletionStep ==
    /\ CompletionForward
    /\ AllSampled(completion)
    /\ \E F \in SUBSET completion : /\ state' = StatesAfter(completion, F)
                                    /\ choices' = ChoicesAfter(completion, F)

CompletionSampleError ==
    /\ CompletionForward
    /\ \E P \in SUBSET completion : \E s \in completion \ P : \E F \in SUBSET P :
          /\ SamplingFails(completion, P)
          /\ state' = [StatesAfter(P, F) EXCEPT ![s] = "Error"]
          /\ choices' = ChoicesAfter(P, F)

CompletionFails ==
    /\ phase = "completion"
    /\ CloneIn => Concatenable
    /\ \E c \in CachesUsed : ForwardFails(completion, c, 1)

-----------------------------------------------------------------------------
(* Prompt step.                                                            *)

\* set_none_cache: an empty cache with the room preallocated for the batch.
Preloaded(first) == [seqs |-> prompt, len |-> 0, cap |-> Preallocated(first)]

\* The rooms of the batch are concatenated, too: a sequence that was waitlisted
\* while it ran, and prefilled again, may meet one with a longer prompt.
SameRoom == \A s, t \in prompt : Preallocated(s) = Preallocated(t)

PreloadPanics ==
    /\ phase = "prompt" /\ ~SameRoom
    /\ phase' = "dead"
    /\ UNCHANGED <<queueVars, state, toks, terminate, cacheVars, choices, errors>>

\* Mutation: the prompt step forgets that it replaced the pipeline's cache.
PromptForwardKeepsIds ==
    /\ phase = "prompt"
    /\ SameRoom /\ \E s \in prompt : Forward(prompt, Preloaded(s), toks[s])
    /\ state' = [s \in SeqIds |-> IF s \in prompt THEN "RunningCompletion" ELSE state[s]]
    /\ phase' = "top"
    /\ UNCHANGED <<queueVars, terminate, last_completion_ids>>

\* Mutation: the sequences of the batch keep their state.
PromptForwardKeepsState ==
    /\ phase = "prompt"
    /\ SameRoom /\ \E s \in prompt : Forward(prompt, Preloaded(s), toks[s])
    /\ UNCHANGED state
    /\ last_completion_ids' = {}
    /\ phase' = "top"
    /\ UNCHANGED <<queueVars, terminate>>

\* All tokens are computed, and every sequence of the batch ends up
\* RunningCompletion, whatever state sampling has put it in.
PromptForward ==
    /\ phase = "prompt"
    /\ SameRoom /\ \E s \in prompt : Forward(prompt, Preloaded(s), toks[s])
    /\ state' = [s \in SeqIds |-> IF s \in prompt THEN "RunningCompletion" ELSE state[s]]
    /\ last_completion_ids' = {}
    /\ phase' = "top"
    /\ UNCHANGED <<queueVars, terminate>>

PromptStep ==
    /\ PromptForward
    /\ AllSampled(prompt)
    /\ \E F \in SUBSET prompt : choices' = ChoicesAfter(prompt, F)

PromptSampleError ==
    /\ PromptForward
    /\ \E P \in SUBSET prompt : \E F \in SUBSET P :
          SamplingFails(prompt, P) /\ choices' = ChoicesAfter(P, F)

PromptFails ==
    /\ phase = "prompt"
    /\ SameRoom /\ \E s \in prompt : ForwardFails(prompt, Preloaded(s), toks[s])

Engine == \/ SchedulePass
          \/ CompletionStep \/ CompletionSampleError \/ CompletionFails \/ CloneInPanics
          \/ PromptStep \/ PromptSampleError \/ PromptFails \/ PreloadPanics

Next == (\E s \in SeqIds : AddSeq(s)) \/ SetTerminate \/ Engine

Spec == Init /\ [][Next]_vars

\* The loop runs on a thread of its own and sleeps only when it has nothing to do.
FairSpec == Spec /\ WF_vars(Engine)

-----------------------------------------------------------------------------

(* The bucketing never loses a sequence and never has it twice: what is    *)
(* taken in and has not ended is waiting or running, not both.             *)
NoSequenceLost ==
    /\ waiting \cap running = {}
    /\ \A s \in SeqIds :
          state[s] \in {"Waiting", "RunningPrompt", "RunningCompletion"}
              => s \in waiting \cup running

\* A step that fails leaves its batch in state Error, unless sampling fails for
\* one of a prompt batch.
NothingFailed == sampleErrors = 0 /\ \A s \in SeqIds : state[s] # "Error"

(* A completion step computes one token of each sequence on top of the     *)
(* keys and values of all the others, its own: the shortcut that leaves    *)
(* the pipeline's cache in place when the batch is the same as last time   *)
(* never picks up a cache that a prompt step or another batch has replaced.*)
CompletionReadsOwnCache ==
    phase = "completion" /\ NothingFailed =>
        /\ CachesUsed # {}
        /\ \A c \in CachesUsed : /\ c.seqs = completion
                                 /\ \A s \in completion : c.len = toks[s] - 1

(* Sequences meet in a batch by their length, on different ways: one from  *)
(* a long prompt, whose room was allocated by add_request, another that    *)
(* grew step by step.  Their caches have the same room all the same, so    *)
(* that the `cat(..).unwrap()` of clone_in_cache does not end the engine.  *)
(* (Not so after a prompt step in which sampling fails: it leaves a        *)
(* sequence running without the token that its cache makes it count on.    *)
(* Nor after a step that fails as a whole: last_completion_ids may name a  *)
(* batch that did not take part, which then decodes on the empty cache.)   *)
CachesConcatenate == phase = "completion" /\ NothingFailed => Concatenable

(* A completion step may find an empty cache after a failed step, but never *)
(* the keys and values of other sequences: whatever replaces the cache in  *)
(* the pipeline, fails on it or empties it, the shortcut does not take the *)
(* cache of one batch for that of another.                                 *)
NoForeignCache ==
    phase = "completion" => \A c \in CachesUsed : c.seqs \in {{}, completion}

(* set_none_cache unwraps the `cat` of the rooms preallocated for a prompt *)
(* batch.  bucket_and_waitlist_seqs keeps sequences for later "without a   *)
(* state modification", so that a prompt batch holds newcomers of one      *)
(* length, whose rooms are the same.                                       *)
PrefillCachesConcatenate == phase = "prompt" => SameRoom

(* "Schedule all sequences based on their state": a sequence is decoded    *)
(* before its prompt step only if a failed completion step has cut off the *)
(* prompts of its pass (`continue 'lp`); every other path leads through    *)
(* the prompt step.                                                        *)
LeftoverPromptNeedsAFailure ==
    phase = "completion" /\ (\E s \in completion : state[s] = "RunningPrompt")
        => \E s \in SeqIds : state[s] = "Error"

(* The batch of a step has one adapter set and one length, which is what   *)
(* the input tensors and the activation of adapters rely on.               *)
BatchIsUniform ==
    /\ phase = "completion" =>
          \A s, t \in completion \cup prompt :
              Adapters[s] = Adapters[t] /\ toks[s] = toks[t]
    /\ phase = "prompt" =>
          \A s, t \in prompt : Adapters[s] = Adapters[t] /\ toks[s] = toks[t]

(* Bucketing starves nobody: every request that is taken in ends.          *)
EveryRequestEnds == \A s \in SeqIds : state[s] = "Waiting" ~> state[s] \in EndStates
=============================================================================
