------------------------- MODULE DefaultEngineProofs -------------------------
(***************************************************************************)
(* Theorems about DefaultEngine for any sequences, adapters, lengths,      *)
(* limits and failures: no sequence is lost between the batch and the      *)
(* waitlist, batches are uniform, a completion step never works on the     *)
(* cache of other sequences, and sequences are prefilled before they are   *)
(* decoded unless a step has failed.  DInv is the inductive invariant.     *)
(***************************************************************************)
EXTENDS DefaultEngine, TLAPS

DTypeOK ==
    /\ state \in [SeqIds -> States]
    /\ waiting \subseteq SeqIds /\ running \subseteq SeqIds
    /\ phase \in {"top", "asleep", "completion", "prompt", "dead"}

Alive(s) == state[s] \in {"Waiting", "RunningPrompt", "RunningCompletion"}

Queues ==
    /\ NoSequenceLost
    /\ \A s \in waiting : Alive(s)
    /\ \A s \in running : state[s] \notin {"Absent", "Waiting"}

\* What schedule() puts in the two batches of a pass.
Batches ==
    /\ completion \subseteq running /\ prompt \subseteq running
    /\ completion \cap prompt = {}
    /\ phase = "completion" =>
          /\ completion # {}
          /\ \A s \in completion : state[s] \in {"RunningPrompt", "RunningCompletion", "Canceled"}
    /\ phase = "prompt" => prompt # {}
    /\ phase \in {"completion", "prompt"} => \A s \in prompt : state[s] = "RunningPrompt"

\* Until a step fails, what runs as a prompt is in the prompt batch.
Failed == \E s \in SeqIds : state[s] = "Error"
Prefilled ==
    Failed \/ \A s \in running :
                 state[s] = "RunningPrompt" => s \in prompt /\ phase \notin {"top", "asleep"}

\* The cache in the pipeline is empty or that of the last completion batch.
CacheInPlace == last_completion_ids # {} => pipe_cache.seqs \in {{}, last_completion_ids}

DInv == /\ DTypeOK /\ Queues /\ Batches /\ Prefilled /\ LeftoverPromptNeedsAFailure
        /\ CacheInPlace /\ BatchIsUniform

-----------------------------------------------------------------------------
LEMMA InitD == Init => DInv
  BY DEF Init, DInv, DTypeOK, States, Queues, NoSequenceLost, Alive, Batches, Prefilled, Failed,
         LeftoverPromptNeedsAFailure, CacheInPlace, BatchIsUniform

\* The members of a bucket have one adapter set and one length.
LEMMA BucketFacts ==
    ASSUME NEW R, NEW st, NEW B \in Buckets(R, st)
    PROVE  /\ B \subseteq R /\ B # {}
           /\ \A s, t \in B : Adapters[s] = Adapters[t] /\ toks[s] = toks[t]
<1>1. PICK r \in R : B = {t \in R : BucketKey(t, st) = BucketKey(r, st)}
  BY DEF Buckets
<1>2. B \subseteq R /\ r \in B
  BY <1>1
<1>3. ASSUME NEW s \in B, NEW t \in B
      PROVE  Adapters[s] = Adapters[t] /\ toks[s] = toks[t]
  <2>1. BucketKey(s, st) = BucketKey(r, st) /\ BucketKey(t, st) = BucketKey(r, st)
    BY <1>1
  <2> QED
    BY <2>1 DEF BucketKey
<1> QED
  BY <1>2, <1>3

\* What a pass of schedule() leaves to show, when the bucket B of R runs.
LEMMA BucketRuns ==
    ASSUME DInv, SchedulePass, NEW R \in SUBSET (waiting \cup running), NEW st,
           NEW B \in Buckets(R, st), RunBucket(B, R, waiting \ R), UNCHANGED toks,
           state' \in [SeqIds -> States],
           completion' \subseteq B, prompt' \subseteq B, completion' \cap prompt' = {},
           completion' \cup prompt' = B,
           \A s \in SeqIds : s \notin R => state'[s] = state[s],
           \A s \in SeqIds : s \notin R => ~Alive(s) \/ s \in waiting,
           \A s \in R \ B : state'[s] \in {"RunningPrompt", "RunningCompletion"},
           \A s \in R : state[s] # "Error",
           \A s \in prompt' : state'[s] = "RunningPrompt",
           \A s \in completion' :
              /\ state'[s] \in {"RunningPrompt", "RunningCompletion", "Canceled"}
              /\ state'[s] = "RunningPrompt" => Failed
    PROVE  DInv'
<1>1. /\ running' = B /\ waiting' = (waiting \ R) \cup (R \ B)
      /\ UNCHANGED <<pipe_cache, seq_cache, last_completion_ids>>
      /\ phase' = IF completion' # {} THEN "completion"
                  ELSE IF prompt' # {} THEN "prompt" ELSE "asleep"
  BY DEF SchedulePass, RunBucket, cacheVars
<1>2. /\ B \subseteq R /\ B # {}
      /\ \A s, t \in B : Adapters[s] = Adapters[t] /\ toks[s] = toks[t]
  BY BucketFacts
<1>3. R \subseteq SeqIds
  BY DEF DInv, DTypeOK
<1>4. DTypeOK'
  BY <1>1, <1>2, <1>3 DEF DInv, DTypeOK
<1>5. Queues'
  <2>1. waiting' \cap running' = {}
    BY <1>1, <1>2
  <2>2. \A s \in SeqIds : Alive(s)' => s \in waiting' \cup running'
    BY <1>1 DEF Alive
  <2>3. \A s \in waiting' : Alive(s)'
    BY <1>1, <1>3, <1>4 DEF DInv, DTypeOK, Queues, Alive
  <2>4. \A s \in running' : state'[s] \notin {"Absent", "Waiting"}
    BY <1>1
  <2> QED
    BY <2>1, <2>2, <2>3, <2>4 DEF Queues, NoSequenceLost, Alive
<1>6. Batches'
  BY <1>1, <1>2 DEF Batches
<1>7. Failed => Failed'
  BY DEF Failed
<1>8. Prefilled' /\ LeftoverPromptNeedsAFailure'
  BY <1>1, <1>2, <1>7 DEF Prefilled, LeftoverPromptNeedsAFailure, Failed
<1>9. CacheInPlace' /\ BatchIsUniform'
  BY <1>1, <1>2 DEF DInv, CacheInPlace, BatchIsUniform
<1> QED
  BY <1>4, <1>5, <1>6, <1>8, <1>9 DEF DInv

LEMMA ScheduleD == ASSUME DInv, SchedulePass PROVE DInv'
<1>1. phase = "top" /\ Schedule
  BY DEF SchedulePass
<1>2. /\ StillRunning \subseteq running
      /\ \A s \in running : s \in StillRunning <=> state[s] \in {"RunningPrompt", "RunningCompletion"}
      /\ \A s \in SeqIds : Alive(s) => s \in waiting \cup StillRunning
  BY DEF DInv, DTypeOK, Queues, NoSequenceLost, Alive, StillRunning, IsRunning
<1>3. CASE ScheduleNothing
  <2>1. /\ waiting = {} /\ running' = {} /\ completion' = {} /\ prompt' = {} /\ phase' = "asleep"
        /\ UNCHANGED <<waiting, state, toks, pipe_cache, seq_cache, last_completion_ids>>
        /\ StillRunning = {}
    BY <1>3 DEF SchedulePass, ScheduleNothing, cacheVars
  <2>2. DTypeOK' /\ Batches' /\ Prefilled' /\ LeftoverPromptNeedsAFailure' /\ CacheInPlace'
        /\ BatchIsUniform'
    BY <2>1 DEF DInv, DTypeOK, Batches, Prefilled, LeftoverPromptNeedsAFailure, CacheInPlace,
                BatchIsUniform
  <2>3. Queues'
    BY <1>2, <2>1 DEF Queues, NoSequenceLost, Alive
  <2> QED
    BY <2>2, <2>3 DEF DInv
<1>4. CASE ScheduleWaiting
  <2>1. PICK B \in ShortestBuckets(waiting, state') : RunBucket(B, waiting, {}) /\ prompt' = B
    BY <1>4 DEF ScheduleWaiting
  <2>2. /\ StillRunning = {} /\ completion' = {} /\ UNCHANGED toks
        /\ state' = [s \in SeqIds |-> IF s \in waiting THEN "RunningPrompt" ELSE state[s]]
    BY <1>4 DEF ScheduleWaiting
  <2>3. B \in Buckets(waiting, state') /\ B \subseteq waiting /\ waiting \subseteq SeqIds
    BY <2>1, BucketFacts DEF ShortestBuckets, DInv, DTypeOK
  <2>4. state' \in [SeqIds -> States] /\ \A s \in waiting : state'[s] = "RunningPrompt"
    BY <2>2, <2>3 DEF DInv, DTypeOK, States
  <2>5. RunBucket(B, waiting, waiting \ waiting)
    BY <2>1
  <2>6. /\ \A s \in SeqIds : s \notin waiting => state'[s] = state[s] /\ ~Alive(s)
        /\ \A s \in waiting : state[s] # "Error"
    BY <1>2, <2>2 DEF DInv, Queues, Alive
  <2> QED
    BY <2>1, <2>2, <2>3, <2>4, <2>5, <2>6, BucketRuns
<1>5. CASE ScheduleRunning
  <2>1. PICK B \in ShortestBuckets(StillRunning, state) :
            /\ RunBucket(B, StillRunning, {}) /\ completion' = B
            /\ state' = [s \in SeqIds |-> IF terminate /\ s \in B THEN "Canceled" ELSE state[s]]
    BY <1>5 DEF ScheduleRunning
  <2>2. waiting = {} /\ prompt' = {} /\ UNCHANGED toks
    BY <1>5 DEF ScheduleRunning
  <2>3. B \in Buckets(StillRunning, state) /\ B \subseteq StillRunning /\ StillRunning \subseteq SeqIds
    BY <1>2, <2>1, BucketFacts DEF ShortestBuckets, DInv, DTypeOK
  <2>4. state' \in [SeqIds -> States] /\ \A s \in StillRunning \ B : state'[s] = state[s]
    BY <2>1, <2>3 DEF DInv, DTypeOK, States
  <2>5. RunBucket(B, StillRunning, waiting \ StillRunning)
    BY <2>1, <2>2
  <2>6. /\ \A s \in SeqIds : s \notin StillRunning => state'[s] = state[s] /\ ~Alive(s)
        /\ \A s \in StillRunning : state[s] # "Error"
    BY <1>2, <2>1, <2>2, <2>3
  <2>7. \A s \in completion' :
            /\ state'[s] \in {"RunningPrompt", "RunningCompletion", "Canceled"}
            /\ state'[s] = "RunningPrompt" => Failed
    BY <1>1, <1>2, <2>1, <2>3 DEF DInv, Prefilled
  <2> QED
    BY <1>2, <2>1, <2>2, <2>3, <2>4, <2>5, <2>6, <2>7, BucketRuns
<1>6. CASE ScheduleMixed
  <2> DEFINE R == StillRunning \cup Fitting
             st == [s \in SeqIds |-> IF s \in Fitting /\ state[s] = "Waiting"
                                     THEN "RunningPrompt" ELSE state[s]]
  <2>1. PICK B \in UrgentBuckets(R, st) :
            /\ RunBucket(B, R, waiting \ Fitting)
            /\ completion' = {s \in B : st[s] = "RunningCompletion"}
            /\ prompt' = {s \in B : st[s] # "RunningCompletion"}
    BY <1>6 DEF ScheduleMixed
  <2>2. state' = st /\ UNCHANGED toks /\ Fitting \subseteq waiting
    BY <1>6 DEF ScheduleMixed, Fitting
  <2>3. B \in Buckets(R, st) /\ B \subseteq R /\ R \subseteq SeqIds
    BY <1>2, <2>1, <2>2, BucketFacts DEF UrgentBuckets, DInv, DTypeOK
  <2>4. /\ state' \in [SeqIds -> States]
        /\ \A s \in R : state'[s] \in {"RunningPrompt", "RunningCompletion"} /\ state[s] # "Error"
    BY <1>2, <2>2, <2>3 DEF DInv, DTypeOK, Queues, Alive, States
  <2>5. RunBucket(B, R, waiting \ R)
    <3>1. waiting \ Fitting = waiting \ R
      BY <1>2 DEF DInv, Queues, NoSequenceLost
    <3> QED
      BY <2>1, <3>1
  <2>6. \A s \in SeqIds : s \notin R => state'[s] = state[s] /\ (~Alive(s) \/ s \in waiting)
    BY <1>2, <2>2
  <2>7. R \in SUBSET (waiting \cup running)
    BY <1>2, <2>2
  <2>8. /\ completion' \subseteq B /\ prompt' \subseteq B /\ completion' \cap prompt' = {}
        /\ completion' \cup prompt' = B
        /\ \A s \in prompt' : state'[s] = "RunningPrompt"
        /\ \A s \in completion' : state'[s] = "RunningCompletion"
    BY <2>1, <2>2, <2>3, <2>4
  <2> HIDE DEF R, st
  <2> QED
    BY <2>2, <2>3, <2>4, <2>5, <2>6, <2>7, <2>8, BucketRuns
<1> QED
  BY <1>1, <1>3, <1>4, <1>5, <1>6 DEF Schedule

-----------------------------------------------------------------------------
\* Sampling.

\* It ends sequences of the batch, and turns none of them into another's state.
LEMMA SampledStates ==
    ASSUME DTypeOK, NEW P \in SUBSET SeqIds, NEW F \in SUBSET P
    PROVE  /\ StatesAfter(P, F) \in [SeqIds -> States]
           /\ \A s \in SeqIds :
                 \/ StatesAfter(P, F)[s] = state[s]
                 \/ s \in P /\ StatesAfter(P, F)[s] = "Done"
<1>1. Stopping(P, F) \subseteq P
  BY DEF Stopping
<1>2. ASSUME NEW s \in SeqIds
      PROVE  /\ StatesAfter(P, F)[s] \in States
             /\ StatesAfter(P, F)[s] = state[s] \/ (s \in P /\ StatesAfter(P, F)[s] = "Done")
  <2>1. state[s] \in States
    BY DEF DTypeOK
  <2>2. StatesAfter(P, F)[s]
           = IF s \in Stopping(P, F) /\ state[s] # "Canceled" THEN "Done" ELSE state[s]
    BY DEF StatesAfter
  <2> QED
    BY <1>1, <2>1, <2>2 DEF States
<1>3. StatesAfter(P, F) = [s \in SeqIds |-> StatesAfter(P, F)[s]]
  BY DEF StatesAfter
<1> QED
  BY <1>2, <1>3

LEMMA AddedTokens ==
    ASSUME NEW P \in SUBSET SeqIds
    PROVE  \A s \in SeqIds \ P : TokensAdded(P)[s] = toks[s]
  BY DEF TokensAdded

\* A completion step ends, or fails, some of its batch; the prompts of the pass
\* stay as they are.
LEMMA CompletionEnds ==
    ASSUME DInv, phase = "completion", UNCHANGED queueVars,
           state' \in [SeqIds -> States],
           phase' \in {"top", "prompt"}, phase' = "prompt" => prompt # {},
           \A s \in SeqIds \ completion : toks'[s] = toks[s] /\ state'[s] = state[s],
           \A s \in completion : state'[s] \in {state[s], "Done", "Error"},
           \/ Failed'
           \/ /\ phase' = "top" => prompt = {}
              /\ \A s \in completion : state[s] # "Error",
           CacheInPlace'
    PROVE  DInv'
<1>1. /\ UNCHANGED <<waiting, running, completion, prompt>>
      /\ completion \subseteq SeqIds /\ prompt \subseteq SeqIds /\ completion \cap prompt = {}
      /\ completion \subseteq running /\ prompt \subseteq running
      /\ \A s \in completion : state[s] \in {"RunningPrompt", "RunningCompletion", "Canceled"}
      /\ \A s \in prompt : state[s] = "RunningPrompt"
      /\ waiting \cap running = {}
  BY DEF DInv, DTypeOK, Batches, Queues, NoSequenceLost, queueVars
<1>2. DTypeOK'
  BY <1>1 DEF DInv, DTypeOK
<1>3. Queues'
  BY <1>1 DEF DInv, DTypeOK, Queues, NoSequenceLost, Alive
<1>4. Batches'
  BY <1>1 DEF DInv, Batches
<1>5. Failed => Failed'
  BY <1>1 DEF Failed
<1>6. Prefilled' /\ LeftoverPromptNeedsAFailure'
  <2>1. LeftoverPromptNeedsAFailure'
    BY DEF LeftoverPromptNeedsAFailure
  <2>2. CASE Failed'
    BY <2>1, <2>2 DEF Prefilled, Failed
  <2>3. CASE ~Failed'
    <3>1. \A s \in running : state[s] = "RunningPrompt" => s \in prompt
      BY <1>5, <2>3 DEF DInv, Prefilled
    <3>2. \A s \in running' : state'[s] = "RunningPrompt" => s \in prompt'
      BY <1>1, <3>1 DEF DInv, DTypeOK
    <3>3. prompt # {} => phase' = "prompt"
      BY <2>3
    <3> QED
      BY <1>1, <2>1, <3>2, <3>3 DEF Prefilled
  <2> QED
    BY <2>2, <2>3
<1>7. BatchIsUniform'
  BY <1>1 DEF DInv, BatchIsUniform
<1> QED
  BY <1>2, <1>3, <1>4, <1>6, <1>7 DEF DInv

LEMMA CompletionD ==
    ASSUME DInv, CompletionStep \/ CompletionSampleError \/ CompletionFails
    PROVE  DInv'
<1>1. /\ completion \subseteq SeqIds /\ prompt \subseteq SeqIds /\ DTypeOK
      /\ UNCHANGED queueVars /\ phase = "completion" /\ completion # {}
      /\ \A s \in completion : state[s] # "Error"
  BY DEF DInv, DTypeOK, Batches, CompletionStep, CompletionSampleError, CompletionFails,
         CompletionForward, ForwardFails
\* The cache that the step works on.
<1>2. \A c \in CachesUsed : c.seqs \in {{}, completion}
  BY <1>1 DEF CachesUsed, CloneIn, DInv, CacheInPlace
<1>3. CompletionForward =>
          CacheInPlace' /\ phase' = (IF prompt # {} THEN "prompt" ELSE "top")
  <2> SUFFICES ASSUME CompletionForward
               PROVE  CacheInPlace' /\ phase' = (IF prompt # {} THEN "prompt" ELSE "top")
    OBVIOUS
  <2>1. PICK c \in CachesUsed : pipe_cache' = Appended(c, 1)
    BY DEF CompletionForward, Forward
  <2>2. last_completion_ids' = completion /\ phase' = (IF prompt # {} THEN "prompt" ELSE "top")
    BY DEF CompletionForward
  <2>3. pipe_cache'.seqs = c.seqs
    BY <2>1 DEF Appended, CachesUsed
  <2> QED
    BY <1>2, <2>2, <2>3 DEF CacheInPlace
<1>4. CASE CompletionStep
  <2>1. PICK F \in SUBSET completion : state' = StatesAfter(completion, F)
    BY <1>4 DEF CompletionStep
  <2>2. toks' = TokensAdded(completion) /\ CompletionForward
    BY <1>4 DEF CompletionStep, AllSampled
  <2>3. /\ state' \in [SeqIds -> States]
        /\ \A s \in SeqIds : state'[s] = state[s] \/ (s \in completion /\ state'[s] = "Done")
    BY <1>1, <2>1, SampledStates
  <2>4. \A s \in SeqIds \ completion : toks'[s] = toks[s] /\ state'[s] = state[s]
    BY <1>1, <2>2, <2>3, AddedTokens
  <2> QED
    BY <1>1, <1>3, <2>2, <2>3, <2>4, CompletionEnds
<1>5. CASE CompletionSampleError
  <2>1. PICK P \in SUBSET completion : \E s \in completion \ P : \E F \in SUBSET P :
            SamplingFails(completion, P) /\ state' = [StatesAfter(P, F) EXCEPT ![s] = "Error"]
    BY <1>5 DEF CompletionSampleError
  <2>2. PICK e \in completion \ P : \E F \in SUBSET P :
            SamplingFails(completion, P) /\ state' = [StatesAfter(P, F) EXCEPT ![e] = "Error"]
    BY <2>1
  <2>3. PICK F \in SUBSET P :
            SamplingFails(completion, P) /\ state' = [StatesAfter(P, F) EXCEPT ![e] = "Error"]
    BY <2>2
  <2>4. toks' = TokensAdded(P) /\ CompletionForward
    BY <1>5, <2>3 DEF CompletionSampleError, SamplingFails
  <2>5. /\ StatesAfter(P, F) \in [SeqIds -> States]
        /\ \A s \in SeqIds :
              \/ StatesAfter(P, F)[s] = state[s]
              \/ s \in P /\ StatesAfter(P, F)[s] = "Done"
    BY <1>1, SampledStates
  <2>6. /\ state' \in [SeqIds -> States] /\ state'[e] = "Error"
        /\ \A s \in SeqIds : s # e => state'[s] = StatesAfter(P, F)[s]
    BY <1>1, <2>3, <2>5 DEF States
  <2>7. Failed'
    BY <1>1, <2>6 DEF Failed
  <2>8. \A s \in SeqIds \ completion : toks'[s] = toks[s] /\ state'[s] = state[s]
    BY <1>1, <2>4, <2>5, <2>6, AddedTokens
  <2>9. \A s \in completion : state'[s] \in {state[s], "Done", "Error"}
    BY <1>1, <2>5, <2>6
  <2> QED
    BY <1>1, <1>3, <2>4, <2>6, <2>7, <2>8, <2>9, CompletionEnds
<1>6. CASE CompletionFails
  <2>1. PICK c \in CachesUsed : ForwardFails(completion, c, 1)
    BY <1>6 DEF CompletionFails
  <2>2. \E P \in SUBSET completion : toks' = TokensAdded(P)
    BY <2>1 DEF ForwardFails
  <2>3. /\ state' = [s \in SeqIds |-> IF s \in completion THEN "Error" ELSE state[s]]
        /\ phase' = "top"
    BY <2>1 DEF ForwardFails
  <2>4. pipe_cache'.seqs = {}
    BY <2>1 DEF ForwardFails, Emptied, CachesUsed
  <2>5. CacheInPlace'
    BY <2>4 DEF CacheInPlace
  <2>6. state' \in [SeqIds -> States] /\ Failed'
    BY <1>1, <2>3 DEF DTypeOK, States, Failed
  <2>7. \A s \in SeqIds \ completion : toks'[s] = toks[s] /\ state'[s] = state[s]
    BY <1>1, <2>2, <2>3, AddedTokens
  <2>8. \A s \in completion : state'[s] = "Error"
    BY <1>1, <2>3
  <2> QED
    BY <1>1, <2>3, <2>5, <2>6, <2>7, <2>8, CompletionEnds
<1> QED
  BY <1>4, <1>5, <1>6

\* A prompt step makes its batch decode, or fail.
LEMMA PromptD ==
    ASSUME DInv, PromptStep \/ PromptSampleError \/ PromptFails
    PROVE  DInv'
<1>1. /\ phase = "prompt" /\ phase' = "top"
      /\ UNCHANGED <<waiting, running, completion, prompt>>
  BY DEF PromptStep, PromptSampleError, PromptFails, PromptForward, ForwardFails, queueVars
<1>2. /\ prompt \subseteq SeqIds /\ prompt \subseteq running /\ waiting \cap running = {} /\ prompt # {}
      /\ \A s \in prompt : state[s] = "RunningPrompt"
      /\ state \in [SeqIds -> States] /\ waiting \subseteq SeqIds /\ running \subseteq SeqIds
  BY <1>1 DEF DInv, DTypeOK, Batches, Queues, NoSequenceLost
<1>3. \/ /\ state' = [s \in SeqIds |-> IF s \in prompt THEN "RunningCompletion" ELSE state[s]]
         /\ last_completion_ids' = {}
      \/ /\ state' = [s \in SeqIds |-> IF s \in prompt THEN "Error" ELSE state[s]]
         /\ pipe_cache'.seqs = {}
  <2>1. CASE PromptStep \/ PromptSampleError
    BY <2>1 DEF PromptStep, PromptSampleError, PromptForward
  <2>2. CASE PromptFails
    <3>1. PICK p \in prompt : ForwardFails(prompt, Preloaded(p), toks[p])
      BY <2>2 DEF PromptFails
    <3> QED
      BY <3>1 DEF ForwardFails, Emptied, Preloaded
  <2> QED
    BY <2>1, <2>2
<1>4. /\ \A s \in SeqIds \ prompt : state'[s] = state[s]
      /\ \/ \A s \in prompt : state'[s] = "RunningCompletion"
         \/ \A s \in prompt : state'[s] = "Error"
      /\ state' \in [SeqIds -> States]
  BY <1>2, <1>3 DEF States
<1>5. DTypeOK'
  BY <1>1, <1>4 DEF DInv, DTypeOK
<1>6. Queues'
  BY <1>1, <1>2, <1>4 DEF DInv, Queues, NoSequenceLost, Alive
<1>7. Batches'
  BY <1>1 DEF DInv, Batches
<1>8. Prefilled'
  <2>1. CASE \A s \in prompt : state'[s] = "Error"
    BY <1>2, <2>1 DEF Prefilled, Failed
  <2>2. CASE \A s \in prompt : state'[s] = "RunningCompletion"
    <3>1. Failed => Failed'
      BY <1>2, <1>4 DEF Failed
    <3>2. Failed \/ \A s \in running : state[s] = "RunningPrompt" => s \in prompt
      BY DEF DInv, Prefilled
    <3>3. Failed' \/ \A s \in running' : state'[s] # "RunningPrompt"
      BY <1>1, <1>2, <1>4, <2>2, <3>1, <3>2
    <3> QED
      BY <3>3 DEF Prefilled
  <2> QED
    BY <1>4, <2>1, <2>2
<1>9. LeftoverPromptNeedsAFailure' /\ CacheInPlace' /\ BatchIsUniform'
  BY <1>1, <1>3 DEF LeftoverPromptNeedsAFailure, CacheInPlace, BatchIsUniform
<1> QED
  BY <1>5, <1>6, <1>7, <1>8, <1>9 DEF DInv

-----------------------------------------------------------------------------
\* The other steps.

LEMMA AddSeqD == ASSUME DInv, NEW n \in SeqIds, AddSeq(n) PROVE DInv'
<1>1. /\ phase \in {"top", "asleep"} /\ phase' = "top" /\ state[n] = "Absent"
      /\ waiting' = waiting \cup {n} /\ state' = [state EXCEPT ![n] = "Waiting"]
      /\ UNCHANGED <<running, completion, prompt, toks, pipe_cache, last_completion_ids>>
  BY DEF AddSeq, AddToQueue, cacheVars
<1>2. state'[n] = "Waiting" /\ \A s \in SeqIds : s # n => state'[s] = state[s]
  BY <1>1 DEF DInv, DTypeOK
<1>3. DTypeOK'
  BY <1>1 DEF DInv, DTypeOK, States
<1>4. Queues'
  BY <1>1, <1>2 DEF DInv, DTypeOK, Queues, NoSequenceLost, Alive
<1>5. Failed => Failed'
  BY <1>1, <1>2 DEF Failed
<1>6. Batches' /\ LeftoverPromptNeedsAFailure' /\ CacheInPlace' /\ BatchIsUniform'
  BY <1>1 DEF DInv, Batches, LeftoverPromptNeedsAFailure, CacheInPlace, BatchIsUniform
<1>7. Prefilled'
  <2>1. Failed' \/ \A s \in running : state[s] # "RunningPrompt"
    BY <1>1, <1>5 DEF DInv, Prefilled
  <2>2. Failed' \/ \A s \in running' : state'[s] # "RunningPrompt"
    BY <1>1, <1>2, <2>1 DEF DInv, DTypeOK
  <2> QED
    BY <2>2 DEF Prefilled
<1> QED
  BY <1>3, <1>4, <1>6, <1>7 DEF DInv

LEMMA QuietD ==
    ASSUME DInv, SetTerminate \/ CloneInPanics \/ PreloadPanics \/ UNCHANGED vars
    PROVE  DInv'
<1>1. /\ UNCHANGED <<waiting, running, completion, prompt, state, toks, pipe_cache,
                     last_completion_ids>>
      /\ phase' \in {phase, "dead"}
  BY DEF SetTerminate, CloneInPanics, PreloadPanics, vars, queueVars, cacheVars
<1>2. Queues' /\ DTypeOK' /\ Batches'
  BY <1>1 DEF DInv, DTypeOK, Queues, NoSequenceLost, Alive, Batches
<1>3. Prefilled' /\ LeftoverPromptNeedsAFailure'
  BY <1>1 DEF DInv, Prefilled, Failed, LeftoverPromptNeedsAFailure
<1>4. CacheInPlace' /\ BatchIsUniform'
  BY <1>1 DEF DInv, CacheInPlace, BatchIsUniform
<1> QED
  BY <1>2, <1>3, <1>4 DEF DInv

-----------------------------------------------------------------------------
\* The theorems.

(* DInv holds in every state of the engine over the DefaultScheduler.      *)
THEOREM InvariantD == Spec => []DInv
<1>1. DInv /\ [Next]_vars => DInv'
  BY ScheduleD, CompletionD, PromptD, AddSeqD, QuietD DEF Next, Engine
<1> QED
  BY <1>1, InitD, PTL DEF Spec

(* No sequence is lost between batch and waitlist, or in both.             *)
THEOREM SequencesAreKept == Spec => []NoSequenceLost
<1>1. DInv => NoSequenceLost
  BY DEF DInv, Queues
<1> QED
  BY <1>1, InvariantD, PTL

(* The sequences of a step have one length and one adapter set.            *)
THEOREM BatchesAreUniform == Spec => []BatchIsUniform
<1>1. DInv => BatchIsUniform
  BY DEF DInv
<1> QED
  BY <1>1, InvariantD, PTL

(* Only a failed step makes the engine decode a sequence it has not        *)
(* prefilled.                                                              *)
THEOREM PrefillComesFirst == Spec => []LeftoverPromptNeedsAFailure
<1>1. DInv => LeftoverPromptNeedsAFailure
  BY DEF DInv
<1> QED
  BY <1>1, InvariantD, PTL

(* The shortcut that leaves the cache in place never takes one that holds  *)
(* the keys and values of other sequences.                                 *)
THEOREM CachesAreNotMixed == Spec => []NoForeignCache
<1>1. DInv => NoForeignCache
  BY DEF DInv, Batches, CacheInPlace, NoForeignCache, CachesUsed, CloneIn
<1> QED
  BY <1>1, InvariantD, PTL

-----------------------------------------------------------------------------
(* The contents of the caches.  As long as nothing fails, a sequence that  *)
(* is decoded has the cache of all its tokens but the last, with the room  *)
(* that this number rounds up to, however the room has grown; and the      *)
(* pipeline has what the sequences of the last completion batch have.      *)

Cached(s) ==
    /\ toks[s] > PromptLen[s]
    /\ seq_cache[s] = [len |-> toks[s] - 1, cap |-> Rounded(toks[s] - 1)]

Decoded(s) == state[s] = "RunningCompletion" \/ (phase = "completion" /\ s \in completion)

InPlace ==
    last_completion_ids # {} =>
        /\ pipe_cache.seqs = last_completion_ids
        /\ \A s \in last_completion_ids : seq_cache[s] = [len |-> pipe_cache.len, cap |-> pipe_cache.cap]

CacheTypeOK ==
    /\ toks \in [SeqIds -> Nat] /\ \A s \in SeqIds : toks[s] >= PromptLen[s]
    /\ sampleErrors \in Nat
    /\ pipe_cache \in [seqs : SUBSET SeqIds, len : Nat, cap : Nat]
    /\ seq_cache \in [SeqIds -> [len : Nat, cap : Nat]]

CacheInv ==
    /\ CacheTypeOK
    /\ NothingFailed => InPlace /\ \A s \in SeqIds : Decoded(s) => Cached(s)

\* Multiples of Grow.
LEMMA GrowMultiples ==
    ASSUME NEW p \in Nat, NEW q \in Nat
    PROVE  /\ Grow * p \in Nat
           /\ p < q => Grow * p + Grow <= Grow * q
           /\ Grow * (p + q) = Grow * p + Grow * q
<1>1. Grow \in Nat \ {0}
  BY EngineAssumption
<1>2. Grow * p \in Nat /\ Grow * (p + q) = Grow * p + Grow * q
  BY <1>1
<1>3. ASSUME p < q PROVE Grow * p + Grow <= Grow * q
  <2>1. q - p - 1 \in Nat /\ Grow * q = Grow * p + Grow + Grow * (q - p - 1)
    BY <1>1, <1>3
  <2>2. Grow * (q - p - 1) >= 0
    BY <1>1, <2>1
  <2> QED
    BY <1>1, <1>2, <2>1, <2>2
<1> QED
  BY <1>2, <1>3

\* Rounded(n) is a multiple of Grow at n or next above it ...
LEMMA RoundedFacts ==
    ASSUME NEW n \in Nat
    PROVE  \E q \in Nat : Rounded(n) = Grow * q /\ n <= Grow * q /\ Grow * q < n + Grow
<1> DEFINE m == n + Grow - 1
           q == m \div Grow
           r == m % Grow
<1>1. Grow \in Nat /\ Grow > 0 /\ m \in Nat
  BY EngineAssumption
<1>2. r \in 0..(Grow - 1) /\ q \in Nat /\ m = Grow * q + r
  <2> HIDE DEF m
  <2>1. r \in 0..(Grow - 1)
    BY <1>1
  <2>2. m = Grow * q + r
    BY <1>1
  <2>3. q \in Nat
    BY <1>1
  <2> QED
    BY <2>1, <2>2, <2>3
<1>3. Rounded(n) = q * Grow
  BY DEF Rounded
<1>4. m = n + Grow - 1
  OBVIOUS
<1> HIDE DEF q, r, m
<1>5. Grow * q \in Nat /\ q * Grow = Grow * q
  BY <1>1, <1>2
<1>6. n <= Grow * q /\ Grow * q < n + Grow
  BY <1>1, <1>2, <1>4, <1>5
<1> QED
  BY <1>2, <1>3, <1>5, <1>6

\* ... and the only one.
LEMMA RoundedIs ==
    ASSUME NEW n \in Nat, NEW q \in Nat, n <= Grow * q, Grow * q < n + Grow
    PROVE  Rounded(n) = Grow * q
<1>1. PICK p \in Nat : Rounded(n) = Grow * p /\ n <= Grow * p /\ Grow * p < n + Grow
  BY RoundedFacts
<1>2. Grow \in Nat /\ Grow * p \in Nat /\ Grow * q \in Nat
      /\ (p < q => Grow * p + Grow <= Grow * q) /\ (q < p => Grow * q + Grow <= Grow * p)
  BY GrowMultiples, EngineAssumption
<1>3. p = q
  BY <1>1, <1>2
<1> QED
  BY <1>1, <1>3

\* Growing by the blocks that are missing keeps the room rounded: caches of one
\* length have one room, on whatever way they have come to it.
LEMMA GrownIsRounded ==
    ASSUME NEW c, c.len \in Nat, NEW m \in Nat, c.cap = Rounded(m), NEW n \in Nat, m <= c.len + n
    PROVE  CapWith(c, n) = Rounded(c.len + n)
<1> DEFINE k == c.len + n
<1>1. k \in Nat /\ m <= k /\ Grow \in Nat
  BY EngineAssumption
<1>2. PICK p \in Nat : Rounded(m) = Grow * p /\ m <= Grow * p /\ Grow * p < m + Grow
  BY RoundedFacts
<1> DEFINE g == Grow * p
<1>3. c.cap = g /\ m <= g /\ g < m + Grow /\ g \in Nat
  BY <1>2, GrowMultiples
<1>4. c.len \in Nat /\ n \in Nat
  OBVIOUS
<1> HIDE DEF g
<1>5. CapWith(c, n) = IF k > g THEN g + Rounded(k - g) ELSE g
  BY <1>3, <1>4 DEF CapWith
<1> HIDE DEF k
<1>6. ASSUME k <= g PROVE CapWith(c, n) = Rounded(k)
  <2>1. g < k + Grow
    BY <1>1, <1>3
  <2>2. Rounded(k) = g
    BY <1>1, <1>6, <2>1, RoundedIs DEF g
  <2> QED
    BY <1>1, <1>3, <1>5, <1>6, <2>2
<1>7. ASSUME k > g PROVE CapWith(c, n) = Rounded(k)
  <2>1. k - g \in Nat
    BY <1>1, <1>3, <1>7
  <2>2. PICK q \in Nat : Rounded(k - g) = Grow * q /\ k - g <= Grow * q /\ Grow * q < k - g + Grow
    BY <2>1, RoundedFacts
  <2> DEFINE h == Grow * q
  <2>3. h \in Nat /\ Grow * (p + q) = g + h /\ p + q \in Nat
    <3>1. Grow * (p + q) = Grow * p + Grow * q
      BY GrowMultiples
    <3>2. Grow * q \in Nat
      BY GrowMultiples
    <3>3. Grow * (p + q) = g + h
      BY <3>1 DEF g
    <3> QED
      BY <3>2, <3>3
  <2>4. Rounded(k - g) = h /\ k - g <= h /\ h < k - g + Grow
    BY <2>2
  <2> HIDE DEF h
  <2>5. k <= g + h /\ g + h < k + Grow
    <3>1. h \in Nat /\ g \in Nat /\ k \in Nat /\ Grow \in Nat
      BY <1>1, <1>3, <2>3
    <3>2. k - g <= h /\ h < k - g + Grow
      BY <2>4
    <3> QED
      BY <3>1, <3>2
  <2>6. Rounded(k) = g + h
    <3>1. k <= Grow * (p + q) /\ Grow * (p + q) < k + Grow
      BY <2>3, <2>5
    <3> QED
      BY <1>1, <2>3, <3>1, RoundedIs
  <2> QED
    BY <1>5, <1>7, <2>4, <2>6
<1>8. CapWith(c, n) = Rounded(k)
  BY <1>1, <1>3, <1>6, <1>7
<1> QED
  BY <1>8 DEF k

LEMMA RoomType ==
    /\ \A n \in Nat : Rounded(n) \in Nat
    /\ \A c, n : c.len \in Nat /\ c.cap \in Nat /\ n \in Nat => CapWith(c, n) \in Nat
<1>1. \A n \in Nat : Rounded(n) \in Nat
  BY RoundedFacts, GrowMultiples
<1>2. ASSUME NEW c, NEW n \in Nat, c.len \in Nat, c.cap \in Nat PROVE CapWith(c, n) \in Nat
  <2>1. CASE c.len + n > c.cap
    <3>1. c.len + n - c.cap \in Nat
      BY <1>2, <2>1
    <3> QED
      BY <1>1, <1>2, <2>1, <3>1 DEF CapWith
  <2>2. CASE ~(c.len + n > c.cap)
    BY <1>2, <2>2 DEF CapWith
  <2> QED
    BY <2>1, <2>2
<1> QED
  BY <1>1, <1>2

LEMMA PromptFacts == \A s \in SeqIds : PromptLen[s] \in Nat /\ PromptLen[s] > 0
  BY EngineAssumption

LEMMA InitC == Init => CacheInv
<1> SUFFICES ASSUME Init PROVE CacheInv
  OBVIOUS
<1>1. CacheTypeOK
  <2>1. toks \in [SeqIds -> Nat] /\ (\A s \in SeqIds : toks[s] >= PromptLen[s]) /\ Grow \in Nat
    BY EngineAssumption, PromptFacts DEF Init
  <2> QED
    BY <2>1 DEF Init, CacheTypeOK, NoCache
<1> QED
  BY <1>1 DEF Init, CacheInv, InPlace, Decoded

\* What clone_in_cache and the forward pass make of caches.
LEMMA CacheTypes ==
    ASSUME CacheTypeOK, prompt \in SUBSET SeqIds, completion \in SUBSET SeqIds
    PROVE  /\ CachesUsed \subseteq [seqs : SUBSET SeqIds, len : Nat, cap : Nat]
           /\ \A s \in prompt : Preloaded(s) \in [seqs : SUBSET SeqIds, len : Nat, cap : Nat]
           /\ \A c \in [seqs : SUBSET SeqIds, len : Nat, cap : Nat], n \in Nat :
                 /\ Appended(c, n) = [seqs |-> c.seqs, len |-> c.len + n, cap |-> CapWith(c, n)]
                 /\ Appended(c, n) \in [seqs : SUBSET SeqIds, len : Nat, cap : Nat]
                 /\ Emptied([c EXCEPT !.cap = CapWith(c, n)]) \in [seqs : SUBSET SeqIds, len : Nat, cap : Nat]
<1>1. CachesUsed \subseteq [seqs : SUBSET SeqIds, len : Nat, cap : Nat]
  <2>1. \A s \in completion : seq_cache[s].len \in Nat /\ seq_cache[s].cap \in Nat
    BY DEF CacheTypeOK
  <2>2. (IF Uncached = {} THEN completion ELSE {}) \in SUBSET SeqIds
    OBVIOUS
  <2> QED
    BY <2>1, <2>2 DEF CachesUsed, CacheTypeOK
<1>2. ASSUME NEW s \in prompt PROVE Preloaded(s) \in [seqs : SUBSET SeqIds, len : Nat, cap : Nat]
  <2>1. Preallocated(s) \in Nat
    BY RoomType, PromptFacts DEF Preallocated
  <2> QED
    BY <2>1 DEF Preloaded
<1>3. ASSUME NEW c \in [seqs : SUBSET SeqIds, len : Nat, cap : Nat], NEW n \in Nat
      PROVE  /\ Appended(c, n) = [seqs |-> c.seqs, len |-> c.len + n, cap |-> CapWith(c, n)]
             /\ Appended(c, n) \in [seqs : SUBSET SeqIds, len : Nat, cap : Nat]
             /\ Emptied([c EXCEPT !.cap = CapWith(c, n)]) \in [seqs : SUBSET SeqIds, len : Nat, cap : Nat]
  <2>1. CapWith(c, n) \in Nat
    BY RoomType
  <2>2. c.len + n \in Nat /\ c.seqs \in SUBSET SeqIds
    OBVIOUS
  <2>3. [c EXCEPT !.cap = CapWith(c, n)].cap = CapWith(c, n)
    OBVIOUS
  <2> QED
    BY <2>1, <2>2, <2>3 DEF Appended, Emptied
<1> QED
  BY <1>1, <1>2, <1>3

LEMMA TokensType ==
    ASSUME CacheTypeOK, NEW P \in SUBSET SeqIds, toks' = TokensAdded(P)
    PROVE  toks' \in [SeqIds -> Nat] /\ \A s \in SeqIds : toks'[s] >= PromptLen[s]
<1>1. toks' \in [SeqIds -> Nat]
  BY DEF TokensAdded, CacheTypeOK
<1>2. ASSUME NEW s \in SeqIds PROVE toks'[s] >= PromptLen[s]
  <2>1. toks'[s] \in {toks[s], toks[s] + 1} /\ toks[s] \in Nat /\ toks[s] >= PromptLen[s]
    BY DEF TokensAdded, CacheTypeOK
  <2> QED
    BY <2>1, PromptFacts
<1> QED
  BY <1>1, <1>2

\* A forward pass that works, and one that fails.
LEMMA ForwardTypes ==
    ASSUME CacheTypeOK, prompt \in SUBSET SeqIds, completion \in SUBSET SeqIds,
           NEW B \in SUBSET SeqIds, NEW n \in Nat,
           NEW c \in [seqs : SUBSET SeqIds, len : Nat, cap : Nat]
    PROVE  /\ Forward(B, c, n) =>
                /\ pipe_cache' = [seqs |-> c.seqs, len |-> c.len + n, cap |-> CapWith(c, n)]
                /\ pipe_cache' \in [seqs : SUBSET SeqIds, len : Nat, cap : Nat]
                /\ seq_cache' \in [SeqIds -> [len : Nat, cap : Nat]]
                /\ \A s \in B : seq_cache'[s] = [len |-> c.len + n, cap |-> CapWith(c, n)]
                /\ \A s \in SeqIds \ B : seq_cache'[s] = seq_cache[s]
           /\ ForwardFails(B, c, n) => CacheTypeOK'
<1>1. ASSUME Forward(B, c, n)
      PROVE  /\ pipe_cache' = [seqs |-> c.seqs, len |-> c.len + n, cap |-> CapWith(c, n)]
             /\ pipe_cache' \in [seqs : SUBSET SeqIds, len : Nat, cap : Nat]
             /\ seq_cache' \in [SeqIds -> [len : Nat, cap : Nat]]
             /\ \A s \in B : seq_cache'[s] = [len |-> c.len + n, cap |-> CapWith(c, n)]
             /\ \A s \in SeqIds \ B : seq_cache'[s] = seq_cache[s]
  <2>1. /\ pipe_cache' = [seqs |-> c.seqs, len |-> c.len + n, cap |-> CapWith(c, n)]
        /\ pipe_cache' \in [seqs : SUBSET SeqIds, len : Nat, cap : Nat]
    BY <1>1, CacheTypes DEF Forward
  <2>2. c.len + n \in Nat /\ CapWith(c, n) \in Nat
    BY RoomType
  <2>3. seq_cache' = [s \in SeqIds |-> IF s \in B THEN [len |-> c.len + n, cap |-> CapWith(c, n)]
                                       ELSE seq_cache[s]]
    BY <1>1, <2>1 DEF Forward
  <2> QED
    BY <2>1, <2>2, <2>3 DEF CacheTypeOK
<1>2. ASSUME ForwardFails(B, c, n) PROVE CacheTypeOK'
  <2>1. \E P \in SUBSET SeqIds : toks' = TokensAdded(P)
    BY <1>2 DEF ForwardFails
  <2>2. toks' \in [SeqIds -> Nat] /\ \A s \in SeqIds : toks'[s] >= PromptLen[s]
    BY <2>1, TokensType
  <2>3. pipe_cache' \in [seqs : SUBSET SeqIds, len : Nat, cap : Nat]
    BY <1>2, CacheTypes DEF ForwardFails
  <2>4. UNCHANGED <<seq_cache, sampleErrors>>
    BY <1>2 DEF ForwardFails
  <2> QED
    BY <2>2, <2>3, <2>4 DEF CacheTypeOK
<1> QED
  BY <1>1, <1>2

\* The caches of a completion batch, when nothing has failed.
LEMMA OwnCaches ==
    ASSUME DInv, CacheInv, NothingFailed, phase = "completion"
    PROVE  /\ completion # {} /\ completion \subseteq SeqIds
           /\ \A s \in completion : Cached(s)
           /\ Uncached = {} /\ Concatenable
           /\ CachesUsed # {}
           /\ \A c \in CachesUsed, s \in completion :
                 c.seqs = completion /\ c.len = toks[s] - 1 /\ c.cap = Rounded(toks[s] - 1)
<1>1. completion # {} /\ completion \subseteq SeqIds
  BY DEF DInv, DTypeOK, Batches
<1>2. \A s \in completion : Cached(s)
  BY <1>1 DEF CacheInv, Decoded
<1>3. \A s, t \in completion : toks[s] = toks[t]
  BY DEF DInv, BatchIsUniform
<1>4. \A s \in completion : seq_cache[s].len = toks[s] - 1 /\ seq_cache[s].cap = Rounded(toks[s] - 1)
  <2> SUFFICES ASSUME NEW s \in completion
               PROVE  seq_cache[s].len = toks[s] - 1 /\ seq_cache[s].cap = Rounded(toks[s] - 1)
    OBVIOUS
  <2>1. seq_cache[s] = [len |-> toks[s] - 1, cap |-> Rounded(toks[s] - 1)]
    BY <1>2 DEF Cached
  <2> QED
    BY <2>1
<1>5. Uncached = {}
  <2>1. ASSUME NEW s \in completion PROVE seq_cache[s] # NoCache
    <3>1. toks[s] \in Nat /\ toks[s] > PromptLen[s] /\ PromptLen[s] \in Nat /\ PromptLen[s] > 0
      BY <1>1, <1>2, PromptFacts DEF CacheInv, CacheTypeOK, Cached
    <3>2. seq_cache[s].len # 0
      BY <1>4, <3>1
    <3> QED
      BY <3>2 DEF NoCache
  <2> QED
    BY <2>1 DEF Uncached
<1>6. Concatenable
  BY <1>3, <1>4 DEF Concatenable
<1>7. CASE CloneIn
  <2>1. CachesUsed = {[seqs |-> completion, len |-> seq_cache[first].len, cap |-> seq_cache[first].cap]
                        : first \in completion}
    BY <1>5, <1>7 DEF CachesUsed
  <2>2. ASSUME NEW c \in CachesUsed, NEW s \in completion
        PROVE  c.seqs = completion /\ c.len = toks[s] - 1 /\ c.cap = Rounded(toks[s] - 1)
    <3>1. PICK t \in completion : c = [seqs |-> completion, len |-> seq_cache[t].len, cap |-> seq_cache[t].cap]
      BY <2>1
    <3>2. c.seqs = completion /\ c.len = toks[t] - 1 /\ c.cap = Rounded(toks[t] - 1)
      BY <1>4, <3>1
    <3> QED
      BY <1>3, <3>2
  <2>3. CachesUsed # {}
    BY <1>1, <2>1
  <2> QED
    BY <1>1, <1>2, <1>5, <1>6, <2>2, <2>3
<1>8. CASE ~CloneIn
  <2>1. last_completion_ids = completion /\ CachesUsed = {pipe_cache}
    BY <1>8 DEF CachesUsed, CloneIn
  <2>2. /\ pipe_cache.seqs = completion
        /\ \A s \in completion : seq_cache[s] = [len |-> pipe_cache.len, cap |-> pipe_cache.cap]
    BY <1>1, <2>1 DEF CacheInv, InPlace
  <2>3. \A s \in completion : pipe_cache.len = toks[s] - 1 /\ pipe_cache.cap = Rounded(toks[s] - 1)
    BY <1>4, <2>2
  <2> QED
    BY <1>1, <1>2, <1>5, <1>6, <2>1, <2>2, <2>3
<1> QED
  BY <1>7, <1>8

\* A cache that is as long as the tokens of a batch but n of them, with the
\* rounded room, is one of all but one of the tokens there are afterwards.
LEMMA CachedAfter ==
    ASSUME CacheTypeOK, prompt \in SUBSET SeqIds, completion \in SUBSET SeqIds,
           NEW B \in SUBSET SeqIds, NEW n \in Nat, NEW m \in Nat,
           NEW c \in [seqs : SUBSET SeqIds, len : Nat, cap : Nat],
           \A s \in B : c.len + n = toks[s],
           c.cap = Rounded(m), m <= c.len + n,
           Forward(B, c, n), toks' = TokensAdded(B)
    PROVE  /\ \A s \in B : Cached(s)'
           /\ \A s \in SeqIds \ B : Cached(s) => Cached(s)'
           /\ pipe_cache'.seqs = c.seqs
           /\ \A s \in B : seq_cache'[s] = [len |-> pipe_cache'.len, cap |-> pipe_cache'.cap]
<1>1. /\ pipe_cache' = [seqs |-> c.seqs, len |-> c.len + n, cap |-> CapWith(c, n)]
      /\ \A s \in B : seq_cache'[s] = [len |-> c.len + n, cap |-> CapWith(c, n)]
      /\ \A s \in SeqIds \ B : seq_cache'[s] = seq_cache[s]
  BY ForwardTypes
<1>2. CapWith(c, n) = Rounded(c.len + n)
  BY GrownIsRounded
<1>3. ASSUME NEW s \in B PROVE Cached(s)'
  <2>1. s \in SeqIds /\ toks[s] \in Nat /\ toks'[s] = toks[s] + 1 /\ toks[s] >= PromptLen[s]
    BY DEF TokensAdded, CacheTypeOK
  <2>2. toks'[s] - 1 = toks[s] /\ toks'[s] > PromptLen[s]
    BY <2>1, PromptFacts
  <2>3. seq_cache'[s] = [len |-> toks[s], cap |-> Rounded(toks[s])]
    BY <1>1, <1>2
  <2> QED
    BY <2>2, <2>3 DEF Cached, Rounded
<1>4. ASSUME NEW s \in SeqIds \ B, Cached(s) PROVE Cached(s)'
  <2>1. toks'[s] = toks[s]
    BY DEF TokensAdded
  <2> QED
    BY <1>1, <1>4, <2>1 DEF Cached, Rounded
<1> QED
  BY <1>1, <1>3, <1>4

\* What a failure leaves stays: a sequence in state Error is not touched again.
LEMMA FailuresStay ==
    ASSUME DInv, CacheTypeOK, [Next]_vars, NothingFailed'
    PROVE  NothingFailed
<1>1. DTypeOK /\ sampleErrors \in Nat
  BY DEF DInv, CacheTypeOK
<1>2. sampleErrors = 0
  <2>1. sampleErrors' = sampleErrors \/ sampleErrors' = sampleErrors + 1
    BY DEF Next, Engine, AddSeq, SetTerminate, SchedulePass, CompletionStep, CompletionSampleError,
           CompletionFails, CloneInPanics, PromptStep, PromptSampleError, PromptFails, PreloadPanics,
           AllSampled, SamplingFails, ForwardFails, errors, vars
  <2> QED
    BY <1>1, <2>1 DEF NothingFailed
<1>3. ASSUME NEW s \in SeqIds, state[s] = "Error" PROVE state'[s] = "Error"
  <2>1. CASE SchedulePass
    <3>1. Schedule
      BY <2>1 DEF SchedulePass
    <3>2. s \notin StillRunning /\ s \notin waiting
      BY <1>3 DEF StillRunning, IsRunning, DInv, Queues, Alive
    <3>3. CASE ScheduleNothing
      BY <1>3, <3>3 DEF ScheduleNothing
    <3>4. CASE ScheduleWaiting
      BY <1>3, <3>2, <3>4 DEF ScheduleWaiting
    <3>5. CASE ScheduleRunning
      <4>1. PICK B \in ShortestBuckets(StillRunning, state) :
               state' = [t \in SeqIds |-> IF terminate /\ t \in B THEN "Canceled" ELSE state[t]]
        BY <3>5 DEF ScheduleRunning
      <4>2. B \subseteq StillRunning
        BY BucketFacts DEF ShortestBuckets
      <4> QED
        BY <1>3, <3>2, <4>1, <4>2
    <3>6. CASE ScheduleMixed
      BY <1>3, <3>6 DEF ScheduleMixed
    <3> QED
      BY <3>1, <3>3, <3>4, <3>5, <3>6 DEF Schedule
  <2>2. CASE CompletionStep \/ CompletionSampleError \/ CompletionFails
    <3>1. phase = "completion"
      BY <2>2 DEF CompletionStep, CompletionSampleError, CompletionFails, CompletionForward
    <3>2. s \notin completion /\ completion \in SUBSET SeqIds
      BY <1>1, <1>3, <3>1 DEF DInv, Batches, DTypeOK
    <3>3. CASE CompletionStep
      BY <1>1, <1>3, <3>2, <3>3, SampledStates DEF CompletionStep
    <3>4. CASE CompletionSampleError
      <4>1. PICK P \in SUBSET completion : \E t \in completion \ P : \E F \in SUBSET P :
                state' = [StatesAfter(P, F) EXCEPT ![t] = "Error"]
        BY <3>4 DEF CompletionSampleError
      <4>2. PICK t \in completion \ P, F \in SUBSET P : state' = [StatesAfter(P, F) EXCEPT ![t] = "Error"]
        BY <4>1
      <4>3. P \in SUBSET SeqIds
        BY <3>2
      <4> QED
        BY <1>1, <1>3, <3>2, <4>2, <4>3, SampledStates
    <3>5. CASE CompletionFails
      BY <1>3, <3>5 DEF CompletionFails, ForwardFails
    <3> QED
      BY <2>2, <3>3, <3>4, <3>5
  <2>3. CASE PromptStep \/ PromptSampleError \/ PromptFails
    <3>1. phase = "prompt"
      BY <2>3 DEF PromptStep, PromptSampleError, PromptFails, PromptForward
    <3>2. s \notin prompt
      BY <1>3, <3>1 DEF DInv, Batches
    <3> QED
      BY <1>3, <2>3, <3>2 DEF PromptStep, PromptSampleError, PromptFails, PromptForward, ForwardFails
  <2>4. CASE SetTerminate \/ CloneInPanics \/ PreloadPanics \/ UNCHANGED vars
    BY <1>3, <2>4 DEF SetTerminate, CloneInPanics, PreloadPanics, vars
  <2>5. ASSUME NEW n \in SeqIds, AddSeq(n) PROVE state'[s] = "Error"
    BY <1>1, <1>3, <2>5 DEF AddSeq, AddToQueue, DTypeOK
  <2> QED
    BY <2>1, <2>2, <2>3, <2>4, <2>5 DEF Next, Engine
<1> QED
  BY <1>2, <1>3 DEF NothingFailed

\* The steps that do not touch the caches.
LEMMA QuietC ==
    ASSUME DInv, DInv', CacheInv, [Next]_vars,
           UNCHANGED <<toks, sampleErrors, pipe_cache, seq_cache, last_completion_ids>>,
           NothingFailed' => \A s \in SeqIds : Decoded(s)' => Decoded(s)
    PROVE  CacheInv'
<1>1. CacheTypeOK'
  BY DEF CacheInv, CacheTypeOK
<1>2. ASSUME NothingFailed' PROVE InPlace' /\ \A s \in SeqIds : Decoded(s)' => Cached(s)'
  <2>1. NothingFailed
    BY <1>2, FailuresStay DEF CacheInv
  <2>2. InPlace /\ \A s \in SeqIds : Decoded(s) => Cached(s)
    BY <2>1 DEF CacheInv
  <2>3. InPlace'
    BY <2>2 DEF InPlace
  <2> QED
    BY <1>2, <2>2, <2>3 DEF Cached, Rounded
<1> QED
  BY <1>1, <1>2 DEF CacheInv

\* Whom schedule() puts in a batch to be decoded was prefilled.
LEMMA ScheduleC == ASSUME DInv, DInv', CacheInv, SchedulePass PROVE CacheInv'
<1>1. /\ phase = "top" /\ Schedule /\ [Next]_vars
      /\ UNCHANGED <<toks, sampleErrors, pipe_cache, seq_cache, last_completion_ids>>
  BY DEF SchedulePass, cacheVars, errors, Next, Engine, Schedule, ScheduleNothing, ScheduleWaiting,
         ScheduleRunning, ScheduleMixed
<1>2. ASSUME NothingFailed', NEW s \in SeqIds, Decoded(s)' PROVE Decoded(s)
  <2>1. ~Failed
    BY <1>1, <1>2, FailuresStay DEF CacheInv, NothingFailed, Failed
  <2>2. \A t \in running : state[t] # "RunningPrompt"
    BY <1>1, <2>1 DEF DInv, Prefilled
  <2>3. \A t \in StillRunning : t \in SeqIds /\ state[t] = "RunningCompletion"
    BY <2>2 DEF StillRunning, IsRunning, DInv, DTypeOK
  <2>4. CASE ScheduleNothing
    BY <1>2, <2>4 DEF ScheduleNothing, Decoded
  <2>5. CASE ScheduleWaiting
    BY <1>2, <2>5 DEF ScheduleWaiting, Decoded
  <2>6. CASE ScheduleRunning
    <3>1. PICK B \in ShortestBuckets(StillRunning, state) :
             /\ completion' = B
             /\ state' = [t \in SeqIds |-> IF terminate /\ t \in B THEN "Canceled" ELSE state[t]]
      BY <2>6 DEF ScheduleRunning
    <3>2. B \subseteq StillRunning
      BY BucketFacts DEF ShortestBuckets
    <3> QED
      BY <1>2, <2>3, <3>1, <3>2 DEF Decoded
  <2>7. CASE ScheduleMixed
    <3>1. PICK st, B :
             /\ st = [t \in SeqIds |-> IF t \in Fitting /\ state[t] = "Waiting"
                                       THEN "RunningPrompt" ELSE state[t]]
             /\ state' = st
             /\ completion' = {t \in B : st[t] = "RunningCompletion"}
      BY <2>7 DEF ScheduleMixed
    <3> QED
      BY <1>2, <3>1 DEF Decoded
  <2> QED
    BY <1>1, <2>4, <2>5, <2>6, <2>7 DEF Schedule
<1> QED
  BY <1>1, <1>2, QuietC

LEMMA CompletionC ==
    ASSUME DInv, DInv', CacheInv, CompletionStep \/ CompletionSampleError \/ CompletionFails
    PROVE  CacheInv'
<1>1. /\ phase = "completion" /\ [Next]_vars /\ UNCHANGED <<completion, prompt>> /\ phase' # "completion"
      /\ completion \in SUBSET SeqIds /\ prompt \in SUBSET SeqIds /\ completion # {}
      /\ CacheTypeOK
  BY DEF CompletionStep, CompletionSampleError, CompletionFails, CompletionForward, ForwardFails, queueVars,
         Next, Engine, DInv, DTypeOK, Batches, CacheInv
<1>2. CachesUsed \subseteq [seqs : SUBSET SeqIds, len : Nat, cap : Nat]
  BY <1>1, CacheTypes
<1>3. CacheTypeOK'
  <2>1. CASE CompletionFails
    BY <1>1, <1>2, <2>1, ForwardTypes DEF CompletionFails
  <2>2. CASE CompletionStep \/ CompletionSampleError
    <3>1. PICK c \in CachesUsed : Forward(completion, c, 1)
      BY <2>2 DEF CompletionStep, CompletionSampleError, CompletionForward
    <3>2. /\ pipe_cache' \in [seqs : SUBSET SeqIds, len : Nat, cap : Nat]
          /\ seq_cache' \in [SeqIds -> [len : Nat, cap : Nat]]
      BY <1>1, <1>2, <3>1, ForwardTypes
    <3>3. /\ \E P \in SUBSET SeqIds : toks' = TokensAdded(P)
          /\ sampleErrors' \in {sampleErrors, sampleErrors + 1}
      BY <1>1, <2>2 DEF CompletionStep, CompletionSampleError, AllSampled, SamplingFails, errors
    <3>4. toks' \in [SeqIds -> Nat] /\ \A s \in SeqIds : toks'[s] >= PromptLen[s]
      BY <1>1, <3>3, TokensType
    <3>5. sampleErrors' \in Nat
      BY <1>1, <3>3 DEF CacheTypeOK
    <3> QED
      BY <3>2, <3>4, <3>5 DEF CacheTypeOK
  <2> QED
    BY <2>1, <2>2
<1>4. ASSUME NothingFailed' PROVE InPlace' /\ \A s \in SeqIds : Decoded(s)' => Cached(s)'
  <2>1. NothingFailed
    BY <1>1, <1>4, FailuresStay
  <2>2. CompletionStep
    <3>1. ~CompletionSampleError
      BY <1>1, <1>4, <2>1 DEF CompletionSampleError, SamplingFails, NothingFailed
    <3>2. ~CompletionFails
      BY <1>1, <1>4 DEF CompletionFails, ForwardFails, NothingFailed
    <3> QED
      BY <3>1, <3>2
  <2>3. PICK c \in CachesUsed : Forward(completion, c, 1)
    BY <2>2 DEF CompletionStep, CompletionForward
  <2>4. /\ toks' = TokensAdded(completion) /\ last_completion_ids' = completion
        /\ \E F \in SUBSET completion : state' = StatesAfter(completion, F)
    BY <2>2 DEF CompletionStep, CompletionForward, AllSampled
  <2>5. PICK s \in completion : TRUE
    BY <1>1
  <2>6. \A t \in completion : /\ c.seqs = completion /\ c.len = toks[t] - 1 /\ c.cap = Rounded(toks[t] - 1)
                              /\ Cached(t) /\ toks[t] \in Nat /\ toks[t] > PromptLen[t]
    BY <1>1, <2>1, OwnCaches DEF Cached, CacheTypeOK
  <2>7. /\ \A t \in completion : c.len + 1 = toks[t]
        /\ toks[s] - 1 \in Nat /\ toks[s] - 1 <= c.len + 1
    BY <1>1, <2>6, PromptFacts
  <2>8. c \in [seqs : SUBSET SeqIds, len : Nat, cap : Nat] /\ 1 \in Nat
    BY <1>2
  <2>9. /\ \A t \in completion : Cached(t)'
        /\ \A t \in SeqIds \ completion : Cached(t) => Cached(t)'
        /\ pipe_cache'.seqs = completion
        /\ \A t \in completion : seq_cache'[t] = [len |-> pipe_cache'.len, cap |-> pipe_cache'.cap]
    BY <1>1, <2>3, <2>4, <2>6, <2>7, <2>8, CachedAfter
  <2>10. InPlace'
    BY <1>1, <2>4, <2>9 DEF InPlace
  <2>11. ASSUME NEW t \in SeqIds, Decoded(t)', t \notin completion PROVE Cached(t)'
    <3>1. state'[t] = "RunningCompletion"
      BY <1>1, <2>11 DEF Decoded
    <3>2. state[t] = "RunningCompletion"
      BY <1>1, <2>4, <3>1, SampledStates DEF DInv
    <3>3. Cached(t)
      BY <2>1, <3>2 DEF CacheInv, Decoded
    <3> QED
      BY <2>9, <2>11, <3>3
  <2> QED
    BY <2>9, <2>10, <2>11
<1> QED
  BY <1>3, <1>4 DEF CacheInv

LEMMA PromptC ==
    ASSUME DInv, DInv', CacheInv, PromptStep \/ PromptSampleError \/ PromptFails
    PROVE  CacheInv'
<1>1. /\ phase = "prompt" /\ [Next]_vars /\ UNCHANGED <<completion, prompt>> /\ phase' = "top"
      /\ completion \in SUBSET SeqIds /\ prompt \in SUBSET SeqIds /\ prompt # {}
      /\ CacheTypeOK
  BY DEF PromptStep, PromptSampleError, PromptFails, PromptForward, ForwardFails, queueVars,
         Next, Engine, DInv, DTypeOK, Batches, CacheInv
<1>2. \A s \in prompt : /\ Preloaded(s) \in [seqs : SUBSET SeqIds, len : Nat, cap : Nat]
                        /\ toks[s] \in Nat /\ PromptLen[s] \in Nat /\ PromptLen[s] <= toks[s]
                        /\ Preloaded(s).len = 0 /\ Preloaded(s).cap = Rounded(PromptLen[s])
  BY <1>1, CacheTypes, PromptFacts DEF CacheTypeOK, Preloaded, Preallocated
<1>3. CacheTypeOK'
  <2>1. CASE PromptFails
    BY <1>1, <1>2, <2>1, ForwardTypes DEF PromptFails
  <2>2. CASE PromptStep \/ PromptSampleError
    <3>1. PICK s \in prompt : Forward(prompt, Preloaded(s), toks[s])
      BY <2>2 DEF PromptStep, PromptSampleError, PromptForward
    <3>2. /\ pipe_cache' \in [seqs : SUBSET SeqIds, len : Nat, cap : Nat]
          /\ seq_cache' \in [SeqIds -> [len : Nat, cap : Nat]]
      BY <1>1, <1>2, <3>1, ForwardTypes
    <3>3. /\ \E P \in SUBSET SeqIds : toks' = TokensAdded(P)
          /\ sampleErrors' \in {sampleErrors, sampleErrors + 1}
      BY <1>1, <2>2 DEF PromptStep, PromptSampleError, AllSampled, SamplingFails, errors
    <3>4. toks' \in [SeqIds -> Nat] /\ \A t \in SeqIds : toks'[t] >= PromptLen[t]
      BY <1>1, <3>3, TokensType
    <3>5. sampleErrors' \in Nat
      BY <1>1, <3>3 DEF CacheTypeOK
    <3> QED
      BY <3>2, <3>4, <3>5 DEF CacheTypeOK
  <2> QED
    BY <2>1, <2>2
<1>4. ASSUME NothingFailed' PROVE InPlace' /\ \A s \in SeqIds : Decoded(s)' => Cached(s)'
  <2>1. NothingFailed
    BY <1>1, <1>4, FailuresStay
  <2>2. PromptStep
    <3>1. ~PromptSampleError
      BY <1>1, <1>4, <2>1 DEF PromptSampleError, SamplingFails, NothingFailed
    <3>2. ~PromptFails
      BY <1>1, <1>4 DEF PromptFails, ForwardFails, NothingFailed
    <3> QED
      BY <3>1, <3>2
  <2>3. PICK s \in prompt : Forward(prompt, Preloaded(s), toks[s])
    BY <2>2 DEF PromptStep, PromptForward
  <2>4. /\ toks' = TokensAdded(prompt) /\ last_completion_ids' = {}
        /\ state' = [t \in SeqIds |-> IF t \in prompt THEN "RunningCompletion" ELSE state[t]]
    BY <2>2 DEF PromptStep, PromptForward, AllSampled
  <2>5. \A t \in prompt : toks[t] = toks[s]
    BY <1>1 DEF DInv, BatchIsUniform
  <2> DEFINE c == Preloaded(s)
  <2>6. /\ c \in [seqs : SUBSET SeqIds, len : Nat, cap : Nat] /\ toks[s] \in Nat /\ PromptLen[s] \in Nat
        /\ c.cap = Rounded(PromptLen[s]) /\ c.len = 0 /\ PromptLen[s] <= toks[s]
        /\ Forward(prompt, c, toks[s])
    BY <1>2, <2>3
  <2> HIDE DEF c
  <2>7. (\A t \in prompt : c.len + toks[s] = toks[t]) /\ PromptLen[s] <= c.len + toks[s]
    BY <2>5, <2>6
  <2>8. /\ \A t \in prompt : Cached(t)'
        /\ \A t \in SeqIds \ prompt : Cached(t) => Cached(t)'
    BY <1>1, <2>4, <2>6, <2>7, CachedAfter
  <2>9. InPlace'
    BY <2>4 DEF InPlace
  <2>10. ASSUME NEW t \in SeqIds, Decoded(t)', t \notin prompt PROVE Cached(t)'
    <3>1. state[t] = "RunningCompletion"
      BY <1>1, <2>4, <2>10 DEF Decoded
    <3>2. Cached(t)
      BY <2>1, <3>1 DEF CacheInv, Decoded
    <3> QED
      BY <2>8, <2>10, <3>2
  <2> QED
    BY <2>8, <2>9, <2>10
<1> QED
  BY <1>3, <1>4 DEF CacheInv

LEMMA OtherC ==
    ASSUME DInv, DInv', CacheInv,
           \/ \E n \in SeqIds : AddSeq(n)
           \/ SetTerminate \/ CloneInPanics \/ PreloadPanics \/ UNCHANGED vars
    PROVE  CacheInv'
<1>1. /\ [Next]_vars
      /\ UNCHANGED <<toks, sampleErrors, pipe_cache, seq_cache, last_completion_ids, completion>>
      /\ phase' = "completion" => phase = "completion"
  BY DEF AddSeq, AddToQueue, SetTerminate, CloneInPanics, PreloadPanics, vars, queueVars, cacheVars, errors,
         Next, Engine
<1>2. \A s \in SeqIds : state'[s] = "RunningCompletion" => state[s] = "RunningCompletion"
  BY DEF AddSeq, AddToQueue, SetTerminate, CloneInPanics, PreloadPanics, vars, DInv, DTypeOK
<1> QED
  BY <1>1, <1>2, QuietC DEF Decoded

(* The contents of the caches, as long as nothing fails.                   *)
THEOREM InvariantC == Spec => []CacheInv
<1>1. DInv /\ DInv' /\ CacheInv /\ [Next]_vars => CacheInv'
  BY ScheduleC, CompletionC, PromptC, OtherC DEF Next, Engine
<1> QED
  BY <1>1, InitC, InvariantD, PTL DEF Spec

(* Unless a step has failed, a completion step computes on the keys and    *)
(* values of all the tokens of its batch, whether they were left in the    *)
(* pipeline or cloned in.                                                  *)
THEOREM OwnCacheIsRead == Spec => []CompletionReadsOwnCache
<1>1. DInv /\ CacheInv => CompletionReadsOwnCache
  BY OwnCaches DEF CompletionReadsOwnCache
<1> QED
  BY <1>1, InvariantC, InvariantD, PTL

(* Unless a step has failed, the caches that clone_in_cache concatenates   *)
(* have the same room.                                                     *)
THEOREM CachesAlwaysConcatenate == Spec => []CachesConcatenate
<1>1. DInv /\ CacheInv => CachesConcatenate
  BY OwnCaches DEF CachesConcatenate
<1> QED
  BY <1>1, InvariantC, InvariantD, PTL
=============================================================================
