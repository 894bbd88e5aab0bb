-------------------------- MODULE DefaultScheduler --------------------------
(***************************************************************************)
(* The scheduler used without PagedAttention                               *)
(* (mistralrs-core/src/scheduler/default_scheduler.rs).  Each pass puts    *)
(* the sequences of one bucket, all of the same length, in the batch, and  *)
(* waitlists the others.                                                   *)
(*                                                                         *)
(* `waiting` and `running` are sets: the code sorts the waiting sequences  *)
(* by id before it takes any of them, and the order within `running` is    *)
(* only the order of the batch.  Ties between buckets follow the order of  *)
(* a HashMap, so any of them may be chosen.                                *)
(***************************************************************************)
EXTENDS Integers, FiniteSets, FiniteSetsExt

CONSTANTS SeqIds,     \* sequence ids, given in order of arrival
          MaxSeqs,    \* the n of DefaultSchedulerMethod::Fixed(n)
          Adapters,   \* adapter set of each sequence
          HasImages   \* whether each sequence came with images

ASSUME SchedulerAssumption ==
    /\ SeqIds \subseteq Nat /\ IsFiniteSet(SeqIds)
    /\ MaxSeqs \in Nat \ {0}
    /\ DOMAIN Adapters = SeqIds
    /\ HasImages \in [SeqIds -> BOOLEAN]

VARIABLES waiting,     \* waiting and waitlisted sequences
          running,     \* the batch of the last pass
          completion,  \* output of schedule(): sequences to decode
          prompt,      \* output of schedule(): sequences to prefill
          state,       \* SequenceState of each sequence
          toks,        \* number of tokens of each sequence
          urgency,     \* scheduling_urgency of each sequence
          terminate    \* TERMINATE_ALL_NEXT_STEP

queueVars == <<waiting, running, completion, prompt, urgency>>

IsRunning(s) == state[s] \in {"RunningPrompt", "RunningCompletion"}

\* "Filter out all done sequences."
StillRunning == {s \in running : IsRunning(s)}

-----------------------------------------------------------------------------
(* Buckets.  st is the state function at the time of bucketing.            *)

\* Mutation: sequences of different lengths share a bucket.
BucketKeyNoLength(s, st) == <<Adapters[s], HasImages[s] /\ st[s] = "RunningPrompt">>

BucketKey(s, st) == <<Adapters[s], toks[s], HasImages[s] /\ st[s] = "RunningPrompt">>

Buckets(R, st) == {{t \in R : BucketKey(t, st) = BucketKey(s, st)} : s \in R}

\* All sequences of a bucket have this length.
BucketLen(B) == toks[CHOOSE s \in B : TRUE]

\* discrete: a bucket of minimal length.
ShortestBuckets(R, st) ==
    {B \in Buckets(R, st) : \A C \in Buckets(R, st) : BucketLen(B) <= BucketLen(C)}

\* compute_priority is urgency + log2(length); the priority of a bucket is the
\* sum over its members.  Two raised to it is an integer.
Priority(B) == 2 ^ MapThenSumSet(LAMBDA s : urgency[s], B) * BucketLen(B) ^ Cardinality(B)

\* not discrete: a bucket of maximal priority.
UrgentBuckets(R, st) ==
    {B \in Buckets(R, st) : \A C \in Buckets(R, st) : Priority(C) <= Priority(B)}

\* Mutation: the waitlist is not extended.
RunBucketDropsRest(B, R, W) ==
    /\ running' = B
    /\ waiting' = W
    /\ urgency' = [s \in SeqIds |-> IF s \in B THEN 0
                                    ELSE IF s \in R THEN urgency[s] + 1
                                    ELSE urgency[s]]

\* bucket_and_waitlist_seqs_waiting: B runs, the rest of R joins the waitlist W.
RunBucket(B, R, W) ==
    /\ running' = B
    /\ waiting' = W \cup (R \ B)
    /\ urgency' = [s \in SeqIds |-> IF s \in B THEN 0
                                    ELSE IF s \in R THEN urgency[s] + 1
                                    ELSE urgency[s]]

-----------------------------------------------------------------------------
(* schedule(), by the number of waiting and running sequences.             *)

\* (0, 0)
ScheduleNothing ==
    /\ waiting = {} /\ StillRunning = {}
    /\ running' = {} /\ completion' = {} /\ prompt' = {}
    /\ UNCHANGED <<waiting, state, toks, urgency, terminate>>

\* (_, 0): everything that waits becomes a prompt, whatever it was before.
ScheduleWaiting ==
    /\ waiting # {} /\ StillRunning = {}
    /\ state' = [s \in SeqIds |-> IF s \in waiting THEN "RunningPrompt" ELSE state[s]]
    /\ \E B \in ShortestBuckets(waiting, state') :
          RunBucket(B, waiting, {}) /\ prompt' = B
    /\ completion' = {}
    /\ UNCHANGED <<toks, terminate>>

\* (0, _): everything that runs is decoded; the only case that looks at the flag.
ScheduleRunning ==
    /\ waiting = {} /\ StillRunning # {}
    /\ \E B \in ShortestBuckets(StillRunning, state) :
          /\ RunBucket(B, StillRunning, {})
          /\ completion' = B
          /\ state' = [s \in SeqIds |-> IF terminate /\ s \in B THEN "Canceled" ELSE state[s]]
    /\ prompt' = {}
    /\ terminate' = FALSE
    /\ UNCHANGED toks

\* Mixed: `sequence_fits` lets in the waiting sequences with the lowest ids.
Fitting ==
    {s \in waiting : Cardinality({t \in waiting : t < s}) + Cardinality(StillRunning) < MaxSeqs}

ScheduleMixed ==
    /\ waiting # {} /\ StillRunning # {}
    /\ LET R  == StillRunning \cup Fitting
           st == [s \in SeqIds |-> IF s \in Fitting /\ state[s] = "Waiting"
                                   THEN "RunningPrompt" ELSE state[s]]
       IN  /\ state' = st
           /\ \E B \in UrgentBuckets(R, st) :
                 /\ RunBucket(B, R, waiting \ Fitting)
                 /\ completion' = {s \in B : st[s] = "RunningCompletion"}
                 /\ prompt' = {s \in B : st[s] # "RunningCompletion"}
    /\ UNCHANGED <<toks, terminate>>

Schedule == ScheduleNothing \/ ScheduleWaiting \/ ScheduleRunning \/ ScheduleMixed

\* `add_seq` (the prefix cacher is disabled, so a new sequence never runs yet).
AddToQueue(s) ==
    /\ waiting' = waiting \cup {s}
    /\ state' = [state EXCEPT ![s] = "Waiting"]
=============================================================================
