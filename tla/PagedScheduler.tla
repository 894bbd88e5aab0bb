--------------------------- MODULE PagedScheduler ---------------------------
(***************************************************************************)
(* The PagedAttention scheduler and the engine loop that drives it         *)
(* (paged_attention/scheduler.rs, the PagedAttention arm of Engine::run in *)
(* engine/mod.rs, and the logical blocks of sequence.rs).                  *)
(*                                                                         *)
(* One pass of the loop goes through the phases                            *)
(*    top     drain the request channel                                    *)
(*    admit   first loop of schedule(): prompts from the waiting queue     *)
(*    reserve second loop of schedule(): block slots for what is running   *)
(*    step    Pipeline::step on the batch                                  *)
(*    free    free_finished_sequence_groups                                *)
(* and every iteration of a loop of schedule() is one action.              *)
(*                                                                         *)
(* `running` is a set: its order in the code only decides which of two     *)
(* sequences created in the same millisecond comes first, and that choice  *)
(* is left open.  `swapped_out` is always empty (see BlockEngine), so the  *)
(* swap-in loop does nothing and is left out.                              *)
(***************************************************************************)
EXTENDS BlockEngine

CONSTANTS BlockSize,      \* tokens of a block
          MaxNumSeqs,     \* max_num_seqs of the scheduler's configuration
          PromptLen,      \* prompt tokens of each sequence
          MaxLen,         \* max_len of each request's sampling parameters
          MaxSeqLen,      \* max_seq_len of the model
          Timestamp,      \* creation time of each sequence
          MaxSampleErrors,  \* bound: steps in which sampling fails
          MaxForwardErrors  \* bound: steps that fail as a whole

ASSUME PagedAssumption ==
    /\ BlockSize \in Nat \ {0}
    /\ MaxNumSeqs \in Nat
    /\ MaxSeqLen \in Nat
    /\ PromptLen \in [SeqIds -> 1..MaxSeqLen]
    /\ MaxLen \in [SeqIds -> Nat]
    /\ Timestamp \in [SeqIds -> Nat]
    /\ MaxSampleErrors \in Nat
    /\ MaxForwardErrors \in Nat

VARIABLES phase,       \* where the engine loop is
          waiting,     \* queue of sequences that hold no blocks
          running,     \* the scheduler's running sequences
          popped,      \* the sequence the reserve loop is working on, if any
          reserved,    \* the new running queue the reserve loop builds
          scheduled,   \* the batch schedule() returns
          did_ignore,  \* admission dropped a sequence in this pass
          state,       \* SequenceState of each sequence
          toks,        \* tokens of each sequence
          cached,      \* tokens whose keys and values are in its blocks
          terminate,   \* TERMINATE_ALL_NEXT_STEP
          sampleErrors, forwardErrors   \* failed steps so far

schedVars == <<waiting, running, popped, reserved, scheduled, did_ignore>>
seqVars   == <<state, toks, cached>>
errors    == <<sampleErrors, forwardErrors>>
vars == <<beVars, phase, schedVars, seqVars, terminate, errors>>

States == {"Absent", "Waiting", "RunningPrompt", "RunningCompletion",
           "Done", "Canceled", "Error", "FinishedIgnored"}

\* `is_finished_paged_attn`: Error is not among them.
FinishedStates == {"Done", "Canceled", "FinishedIgnored"}

-----------------------------------------------------------------------------
\* Mutation: a block is opened only when a token needs it.
LogicalBlocksTight(n) == (n + BlockSize - 1) \div BlockSize

(* Logical blocks.  append_token_to_blocks opens a new empty block as soon *)
(* as the last one is full, so the last block always has room.             *)
LogicalBlocks(n) == n \div BlockSize + 1

\* Mutation: the token to come is counted as already there.
BlocksToAddEarly(n) == IF (n + 1) % BlockSize = 0 THEN 1 ELSE 0

\* `blocks_to_add_new_tok`: 1 exactly when the last logical block is empty.
BlocksToAdd(n) == IF n % BlockSize = 0 THEN 1 ELSE 0

-----------------------------------------------------------------------------
Init ==
    /\ BEInit
    /\ phase = "top"
    /\ waiting = <<>>
    /\ running = {} /\ popped = {} /\ reserved = {} /\ scheduled = {}
    /\ did_ignore = FALSE
    /\ state = [s \in SeqIds |-> "Absent"]
    /\ toks = PromptLen
    /\ cached = [s \in SeqIds |-> 0]
    /\ terminate = FALSE
    /\ sampleErrors = 0 /\ forwardErrors = 0

\* `add_seq`, for a request drained from the channel at the top of the loop.
AddSeq(s) ==
    /\ phase = "top"
    /\ state[s] = "Absent"
    /\ \A t \in SeqIds : Timestamp[t] < Timestamp[s] => state[t] # "Absent"
    /\ state' = [state EXCEPT ![s] = "Waiting"]
    /\ waiting' = Append(waiting, s)
    /\ UNCHANGED <<beVars, phase, running, popped, reserved, scheduled, did_ignore,
                   toks, cached, terminate, errors>>

\* Another thread (the Ctrl-C handler of interactive mode) stores the flag.
SetTerminate ==
    /\ ~terminate
    /\ terminate' = TRUE
    /\ UNCHANGED <<beVars, phase, schedVars, seqVars, errors>>

\* Mutation: the output of the last pass is not cleared.
StartScheduleKeepsBatch ==
    /\ phase = "top"
    /\ phase' = "admit"
    /\ did_ignore' = FALSE
    /\ UNCHANGED <<beVars, waiting, running, popped, reserved, scheduled, seqVars, terminate, errors>>

\* The channel is drained: schedule() begins.
StartSchedule ==
    /\ phase = "top"
    /\ phase' = "admit"
    /\ scheduled' = {} /\ did_ignore' = FALSE
    /\ UNCHANGED <<beVars, waiting, running, popped, reserved, seqVars, terminate, errors>>

-----------------------------------------------------------------------------
\* Mutation: the maximum is compared with what runs, not with what would run.
CanAdmitOneMore ==
    /\ waiting # <<>>
    /\ MaxNumSeqs # Cardinality(running)
    /\ CanAllocate(LogicalBlocks(toks[Head(waiting)])) # "Later"

\* The admission loop goes on while there is somebody to admit, one more does
\* not reach the maximum, and the blocks are not a matter of waiting.
CanAdmit ==
    /\ waiting # <<>>
    /\ MaxNumSeqs # Cardinality(running) + 1
    /\ CanAllocate(LogicalBlocks(toks[Head(waiting)])) # "Later"

\* One iteration of the admission loop.  Once a sequence has been ignored the
\* later ones move to `running` without blocks and without being scheduled.
Admit ==
    /\ phase = "admit"
    /\ CanAdmit
    /\ LET s == Head(waiting)
           n == LogicalBlocks(toks[s])
           impossible == CanAllocate(n) = "Impossible"
       IN  /\ did_ignore' = (did_ignore \/ impossible)
           /\ waiting' = Tail(waiting)
           /\ running' = running \cup {s}
           /\ IF did_ignore'
              THEN /\ state' = [state EXCEPT ![s] = IF impossible THEN "FinishedIgnored" ELSE @]
                   /\ UNCHANGED <<beVars, scheduled>>
              ELSE /\ state' = [state EXCEPT ![s] = "RunningPrompt"]
                   /\ Allocate(s, n)
                   /\ scheduled' = scheduled \cup {s}
    /\ UNCHANGED <<phase, popped, reserved, toks, cached, terminate, errors>>

\* Mutation: no early return, the prompts go on to the reserve loop.
AdmitEndFallsThrough ==
    /\ phase = "admit"
    /\ ~CanAdmit
    /\ phase' = IF did_ignore THEN "free" ELSE "reserve"
    /\ UNCHANGED <<beVars, schedVars, seqVars, terminate, errors>>

\* With prompts scheduled (or sequences ignored) schedule() returns early.
AdmitEnd ==
    /\ phase = "admit"
    /\ ~CanAdmit
    /\ phase' = IF scheduled # {} THEN "step"
                ELSE IF did_ignore THEN "free" ELSE "reserve"
    /\ UNCHANGED <<beVars, schedVars, seqVars, terminate, errors>>

-----------------------------------------------------------------------------
\* sort_running_by_priority_fcfs puts the newest in front, the oldest at the back.
Newest(s) == \A t \in running : Timestamp[t] <= Timestamp[s]
Oldest(s) == \A t \in running : Timestamp[s] <= Timestamp[t]

\* `pop_front` of the sorted queue.
ReservePop ==
    /\ phase = "reserve" /\ popped = {}
    /\ \E s \in running : /\ Newest(s)
                          /\ popped' = {s}
                          /\ running' = running \ {s}
    /\ UNCHANGED <<beVars, phase, waiting, reserved, scheduled, did_ignore, seqVars,
                   terminate, errors>>

\* There is room for the next token: take the slot, keep the sequence running.
ReserveSlot ==
    /\ phase = "reserve"
    /\ \E s \in popped : /\ CanAppend(BlocksToAdd(toks[s]))
                         /\ AppendTokenSlot(s, BlocksToAdd(toks[s]))
                         /\ reserved' = reserved \cup {s}
    /\ popped' = {}
    /\ UNCHANGED <<phase, waiting, running, scheduled, did_ignore, seqVars, terminate, errors>>

\* Mutation: a preempted sequence keeps its blocks.
PreemptKeepsBlocks(v) ==
    /\ state' = [state EXCEPT ![v] = "Waiting"]
    /\ cached' = [cached EXCEPT ![v] = 0]
    /\ waiting' = <<v>> \o waiting
    /\ UNCHANGED beVars

\* Mutation: a preempted sequence joins the end of the queue.
PreemptToBack(v) ==
    /\ state' = [state EXCEPT ![v] = "Waiting"]
    /\ cached' = [cached EXCEPT ![v] = 0]
    /\ FreeSequence(v)
    /\ waiting' = Append(waiting, v)

\* `_preempt_by_recompute`: the blocks go, the tokens stay, the sequence is
\* first in the waiting queue.
Preempt(v) ==
    /\ state' = [state EXCEPT ![v] = "Waiting"]
    /\ cached' = [cached EXCEPT ![v] = 0]
    /\ FreeSequence(v)
    /\ waiting' = <<v>> \o waiting

\* No room: the oldest running sequence is preempted, and the test is repeated.
PreemptOldest ==
    /\ phase = "reserve"
    /\ \E s \in popped : ~CanAppend(BlocksToAdd(toks[s]))
    /\ \E v \in running : Oldest(v) /\ Preempt(v) /\ running' = running \ {v}
    /\ UNCHANGED <<phase, popped, reserved, scheduled, did_ignore, toks, terminate, errors>>

\* No room and nothing left to preempt: the sequence preempts itself.
PreemptSelf ==
    /\ phase = "reserve" /\ running = {}
    /\ \E s \in popped : ~CanAppend(BlocksToAdd(toks[s])) /\ Preempt(s)
    /\ popped' = {}
    /\ UNCHANGED <<phase, running, reserved, scheduled, did_ignore, toks, terminate, errors>>

\* End of schedule(): everything that kept its place runs a completion step,
\* errored sequences included; a raised terminate flag cancels it all.
ReserveEnd ==
    /\ phase = "reserve" /\ popped = {} /\ running = {}
    /\ running' = reserved /\ scheduled' = reserved /\ reserved' = {}
    /\ state' = [s \in SeqIds |-> IF s \notin reserved THEN state[s]
                                  ELSE IF terminate THEN "Canceled"
                                  ELSE "RunningCompletion"]
    /\ terminate' = FALSE
    /\ phase' = IF reserved = {} THEN "free" ELSE "step"
    /\ UNCHANGED <<beVars, waiting, popped, did_ignore, toks, cached, errors>>

-----------------------------------------------------------------------------
\* Engine::run: the batch is a prompt batch when its first sequence is a prompt.
IsPrompt == \E s \in scheduled : state[s] = "RunningPrompt"

\* The forward pass writes keys and values: a prompt step those of every token,
\* a completion step those of the last one only.
Forwarded == [s \in SeqIds |->
                 IF s \in scheduled /\ (IsPrompt \/ cached[s] >= toks[s] - 1)
                 THEN toks[s] ELSE cached[s]]

\* Mutation: the prompt counts.
MustStopTotal(s) == state[s] = "Canceled" \/ toks[s] \in {MaxLen[s], MaxSeqLen}

\* finish_or_add_toks_to_seq for the sequences P: each gets a token, and those
\* of F stop (end of sequence, stop string, ...).  A canceled sequence always
\* stops, and so does one that has exactly as many tokens as a limit says when
\* `is_done` is asked, which is before `add_token`.
MustStop(s) == \/ state[s] = "Canceled"
               \/ toks[s] - PromptLen[s] \in {MaxLen[s], MaxSeqLen}

TokensAdded(P) == [s \in SeqIds |-> IF s \in P THEN toks[s] + 1 ELSE toks[s]]

StatesAfter(P, F) ==
    [s \in SeqIds |-> IF s \in P /\ (s \in F \/ MustStop(s))
                      THEN IF state[s] = "Canceled" THEN "Canceled" ELSE "Done"
                      ELSE state[s]]

stepRest == <<beVars, schedVars, terminate>>

StepOk ==
    /\ phase = "step"
    /\ phase' = "free"
    /\ cached' = Forwarded
    /\ toks' = TokensAdded(scheduled)
    /\ \E F \in SUBSET scheduled : state' = StatesAfter(scheduled, F)
    /\ UNCHANGED <<stepRest, errors>>

\* sample_and_add_toks: sampling fails for s.  It is put in state Error and the
\* function returns Ok: the sequences after it in the batch get no token.
StepSampleError ==
    /\ phase = "step"
    /\ sampleErrors < MaxSampleErrors
    /\ sampleErrors' = sampleErrors + 1
    /\ phase' = "free"
    /\ cached' = Forwarded
    /\ \E s \in scheduled : \E P \in SUBSET (scheduled \ {s}) : \E F \in SUBSET P :
          /\ toks' = TokensAdded(P)
          /\ state' = [StatesAfter(P, F) EXCEPT ![s] = "Error"]
    /\ UNCHANGED <<stepRest, forwardErrors>>

\* The step fails, before the forward pass is complete or while the results are
\* handed out: handle_pipeline_forward_error puts the whole batch in state Error
\* and continues with the next pass, without freeing anything.
StepForwardError ==
    /\ phase = "step"
    /\ forwardErrors < MaxForwardErrors
    /\ forwardErrors' = forwardErrors + 1
    /\ phase' = "top"
    /\ \/ UNCHANGED <<cached, toks>>
       \/ /\ cached' = Forwarded
          /\ \E P \in SUBSET scheduled : toks' = TokensAdded(P)
    /\ state' = [s \in SeqIds |-> IF s \in scheduled THEN "Error" ELSE state[s]]
    /\ UNCHANGED <<stepRest, sampleErrors>>

-----------------------------------------------------------------------------
Finished == {s \in running : state[s] \in FinishedStates}

\* Mutation: finished sequences leave the queue with their blocks.
FreeFinishedKeepsBlocks ==
    /\ phase = "free"
    /\ \E s \in Finished : running' = running \ {s}
    /\ UNCHANGED <<beVars, phase, waiting, popped, reserved, scheduled, did_ignore, seqVars,
                   terminate, errors>>

\* free_finished_sequence_groups, one sequence at a time.
FreeFinished ==
    /\ phase = "free"
    /\ \E s \in Finished : FreeSequence(s) /\ running' = running \ {s}
    /\ UNCHANGED <<phase, waiting, popped, reserved, scheduled, did_ignore, seqVars,
                   terminate, errors>>

FreeEnd ==
    /\ phase = "free"
    /\ Finished = {}
    /\ phase' = "top"
    /\ UNCHANGED <<beVars, schedVars, seqVars, terminate, errors>>

-----------------------------------------------------------------------------
Schedule == \/ StartSchedule \/ Admit \/ AdmitEnd
            \/ ReservePop \/ ReserveSlot \/ PreemptOldest \/ PreemptSelf \/ ReserveEnd

Step == StepOk \/ StepSampleError \/ StepForwardError

Engine == Schedule \/ Step \/ FreeFinished \/ FreeEnd

Next == (\E s \in SeqIds : AddSeq(s)) \/ SetTerminate \/ Engine

Spec == Init /\ [][Next]_vars

\* The engine loop never sleeps in this arm of Engine::run: it has a thread of
\* its own and always takes its next step.
FairSpec == Spec /\ WF_vars(Engine)

-----------------------------------------------------------------------------
(* The types of the queues, of the batch and of the counts of tokens.      *)
TypeOK ==
    /\ BETypeOK
    /\ phase \in {"top", "admit", "reserve", "step", "free"}
    /\ waiting \in Seq(SeqIds)
    /\ running \in SUBSET SeqIds /\ popped \in SUBSET SeqIds
    /\ reserved \in SUBSET SeqIds /\ scheduled \in SUBSET SeqIds
    /\ did_ignore \in BOOLEAN
    /\ state \in [SeqIds -> States]
    /\ toks \in [SeqIds -> Nat \ {0}]
    /\ cached \in [SeqIds -> Nat]
    /\ terminate \in BOOLEAN
    /\ sampleErrors \in Nat /\ forwardErrors \in Nat

\* The sequences schedule() counts as running, wherever it is in its loops.
InService == running \cup popped \cup reserved

Queued == Items(waiting)

(* A sequence is in at most one queue, once, and holds blocks exactly      *)
(* while it is in service: a waiting one has given everything back, so     *)
(* `allocate` never drops a live table, and one that has ended never keeps *)
(* any (_preempt_by_recompute, free_finished_sequence_groups).             *)
BlocksFollowService ==
    /\ NoRepeats(waiting)
    /\ Queued \cap InService = {}
    /\ running \cap reserved = {} /\ popped \cap (running \cup reserved) = {}
    /\ \A s \in SeqIds :
          block_tables[s] # <<>> <=> s \in InService /\ state[s] # "FinishedIgnored"

(* Every step finds a slot for each token it writes: the panics "Block     *)
(* table is too small" of inputs_processor.rs cannot be reached.           *)
SlotsCoverStep ==
    phase = "step" =>
        \A s \in scheduled : toks[s] <= BlockSize * Len(block_tables[s])

(* "Physical blocks = logical blocks": a table is never longer than the    *)
(* logical blocks, but for one block per step in which sampling failed or  *)
(* the forward pass did (append_token_slot_to_seq pushes a block whenever  *)
(* the last logical one is empty, also when the previous step added none). *)
SurplusNeedsAnError ==
    \A s \in InService :
        Len(block_tables[s]) <= LogicalBlocks(toks[s]) + sampleErrors + forwardErrors

(* A completion step computes one token on top of keys and values that are *)
(* all in the sequence's blocks: after a preemption the sequence goes      *)
(* through a prompt step again before it is decoded.  (Not so after a      *)
(* failed forward pass, whose sequences stay running.)                     *)
CompletionHasCache ==
    phase = "step" /\ forwardErrors = 0 =>
        \A s \in scheduled : ~IsPrompt => cached[s] >= toks[s] - 1

(* "Either ALL prompt or ALL completion": the engine looks at the first    *)
(* sequence of the batch only.                                             *)
BatchIsUniform ==
    phase = "step" => \A s \in scheduled : IsPrompt => state[s] = "RunningPrompt"

(* Work already done is not overtaken: a preempted sequence that has       *)
(* generated tokens is ahead of every sequence that never ran (as long as  *)
(* no step failed, a sequence that ran has a token to show for it).        *)
PreemptedFirst ==
    sampleErrors + forwardErrors = 0 =>
        \A i, j \in DOMAIN waiting :
            /\ toks[waiting[i]] > PromptLen[waiting[i]]
            /\ toks[waiting[j]] = PromptLen[waiting[j]]
            => i < j

(* The configured maximum is never exceeded, not even between the loops of *)
(* schedule() when a preempted sequence and its successor change places:   *)
(* the `==` of the admission test is never jumped over.                    *)
RunningBelowMax == Cardinality(InService) < MaxNumSeqs

(* The scheduler is a correct caller of the block engine: it allocates     *)
(* only for a sequence without a table and only when can_allocate said Ok, *)
(* appends only to a table and only when can_append_token_to_seq said so   *)
(* (no pop of an empty free list), and frees no block twice.               *)
MakesLegalCalls == BESpec

(* The limits on length are equalities, asked once per token: preemption,  *)
(* recomputation and failed sampling never carry a sequence past them, so  *)
(* that none generates more than its limit and the token that `is_done`    *)
(* does not see yet.  (A failed forward pass may: it keeps a token and     *)
(* forgets that the sequence was done.)                                    *)
LengthIsBounded ==
    forwardErrors = 0 =>
        \A s \in SeqIds : \A limit \in {MaxLen[s], MaxSeqLen} : toks[s] <= PromptLen[s] + limit + 1

(* Every request that is taken in is answered in the end.                  *)
EveryRequestEnds ==
    \A s \in SeqIds : state[s] = "Waiting" ~> state[s] \in FinishedStates

(* A sequence whose prompt "is too long and exceeds capacity of block      *)
(* engine ... will be ignored", so that those behind it can go on.         *)
TooLongIsIgnored ==
    \A s \in SeqIds :
        state[s] = "Waiting" /\ LogicalBlocks(toks[s]) > Cardinality(Blocks)
            ~> state[s] = "FinishedIgnored"
=============================================================================
