# TLA+ models of the mistral.rs inference engine

This directory keeps the formal models of the engine in
`src/mistralrs-core/src`: the scheduling of requests, the paging of the KV
cache, and the loop that runs one step of the model after another. TLC checks
the modules on small instances; TLAPS proves the theorems of the `*Proofs`
modules for every instance.

Paths below are relative to `src/mistralrs-core/src` unless they start with
`src/`.

## 1. The system

A client (HTTP server, Python or Rust binding) sends requests over a channel.
One thread per loaded model runs `Engine::run` (`engine/mod.rs`): a loop that
drains the channel, turns each request into sequences, asks the scheduler for a
batch, runs `Pipeline::step` on it and lets the sampler put one token into every
sequence of the batch. There are two arms of the loop, one for each scheduler.
Inside a pass nothing is concurrent: what makes the system hard is that the
state of a request is spread over the sequence, the queues of the scheduler, the
block engine and the KV cache, and that a pass can stop half-way.

| Component | State | Operations | Interacts with | What is hard | What makes it correct |
|---|---|---|---|---|---|
| Block engine (`paged_attention/block_engine.rs`) | free list, `block_tables`, a reference count per block | `can_allocate`, `allocate`, `can_append_token_to_seq`, `append_token_slot_to_seq`, `free_sequence` | called by the PagedAttention scheduler; the tables are read by the inputs processor | no operation checks its precondition except by panic; the caller must | each block is in exactly one place; counts follow the tables; it is a block pool |
| PagedAttention scheduler (`paged_attention/scheduler.rs`) | queues `waiting`, `running`, `swapped_out` | `schedule`, `add_seq`, `free_finished_sequence_groups` | block engine; logical blocks of the sequences | preemption by recomputation under memory pressure, the order of preempted sequences, sequences that fail | a sequence holds blocks exactly while it is in service, a step finds a slot for every token, every request ends |
| Default scheduler (`scheduler/default_scheduler.rs`) | `waiting`, `running` | `schedule` (four cases), bucketing, `add_seq` | urgency and length of the sequences | sequences move between batch and waitlist as buckets change | nobody is lost or starved, batches are uniform |
| Engine loop (`engine/mod.rs`) | `last_completion_ids`, the id counter | drain, schedule, completion step, prompt step | both schedulers, pipeline, the global flag `TERMINATE_ALL_NEXT_STEP` stored by another thread | early `continue` on errors, a step that overwrites states | a step runs on the cache of its own batch |
| Sequences (`sequence.rs`) | state, tokens, logical blocks, urgency, cache | `add_token`, `is_done`, state changes, `len` | everything | limits that are tested by equality | tokens and blocks agree, limits hold |
| Sampling (`pipeline/sampling.rs`) | none of its own | `sample_and_add_toks`, `finish_or_add_toks_to_seq` | sequence, group, response channel | fails for one sequence in the middle of a batch | each sequence gets one token or an error |
| KV-cache manager (`pipeline/cache_manager.rs`) | cache in the pipeline, cache per sequence | `clone_in`, `clone_out`, `set_none` | engine loop, pipeline | who owns the cache that is in the pipeline | a completion step reads its own keys and values |
| Error macros (`utils/mod.rs`) | - | `handle_seq_error_stateaware_ok!`, `handle_pipeline_forward_error!` | sequences, groups, cache | partial results stay behind | a failed sequence is gone |
| Request intake (`engine/mod.rs` `add_request`) | - | validation, truncation, the `n` sequences of a request | scheduler, groups, response channel | arithmetic of truncation, a failure between two of the sequences | every request is queued, or refused and told so; a cut prompt leaves room for its answer |
| Groups and responses (`sequence.rs`, `response.rs`) | choices, streaming chunks, `n_choices` | add a choice or chunk, send when complete | sampling, error macros, client | counting over several sequences, in different batches, some of which fail | one answer, complete, when the request is over |
| Engine lifecycle (`lib.rs`) | sender, engine thread, terminate instructions | `get_sender`, reboot, drop | clients, engine | two callers find the engine dead at once; requests in the old channel | one engine per object, and requests reach it |
| Speculative decoding (`pipeline/speculative.rs`) | two caches, temporary and prefill tokens of the sequence | draft, verify, roll back | pipeline, engine loop, error macro | both caches grow by guesses and are cut back | the output is one of the target model alone |
| Distributed barrier (`src/mistralrs-quant/src/distributed/socket.rs`) | sockets, two local barriers on each node | two-level `wait` | ranks of tensor-parallel runs | late bytes, time-outs, early error returns | nobody passes before those it must wait for have come |
| Automatic device mapping (`pipeline/loaders/mod.rs`, `device_map.rs`) | layers left, memory left, the plan | place the rest, fill a device, skip it, plan again, build the mapper | loaders | four quantities that are updated apart from each other | each layer on one device, or a refusal with a reason |
| Prefix cacher (`prefix_cacher_v2.rs`) | caches of finished prompts | add, search, evict | engine | eviction, reference counts | disabled at `engine/mod.rs:91` |

Clients run concurrently with the engine thread: the handler of a chat request
(`src/mistralrs-server/src/chat_completion.rs`) sends the request, then waits for
one response or becomes a `Streamer` that polls chunks, and may be dropped at any
moment.

## 2. The modules

| Module | Models | Extends |
|---|---|---|
| `BlockPool` | what a block allocator promises: a map from blocks to owners | - |
| `BlockEngine` | `paged_attention/block_engine.rs` | - |
| `PagedScheduler` | `paged_attention/scheduler.rs` and the PagedAttention arm of `Engine::run` | `BlockEngine` |
| `DefaultScheduler` | `scheduler/default_scheduler.rs` | - |
| `DefaultEngine` | the DefaultScheduler arm of `Engine::run`, cache manager, error handling | `DefaultScheduler` |
| `EngineLifecycle` | `lib.rs`, the outer part of `Engine::run`, the client's side of a request | - |
| `RequestGroups` | `add_request`, `SequenceGroup`, `pipeline/sampling.rs`, the error macros, the chat handler | - |
| `Barrier` | what a barrier promises | - |
| `SocketBarrier` | `distributed/socket.rs` | instance of `Barrier` |
| `TargetDecoding` | decoding with the target model alone | - |
| `SpeculativeDecoding` | `pipeline/speculative.rs` | instance of `TargetDecoding` |
| `DeviceMapping` | `get_device_layers`, `into_mapper` | - |
| `MC...` | constants of the instances | the module they name |
| `BlockEngineProofs`, `DefaultEngineProofs`, `EngineLifecycleProofs`, `RequestGroupsProofs`, `SocketBarrierProofs`, `DeviceMappingProofs` | theorems | the module they name |
| `PagedSchedulerProofs` | theorems | `PagedScheduler`, `BlockEngineProofs` |
| `SpeculativeProofs` | theorems | `SpeculativeDecoding` |

### Block engine

`free_blocks` is the `Vec` of the GPU allocator (popped and pushed at its end),
`block_tables` the map of the code, with an empty table where the map has no
entry, `refcount` the field of every block. `BESpec` is the engine under a
caller that asks `can_allocate` or `can_append_token_to_seq` first and never
allocates over a table; the code relies on exactly that and panics otherwise.
The swap operations, `_preempt_by_swap` and the copy-on-write arm of
`append_token_slot_to_seq` are dead: nothing calls them, or nothing ever shares
a block.

`IsBlockPool` is the refinement of `BlockPool`; the mapping says that the owner
of a block is the sequence whose table has it, or nobody.

### PagedAttention scheduler and engine loop

One pass of the loop goes through the phases `top` (drain the channel), `admit`
and `reserve` (the two loops of `schedule()`), `step` (`Pipeline::step`) and
`free` (`free_finished_sequence_groups`). Each iteration of a loop is an action,
because the interesting states are those between them.

- `Admit` is one iteration of the admission loop with its three outcomes of
  `can_allocate`; the test `max_num_seqs == running + 1` is modelled as it is.
- `ReservePop`, `ReserveSlot`, `PreemptOldest`, `PreemptSelf` and `ReserveEnd`
  are the second loop. The code sorts by creation time, so sequences created in
  the same millisecond come in any order; the model leaves that choice open.
  The function is named after first-come-first-served, but the loop preempts the
  oldest running sequence first.
- `StepOk` gives each sequence of the batch a token; which of them stop is a
  choice, except that a canceled one and one at its limit must. The limits are
  tested by equality before the token is added, as in `is_done`.
- `StepSampleError` is the macro that turns a sampling error into state `Error`
  for one sequence and returns `Ok`: the rest of the batch gets no token.
  `StepForwardError` is `handle_pipeline_forward_error!`: the batch is in state
  `Error`, and the loop starts over without freeing anything. It may strike
  before anything was computed or after some sequences have their token.
- `SetTerminate` is the Ctrl-C thread, which may store the flag at any time.

`cached[s]` is the number of tokens whose keys and values are in the blocks of
`s`. Logical blocks are the function `LogicalBlocks` of the number of tokens.

### Default scheduler and engine loop

`Schedule` has the four cases of `schedule()` by the numbers of waiting and
running sequences. `Priority` is two raised to the code's priority, an integer.
`DefaultEngine` adds the two steps of a pass with the KV cache as a number of
tokens per sequence: `pipe_cache` is in the pipeline, `seq_cache` is what
`clone_out_cache` stored in the sequence, `last_completion_ids` is the batch
whose cache the loop believes to be in place, which lets it skip `clone_in`.

A cache is a length and a capacity, `[len, cap]`: prompts are preallocated in
multiples of `CACHE_GROW_SIZE` (`Grow`), `append` grows by the same, refuses to
pass `MaxSeqLen`, and leaves the raised capacity behind when it does. Caches are
concatenated to their capacities, which is why `CloneInPanics` and
`PreloadPanics` exist: the code unwraps the concatenation.

`CompletionReadsOwnCache` and `CachesConcatenate` are stated while nothing has
failed (`NothingFailed`): no sampling error, and no sequence in state `Error`.
The second condition is needed with four sequences. A batch of two that the
completion step is about to repeat takes the shortcut; when another batch's step
fails in between and empties the pipeline's cache, the two decode on the empty
cache, their caches have less room than those of a sequence of the same length,
and the concatenation panics.

Scope of both engine models: requests that are not streamed, one choice per
sequence, text generation, the prefix cacher off (as the code has it), prompts
that are not chunked, the KV-cache variant of the loop.

### Engine lifecycle

An engine is a pair of a `MistralRs` and the number of its thread. A client goes
through `CheckEngine` (`engine_dead`, whose read lock is released before anything
is done about it), `Reboot` (under both write locks, where it looks again),
`CloneSender`, `SendRequest`; the four are separate actions because other
clients and the engine run between them. `Close` is a panic or a break: the
receiver, what is queued, and the sequences with their response senders go; only
with `Finish` is the `JoinHandle` finished, and between the two a client finds
the engine alive and its channel closed. A `Step` is one request's end; in
`StepFails` the model or the sampler fails. What ends an engine is a response that
cannot be sent and is unwrapped, and the terminate instruction. A chunk that
cannot be sent only cancels its sequence; a complete answer that cannot be sent
fails the step; and the report of a failure (`Fails`) goes to each request of
the batch, streams too, and ends the engine at the first whose client is gone.
`failures` tells the two ways to get there apart. A client in `wait` may leave at
any moment.

### Requests and their groups

`RequestGroups` takes the sampling loop apart: each sequence of a batch is one
action, because a group's counters change between two sequences of a batch, and
the client takes responses in between. `Withhold` is a delta that is held back.
`todo` are the sequences that a loop has yet to come to, in the order of the
batch (`FirstLeft`). The error path has its three loops, the first two an action
for each sequence (`FailAddChoices`, `FailRespond`), the last one `FailEnd`.
`DoneMeansOver` speaks of the first message in a channel, the one that a client
of a chat request takes: later ones are dropped with the receiver.
`revived` are the sequences that were set `RunningCompletion` after they had
ended in their prompt step; the properties are stated for behaviours without
one, as most of them fail after it (section 4). `Mixes` are the sets of requests
that are made together, one of which is chosen at the start.

### Socket barrier

A thread is a rank on a node; node 0 is the head. The nodes have the same number
of ranks, `local_world_size`, which is chosen at the start among
`LocalWorldSizes`. Each std `Barrier` is a generation count, its leader the
thread that comes last. `go` and `ack` count the bytes on their way between the
head and a worker, so a byte that comes late, after the reader has timed out, is
found by the next read. `Fail` is `?` in the leader: it returns, and never comes
to `barrier_crossnode`. With one rank to a node that harms nobody else; with
several, the others hang there, and so do those of every node whose leader then
waits in vain (`CallsReturn` says what is left).

`Barrier` says: the k-th call that succeeds needs a k-th call by everybody the
caller waits for (`waits`, fixed for a behaviour). `WaitsFor` is what the code
gives: ranks of the head wait for all, ranks of a worker for the head and their
own node. It is weaker than "all or nobody": a worker may leave before another
has come, by one call (`SkewBounded`).

### Speculative decoding

A cache is the sequence of tokens whose keys and values are in it; the draft
model guesses any token, the target model samples from `Likely`, an arbitrary
relation of a context, what the sampler sees, and a token. All samples of a
verification are drawn with the tokens that the sequence had before it
(penalties, logits processors, grammar), so that the sampler is late by up to
`gamma - 1` tokens, the `Lag` that `TargetDecoding` allows. `Context(k)` is what
is in the target's cache up to the k-th of the last `gamma` positions, so that a
misaligned cache shows as a sample from a wrong context, which `TargetDecoding`
does not allow.

Any step may fail. The error path empties both caches and leaves
`last_completion_ids`; if that names another sequence, its next completion step
starts from empty caches. The history variable `misled` has such a sequence, until
it is prefilled anew; of it nothing is promised, and without a failure there is none.
A completion step that fails also skips the prompt step of its pass
(`SkippedPrompts`). A sequence that was skipped is prefilled later if another one
waits then, and decoded without a cache otherwise, which ends the thread
(`CloneInPanics`). A sequence that was waitlisted while it was decoded may be
prefilled once more (`BeginPrompt`).

### Device mapping

Sizes of a model and free memory are inputs. A pass of the outer loop is
`PlaceRest`, or `StartFill`, a `PopLayer` for each layer that goes to the device,
and `FillDevice` or `SkipDevice`; then comes `Refuse`, `MapAgain` (the recursion
without PagedAttention, with the layer sizes that are left) or the mapper:
`StartMapper`, an `Extend` for each entry of the plan, `IntoMapper`.
`RefusalIsJustified` says that a model with layers of one size is not refused,
with layers left over, while one of the devices has room for another of them.
`Held` is what a device must hold besides layers: the parts that are not mapped
are charged to the first device; where the CPU is the only one, it is listed
twice, and as it never raises the ordinal they are charged to both listings.

## 3. What the runs check

| Run | Checks | Shows | States |
|---|---|---|---|
| `paged` | `TypeOK` `BlocksConserved` `RefcountMatchesTables` `BlocksFollowService` `SlotsCoverStep` `SurplusNeedsAnError` `CompletionHasCache` `BatchIsUniform` `PreemptedFirst` `LengthIsBounded`, `MakesLegalCalls` `IsBlockPool` | no order of admission, preemption, failure and cancellation breaks the bookkeeping of blocks or jumps over a limit | 520 000 |
| `paged_live` | `RunningBelowMax`, `EveryRequestEnds` | three requests that need more blocks and places than there are all end | |
| `default` | `CompletionReadsOwnCache` `BatchIsUniform`, `EveryRequestEnds` | bucketing starves nobody, batches are uniform, and the cache shortcut is right as long as no step fails | 470 000 |
| `default_errors` | `NoSequenceLost` `CachesConcatenate` `NoForeignCache` `LeftoverPromptNeedsAFailure` | failing steps and full caches lose nobody; nobody decodes on the cache of another | 97 000 |
| `lifecycle` | `OneEngine` `SenderReachesEngine` `LossNeedsAGoneClient`, `EveryWaitEnds` | a dead engine is replaced once, and answers are lost only when somebody left early, who asked for one or whom a failure was reported to | 106 000 |
| `groups` | `TruncatedFits` `NChoicesCountsTheRest` `DoneMeansOver` `AnsweredWhenOver` `StreamFlows` `DeathNeedsACause`, `SingleStreamEnds` | choices are counted right through failures; a request is answered once it is over, and not before | 976 000 |
| `barrier` | `SkewBounded`, `ImplementsBarrier` `CallsReturn` | the socket barrier is a barrier, whatever is late or dies | 378 000 |
| `speculative` | `CachesAligned`, `ImplementsTargetDecoding` | speculation adds the lag of its sampler and changes nothing else, but for a sequence that a failed step misled | 4 800 000 |
| `devices` | `MapperCoversModel` `RefusalIsJustified`, `MappingEnds` | every accepted plan covers the model, every refusal has a reason | 60 000 |

`BlocksConserved` and `IsBlockPool` say that no block is lost or shared;
`BlocksFollowService` ties the tables to the queues; `SlotsCoverStep` rules out
the panics "Block table is too small" of `pipeline/inputs_processor.rs`;
`CompletionHasCache` says that a preempted sequence is prefilled before it is
decoded; `PreemptedFirst` is about the order after preemption; `RunningBelowMax`
says that the equality test against the maximum is never jumped over.

`SurplusNeedsAnError` is worth a remark. `append_token_slot_to_seq` pushes a
block whenever the last logical block is empty. If the step that follows fails,
no token fills it, and the next pass pushes another one: a table can be longer
than the logical blocks by one block for each failed step, and by no more.

Some invariants are stated up to a failure, because the code breaks them after
one (section 4): `CompletionHasCache` after a failed forward pass,
`PreemptedFirst` (a failed sequence can be preempted without a token to show),
`CachesConcatenate` and `CompletionReadsOwnCache` (`NothingFailed`; the run
`default` has no failures at all, `default_errors` those that come later).
`NoForeignCache` is what remains of the last one: after a failure the shortcut
may find an emptied cache, and never that of another sequence.

`LossNeedsAGoneClient` and `DeathNeedsACause` say how little it takes to end an
engine: one client that goes away before its answer comes, or, if it asked for a
stream, before a step fails whose report it should get. `DeathNeedsACause` adds
a failed sequence of a request with several choices, whose client has its answer
before the others are through; `LossNeedsAGoneClient`, where a request is one
client, leaves the terminate instruction out. They do not speak of the panics that
other modules report: caches that do not concatenate, two requests under
speculation.

### Bounds

- `paged`: three sequences with prompts of 1, 2 and 3 tokens, blocks of two
  tokens, four blocks. The prompts alone take five logical blocks and the answers
  up to twice as many, so preemption, self-preemption and re-admission happen;
  the second and third have the same creation time, so ties happen; a prompt that
  fills its last block happens. Up to four tokens are generated, which crosses a
  block boundary from each of the prompts. One sampling error and one forward error
  (`MaxSampleErrors`, `MaxForwardErrors`) in either order. Blocks are symmetric.
- `paged_live`: three prompts of one token, three blocks and a maximum of three,
  of which two can run: the prompts would fit all at once, so that it is the
  maximum that keeps one out, and two sequences that grow preempt each other. No
  symmetry (it is not sound for liveness), no forward errors (a sequence in state
  `Error` is decoded again, section 4).
- `default`: four sequences, two different lengths, two adapter sets, one
  sequence with images, and a batch maximum below the number of sequences, so
  that all four cases of `schedule()`, ties between buckets and waitlisting
  occur. No step fails, and each cache has room.
- `default_errors`: three sequences with prompts of 2, 3 and 3 tokens, so that
  they can meet at one length with caches that grew from different prompts, one
  error of each kind, and a maximum of 4 tokens, so that a batch also fails
  because its cache cannot grow.
- `default_prefill`: prompts of 1, 3 and 3 tokens, no errors: the shorter one
  reaches the length of the others while it decodes.
- `lifecycle`: one object, three clients (one streams, one sends an invalid
  request) with two requests each, a channel of capacity one, so that senders
  wait, three engine threads, so that a rebooted engine dies again, and two steps
  that fail.
- `groups`: a request of two choices whose prompt is longer than the model's
  maximum (cut or refused, by `truncate_sequence`), which meets a stream of one
  choice, and by itself a stream of two, whose chunks come from different batches
  (`Mixes`: all three together would be too many states); one failure of each kind
  and one withheld delta.
- `barrier`: a head and two workers, so that the loops over connections have an
  order, with one rank each and with two, and one crash. With two a node has a
  rank that is not the leader and hangs when the leader gives up, so that two calls
  are enough. With one the node goes on after a time-out: with three calls it reads
  a byte of an exchange that was given up, and a rank can be two calls ahead of
  another, the most that `SkewBounded` allows after one failure of the head. The
  deadlock check is off, since the ranks stop after their calls.
- `speculative`: two requests with prompts of one and three tokens that take turns
  and can meet at one length, three guesses, one failing step, a target model whose
  choice depends on the last token and on the position, so that a cache cut at a
  wrong place samples differently, and a sampler that looks at the number of tokens
  it sees, so that its lag shows. Steps begin up to a length of `MaxToks` = 4;
  with three guesses the longer request passes its maximum.
- `devices`: models of one, three and four layers of equal or different sizes,
  systems of a CPU and up to two GPUs with much too little, nearly enough, and
  enough memory, and a CPU alone, where a large part that is not mapped leaves
  room for one listing and not for the other; all combinations.

Most of the models stop when every request has ended, every call has returned or
the mapping is made; those configurations switch the deadlock check off. The
PagedAttention loop never sleeps, and its runs check deadlock.

### Fairness

`FairSpec` of the two engine models asks for weak fairness of `Engine`, the
disjunction of the loop's own steps: the loop has a thread of its own and never
waits for anything but, in the default arm, the next request when it has nothing
to do. In `EngineLifecycle` and `RequestGroups` every engine and every client, a
thread and tasks of a runtime, is weakly fair in the steps it takes by itself.
In `SocketBarrier` every rank that the chosen size has is, and a socket with
nothing to read times out (they are created with a time-out of 10 s). Mapping is
one sequential function. Arrivals, the terminate flag, departures, crashes and
the outcome of a step are not fair.

## 4. Where code and documentation differ

Three runs state what a comment says and find it violated.

| Run | Property | Finding |
|---|---|---|
| `paged_too_long` | `TooLongIsIgnored` | `can_allocate` compares with the free blocks before the total, so `Impossible` is unreachable and a prompt larger than the pool blocks the head of the queue for ever |
| `default_prefill` | `PrefillCachesConcatenate` | a sequence that was waitlisted while decoding is prefilled again in a bucket of longer prompts, whose preallocated caches are larger: the engine thread panics |
| `spec_failure` | `FailureIsAnswered` | a failing target model leaves the prefill tokens set, and the error path slices past their end: the engine thread panics and nobody is answered |

The following were met while modelling. The models contain each of them as the
code has it, and properties that they break are stated so as to leave them out.

Schedulers and engine loop:
- `max_num_seqs == running + 1` (`paged_attention/scheduler.rs:76`) lets one less
  than the maximum run, and nobody when it is 1.
- A sequence in state `Error` stays in `running` of the PagedAttention scheduler
  and is decoded again (`sequence.rs:454`, `paged_attention/scheduler.rs:198`); a
  second failure decrements `n_choices` once more.
- A request gets `max_len + 1` tokens: `is_done` comes before `add_token`
  (`pipeline/sampling.rs:23`), against the comment at `sequence.rs:636`.
- Only the `(0, _)` case of the default scheduler looks at the terminate flag
  (`scheduler/default_scheduler.rs:243`), and its `(_, 0)` case (`:228`) can exceed
  `Fixed(n)`.
- A sequence that ends in its prompt step is set `RunningCompletion` and runs on
  (`engine/mod.rs:290`).
- When the completion step fails, `continue 'lp` (`engine/mod.rs:190`) skips the
  prompt step of the pass; its sequences are decoded next, without a prompt step.
- A failed step empties the cache in the pipeline and leaves
  `last_completion_ids` (`engine/mod.rs:263`); the next completion step of that
  batch decodes on the empty cache, and later has caches that do not concatenate
  with those of other sequences of its length.
- After a sampling error two sequences of one length can have caches of
  different capacity, and `Tensor::cat` is unwrapped.

Lifecycle and clients:
- The terminate instruction is looked up under `self.id`, which counts the
  sequences (`engine/mod.rs:114`), and stored under the `engine_id`: an engine that
  has made sequences does not find its own, may find another's, and with its
  sender gone `recv` returns at once and the loop spins.
- `reboot_engine` is documented to look whether the sender is closed
  (`lib.rs:438`), and looks whether the thread is finished: between the two,
  requests are refused.
- A `Streamer` treats a closed channel as pending
  (`src/mistralrs-server/src/chat_completion.rs:88`): its client waits for ever
  after the engine has died.
- A withheld delta forgets that the sequence is done (`pipeline/sampling.rs:47`).
- A failed step is reported to streams with a send that is unwrapped
  (`utils/mod.rs:153`, `:72`): a streaming client that has gone, which otherwise
  only cancels its sequence, then ends the engine for everybody.

Speculative decoding:
- Two requests of one length end the engine thread (`pipeline/speculative.rs:413`).
- Accepted tokens are added after one of them has ended the sequence
  (`:616`), and limits are passed by up to `gamma - 1`.
- All samples of a verification see the sequence without the samples before them
  (`pipeline/sampling.rs:426`), so that penalties and a grammar lag.
- A step that fails makes the batch of `last_completion_ids` decode on empty caches
  (`engine/mod.rs:263`), and a prompt that was skipped at `engine/mod.rs:190` is
  decoded without a cache, which `clone_in_cache` unwraps.

Socket barrier (`src/mistralrs-quant/src/distributed/socket.rs`):
- A leader that gives up (`:66`, `:140`) leaves the other ranks of its node in
  `barrier_crossnode` for good, and when the head gives up or dies, this happens on
  every worker whose leader times out in turn.
- The X-LoRA cache of the target is cut back if the *draft* model is X-LoRA
  (`:592`).

Device mapping (`pipeline/loaders/mod.rs`):
- KV caches do not count where everything is found to fit (651-665).
- What remains to be mapped is reduced by activations and KV caches too (693),
  so the loop may stop with layers that nobody placed: the mapper puts them on
  the CPU. The size of the parts that are not mapped stays in it, so a model can
  be refused although all its layers have a place.
- The second attempt gets the layer sizes the first one left (737).
- A plan of one entry goes to the base device whatever its ordinal
  (`device_map.rs`, `into_mapper`), and if device 0 holds no layer, the parts that
  are not mapped are counted nowhere.

## 5. What is proved

`BlockEngineProofs` needs `BlocksAssumption` (finitely many blocks; nobody is
not a sequence); `PagedSchedulerProofs` also `PagedAssumption` (positive block
size, prompts of at least one token, naturals for the rest).

| Theorem | States |
|---|---|
| `TypeCorrect` | `BESpec => []BETypeOK` |
| `Conservation` | `BESpec => []BlocksConserved` |
| `NoDoubleFree` | `BESpec => []RefcountMatchesTables` |
| `Refinement` | `BESpec => IsBlockPool` |
| `PagedTypeCorrect` | `Spec => []TypeOK` |
| `ServiceHoldsBlocks` | `Spec => []BlocksFollowService` |
| `LegalCaller` | `Spec => MakesLegalCalls`, that is, `Spec => BESpec` |
| `SystemConservation`, `SystemRefinement` | the results about `BESpec`, for `Spec` |
| `SlotsAlwaysCover`, `SurplusIsPaidFor`, `CompletionsHaveCaches`, `BatchesAreUniform`, `LengthsAreBounded`, `PreemptedStaysFirst`, `ServiceStaysBelowMax` (of `PagedSchedulerProofs`) | `Spec => []` `SlotsCoverStep`, `SurplusNeedsAnError`, `CompletionHasCache`, `BatchIsUniform`, `LengthIsBounded`, `PreemptedFirst`, `RunningBelowMax` |
| `SequencesAreKept`, `BatchesAreUniform`, `PrefillComesFirst`, `CachesAreNotMixed` (of `DefaultEngineProofs`) | `Spec => []` `NoSequenceLost`, `BatchIsUniform`, `LeftoverPromptNeedsAFailure`, `NoForeignCache` |
| `OwnCacheIsRead`, `CachesAlwaysConcatenate` (of `DefaultEngineProofs`) | `Spec => []` `CompletionReadsOwnCache`, `CachesConcatenate` |
| `OneEngineAtATime`, `SenderLeadsToTheEngine`, `LossHasACause` (of `EngineLifecycleProofs`) | `Spec => []` `OneEngine`, `SenderReachesEngine`, `LossNeedsAGoneClient` |
| `TruncatedFitsAlways`, `NChoicesAlwaysCount`, `DoneAlwaysMeansOver`, `AlwaysAnsweredWhenOver`, `StreamAlwaysFlows`, `DeathAlwaysHasACause` (of `RequestGroupsProofs`) | `Spec => []` `TruncatedFits`, `NChoicesCountsTheRest`, `DoneMeansOver`, `AnsweredWhenOver`, `StreamFlows`, `DeathNeedsACause` |
| `NChoicesNeverNegative` (of `RequestGroupsProofs`) | `n_choices` stays in `0..N` until a sequence that had ended runs on |
| `TypeCorrect`, `SkewIsBounded`, `BarrierRefinement` (of `SocketBarrierProofs`) | `Spec => []TypeOK`, `Spec => []SkewBounded`, `Spec => ImplementsBarrier` |
| `CachesAreAligned`, `SpeculationIsTargetDecoding` (of `SpeculativeProofs`) | `Spec => []CachesAligned`, `Spec => ImplementsTargetDecoding` |
| `MapperAlwaysCovers`, `RefusalsAreJustified` (of `DeviceMappingProofs`) | `Spec => []` `MapperCoversModel`, `RefusalIsJustified` |

The argument for the block engine. `BEInv` is the conjunction of types,
conservation and counts; none of the three is inductive alone (without the
counts, `free_sequence` is not known to keep them in 0..1; without exclusion, a
free could make a count wrong for another sequence). Lemmas on lists turn the
operations into two kinds of step on sets: `Takes` cuts blocks off the free list
and adds them to a table, `FreeSequence` does the reverse. `TakesBlocks` and
`GivesBlocks` show that each keeps `BEInv`; `TakesIsTake` and `GivesIsRelease`
that each is a step of `BlockPool` under the refinement mapping, which is well
defined because a block has exactly one holder. That the initial free list has
no repetition is a pigeonhole argument: it is as long as there are blocks and
lists them all.

The argument for the scheduler. `PagedInv` strengthens `BlocksFollowService`:
only in the reserve phase are the queues `popped` and `reserved` in use
(`ReserveLoop`), a request not yet taken in is in no queue (`AbsentNowhere`), and
nothing is ever ignored (`NothingIgnored`). The last one matters: an ignored
sequence would be in service without blocks, and the reserve loop would call
`append_token_slot_to_seq` for it. It holds because the free list is never
longer than the pool (`FreeListBound`), so `can_allocate` never answers
`Impossible`: the finding of `paged_too_long` is what keeps the rest together.
`LegalCalls` then shows each action to be a legal call or to leave the block
engine alone, and the results about `BESpec` carry over.

The argument for tokens and slots. `TokenInv`, inductive together with
`PagedInv`, tells apart the sequences that are fed, those that the second loop has
reserved or the batch holds: they have a slot for the next token, the others one
for each token they have (`Slots`). A block that was pushed and not used is paid
for by a step that failed (`Surplus`), and a sequence that is not fed and whose
last block is full has not yet been given the next one. In a batch only the
prompts lack keys and values (`Caches`); a sequence one token above its limit has
ended and is out of the queues, or waits to be freed (`Limits`), which is what
makes a test by equality enough. `PreemptedStaysFirst` adds
(`OrderInv`) that until a step fails, whoever is in service has run or is in the
batch, so that the second loop puts nobody in front that has not run.
`ServiceStaysBelowMax`
assumes a positive maximum: with 0, the equality test is true of nobody.

The argument for the default engine's queues needs no assumption on the constants. `DInv`
adds to `NoSequenceLost` that nobody waits who has ended and that nobody in the
batch has yet to be taken in (`Queues`), so that filtering the batch loses only
what is over; that the two batches of a pass are parts of what runs, disjoint,
and that the prompts still are prompts when their turn comes (`Batches`); that
until a step fails a running prompt is in the prompt batch (`Prefilled`), which
is what the completion step between `schedule()` and the prompt step relies on;
and that the pipeline's cache is empty or that of `last_completion_ids`
(`CacheInPlace`). `BucketRuns` states once what any of the cases of `schedule()`
must provide.

The argument for its caches (`EngineAssumption`: prompts fit the model, caches
grow by at least one; `SchedulerAssumption`). `CacheInv`, inductive with `DInv`,
says that while nothing has failed a sequence that is decoded has the cache of
its tokens but the last (`Cached`), and that the pipeline has what the sequences
of `last_completion_ids` have (`InPlace`). What makes the concatenation safe is
the capacity in `Cached`, `Rounded(len)`: the length rounded up to the growth
size, or the model's maximum. The lemmas on `Rounded` show that a preallocated
prompt and a cache that has grown token by token both have it, so that sequences
that come to one length on different ways have equal caches. `FailuresStay` shows
that `NothingFailed` was true before wherever it is true after a step.

The argument for the lifecycle (`LifecycleAssumption`: each client has an
object, a channel has room for one). `LInv` says that sender and handle are of
one generation, that the threads of earlier generations are finished and later
ones have not begun (`Generations`); that is what the second look under the
write locks secures. Unless a client has left who may harm others (after a
failed step, any client), or a terminate instruction is set (`Excused`), no
thread has closed and whoever waits is in the queue or among the sequences of
its engine (`WithoutExcuse`).

The argument for the barrier. `BarrierAssumption` asks for at least one worker,
and at least one rank to a node. `SBInv` counts what every exchange was paid with:
`Roles` says that at most one rank of a node is at its sockets; `Generations`
relates the calls of each rank to the generations of the two local barriers;
`Exchanges` says that a generation of the second is a generation of the first
whose leader completed its exchange (`confirmed`); `WorkerPaid` that a worker's
exchanges and the bytes 'g' on their way to it are covered by generations of the
head's first barrier; `HeadPaid` that the head's exchanges and the
bytes 'a' on their way are covered by the worker's. The order of the head's two
loops is what makes the last two inductive. Both follow the bytes and not the
timing, so that time-outs and crashes change nothing. A rank that returns thus
has behind it a call of every rank it waits for, which is the refinement;
`SkewBounded` adds up the same inequalities twice.

The argument for speculative decoding (`SpeculativeAssumption`: prompts are not
empty, at least one guess). `SDInv` says at each point of a step what tokens and
caches are, in terms of the tokens `Base` that the sequence had when the step
began. What holds of the tokens holds of every sequence (`Drafting`, `Prefilled`,
`Verifying`, `Adding`); what holds of the caches, of one that is not misled:
`DraftCaches` (the draft's cache follows the guesses), `PrefilledCaches` (the
target's cache and the prefill tokens make up the draft's), `VerifyingCaches`, and
`AddingCaches` and `AddingSamples` (both caches are what the accepted tokens will
make of the sequence, and the target sampled each of them after those before it,
with a sampler that saw the sequence without the tokens already added). Between
steps the caches of a running sequence are its tokens but the last (`AtRest`), and
those in place for the last batch are too, or a failed step has emptied them
(`LastBatch`): they cannot be both, as a running sequence has more than one token,
so that an empty cache tells who is misled. Only a failure misleads (`Blame`).
The rest are equations between sequences: that the k-th of the target's contexts
is what the sequence will be once k - 1 samples are added is where the acceptance
rule is used.

The argument for groups (`GroupsAssumption`: naturals and positive numbers where
the code has lengths and counts, and a reserve below the model's maximum, as
`add_request` has it). `GInv` follows a request through the loops. `CountInv`
adds to the count of `n_choices` that no sequence of a batch has failed when its
turn comes, so that none fails twice. `UnansweredInv` is the heart of it: a
client that has no answer yet, and that the failure at hand does not concern,
belongs to a request of which nothing has failed, whose choices are those of the
sequences that are done, and of which one is still to come. `StreamInv`,
`NoFailureInv` and `SingleInv` say what cannot go wrong in behaviours without a
failure, without a client that left, and with one choice for each request; the
causes of death are what these leave over. A batch may be any set of sequences
of one request or several: the order of `FirstLeft` is not used beyond that
somebody is first.

The argument for device mapping (`MappingAssumption`: layers are not of size 0,
the CPU is the last of the devices, and it is listed twice where and only where
there is nothing else). `MapInv` counts layers, not bytes: as long as something
remains to be mapped, the layers placed, those on the device that is filled and
those to come are no more than the model has (`LayersLeft`); the plan has no more
than were placed (`PlanFits`) and is in the order of the devices (`PlanInOrder`);
the mapper follows the plan (`MapperFollows`). Equality would be false: the
second attempt starts from the sizes the first one left. `SumOf` is stated as a
cardinality, so that the lemmas `SumStep` and `PlanSumAppend` follow from the
theorems about finite sets. `RoomInv` adds, for layers of one size, what the
device that is filled has used (`Filling`), and that each device the loop has
passed is too full for another layer (`DevicesFull`).

Model-checked only: the liveness properties `EveryRequestEnds` (twice),
`EveryWaitEnds`, `SingleStreamEnds`, `CallsReturn` and `MappingEnds`, which need
fairness and `ENABLED`, and which the prover does not handle. Every invariant and
every other temporal property of a passing run is stated by a theorem. What a
recursive definition computes for every input is out of the prover's reach too;
no module declares one, and folds of the library are avoided where a theorem
would have to reason about them.

## 6. Not modelled

The largest part of the repository by lines is tensor code: models, vision
models, X-LoRA variants, layers, quantization kernels. It computes outputs from
inputs without a state whose order of changes could be wrong. The loaders
(`normal_loaders.rs`, `vision_loaders.rs`) are tables of tensor names and
formulas for sizes; their results are the inputs of `DeviceMapping`. Chat
templates, tools and grammars are text processing; the bindings wrap the request
channel. A model of any of them would repeat it line by line. This is why the
map covers only a small share of the lines, and nearly all of the control.

Left out of modelled parts: swapping and copy-on-write of the block engine
(never called), the prefix cacher (switched off by the engine), the full and
hybrid caches, raw logits and image generation, prompt chunking, what a grammar allows,
completion and image responses (they count as chat responses do), X-LoRA caches
under speculation, the broadcast of the NCCL id, topology and tensor-parallel
device mappers. `dummy_paged_attention/` is compiled where PagedAttention is
missing and not used.

## 7. Plan

1. Variants: the decreasing measures behind the liveness properties that are
   safety properties by themselves (a pass of the mapping loop uses up a device,
   a call of the barrier moves one of its threads on).
2. Prompt chunking, and responses other than chat.

## 8. Running

    tlc -workers 2 -config paged.cfg MCPagedScheduler.tla
    tlapm PagedSchedulerProofs.tla

Operators marked "Mutation" are faulty variants of the definition that follows
them. `PROJECT.json` pairs each with a property that must fail when the variant
takes the definition's place; no module uses them otherwise.
