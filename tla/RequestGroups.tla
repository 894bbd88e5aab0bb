---------------------------- MODULE RequestGroups ----------------------------
(***************************************************************************)
(* A request with several choices, from its intake to its last response    *)
(* (add_request in engine/mod.rs, SequenceGroup in sequence.rs,            *)
(* pipeline/sampling.rs, the error macros of utils/mod.rs, and the chat    *)
(* handler and Streamer of mistralrs-server/src/chat_completion.rs).       *)
(*                                                                         *)
(* Request r becomes N[r] sequences <<r, k>> that share a group.  The      *)
(* scheduler is the DefaultScheduler, reduced to what matters to a group:  *)
(* which running sequences make up the next batch, and that a prompt step  *)
(* puts its whole batch into RunningCompletion.  The responses of a        *)
(* request go through a channel to its client, which runs concurrently.    *)
(***************************************************************************)
EXTENDS Integers, FiniteSets, Sequences, Functions

CONSTANTS Requests,         \* in order of arrival: 1, 2, ...
          N,                \* n_choices of each request
          Streaming,        \* requests with is_streaming
          PromptLen, MaxLen,\* a max_len of MaxSeqLen or more stands for none
          MaxSeqLen,        \* max_seq_len of the model
          Reserve,          \* room made for an answer without a limit (10 in the code)
          Mixes,            \* bound: the sets of requests that meet
          TokBound,         \* bound: generated tokens are counted up to here
          MaxHolds,         \* bound: deltas that are withheld (tool call, split UTF-8)
          MaxSampleErrors, MaxForwardErrors, MaxAllocErrors  \* bounds: failures of each kind

ASSUME GroupsAssumption ==
    /\ Requests \subseteq Nat
    /\ N \in [Requests -> Nat \ {0}]
    /\ Streaming \subseteq Requests
    /\ MaxSeqLen \in Nat /\ Reserve \in 1..(MaxSeqLen - 1)
    /\ PromptLen \in [Requests -> Nat \ {0}] /\ MaxLen \in [Requests -> Nat]
    /\ Mixes \subseteq SUBSET Requests
    /\ TokBound \in Nat /\ \A r \in Requests : MaxLen[r] < TokBound

VARIABLES truncate_sequence,  \* option of the engine
          coming,     \* the requests that are made, all or some
          phase,      \* of the engine
          batch, isPrompt,
          todo,       \* what is left of the batch in the loop that runs, a set
          st,         \* state of each sequence
          toks,       \* tokens generated
          prompt,     \* request -> length of its prompt once it is taken in, else 0
          n_choices, choices, chunks,   \* the SequenceGroup
          rx,         \* request -> responses in its channel
          client,     \* request -> "open", or "closed" once its receiver is dropped
          early,      \* requests whose client left before it had an answer
          answer,     \* request -> what the JSON handler has received
          revived,    \* sequences that ended in a prompt step and run on
          holds, sampleErrors, forwardErrors, allocErrors  \* how often each happened

groupVars  == <<n_choices, choices, chunks>>
clientVars == <<client, early, answer>>
errors     == <<truncate_sequence, coming, holds, sampleErrors, forwardErrors, allocErrors>>
vars == <<phase, batch, isPrompt, todo, st, toks, prompt, groupVars, rx, clientVars, revived, errors>>

SeqsOf(r) == {<<r, k>> : k \in 1..N[r]}
Seqs == UNION {SeqsOf(r) : r \in Requests}
Before(s, t) == s[1] < t[1] \/ (s[1] = t[1] /\ s[2] < t[2])

\* A loop takes the first that is left.
FirstLeft(s) == s \in todo /\ \A t \in todo : ~Before(t, s)

Init ==
    /\ truncate_sequence \in BOOLEAN /\ coming \in Mixes
    /\ phase = "idle" /\ batch = {} /\ isPrompt = FALSE /\ todo = {}
    /\ st = [s \in Seqs |-> "none"]
    /\ toks = [s \in Seqs |-> 0]
    /\ prompt = [r \in Requests |-> 0]
    /\ n_choices = N
    /\ choices = [r \in Requests |-> <<>>]
    /\ chunks = [r \in Requests |-> <<>>]
    /\ rx = [r \in Requests |-> <<>>]
    /\ client = [r \in Requests |-> "open"]
    /\ early = {}
    /\ answer = [r \in Requests |-> "none"]
    /\ revived = {}
    /\ holds = 0 /\ sampleErrors = 0 /\ forwardErrors = 0 /\ allocErrors = 0

-----------------------------------------------------------------------------
(* Intake.                                                                 *)

TooLong(r) == PromptLen[r] > MaxSeqLen

\* Mutation: the tokens over the maximum go, and no room is made.
KeptOnlyFits(r) == MaxSeqLen

\* What is left of a prompt that is too long: its end, so that what may be
\* generated fits behind it.
Kept(r) ==
    LET over == PromptLen[r] - MaxSeqLen
        sampling_max == IF over + MaxLen[r] >= PromptLen[r] THEN Reserve ELSE MaxLen[r]
    IN  PromptLen[r] - (over + sampling_max)

Send(r, msg) == rx' = [rx EXCEPT ![r] = Append(@, msg)]

(* add_request: a prompt that is too long is refused, or cut.  Then the    *)
(* sequences are made one by one, each with a KV cache; the allocation of  *)
(* one may fail when some are queued already.  Requests come in order.     *)
Refuse(r) ==
    /\ TooLong(r) /\ ~truncate_sequence
    /\ IF client[r] = "open" THEN Send(r, [type |-> "validation"]) /\ UNCHANGED phase
       ELSE phase' = "dead" /\ UNCHANGED rx
    /\ UNCHANGED <<st, allocErrors>>

MakeSequences(r, made) ==
    /\ ~TooLong(r) \/ truncate_sequence
    /\ st' = [s \in Seqs |-> IF s[1] = r /\ s[2] <= made THEN "fresh" ELSE st[s]]
    /\ IF made = N[r] THEN UNCHANGED <<rx, phase, allocErrors>>
       ELSE /\ allocErrors < MaxAllocErrors
            /\ allocErrors' = allocErrors + 1
            /\ IF client[r] = "open" THEN Send(r, [type |-> "internal"]) /\ UNCHANGED phase
               ELSE phase' = "dead" /\ UNCHANGED rx

AddRequest(r) ==
    /\ phase = "idle" /\ r \in coming /\ prompt[r] = 0
    /\ \A q \in coming : q < r => prompt[q] # 0
    /\ prompt' = [prompt EXCEPT ![r] = IF TooLong(r) /\ truncate_sequence THEN Kept(r) ELSE PromptLen[r]]
    /\ Refuse(r) \/ \E made \in 0..N[r] : MakeSequences(r, made)
    /\ UNCHANGED <<batch, isPrompt, todo, toks, groupVars, clientVars, revived,
                   truncate_sequence, coming, holds, sampleErrors, forwardErrors>>

-----------------------------------------------------------------------------
(* One step of the engine: sample the sequences of a batch in turn.        *)

\* Mutation: a sequence that failed still counts as running.
RunnableOrFailed(s) == st[s] \in {"fresh", "run", "error"}

Runnable(s) == st[s] \in {"fresh", "run"}

\* The scheduler picks prompts, or sequences past their prompt.
PickBatch ==
    /\ phase = "idle"
    /\ \E B \in SUBSET {s \in Seqs : Runnable(s)}, p \in BOOLEAN :
          /\ B # {} /\ \A s \in B : (st[s] = "fresh") = p
          /\ batch' = B /\ isPrompt' = p /\ todo' = B
    /\ phase' = "sample"
    /\ UNCHANGED <<st, toks, prompt, groupVars, rx, clientVars, revived, errors>>

\* `is_done` looks at the limits before the token is added.
MustStop(s) == toks[s] \in {MaxLen[s[1]], MaxSeqLen}

CountToken(s) == toks' = [toks EXCEPT ![s] = IF @ < TokBound THEN @ + 1 ELSE @]

Sampling(s) == phase = "sample" /\ FirstLeft(s)

\* A delta that ends inside a character, or may still become a tool call, adds
\* nothing to the group; that the sequence is done is then forgotten, too.
Withhold(s) ==
    /\ Sampling(s) /\ s[1] \in Streaming
    /\ holds < MaxHolds /\ holds' = holds + 1
    /\ CountToken(s)
    /\ todo' = todo \ {s}
    /\ UNCHANGED <<phase, batch, isPrompt, st, prompt, groupVars, rx, clientVars, revived,
                   truncate_sequence, coming, sampleErrors, forwardErrors, allocErrors>>

\* Mutation: the chunks that were sent stay in the group.
SendChunksKeeps(r, cs) ==
    /\ chunks' = [chunks EXCEPT ![r] = cs]
    /\ IF Len(cs) = n_choices[r] /\ client[r] = "open"
       THEN Send(r, [type |-> "chunk", parts |-> cs]) ELSE UNCHANGED rx

\* maybe_send_streaming_response: the chunks go when there is one per choice.
SendChunks(r, cs) ==
    IF Len(cs) = n_choices[r]
    THEN /\ chunks' = [chunks EXCEPT ![r] = <<>>]
         /\ IF client[r] = "open" THEN Send(r, [type |-> "chunk", parts |-> cs])
            ELSE UNCHANGED rx
    ELSE chunks' = [chunks EXCEPT ![r] = cs] /\ UNCHANGED rx

\* A chunk that cannot be sent cancels its sequence.
StreamToken(s) ==
    LET r == s[1] IN
    /\ Sampling(s) /\ r \in Streaming
    /\ CountToken(s)
    /\ todo' = todo \ {s}
    /\ \E stop \in BOOLEAN :
          LET cs == Append(chunks[r], [k |-> s[2], fin |-> stop])
          IN  /\ MustStop(s) => stop
              /\ SendChunks(r, cs)
              /\ st' = [st EXCEPT ![s] = IF Len(cs) = n_choices[r] /\ client[r] = "closed" THEN "canceled"
                                         ELSE IF stop THEN "done" ELSE @]
    /\ UNCHANGED <<phase, batch, isPrompt, prompt, n_choices, choices, clientVars, revived, errors>>

\* Mutations: the answer goes with the first choice; the number is compared
\* before the choice is added.
DoneReadyEarly(r, cs) == Len(cs) >= 1
DoneReadyLate(r, cs) == Len(cs) - 1 = n_choices[r]

\* maybe_send_chat_done_response
DoneReady(r, cs) == Len(cs) = n_choices[r]

\* A sequence that is not streamed adds its choice when it is done, and the
\* answer goes when the group is complete; if it cannot, the step fails.
JsonToken(s) ==
    LET r == s[1]
        cs == Append(choices[r], s[2])
    IN
    /\ Sampling(s) /\ r \notin Streaming
    /\ CountToken(s)
    /\ \E stop \in BOOLEAN :
          /\ MustStop(s) => stop
          /\ IF ~stop THEN UNCHANGED <<st, choices, rx, phase>> /\ todo' = todo \ {s}
             ELSE /\ st' = [st EXCEPT ![s] = "done"]
                  /\ choices' = [choices EXCEPT ![r] = cs]
                  /\ IF ~DoneReady(r, cs) THEN UNCHANGED <<rx, phase>> /\ todo' = todo \ {s}
                     ELSE IF client[r] = "open"
                     THEN Send(r, [type |-> "done", parts |-> cs]) /\ UNCHANGED phase /\ todo' = todo \ {s}
                     ELSE UNCHANGED rx /\ phase' = "fail" /\ todo' = batch
    /\ UNCHANGED <<batch, isPrompt, prompt, n_choices, chunks, clientVars, revived, errors>>

\* set_state(Error) makes the group wait for one choice less.
Fewer(F) == [r \in Requests |-> n_choices[r] - Cardinality({s \in F : s[1] = r})]

(* handle_seq_error_stateaware_ok: sampling fails for one sequence, and    *)
(* the function returns without looking at the rest of the batch.          *)
SampleError(s) ==
    /\ Sampling(s)
    /\ sampleErrors < MaxSampleErrors
    /\ sampleErrors' = sampleErrors + 1
    /\ IF client[s[1]] = "open"
       THEN /\ Send(s[1], [type |-> "internal"])
            /\ st' = [st EXCEPT ![s] = "error"]
            /\ n_choices' = Fewer({s})
            /\ todo' = {}
            /\ UNCHANGED phase
       ELSE /\ phase' = "dead"
            /\ UNCHANGED <<rx, st, n_choices, todo>>
    /\ UNCHANGED <<batch, isPrompt, toks, prompt, choices, chunks, clientVars, revived,
                   truncate_sequence, coming, holds, forwardErrors, allocErrors>>

\* After a prompt step the whole batch is RunningCompletion, whatever became of
\* its sequences.
EndStep ==
    /\ phase = "sample" /\ todo = {}
    /\ st' = [s \in Seqs |-> IF isPrompt /\ s \in batch THEN "run" ELSE st[s]]
    /\ revived' = IF isPrompt THEN revived \cup {s \in batch : ~Runnable(s)} ELSE revived
    /\ batch' = {} /\ phase' = "idle"
    /\ UNCHANGED <<isPrompt, todo, toks, prompt, groupVars, rx, clientVars, errors>>

\* The forward pass itself fails.
ForwardError ==
    /\ phase = "sample" /\ todo = batch
    /\ forwardErrors < MaxForwardErrors
    /\ forwardErrors' = forwardErrors + 1
    /\ phase' = "fail"
    /\ UNCHANGED <<batch, isPrompt, todo, st, toks, prompt, groupVars, rx, clientVars, revived,
                   truncate_sequence, coming, holds, sampleErrors, allocErrors>>

(* handle_pipeline_forward_error, in its three loops over the batch: each  *)
(* sequence adds a choice, then each sends what its group has (and unwraps *)
(* that), then each is in state Error.                                     *)
FailAddChoices(s) ==
    /\ phase = "fail" /\ FirstLeft(s)
    /\ choices' = [choices EXCEPT ![s[1]] = Append(@, s[2])]
    /\ IF todo = {s} THEN phase' = "respond" /\ todo' = batch
       ELSE UNCHANGED phase /\ todo' = todo \ {s}
    /\ UNCHANGED <<batch, isPrompt, st, toks, prompt, n_choices, chunks, rx, clientVars, revived, errors>>

FailRespond(s) ==
    /\ phase = "respond" /\ FirstLeft(s)
    /\ IF client[s[1]] = "open"
       THEN Send(s[1], [type |-> "model"]) /\ todo' = todo \ {s} /\ UNCHANGED phase
       ELSE phase' = "dead" /\ UNCHANGED <<rx, todo>>
    /\ UNCHANGED <<batch, isPrompt, st, toks, prompt, groupVars, clientVars, revived, errors>>

FailEnd ==
    /\ phase = "respond" /\ todo = {}
    /\ st' = [s \in Seqs |-> IF s \in batch THEN "error" ELSE st[s]]
    /\ n_choices' = Fewer(batch)
    /\ batch' = {} /\ phase' = "idle"
    /\ UNCHANGED <<isPrompt, todo, toks, prompt, choices, chunks, rx, clientVars, revived, errors>>

-----------------------------------------------------------------------------
(* The client.                                                             *)

\* The receiver is dropped, with what is in the channel.
Disconnect(r) ==
    /\ client' = [client EXCEPT ![r] = "closed"]
    /\ rx' = [rx EXCEPT ![r] = <<>>]

\* The chat handler takes one response and returns, which drops the receiver.
TakeAnswer(r) ==
    /\ r \notin Streaming /\ client[r] = "open" /\ rx[r] # <<>>
    /\ answer' = [answer EXCEPT ![r] = Head(rx[r]).type]
    /\ Disconnect(r)
    /\ UNCHANGED <<phase, batch, isPrompt, todo, st, toks, prompt, groupVars, early, revived, errors>>

\* poll_next of the Streamer: done with a model error, or a chunk message in
\* which all parts are final.
EndsStream(msg) ==
    \/ msg.type = "model"
    \/ (msg.type = "chunk" /\ \A i \in DOMAIN msg.parts : msg.parts[i].fin)

PollChunk(r) ==
    /\ r \in Streaming /\ client[r] = "open" /\ rx[r] # <<>>
    /\ IF EndsStream(Head(rx[r]))
       THEN Disconnect(r) /\ answer' = [answer EXCEPT ![r] = "end"]
       ELSE /\ rx' = [rx EXCEPT ![r] = Tail(@)]
            /\ UNCHANGED <<client, answer>>
    /\ UNCHANGED <<phase, batch, isPrompt, todo, st, toks, prompt, groupVars, early, revived, errors>>

Leave(r) ==
    /\ r \in coming /\ client[r] = "open"
    /\ Disconnect(r)
    /\ early' = early \cup {r}
    /\ UNCHANGED <<phase, batch, isPrompt, todo, st, toks, prompt, groupVars, answer, revived, errors>>

SampleNext == \E s \in Seqs : Withhold(s) \/ StreamToken(s) \/ JsonToken(s) \/ SampleError(s)

Engine == \/ PickBatch \/ SampleNext \/ EndStep \/ ForwardError
          \/ \E s \in Seqs : FailAddChoices(s) \/ FailRespond(s)
          \/ FailEnd

Client(r) == TakeAnswer(r) \/ PollChunk(r)

Next == \/ \E r \in Requests : AddRequest(r) \/ Client(r) \/ Leave(r)
        \/ Engine

Spec == Init /\ [][Next]_vars

\* The engine has its thread, each client its task; both go on while they can.
FairSpec == Spec /\ WF_vars(Engine) /\ \A r \in Requests : WF_vars(Client(r))

-----------------------------------------------------------------------------

(* A prompt that was cut leaves room: nothing that is generated up to      *)
(* max_len falls behind the model's maximum (the last token is not fed     *)
(* back to the model).  A withheld stop can make a stream go further.      *)
TruncatedFits ==
    \A s \in Seqs :
        TooLong(s[1]) /\ MaxLen[s[1]] < MaxSeqLen /\ holds = 0 /\ revived = {}
            /\ st[s] # "none" => prompt[s[1]] + toks[s] <= MaxSeqLen + 1

(* n_choices is an unsigned number that each failure of a sequence makes   *)
(* smaller: no sequence fails twice, so it never goes below zero, and what *)
(* it counts are the sequences that have not failed.                       *)
NChoicesCountsTheRest ==
    revived = {} =>
        \A r \in Requests :
            n_choices[r] = N[r] - Cardinality({s \in SeqsOf(r) : st[s] = "error"})

(* "The target number of choices to return": when the answer that a client *)
(* takes, the first it is sent, is a final one, it has every choice of the *)
(* request once, and no sequence of the request runs any more.             *)
DoneMeansOver ==
    revived = {} =>
        \A r \in Requests :
            LET firstIsDone == rx[r] # <<>> /\ Head(rx[r]).type = "done"
            IN  /\ firstIsDone => /\ IsInjective(Head(rx[r]).parts)
                                  /\ Range(Head(rx[r]).parts) = 1..N[r]
                /\ firstIsDone \/ answer[r] = "done" => \A s \in SeqsOf(r) : ~Runnable(s)

(* When nothing of a request runs any more, its client has an answer,      *)
(* whatever mixture of success and failure its sequences had.              *)
AnsweredWhenOver ==
    revived = {} /\ phase = "idle" =>
        \A r \in Requests \ Streaming :
            prompt[r] # 0 /\ (\A s \in SeqsOf(r) : ~Runnable(s))
                => r \in early \/ rx[r] # <<>> \/ answer[r] # "none"

(* The chunks of a stream are held back only until there is one for each   *)
(* choice: without a failure, their number does not jump over n_choices,   *)
(* after which nothing would be sent again.                                *)
StreamFlows ==
    revived = {} /\ sampleErrors + forwardErrors = 0 =>
        \A r \in Streaming : Len(chunks[r]) < n_choices[r]

(* The thread of the engine ends only when some client left before its     *)
(* answer, or when one of the sequences of a request with several choices  *)
(* failed, whose client has its answer before the others are through.      *)
DeathNeedsACause ==
    revived = {} /\ phase = "dead" =>
        \/ early # {}
        \/ (sampleErrors + forwardErrors > 0 /\ \E r \in Requests : N[r] > 1)

(* A stream of one choice comes to its end, unless one of its texts was    *)
(* withheld, a failure other than of the forward pass stopped it, or its   *)
(* client left.                                                            *)
SingleStreamEnds ==
    \A r \in Streaming :
        N[r] = 1 /\ prompt[r] # 0
            ~> \/ answer[r] = "end" \/ r \in early
               \/ phase = "dead" \/ revived # {} \/ holds + sampleErrors + allocErrors > 0
               \/ TooLong(r) /\ ~truncate_sequence
=============================================================================
