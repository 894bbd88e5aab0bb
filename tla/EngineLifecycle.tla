--------------------------- MODULE EngineLifecycle ---------------------------
(***************************************************************************)
(* Clients, the MistralRs object and its engine thread (lib.rs, the outer  *)
(* part of Engine::run in engine/mod.rs, chat_completion.rs of the         *)
(* server): how a request reaches the engine, what happens when the thread *)
(* dies, how get_sender starts a new one, and how an engine is told to     *)
(* terminate.                                                              *)
(*                                                                         *)
(* An engine is a pair <<i, g>>: the g-th thread of the MistralRs whose    *)
(* engine_id is i.  A request is the client that made it.                  *)
(***************************************************************************)
EXTENDS Naturals, Sequences, FiniteSets

CONSTANTS Instances,    \* engine_ids of the MistralRs objects of the process: 0, 1, ...
          Clients,
          Home,         \* the MistralRs that a client uses
          Streaming,    \* clients that ask for a stream of chunks
          Invalid,      \* clients whose request fails its validation
          DummyRun,     \* whether `new` sends the engine a request of its own
          Capacity,     \* of the request channel (10_000 in the code)
          MaxRequests,  \* bound: requests of one client
          MaxBoots,     \* bound: engine threads of one MistralRs
          MaxFailures   \* bound: steps that fail in the model or the sampler

ASSUME LifecycleAssumption ==
    /\ Instances \subseteq Nat
    /\ Home \in [Clients -> Instances]
    /\ Streaming \subseteq Clients /\ Invalid \subseteq Clients
    /\ DummyRun \in BOOLEAN
    /\ Capacity \in Nat \ {0} /\ MaxRequests \in Nat /\ MaxBoots \in Nat \ {0}
    /\ MaxFailures \in Nat

VARIABLES thread,        \* engine -> where its thread is
          queue,         \* engine -> its request channel
          active,        \* engine -> requests that have sequences in its scheduler
          next_id,       \* engine -> `id`, the sequences it has made
          failures,      \* steps that failed by themselves
          sender,        \* MistralRs -> generation its `sender` leads to
          engine_handler,\* MistralRs -> generation its `engine_handler` joins
          dropped,       \* MistralRs objects that are gone
          instructions,  \* keys of ENGINE_INSTRUCTIONS that say Terminate
          pc,            \* client -> where it is
          my_sender,     \* client -> generation of the Sender it cloned
          requests,      \* client -> requests it has made
          left           \* clients that dropped their response receiver early

engineVars == <<thread, queue, active, next_id, failures>>
rsVars     == <<sender, engine_handler, dropped, instructions>>
clientVars == <<pc, my_sender, requests, left>>
vars == <<engineVars, rsVars, clientVars>>

Boots   == 1..MaxBoots
Engines == Instances \X Boots
Target(c) == <<Home[c], my_sender[c]>>

\* The Receiver exists while the thread is in its loop.
Looping == {"instruction", "drain", "step", "sleep"}
Open(e) == thread[e] \in Looping

\* MistralRs::new spawns the first engine; its dummy run makes one sequence.
Init ==
    /\ thread = [e \in Engines |-> IF e[2] = 1 THEN "instruction" ELSE "none"]
    /\ queue = [e \in Engines |-> <<>>]
    /\ active = [e \in Engines |-> {}]
    /\ next_id = [e \in Engines |-> IF e[2] = 1 /\ DummyRun THEN 1 ELSE 0]
    /\ failures = 0
    /\ sender = [i \in Instances |-> 1]
    /\ engine_handler = [i \in Instances |-> 1]
    /\ dropped = {} /\ instructions = {}
    /\ pc = [c \in Clients |-> "idle"]
    /\ my_sender = [c \in Clients |-> 1]
    /\ requests = [c \in Clients |-> 0]
    /\ left = {}

-----------------------------------------------------------------------------
(* A client: get_sender, send, wait for the answer.                        *)

Goto(c, to) == pc' = [pc EXCEPT ![c] = to]

\* engine_dead: the read lock is released again before anything is done.
CheckEngine(c) ==
    /\ pc[c] \in {"idle", "answered", "lost", "refused"} /\ requests[c] < MaxRequests
    /\ Home[c] \notin dropped
    /\ requests' = [requests EXCEPT ![c] = @ + 1]
    /\ Goto(c, IF thread[<<Home[c], engine_handler[Home[c]]>>] = "finished"
               THEN "reboot" ELSE "clone")
    /\ UNCHANGED <<engineVars, rsVars, my_sender, left>>

Spawn(i, g) ==
    /\ g \in Boots
    /\ thread' = [thread EXCEPT ![<<i, g>>] = "instruction"]
    /\ engine_handler' = [engine_handler EXCEPT ![i] = g]

\* Mutations: nobody looks again under the lock; the old sender stays.
RebootUnchecked(c) ==
    /\ pc[c] = "reboot"
    /\ Goto(c, "clone")
    /\ Spawn(Home[c], engine_handler[Home[c]] + 1)
    /\ sender' = engine_handler'
    /\ UNCHANGED <<queue, active, next_id, failures, dropped, instructions, my_sender, requests, left>>
RebootKeepsSender(c) ==
    /\ pc[c] = "reboot"
    /\ Goto(c, "clone")
    /\ LET i == Home[c] IN
       IF thread[<<i, engine_handler[i]>>] = "finished" THEN Spawn(i, engine_handler[i] + 1)
       ELSE UNCHANGED <<thread, engine_handler>>
    /\ UNCHANGED <<queue, active, next_id, failures, sender, dropped, instructions, my_sender,
                    requests, left>>

(* reboot_engine, under the write locks of sender and handler: another     *)
(* client may have been faster.                                            *)
Reboot(c) ==
    /\ pc[c] = "reboot"
    /\ Goto(c, "clone")
    /\ LET i == Home[c] IN
       IF thread[<<i, engine_handler[i]>>] = "finished"
       THEN /\ Spawn(i, engine_handler[i] + 1)
            /\ sender' = [sender EXCEPT ![i] = engine_handler[i] + 1]
       ELSE UNCHANGED <<thread, sender, engine_handler>>
    /\ UNCHANGED <<queue, active, next_id, failures, dropped, instructions, my_sender, requests, left>>

CloneSender(c) ==
    /\ pc[c] = "clone"
    /\ my_sender' = [my_sender EXCEPT ![c] = sender[Home[c]]]
    /\ Goto(c, "send")
    /\ UNCHANGED <<engineVars, rsVars, requests, left>>

\* `send` waits while the channel is full and fails once it is closed.
SendRequest(c) ==
    /\ pc[c] = "send"
    /\ IF Open(Target(c))
       THEN /\ Len(queue[Target(c)]) < Capacity
            /\ queue' = [queue EXCEPT ![Target(c)] = Append(@, c)]
            /\ Goto(c, "wait")
       ELSE Goto(c, "refused") /\ UNCHANGED queue
    /\ UNCHANGED <<thread, active, next_id, failures, rsVars, my_sender, requests, left>>

\* The connection of a client breaks: its receiver is dropped.
Leave(c) ==
    /\ pc[c] = "wait"
    /\ Goto(c, "gone")
    /\ left' = left \cup {c}
    /\ UNCHANGED <<engineVars, rsVars, my_sender, requests>>

Held(c) == c \in active[Target(c)] \/ \E k \in DOMAIN queue[Target(c)] : queue[Target(c)][k] = c

\* All senders of its answer are gone: `recv` returns None.  A stream does not
\* look at that (chat_completion.rs:85) and stays pending.
SeeClosed(c) ==
    /\ pc[c] = "wait" /\ c \notin Streaming
    /\ ~Held(c)
    /\ Goto(c, "lost")
    /\ UNCHANGED <<engineVars, rsVars, my_sender, requests, left>>

\* The last reference to the MistralRs goes; handlers and streams hold one.
DropMistralRs(i) ==
    /\ i \notin dropped
    /\ \A c \in Clients : Home[c] = i => pc[c] \in {"idle", "answered", "lost", "refused", "gone"}
    /\ dropped' = dropped \cup {i}
    /\ instructions' = instructions \cup {i}
    /\ UNCHANGED <<engineVars, sender, engine_handler, clientVars>>

-----------------------------------------------------------------------------
(* The engine thread.                                                      *)

At(e, from, to) == thread[e] = from /\ thread' = [thread EXCEPT ![e] = to]

\* The engine is dropped, by a break or a panic: with it go the Receiver, what
\* is in the channel, and the sequences, each with its sender of answers.
Close(e) ==
    /\ thread' = [thread EXCEPT ![e] = "closed"]
    /\ queue' = [queue EXCEPT ![e] = <<>>]
    /\ active' = [active EXCEPT ![e] = {}]

\* Looked up under `self.id`, which is not the key that Drop uses.
ReadInstruction(e) ==
    /\ thread[e] = "instruction"
    /\ IF next_id[e] \in instructions THEN Close(e)
       ELSE thread' = [thread EXCEPT ![e] = "drain"] /\ UNCHANGED <<queue, active>>
    /\ UNCHANGED <<next_id, failures, rsVars, clientVars>>

\* handle_request: a refusal is sent with `expect`, so it needs its receiver.
Handle(e, c, to) ==
    IF c \in Invalid
    THEN /\ UNCHANGED next_id
         /\ IF pc[c] = "gone" THEN Close(e) /\ UNCHANGED pc
            ELSE /\ Goto(c, "answered")
                 /\ queue' = [queue EXCEPT ![e] = Tail(@)]
                 /\ thread' = [thread EXCEPT ![e] = to]
                 /\ UNCHANGED active
    ELSE /\ queue' = [queue EXCEPT ![e] = Tail(@)]
         /\ active' = [active EXCEPT ![e] = @ \cup {c}]
         /\ next_id' = [next_id EXCEPT ![e] = @ + 1]
         /\ thread' = [thread EXCEPT ![e] = to]
         /\ UNCHANGED pc

TakeRequest(e) ==
    /\ thread[e] = "drain" /\ queue[e] # <<>>
    /\ Handle(e, Head(queue[e]), "drain")
    /\ UNCHANGED <<failures, rsVars, my_sender, requests, left>>

\* Mutation: the loop sleeps although it has work.
DrainEndSleeps(e) ==
    /\ queue[e] = <<>>
    /\ At(e, "drain", "sleep")
    /\ UNCHANGED <<queue, active, next_id, failures, rsVars, clientVars>>

DrainEnd(e) ==
    /\ queue[e] = <<>>
    /\ At(e, "drain", IF active[e] = {} THEN "sleep" ELSE "step")
    /\ UNCHANGED <<queue, active, next_id, failures, rsVars, clientVars>>

(* A step of the batch B fails: the macro that reports it answers the      *)
(* requests one by one and unwraps each send, also that to a stream, so    *)
(* that the first client that is gone ends the engine                      *)
(* (utils/mod.rs:147-153, 165-171).  A sampling error is that of a batch   *)
(* of one.                                                                 *)
Fails(e, B) ==
    \E A \in SUBSET {c \in B : pc[c] # "gone"} :
        /\ pc' = [c \in Clients |-> IF c \in A THEN "answered" ELSE pc[c]]
        /\ \/ /\ A = B
              /\ active' = [active EXCEPT ![e] = @ \ B]
              /\ thread' = [thread EXCEPT ![e] = "instruction"]
              /\ UNCHANGED queue
           \/ (\E c \in B : pc[c] = "gone") /\ Close(e)

StepFails(e) ==
    /\ thread[e] = "step" /\ failures < MaxFailures
    /\ failures' = failures + 1
    /\ \E B \in SUBSET active[e] \ {{}} : Fails(e, B)
    /\ UNCHANGED <<next_id, rsVars, my_sender, requests, left>>

\* Mutation: a chunk that cannot be sent fails the step.
StepFailsOnStream(e) ==
    /\ thread[e] = "step"
    /\ \E c \in active[e] :
          IF pc[c] = "gone"
          THEN \E B \in SUBSET active[e] : c \in B /\ Fails(e, B)
          ELSE /\ active' = [active EXCEPT ![e] = @ \ {c}]
               /\ Goto(c, "answered")
               /\ At(e, "step", "instruction")
               /\ UNCHANGED queue
    /\ UNCHANGED <<next_id, failures, rsVars, my_sender, requests, left>>

(* A step in which the request of c ends.  A chunk that cannot be sent     *)
(* cancels its sequence; a complete answer that cannot be sent fails the   *)
(* step for its whole batch.                                               *)
Step(e) ==
    /\ thread[e] = "step"
    /\ \E c \in active[e] :
          IF pc[c] = "gone" /\ c \notin Streaming
          THEN \E B \in SUBSET active[e] : c \in B /\ Fails(e, B)
          ELSE /\ active' = [active EXCEPT ![e] = @ \ {c}]
               /\ IF pc[c] = "gone" THEN UNCHANGED pc ELSE Goto(c, "answered")
               /\ At(e, "step", "instruction")
               /\ UNCHANGED queue
    /\ UNCHANGED <<next_id, failures, rsVars, my_sender, requests, left>>

\* `recv`: a request wakes the loop, and so does a channel without senders.
Wake(e) ==
    /\ thread[e] = "sleep"
    /\ \/ queue[e] # <<>> /\ Handle(e, Head(queue[e]), "instruction")
       \/ /\ queue[e] = <<>> /\ e[1] \in dropped
          /\ At(e, "sleep", "instruction")
          /\ UNCHANGED <<queue, active, next_id, pc>>
    /\ UNCHANGED <<failures, rsVars, my_sender, requests, left>>

\* The thread's closure returns after the runtime is shut down; only then is
\* the JoinHandle finished.
Finish(e) ==
    /\ At(e, "closed", "finished")
    /\ UNCHANGED <<queue, active, next_id, failures, rsVars, clientVars>>

Engine(e) == \/ ReadInstruction(e) \/ TakeRequest(e) \/ DrainEnd(e)
             \/ Step(e) \/ StepFails(e) \/ Wake(e) \/ Finish(e)

\* What a client does by itself once it has begun.
Client(c) == Reboot(c) \/ CloneSender(c) \/ SendRequest(c) \/ SeeClosed(c)

Next == \/ \E e \in Engines : Engine(e)
        \/ \E c \in Clients : CheckEngine(c) \/ Client(c) \/ Leave(c)
        \/ \E i \in Instances : DropMistralRs(i)

Spec == Init /\ [][Next]_vars

\* Engines are threads, clients are tasks of a runtime: both make progress.
FairSpec == /\ Spec
            /\ \A e \in Engines : WF_vars(Engine(e))
            /\ \A c \in Clients : WF_vars(Client(c))

-----------------------------------------------------------------------------

(* However many clients find the engine dead at once, a MistralRs never    *)
(* has two engine threads: they would share one pipeline and its KV cache. *)
OneEngine ==
    \A e, f \in Engines :
        e[1] = f[1] /\ thread[e] \notin {"none", "finished"}
                    /\ thread[f] \notin {"none", "finished"} => e = f

(* Requests go where a live engine listens: an engine that is in its loop  *)
(* is the one the sender of its MistralRs leads to.                        *)
SenderReachesEngine == \A e \in Engines : Open(e) => sender[e[1]] = e[2]

(* An answer is lost, or a request refused by a closed channel, only when  *)
(* somebody went away early: somebody who did not ask for a stream or      *)
(* asked for something invalid, or, once a step has failed in the model or *)
(* the sampler, anybody, whose report of the failure cannot be sent.       *)
(* Streams may end early without harm to others as long as nothing fails.  *)
LossNeedsAGoneClient ==
    instructions = {} /\ (\E c \in Clients : pc[c] \in {"lost", "refused"})
        => \/ left \ (Streaming \ Invalid) # {}
           \/ failures > 0 /\ left # {}

(* A request that waits in a live engine is not forgotten: whoever waits   *)
(* without a stream gets an answer, or sees the channel closed.            *)
EveryWaitEnds == \A c \in Clients \ Streaming : pc[c] = "wait" ~> pc[c] # "wait"

=============================================================================
