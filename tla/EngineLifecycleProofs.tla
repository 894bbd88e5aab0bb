------------------------ MODULE EngineLifecycleProofs ------------------------
(***************************************************************************)
(* Proofs about EngineLifecycle: a MistralRs has one engine thread at a    *)
(* time, its sender leads to it, and answers are lost only after somebody  *)
(* has left who may harm others, which is anybody once a step has failed.  *)
(* LInv is the inductive invariant.                                        *)
(***************************************************************************)
EXTENDS EngineLifecycle, TLAPS

Places == {"idle", "reboot", "clone", "send", "wait", "answered", "lost", "refused", "gone"}

TypeOK ==
    /\ thread \in [Engines -> Looping \cup {"none", "closed", "finished"}]
    /\ queue \in [Engines -> Seq(Clients)]
    /\ active \in [Engines -> SUBSET Clients]
    /\ next_id \in [Engines -> Nat] /\ failures \in Nat
    /\ sender \in [Instances -> Boots] /\ engine_handler \in [Instances -> Boots]
    /\ dropped \subseteq Instances /\ instructions \subseteq Instances
    /\ pc \in [Clients -> Places]
    /\ my_sender \in [Clients -> Boots]
    /\ requests \in [Clients -> Nat]
    /\ left \subseteq Clients

\* Sender and handler agree; threads before theirs are over, later ones not begun.
Generations ==
    \A i \in Instances :
        /\ sender[i] = engine_handler[i]
        /\ \A g \in Boots : /\ g < sender[i] => thread[<<i, g>>] = "finished"
                            /\ g = sender[i] => thread[<<i, g>>] # "none"
                            /\ g > sender[i] => thread[<<i, g>>] = "none"

ClonesAreOld == \A c \in Clients : my_sender[c] <= sender[Home[c]]

\* What may cost somebody else an answer has happened.
Excused == \/ left \ (Streaming \ Invalid) # {}
           \/ failures > 0 /\ left # {}
           \/ instructions # {}

GoneHaveLeft == \A c \in Clients : pc[c] = "gone" => c \in left

WithoutExcuse ==
    Excused \/ /\ \A e \in Engines : thread[e] \notin {"closed", "finished"}
               /\ \A c \in Clients : pc[c] = "wait" => Held(c)
               /\ \A c \in Clients : pc[c] \notin {"lost", "refused"}

LInv == TypeOK /\ Generations /\ ClonesAreOld /\ GoneHaveLeft /\ WithoutExcuse

-----------------------------------------------------------------------------
LEMMA EngineFacts ==
    /\ \A i \in Instances, g \in Boots : <<i, g>> \in Engines
    /\ \A e \in Engines : e = <<e[1], e[2]>> /\ e[1] \in Instances /\ e[2] \in Boots
    /\ \A c \in Clients : Home[c] \in Instances
    /\ Boots \subseteq Nat /\ 1 \in Boots
  BY LifecycleAssumption DEF Engines, Boots

LEMMA TargetFact == TypeOK => \A c \in Clients : Target(c) \in Engines
  BY EngineFacts DEF TypeOK, Target

\* Only the head of a queue goes with it.
LEMMA TailKeeps ==
  ASSUME NEW q \in Seq(Clients), q # <<>>, NEW k \in DOMAIN q, q[k] # Head(q)
  PROVE  \E j \in DOMAIN Tail(q) : Tail(q)[j] = q[k]
<1>1. k \in 2..Len(q)
  OBVIOUS
<1>2. k - 1 \in DOMAIN Tail(q) /\ Tail(q)[k - 1] = q[k]
  BY <1>1
<1> QED
  BY <1>2

LEMMA AppendKeeps ==
  ASSUME NEW q \in Seq(Clients), NEW c \in Clients
  PROVE  /\ Append(q, c) \in Seq(Clients)
         /\ \A k \in DOMAIN q : k \in DOMAIN Append(q, c) /\ Append(q, c)[k] = q[k]
         /\ \E k \in DOMAIN Append(q, c) : Append(q, c)[k] = c
<1>1. Len(q) + 1 \in DOMAIN Append(q, c) /\ Append(q, c)[Len(q) + 1] = c
  OBVIOUS
<1> QED
  BY <1>1

LEMMA CloseFacts ==
  ASSUME TypeOK, NEW e \in Engines, Close(e)
  PROVE  /\ queue' \in [Engines -> Seq(Clients)]
         /\ active' \in [Engines -> SUBSET Clients]
         /\ thread' \in [Engines -> Looping \cup {"none", "closed", "finished"}]
  BY DEF TypeOK, Close

\* A step that fails answers whom it can, and ends the engine unless it can
\* answer its whole batch.
LEMMA FailsFacts ==
  ASSUME TypeOK, NEW e \in Engines, thread[e] = "step", NEW B \in SUBSET active[e], Fails(e, B)
  PROVE  /\ queue' \in [Engines -> Seq(Clients)]
         /\ active' \in [Engines -> SUBSET Clients]
         /\ thread' \in [Engines -> Looping \cup {"none", "closed", "finished"}]
         /\ \A f \in Engines : f # e => thread'[f] = thread[f]
         /\ thread'[e] # "none"
         /\ pc' \in [Clients -> Places]
         /\ \A c \in Clients : pc'[c] \in {pc[c], "answered"}
<1>1. PICK A \in SUBSET {c \in B : pc[c] # "gone"} :
         /\ pc' = [c \in Clients |-> IF c \in A THEN "answered" ELSE pc[c]]
         /\ \/ /\ active' = [active EXCEPT ![e] = @ \ B]
               /\ thread' = [thread EXCEPT ![e] = "instruction"]
               /\ UNCHANGED queue
            \/ Close(e)
  BY DEF Fails
<1>2. /\ pc' \in [Clients -> Places]
      /\ \A c \in Clients : pc'[c] \in {pc[c], "answered"}
  BY <1>1 DEF TypeOK, Places
<1>3. CASE Close(e)
  <2>1. thread' = [thread EXCEPT ![e] = "closed"]
    BY <1>3 DEF Close
  <2> QED
    BY <1>2, <1>3, <2>1, CloseFacts DEF TypeOK
<1>4. CASE /\ active' = [active EXCEPT ![e] = @ \ B]
           /\ thread' = [thread EXCEPT ![e] = "instruction"]
           /\ UNCHANGED queue
  BY <1>2, <1>4 DEF TypeOK, Looping
<1> QED
  BY <1>1, <1>3, <1>4

\* A step with a request that is taken from the channel.
LEMMA HandleFacts ==
  ASSUME TypeOK, NEW e \in Engines, NEW to \in Looping, queue[e] # <<>>,
         Handle(e, Head(queue[e]), to)
  PROVE  /\ Head(queue[e]) \in Clients
         /\ Tail(queue[e]) \in Seq(Clients)
         /\ queue' \in [Engines -> Seq(Clients)]
         /\ active' \in [Engines -> SUBSET Clients]
         /\ next_id' \in [Engines -> Nat]
         /\ pc' \in [Clients -> Places]
         /\ thread' \in [Engines -> Looping \cup {"none", "closed", "finished"}]
<1>1. Head(queue[e]) \in Clients /\ Tail(queue[e]) \in Seq(Clients)
  BY DEF TypeOK
<1> DEFINE c == Head(queue[e])
<1>2. CASE c \in Invalid /\ pc[c] = "gone"
  <2>1. Close(e) /\ UNCHANGED <<next_id, pc>>
    BY <1>2 DEF Handle
  <2> QED
    BY <1>1, <2>1, CloseFacts DEF TypeOK
<1>3. CASE c \in Invalid /\ pc[c] # "gone"
  <2>1. /\ pc' = [pc EXCEPT ![c] = "answered"]
        /\ queue' = [queue EXCEPT ![e] = Tail(queue[e])]
        /\ thread' = [thread EXCEPT ![e] = to]
        /\ UNCHANGED <<active, next_id>>
    BY <1>3 DEF Handle, Goto
  <2> QED
    BY <1>1, <2>1 DEF TypeOK, Places
<1>4. CASE c \notin Invalid
  <2>1. /\ queue' = [queue EXCEPT ![e] = Tail(queue[e])]
        /\ active' = [active EXCEPT ![e] = active[e] \cup {c}]
        /\ next_id' = [next_id EXCEPT ![e] = next_id[e] + 1]
        /\ thread' = [thread EXCEPT ![e] = to]
        /\ UNCHANGED pc
    BY <1>4 DEF Handle
  <2> QED
    BY <1>1, <2>1 DEF TypeOK
<1> QED
  BY <1>2, <1>3, <1>4

-----------------------------------------------------------------------------
LEMMA InitLInv == Init => LInv
<1> SUFFICES ASSUME Init PROVE LInv
  OBVIOUS
<1> USE EngineFacts
<1>1. TypeOK
  BY LifecycleAssumption DEF Init, TypeOK, Looping, Places
<1>2. Generations
  <2>1. \A i \in Instances, g \in Boots :
           thread[<<i, g>>] = IF g = 1 THEN "instruction" ELSE "none"
    BY DEF Init
  <2> QED
    BY <2>1 DEF Init, Generations, Boots
<1>3. ClonesAreOld
  BY DEF Init, ClonesAreOld
<1>4. GoneHaveLeft /\ WithoutExcuse
  BY DEF Init, GoneHaveLeft, WithoutExcuse
<1> QED
  BY <1>1, <1>2, <1>3, <1>4 DEF LInv

LEMMA TypeStep == LInv /\ [Next]_vars => TypeOK'
<1> SUFFICES ASSUME LInv, [Next]_vars PROVE TypeOK'
  OBVIOUS
<1> USE EngineFacts DEF LInv
<1>1. ASSUME NEW c \in Clients, CheckEngine(c) PROVE TypeOK'
  BY <1>1 DEF TypeOK, CheckEngine, Goto, Places, engineVars, rsVars
<1>2. ASSUME NEW c \in Clients, Reboot(c) PROVE TypeOK'
  BY <1>2 DEF TypeOK, Reboot, Spawn, Goto, Places, Looping
<1>3. ASSUME NEW c \in Clients, CloneSender(c) PROVE TypeOK'
  BY <1>3 DEF TypeOK, CloneSender, Goto, Places, engineVars, rsVars
<1>4. ASSUME NEW c \in Clients, SendRequest(c) PROVE TypeOK'
  <2>1. CASE queue' = [queue EXCEPT ![Target(c)] = Append(@, c)]
    BY <1>4, <2>1, TargetFact, AppendKeeps DEF TypeOK, SendRequest, Goto, Places, rsVars
  <2>2. CASE UNCHANGED queue
    BY <1>4, <2>2 DEF TypeOK, SendRequest, Goto, Places, rsVars
  <2> QED
    BY <1>4, <2>1, <2>2 DEF SendRequest
<1>5. ASSUME NEW c \in Clients, SeeClosed(c) \/ Leave(c) PROVE TypeOK'
  BY <1>5 DEF TypeOK, SeeClosed, Leave, Goto, Places, engineVars, rsVars
<1>6. ASSUME NEW i \in Instances, DropMistralRs(i) PROVE TypeOK'
  BY <1>6 DEF TypeOK, DropMistralRs, engineVars, clientVars
<1>7. ASSUME NEW e \in Engines, ReadInstruction(e) PROVE TypeOK'
  <2>1. CASE Close(e)
    BY <1>7, <2>1, CloseFacts DEF TypeOK, ReadInstruction, rsVars, clientVars
  <2>2. CASE thread' = [thread EXCEPT ![e] = "drain"] /\ UNCHANGED <<queue, active>>
    BY <1>7, <2>2 DEF TypeOK, ReadInstruction, Looping, rsVars, clientVars
  <2> QED
    BY <1>7, <2>1, <2>2 DEF ReadInstruction
<1>8. ASSUME NEW e \in Engines, TakeRequest(e) PROVE TypeOK'
  BY <1>8, HandleFacts DEF TypeOK, TakeRequest, Looping, rsVars
<1>9. ASSUME NEW e \in Engines, Step(e) PROVE TypeOK'
  <2>1. ASSUME NEW B \in SUBSET active[e], Fails(e, B) PROVE TypeOK'
    BY <1>9, <2>1, FailsFacts DEF TypeOK, Step, rsVars
  <2>2. ASSUME NEW c \in active[e],
               /\ active' = [active EXCEPT ![e] = @ \ {c}]
               /\ IF pc[c] = "gone" THEN UNCHANGED pc ELSE Goto(c, "answered")
               /\ At(e, "step", "instruction")
               /\ UNCHANGED queue
        PROVE  TypeOK'
    <3>1. pc' \in [Clients -> Places]
      BY <2>2 DEF TypeOK, Goto, Places
    <3> QED
      BY <1>9, <2>2, <3>1 DEF TypeOK, Step, At, Looping, rsVars
  <2> QED
    BY <1>9, <2>1, <2>2 DEF Step
<1>13. ASSUME NEW e \in Engines, StepFails(e) PROVE TypeOK'
  <2>1. PICK B \in SUBSET active[e] : Fails(e, B)
    BY <1>13 DEF StepFails
  <2> QED
    <3>1. failures' \in Nat
      BY <1>13 DEF TypeOK, StepFails
    <3>2. thread[e] = "step"
      BY <1>13 DEF StepFails
    <3> QED
      BY <1>13, <2>1, <3>1, <3>2, FailsFacts DEF TypeOK, StepFails, rsVars
<1>10. ASSUME NEW e \in Engines, Wake(e) PROVE TypeOK'
  <2>1. CASE queue[e] # <<>> /\ Handle(e, Head(queue[e]), "instruction")
    BY <1>10, <2>1, HandleFacts DEF TypeOK, Wake, Looping, rsVars
  <2>2. CASE At(e, "sleep", "instruction") /\ UNCHANGED <<queue, active, next_id, pc>>
    BY <1>10, <2>2 DEF TypeOK, Wake, At, Looping, rsVars
  <2> QED
    BY <1>10, <2>1, <2>2 DEF Wake
<1>11. ASSUME NEW e \in Engines, DrainEnd(e) \/ Finish(e) PROVE TypeOK'
  BY <1>11 DEF TypeOK, DrainEnd, Finish, At, Looping, rsVars, clientVars
<1>12. CASE UNCHANGED vars
  BY <1>12 DEF TypeOK, vars, engineVars, rsVars, clientVars
<1> QED
  BY <1>1, <1>2, <1>3, <1>4, <1>5, <1>6, <1>7, <1>8, <1>9, <1>13, <1>10, <1>11, <1>12
     DEF Next, Engine, Client

-----------------------------------------------------------------------------
\* An engine thread that runs moves, and is neither begun again nor takes what
\* belongs to the object or leaves in the name of a client; failures only add up.
LEMMA EngineMoves ==
  ASSUME TypeOK, NEW e \in Engines, Engine(e)
  PROVE  /\ thread[e] \notin {"none", "finished"}
         /\ thread'[e] # "none"
         /\ \A f \in Engines : f # e => thread'[f] = thread[f]
         /\ UNCHANGED <<rsVars, my_sender, requests, left>>
         /\ failures' \in Nat /\ failures <= failures'
<1> USE DEF TypeOK
<1>1. CASE ReadInstruction(e)
  BY <1>1 DEF ReadInstruction, Close, clientVars
<1>2. CASE TakeRequest(e)
  BY <1>2 DEF TakeRequest, Handle, Close
<1>3. CASE DrainEnd(e) \/ Finish(e)
  BY <1>3 DEF DrainEnd, Finish, At, clientVars
<1>4. CASE Step(e) \/ StepFails(e)
  <2>1. thread[e] = "step"
    BY <1>4 DEF Step, StepFails
  <2>2. ASSUME NEW B \in SUBSET active[e], Fails(e, B)
        PROVE  thread'[e] # "none" /\ \A f \in Engines : f # e => thread'[f] = thread[f]
    BY <2>1, <2>2, FailsFacts
  <2>3. CASE Step(e)
    BY <2>2, <2>3 DEF Step, At
  <2>4. CASE StepFails(e)
    BY <2>1, <2>2, <2>4 DEF StepFails
  <2> QED
    BY <1>4, <2>3, <2>4
<1>5. CASE Wake(e)
  BY <1>5 DEF Wake, Handle, Close, At
<1> QED
  BY <1>1, <1>2, <1>3, <1>4, <1>5 DEF Engine

LEMMA GenerationsStep == LInv /\ [Next]_vars => Generations' /\ ClonesAreOld'
<1> SUFFICES ASSUME LInv, [Next]_vars PROVE Generations' /\ ClonesAreOld'
  OBVIOUS
<1> USE EngineFacts DEF LInv
<1>1. ASSUME NEW e \in Engines, Engine(e) PROVE Generations' /\ ClonesAreOld'
  <2>1. UNCHANGED <<sender, engine_handler, my_sender>>
    BY <1>1, EngineMoves DEF rsVars
  <2>2. \A f \in Engines : thread[f] \in {"none", "finished"} => thread'[f] = thread[f]
    BY <1>1, EngineMoves
  <2>3. \A f \in Engines : thread[f] # "none" => thread'[f] # "none"
    BY <1>1, EngineMoves
  <2> QED
    BY <2>1, <2>2, <2>3 DEF Generations, ClonesAreOld
<1>2. ASSUME NEW c \in Clients, Reboot(c) PROVE Generations' /\ ClonesAreOld'
  <2> DEFINE i == Home[c]
             h == engine_handler[i]
  <2>1. CASE thread[<<i, h>>] = "finished"
    <3>1. h + 1 \in Boots /\ h \in Nat /\ sender[i] = h
      BY <1>2, <2>1 DEF Reboot, Spawn, TypeOK, Generations
    <3>2. /\ thread' = [thread EXCEPT ![<<i, h + 1>>] = "instruction"]
          /\ sender' = [sender EXCEPT ![i] = h + 1]
          /\ engine_handler' = [engine_handler EXCEPT ![i] = h + 1]
          /\ UNCHANGED my_sender
      BY <1>2, <2>1 DEF Reboot, Spawn
    <3>3. \A j \in Instances : sender'[j] = engine_handler'[j] /\ sender[j] <= sender'[j]
      BY <3>1, <3>2 DEF TypeOK, Generations
    <3>4. ASSUME NEW g \in Boots
          PROVE  /\ g < h + 1 => thread'[<<i, g>>] = "finished"
                 /\ g = h + 1 => thread'[<<i, g>>] # "none"
                 /\ g > h + 1 => thread'[<<i, g>>] = "none"
      <4>1. thread'[<<i, g>>] = IF g = h + 1 THEN "instruction" ELSE thread[<<i, g>>]
        BY <3>2 DEF TypeOK
      <4>2. /\ g < h => thread[<<i, g>>] = "finished"
            /\ g > h => thread[<<i, g>>] = "none"
        BY <3>1 DEF Generations
      <4> QED
        BY <3>1, <4>1, <4>2, <2>1
    <3>5. \A j \in Instances \ {i}, g \in Boots : thread'[<<j, g>>] = thread[<<j, g>>]
      BY <3>2 DEF TypeOK
    <3>6. sender'[i] = h + 1 /\ \A j \in Instances \ {i} : sender'[j] = sender[j]
      BY <3>2 DEF TypeOK
    <3>7. Generations'
      BY <3>3, <3>4, <3>5, <3>6 DEF Generations
    <3>8. ClonesAreOld'
      BY <3>1, <3>2, <3>3 DEF ClonesAreOld, TypeOK
    <3> QED
      BY <3>7, <3>8
  <2>2. CASE UNCHANGED <<thread, sender, engine_handler>>
    BY <1>2, <2>2 DEF Reboot, Generations, ClonesAreOld
  <2> QED
    BY <1>2, <2>1, <2>2 DEF Reboot
<1>3. ASSUME NEW c \in Clients, CloneSender(c) PROVE Generations' /\ ClonesAreOld'
  BY <1>3 DEF CloneSender, TypeOK, Generations, ClonesAreOld, engineVars, rsVars
<1>4. CASE UNCHANGED <<thread, sender, engine_handler, my_sender>>
  BY <1>4 DEF Generations, ClonesAreOld
<1>5. ASSUME NEW c \in Clients, CheckEngine(c) \/ SendRequest(c) \/ SeeClosed(c) \/ Leave(c)
      PROVE  UNCHANGED <<thread, sender, engine_handler, my_sender>>
  BY <1>5 DEF CheckEngine, SendRequest, SeeClosed, Leave, engineVars, rsVars
<1>6. ASSUME NEW i \in Instances, DropMistralRs(i)
      PROVE  UNCHANGED <<thread, sender, engine_handler, my_sender>>
  BY <1>6 DEF DropMistralRs, engineVars, clientVars
<1>7. UNCHANGED vars => UNCHANGED <<thread, sender, engine_handler, my_sender>>
  BY DEF vars, engineVars, rsVars, clientVars
<1> QED
  BY <1>1, <1>2, <1>3, <1>4, <1>5, <1>6, <1>7 DEF Next, Client

-----------------------------------------------------------------------------
\* What an engine does when nobody has left who may harm others.
KeepsRequests(e) ==
    /\ thread'[e] \notin {"closed", "finished"}
    /\ \A c \in Clients : pc'[c] \in {pc[c], "answered"}
    /\ \A c \in Clients : pc'[c] = "wait" /\ Held(c) => Held(c)'

\* Who is neither held here nor moved elsewhere is where it was.
LEMMA HeldElsewhere ==
  ASSUME TypeOK, UNCHANGED my_sender, NEW e \in Engines,
         \A f \in Engines \ {e} : queue'[f] = queue[f] /\ active'[f] = active[f],
         NEW c \in Clients, Held(c), Target(c) # e
  PROVE  Held(c)'
  BY TargetFact DEF Held, Target

LEMMA HandleKeeps ==
  ASSUME LInv, ~Excused, NEW e \in Engines, NEW to \in Looping, queue[e] # <<>>,
         UNCHANGED my_sender, Handle(e, Head(queue[e]), to)
  PROVE  KeepsRequests(e)
<1> DEFINE d == Head(queue[e])
<1> USE DEF LInv
<1>1. d \in Clients /\ queue[e] \in Seq(Clients) /\ Tail(queue[e]) \in Seq(Clients)
  BY HandleFacts DEF TypeOK
<1>2. ~(d \in Invalid /\ pc[d] = "gone")
  BY <1>1 DEF GoneHaveLeft, Excused
<1>3. /\ thread' = [thread EXCEPT ![e] = to]
      /\ queue' = [queue EXCEPT ![e] = Tail(queue[e])]
      /\ \/ d \in Invalid /\ pc' = [pc EXCEPT ![d] = "answered"] /\ active' = active
         \/ active' = [active EXCEPT ![e] = active[e] \cup {d}] /\ pc' = pc
  BY <1>2 DEF Handle, Goto
<1>4. thread'[e] \notin {"closed", "finished"}
  BY <1>3 DEF TypeOK, Looping
<1>5. \A c \in Clients : pc'[c] \in {pc[c], "answered"}
  BY <1>3 DEF TypeOK
<1>6. ASSUME NEW c \in Clients, pc'[c] = "wait", Held(c) PROVE Held(c)'
  <2>1. CASE Target(c) # e
    <3>1. \A f \in Engines \ {e} : queue'[f] = queue[f] /\ active'[f] = active[f]
      BY <1>3 DEF TypeOK
    <3> QED
      BY <1>6, <2>1, <3>1, HeldElsewhere
  <2>2. CASE Target(c) = e
    <3>1. Target(c)' = e
      BY <2>2 DEF Target
    <3>2. CASE c \in active[e]
      <4>1. c \in active'[e]
        BY <1>3, <3>2 DEF TypeOK
      <4> QED
        BY <3>1, <4>1 DEF Held
    <3>3. CASE c # d /\ c \notin active[e]
      <4>1. PICK k \in DOMAIN queue[e] : queue[e][k] = c
        BY <1>6, <2>2, <3>3 DEF Held
      <4>2. \E j \in DOMAIN Tail(queue[e]) : Tail(queue[e])[j] = c
        BY <1>1, <3>3, <4>1, TailKeeps
      <4>3. queue'[e] = Tail(queue[e])
        BY <1>3 DEF TypeOK
      <4> QED
        BY <3>1, <4>2, <4>3 DEF Held
    <3>4. CASE c = d
      <4>1. active'[e] = active[e] \cup {d}
        BY <1>1, <1>3, <1>6, <3>4 DEF TypeOK
      <4> QED
        BY <3>1, <3>4, <4>1 DEF Held
    <3> QED
      BY <3>2, <3>3, <3>4
  <2> QED
    BY <2>1, <2>2
<1> QED
  BY <1>4, <1>5, <1>6 DEF KeepsRequests

LEMMA EngineKeeps ==
  ASSUME LInv, ~Excused, ~Excused', NEW e \in Engines, Engine(e)
  PROVE  KeepsRequests(e)
<1> USE EngineFacts DEF LInv
<1>1. thread[e] \notin {"closed", "finished"}
  BY DEF WithoutExcuse
<1>2. UNCHANGED my_sender
  BY EngineMoves
<1>3. CASE ReadInstruction(e) \/ DrainEnd(e)
  <2>1. thread'[e] \in {"drain", "sleep", "step"} /\ UNCHANGED <<queue, active, pc>>
    BY <1>3 DEF ReadInstruction, DrainEnd, At, Excused, TypeOK, clientVars
  <2>2. \A c \in Clients : Held(c) => Held(c)'
    BY <1>2, <2>1 DEF Held, Target
  <2> QED
    BY <2>1, <2>2 DEF KeepsRequests
<1>4. CASE TakeRequest(e)
  BY <1>2, <1>4, HandleKeeps DEF TakeRequest, Looping
<1>5. ASSUME NEW B \in SUBSET active[e], NEW A \in SUBSET B,
             pc' = [c \in Clients |-> IF c \in A THEN "answered" ELSE pc[c]],
             active' = [active EXCEPT ![e] = @ \ B],
             thread' = [thread EXCEPT ![e] = "instruction"],
             UNCHANGED queue,
             \A c \in B : pc'[c] # "wait"
      PROVE  KeepsRequests(e)
  <2>1. thread'[e] = "instruction"
    BY <1>5 DEF TypeOK
  <2>2. \A c \in Clients : pc'[c] \in {pc[c], "answered"}
    BY <1>5
  <2>3. ASSUME NEW c \in Clients \ B, Held(c) PROVE Held(c)'
    <3>1. \A f \in Engines : c \in active[f] => c \in active'[f]
      BY <1>5, <2>3 DEF TypeOK
    <3> QED
      BY <1>2, <1>5, <2>3, <3>1, TargetFact DEF Held, Target
  <2> QED
    BY <1>5, <2>1, <2>2, <2>3 DEF KeepsRequests
<1>5a. CASE Step(e)
  <2>1. PICK d \in active[e] :
           /\ active' = [active EXCEPT ![e] = @ \ {d}]
           /\ IF pc[d] = "gone" THEN UNCHANGED pc ELSE Goto(d, "answered")
           /\ At(e, "step", "instruction")
           /\ UNCHANGED queue
    <3>1. ASSUME NEW d \in active[e] PROVE ~(pc[d] = "gone" /\ d \notin Streaming)
      BY <3>1 DEF GoneHaveLeft, Excused, TypeOK
    <3> QED
      BY <1>5a, <3>1 DEF Step
  <2>2. d \in Clients
    BY DEF TypeOK
  <2>3. pc'[d] # "wait"
    BY <2>1, <2>2 DEF Goto, TypeOK
  <2>4. PICK A \in SUBSET {d} : pc' = [c \in Clients |-> IF c \in A THEN "answered" ELSE pc[c]]
    <3>0. pc \in [Clients -> Places]
      BY DEF TypeOK
    <3>1. pc' = [c \in Clients |-> IF c \in {x \in {d} : pc[x] # "gone"} THEN "answered" ELSE pc[c]]
      <4>1. CASE pc[d] = "gone"
        BY <2>1, <3>0, <4>1
      <4>2. CASE pc[d] # "gone"
        BY <2>1, <2>2, <3>0, <4>2 DEF Goto
      <4> QED
        BY <4>1, <4>2
    <3> QED
      BY <3>1
  <2>5. thread' = [thread EXCEPT ![e] = "instruction"]
    BY <2>1 DEF At
  <2>6. {d} \in SUBSET active[e] /\ active' = [active EXCEPT ![e] = @ \ {d}] /\ UNCHANGED queue
    BY <2>1
  <2>7. \A c \in {d} : pc'[c] # "wait"
    BY <2>3
  <2> QED
    BY <1>5, <2>4, <2>5, <2>6, <2>7
<1>5b. CASE StepFails(e)
  <2>1. PICK B \in SUBSET active[e] : Fails(e, B)
    BY <1>5b DEF StepFails
  <2>2. B \subseteq Clients
    BY DEF TypeOK
  <2>3. failures' > 0 /\ left' = left
    BY <1>5b DEF StepFails, TypeOK
  <2>4. left = {}
    BY <2>3 DEF Excused
  <2>5. \A c \in B : pc[c] # "gone"
    BY <2>2, <2>4 DEF GoneHaveLeft
  <2>6. /\ pc' = [c \in Clients |-> IF c \in B THEN "answered" ELSE pc[c]]
        /\ active' = [active EXCEPT ![e] = @ \ B]
        /\ thread' = [thread EXCEPT ![e] = "instruction"]
        /\ UNCHANGED queue
    BY <2>1, <2>5 DEF Fails
  <2>7. \A c \in B : pc'[c] # "wait"
    BY <2>2, <2>6
  <2> QED
    BY <1>5, <2>6, <2>7
<1>6. CASE Wake(e)
  <2>1. CASE queue[e] # <<>> /\ Handle(e, Head(queue[e]), "instruction")
    BY <1>2, <2>1, HandleKeeps DEF Looping
  <2>2. CASE At(e, "sleep", "instruction") /\ UNCHANGED <<queue, active, pc>>
    <3>1. thread'[e] = "instruction"
      BY <2>2 DEF At, TypeOK
    <3>2. \A c \in Clients : Held(c) => Held(c)'
      BY <1>2, <2>2 DEF Held, Target
    <3> QED
      BY <2>2, <3>1, <3>2 DEF KeepsRequests
  <2> QED
    BY <1>6, <2>1, <2>2 DEF Wake
<1>7. CASE Finish(e)
  BY <1>1, <1>7 DEF Finish, At
<1> QED
  BY <1>3, <1>4, <1>5a, <1>5b, <1>6, <1>7 DEF Engine

-----------------------------------------------------------------------------
LEMMA GoneStep == LInv /\ [Next]_vars => GoneHaveLeft' /\ (Excused => Excused')
<1> SUFFICES ASSUME LInv, [Next]_vars PROVE GoneHaveLeft' /\ (Excused => Excused')
  OBVIOUS
<1> USE DEF LInv
<1>1. left \subseteq left' /\ instructions \subseteq instructions' /\ (failures > 0 => failures' > 0)
  <2>1. ASSUME NEW e \in Engines, Engine(e)
        PROVE  UNCHANGED <<left, instructions>> /\ (failures > 0 => failures' > 0)
    BY <2>1, EngineMoves DEF rsVars, TypeOK
  <2>2. ASSUME NEW c \in Clients, CheckEngine(c) \/ Client(c) \/ Leave(c)
        PROVE  left \subseteq left' /\ UNCHANGED <<instructions, failures>>
    BY <2>2
       DEF CheckEngine, Client, Reboot, CloneSender, SendRequest, SeeClosed, Leave, rsVars, engineVars
  <2>3. ASSUME NEW i \in Instances, DropMistralRs(i)
        PROVE  UNCHANGED <<left, failures>> /\ instructions \subseteq instructions'
    BY <2>3 DEF DropMistralRs, clientVars, engineVars
  <2>4. UNCHANGED vars => UNCHANGED <<left, instructions, failures>>
    BY DEF vars, clientVars, rsVars, engineVars
  <2> QED
    BY <2>1, <2>2, <2>3, <2>4 DEF Next
<1>2. ASSUME NEW c \in Clients, pc'[c] = "gone" PROVE pc[c] = "gone" \/ c \in left'
  <2>1. ASSUME NEW d \in Clients, Leave(d) PROVE pc[c] = "gone" \/ c \in left'
    BY <1>2, <2>1 DEF Leave, Goto, TypeOK
  <2>2. ASSUME NEW d \in Clients, CheckEngine(d) \/ Client(d) PROVE pc[c] = "gone"
    BY <1>2, <2>2
       DEF CheckEngine, Client, Reboot, CloneSender, SendRequest, SeeClosed, Goto, TypeOK
  <2>3. ASSUME NEW i \in Instances, DropMistralRs(i) PROVE pc[c] = "gone"
    BY <1>2, <2>3 DEF DropMistralRs, clientVars
  <2>4. UNCHANGED vars => pc[c] = "gone"
    BY <1>2 DEF vars, clientVars
  <2>5. ASSUME NEW e \in Engines, Engine(e) PROVE pc[c] = "gone"
    <3>1. pc'[c] \in {pc[c], "answered"}
      <4>1. CASE ReadInstruction(e) \/ DrainEnd(e) \/ Finish(e)
        BY <4>1 DEF ReadInstruction, DrainEnd, Finish, clientVars
      <4>2. CASE TakeRequest(e)
        BY <4>2, HandleFacts DEF TakeRequest, Handle, Goto, Looping, TypeOK
      <4>3. CASE Step(e) \/ StepFails(e)
        <5>1. ASSUME NEW B \in SUBSET active[e], Fails(e, B), thread[e] = "step"
              PROVE  pc'[c] \in {pc[c], "answered"}
          BY <5>1, FailsFacts
        <5>2. CASE Step(e)
          BY <5>1, <5>2 DEF Step, Goto, TypeOK
        <5>3. CASE StepFails(e)
          BY <5>1, <5>3 DEF StepFails
        <5> QED
          BY <4>3, <5>2, <5>3
      <4>4. CASE Wake(e)
        BY <4>4, HandleFacts DEF Wake, Handle, Goto, Looping, TypeOK
      <4> QED
        BY <2>5, <4>1, <4>2, <4>3, <4>4 DEF Engine
    <3> QED
      BY <1>2, <3>1
  <2> QED
    BY <2>1, <2>2, <2>3, <2>4, <2>5 DEF Next
<1> QED
  BY <1>1, <1>2 DEF GoneHaveLeft, Excused

LEMMA ExcuseStep == LInv /\ [Next]_vars => WithoutExcuse'
<1> SUFFICES ASSUME LInv, [Next]_vars, ~Excused' PROVE WithoutExcuse'
  BY DEF WithoutExcuse
<1> USE EngineFacts DEF LInv
<1>1. /\ ~Excused
      /\ \A e \in Engines : thread[e] \notin {"closed", "finished"}
      /\ \A c \in Clients : pc[c] = "wait" => Held(c)
      /\ \A c \in Clients : pc[c] \notin {"lost", "refused"}
  BY GoneStep DEF WithoutExcuse
<1>2. ASSUME NEW e \in Engines, Engine(e) PROVE WithoutExcuse'
  <2>1. KeepsRequests(e)
    BY <1>1, <1>2, EngineKeeps
  <2>2. \A f \in Engines : thread'[f] \notin {"closed", "finished"}
    BY <1>1, <1>2, <2>1, EngineMoves DEF KeepsRequests
  <2>3. \A c \in Clients : pc'[c] = "wait" => Held(c)'
    BY <1>1, <2>1 DEF KeepsRequests
  <2>4. \A c \in Clients : pc'[c] \notin {"lost", "refused"}
    BY <1>1, <2>1 DEF KeepsRequests
  <2> QED
    BY <2>2, <2>3, <2>4 DEF WithoutExcuse
<1>3. ASSUME NEW c \in Clients, UNCHANGED <<thread, queue, active>>, pc'[c] \notin {"wait", "lost", "refused"},
             \A d \in Clients \ {c} : pc'[d] = pc[d] /\ my_sender'[d] = my_sender[d]
      PROVE  WithoutExcuse'
  <2>1. \A d \in Clients \ {c} : Held(d) => Held(d)'
    BY <1>3 DEF Held, Target
  <2> QED
    BY <1>1, <1>3, <2>1 DEF WithoutExcuse
<1>4. ASSUME NEW c \in Clients, CheckEngine(c) \/ CloneSender(c) \/ Leave(c)
      PROVE  WithoutExcuse'
  <2>1. /\ UNCHANGED <<thread, queue, active>>
        /\ pc'[c] \notin {"wait", "lost", "refused"}
        /\ \A d \in Clients \ {c} : pc'[d] = pc[d] /\ my_sender'[d] = my_sender[d]
    BY <1>4 DEF CheckEngine, CloneSender, Leave, Goto, TypeOK, engineVars
  <2> QED
    BY <1>3, <2>1
<1>5. ASSUME NEW c \in Clients, Reboot(c) PROVE WithoutExcuse'
  <2>1. /\ UNCHANGED <<thread, queue, active, my_sender>>
        /\ pc'[c] = "clone"
        /\ \A d \in Clients \ {c} : pc'[d] = pc[d]
    BY <1>1, <1>5 DEF Reboot, Goto, TypeOK
  <2> QED
    BY <1>3, <2>1
<1>6. ASSUME NEW c \in Clients, SendRequest(c) PROVE WithoutExcuse'
  <2> DEFINE e == Target(c)
  <2>1. e \in Engines /\ thread[e] # "none"
    <3>1. Home[c] \in Instances /\ my_sender[c] \in Boots /\ sender[Home[c]] \in Boots
      BY DEF TypeOK
    <3>2. my_sender[c] < sender[Home[c]] \/ my_sender[c] = sender[Home[c]]
      BY <3>1 DEF ClonesAreOld
    <3> QED
      BY <3>1, <3>2 DEF Target, Generations
  <2>2. Open(e)
    BY <1>1, <2>1 DEF Open, TypeOK
  <2>3. /\ queue' = [queue EXCEPT ![e] = Append(queue[e], c)]
        /\ pc' = [pc EXCEPT ![c] = "wait"]
        /\ UNCHANGED <<thread, active, my_sender>>
    BY <1>6, <2>2 DEF SendRequest, Goto
  <2>4. \A d \in Clients : Target(d)' = Target(d)
    BY <2>3 DEF Target
  <2>5. queue[e] \in Seq(Clients) /\ queue'[e] = Append(queue[e], c)
    BY <2>1, <2>3 DEF TypeOK
  <2>6. Held(c)'
    BY <2>4, <2>5, AppendKeeps DEF Held
  <2>7. ASSUME NEW d \in Clients, Held(d) PROVE Held(d)'
    <3>1. CASE d \in active[Target(d)]
      BY <2>3, <2>4, <3>1 DEF Held
    <3>2. CASE \E k \in DOMAIN queue[Target(d)] : queue[Target(d)][k] = d
      <4>1. CASE Target(d) = e
        <5>1. PICK k \in DOMAIN queue[e] : queue[e][k] = d
          BY <3>2, <4>1
        <5>2. k \in DOMAIN queue'[e] /\ queue'[e][k] = d
          BY <2>5, <5>1, AppendKeeps
        <5>3. Target(d)' = e
          BY <2>4, <4>1
        <5> QED
          BY <5>2, <5>3 DEF Held
      <4>2. CASE Target(d) # e
        BY <2>3, <2>4, <3>2, <4>2, TargetFact DEF Held, TypeOK
      <4> QED
        BY <4>1, <4>2
    <3> QED
      BY <2>7, <3>1, <3>2 DEF Held
  <2>8. \A d \in Clients : pc'[d] = "wait" => Held(d)'
    BY <1>1, <2>3, <2>6, <2>7 DEF TypeOK
  <2> QED
    BY <1>1, <2>3, <2>8 DEF WithoutExcuse, TypeOK
<1>7. ASSUME NEW c \in Clients, SeeClosed(c) PROVE FALSE
  BY <1>1, <1>7 DEF SeeClosed
<1>8. CASE UNCHANGED <<engineVars, pc, my_sender>>
  <2>1. \A d \in Clients : Held(d) => Held(d)'
    BY <1>8 DEF Held, Target, engineVars
  <2> QED
    BY <1>1, <1>8, <2>1 DEF WithoutExcuse, engineVars
<1>9. ASSUME NEW i \in Instances, DropMistralRs(i) PROVE UNCHANGED <<engineVars, pc, my_sender>>
  BY <1>9 DEF DropMistralRs, clientVars
<1>10. UNCHANGED vars => UNCHANGED <<engineVars, pc, my_sender>>
  BY DEF vars, clientVars
<1> QED
  BY <1>2, <1>4, <1>5, <1>6, <1>7, <1>8, <1>9, <1>10 DEF Next, Client

-----------------------------------------------------------------------------
\* The invariant holds in every reachable state.
THEOREM InvariantL == Spec => []LInv
<1>1. LInv /\ [Next]_vars => LInv'
  BY TypeStep, GenerationsStep, GoneStep, ExcuseStep DEF LInv
<1> QED
  BY <1>1, InitLInv, PTL DEF Spec

\* For any number of clients that find the engine dead at once (get_sender,
\* reboot_engine), a MistralRs has at most one engine thread that is not over.
THEOREM OneEngineAtATime == Spec => []OneEngine
<1>1. LInv => OneEngine
  <2> SUFFICES ASSUME LInv, NEW e \in Engines, thread[e] \notin {"none", "finished"}
               PROVE  e[2] = sender[e[1]]
    BY EngineFacts DEF OneEngine
  <2> QED
    BY EngineFacts DEF LInv, TypeOK, Generations
<1> QED
  BY <1>1, InvariantL, PTL

\* An engine that takes requests is the one that get_sender's Sender leads to.
THEOREM SenderLeadsToTheEngine == Spec => []SenderReachesEngine
<1>1. LInv => SenderReachesEngine
  <2> SUFFICES ASSUME LInv, NEW e \in Engines, Open(e) PROVE sender[e[1]] = e[2]
    BY DEF SenderReachesEngine
  <2>1. thread[e] \notin {"none", "finished"}
    BY DEF Open, Looping
  <2> QED
    BY <2>1, EngineFacts DEF LInv, TypeOK, Generations
<1> QED
  BY <1>1, InvariantL, PTL

\* While no object is dropped, answers are lost and requests refused only after
\* a client left that did not stream or whose request was invalid, or after a
\* step failed of itself and some client left: the report of the failure is sent
\* to streams too, and the send unwrapped (utils/mod.rs).
THEOREM LossHasACause == Spec => []LossNeedsAGoneClient
<1>1. LInv => LossNeedsAGoneClient
  BY DEF LInv, WithoutExcuse, Excused, LossNeedsAGoneClient
<1> QED
  BY <1>1, InvariantL, PTL
=============================================================================
