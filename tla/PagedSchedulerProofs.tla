------------------------ MODULE PagedSchedulerProofs ------------------------
(***************************************************************************)
(* Theorems about PagedScheduler for any pool of blocks, any block size,   *)
(* any set of sequences, any lengths and limits, and any number of failed  *)
(* steps: a sequence holds blocks exactly while it is in service, so the   *)
(* scheduler is a correct caller of the block engine, and what is proved   *)
(* of the block engine under correct calls (BlockEngineProofs) holds of    *)
(* the system of the two.                                                  *)
(*                                                                         *)
(* The inductive invariant relates the queues to the block tables.  Beside *)
(* BlocksFollowService it needs what the phases say of the queues, that a  *)
(* request not yet taken in is in no queue, and that admission never       *)
(* ignores a sequence: ignored sequences would be in service without       *)
(* blocks, but can_allocate never answers Impossible.                      *)
(***************************************************************************)
EXTENDS PagedScheduler, BlockEngineProofs

-----------------------------------------------------------------------------
\* Nothing is ever ignored.
NothingIgnored == ~did_ignore /\ \A s \in SeqIds : state[s] # "FinishedIgnored"

\* The reserve loop keeps its queues to itself and works on one sequence.
ReserveLoop ==
    /\ phase # "reserve" => popped = {} /\ reserved = {}
    /\ \A s, t \in popped : s = t

\* A request that was not taken in is in no queue.
AbsentNowhere == \A s \in SeqIds : state[s] = "Absent" => s \notin Queued \cup InService

\* The inductive invariant.
PagedInv ==
    /\ BEInv
    /\ TypeOK
    /\ NothingIgnored
    /\ ReserveLoop
    /\ AbsentNowhere
    /\ BlocksFollowService

-----------------------------------------------------------------------------
(* can_allocate and the logical blocks.                                    *)

\* The free list is never longer than the pool.
LEMMA FreeListBound ==
    ASSUME BEInv
    PROVE  Len(free_blocks) \in Nat /\ Len(free_blocks) <= Cardinality(Blocks)
<1> DEFINE m == Len(free_blocks)
<1>1. free_blocks \in Seq(Blocks) /\ NoRepeats(free_blocks)
  BY DEF BEInv, BETypeOK, BlocksConserved
<1>2. m \in Nat /\ free_blocks \in [1..m -> Blocks]
  BY <1>1, LenProperties
<1>3. free_blocks \in Injection(1..m, Blocks)
  BY <1>1, <1>2 DEF NoRepeats, Injection, IsInjective
<1>4. Cardinality(1..m) = m
  BY <1>2, FS_Interval
<1>5. Cardinality(1..m) <= Cardinality(Blocks)
  BY <1>3, BlocksAssumption, FS_Injection
<1> QED BY <1>2, <1>4, <1>5

\* `can_allocate` never answers Impossible, and Ok for an allocatable number.
LEMMA NeverImpossible ==
    ASSUME BEInv, NEW n \in Nat \ {0}, CanAllocate(n) # "Later"
    PROVE  CanAllocate(n) = "Ok" /\ n \in 1..Cardinality(Blocks)
<1>1. Cardinality(Blocks) \in Nat
  BY FS_CardinalityType, BlocksAssumption
<1>2. n <= Len(free_blocks)
  BY FreeListBound DEF CanAllocate
<1> QED BY <1>1, <1>2, FreeListBound DEF CanAllocate

\* Every sequence has a logical block, and a token needs at most one more.
LEMMA BlockCounts ==
    ASSUME NEW n \in Nat
    PROVE  LogicalBlocks(n) \in Nat \ {0} /\ BlocksToAdd(n) \in 0..1
<1>1. n \div BlockSize \in Nat
  BY PagedAssumption
<1> QED BY <1>1 DEF LogicalBlocks, BlocksToAdd

-----------------------------------------------------------------------------
(* What each part of a pass does to the block engine.                      *)

\* Admission takes the head of the queue, which has no table.
LEMMA AdmitAllocates ==
    ASSUME PagedInv, Admit
    PROVE  LET s == Head(waiting)
           IN  /\ s \in SeqIds /\ s \in Queued
               /\ CallAllocate(s, LogicalBlocks(toks[s]))
               /\ LogicalBlocks(toks[s]) \in 1..Cardinality(Blocks)
               /\ ~did_ignore'
               /\ state' = [state EXCEPT ![s] = "RunningPrompt"]
               /\ scheduled' = scheduled \cup {s}
<1> DEFINE s == Head(waiting)
           n == LogicalBlocks(toks[s])
<1>1. waiting \in Seq(SeqIds) /\ waiting # <<>> /\ NoRepeats(waiting)
  BY DEF PagedInv, TypeOK, BlocksFollowService, Admit, CanAdmit
<1>2. s \in SeqIds /\ s \in Queued
  BY <1>1, TailItems DEF Queued
<1>3. n \in Nat \ {0}
  BY <1>2, BlockCounts DEF PagedInv, TypeOK
<1>4. CanAllocate(n) = "Ok" /\ n \in 1..Cardinality(Blocks)
  BY <1>3, NeverImpossible DEF PagedInv, Admit, CanAdmit
<1>5. block_tables[s] = <<>>
  BY <1>2 DEF PagedInv, BlocksFollowService
<1>6. ~did_ignore'
  BY <1>4 DEF PagedInv, NothingIgnored, Admit
<1>7. /\ state' = [state EXCEPT ![s] = "RunningPrompt"]
      /\ Allocate(s, n)
      /\ scheduled' = scheduled \cup {s}
  BY <1>6 DEF Admit
<1> QED BY <1>2, <1>4, <1>5, <1>6, <1>7 DEF CallAllocate

\* The reserve loop appends to a table, after it asked for room.
LEMMA SlotAppends ==
    ASSUME PagedInv, ReserveSlot
    PROVE  \E s \in popped : /\ s \in SeqIds /\ popped = {s}
                             /\ BlocksToAdd(toks[s]) \in 0..1
                             /\ CallAppend(s, BlocksToAdd(toks[s]))
                             /\ reserved' = reserved \cup {s}
<1>1. PICK s \in popped : /\ CanAppend(BlocksToAdd(toks[s]))
                         /\ AppendTokenSlot(s, BlocksToAdd(toks[s]))
                         /\ reserved' = reserved \cup {s}
  BY DEF ReserveSlot
<1>2. s \in SeqIds /\ popped = {s} /\ s \in InService
  BY DEF PagedInv, TypeOK, ReserveLoop, InService
<1>3. BlocksToAdd(toks[s]) \in 0..1
  BY <1>2, BlockCounts DEF PagedInv, TypeOK
<1>4. block_tables[s] # <<>>
  BY <1>2 DEF PagedInv, BlocksFollowService, NothingIgnored
<1> QED BY <1>1, <1>2, <1>3, <1>4 DEF CallAppend

(* Every step of the scheduler is a legal call or leaves the engine alone. *)
LEMMA LegalCalls == PagedInv /\ [Next]_vars => [BENext]_beVars
<1> SUFFICES ASSUME PagedInv, [Next]_vars
             PROVE  BENext \/ UNCHANGED beVars
  OBVIOUS
<1>1. /\ running \subseteq SeqIds /\ popped \subseteq SeqIds
      /\ \A s \in SeqIds : FreeSequence(s) => BENext
  BY DEF PagedInv, TypeOK, CallFree, BENext
<1>2. CASE Admit
  BY <1>2, AdmitAllocates DEF BENext
<1>3. CASE ReserveSlot
  BY <1>3, SlotAppends DEF BENext
<1>4. CASE PreemptOldest
  BY <1>1, <1>4 DEF PreemptOldest, Preempt
<1>5. CASE PreemptSelf
  BY <1>1, <1>5 DEF PreemptSelf, Preempt
<1>6. CASE FreeFinished
  BY <1>1, <1>6 DEF FreeFinished, Finished
<1>7. CASE \E s \in SeqIds : AddSeq(s)
  BY <1>7 DEF AddSeq
<1>8. CASE SetTerminate \/ StartSchedule \/ AdmitEnd \/ ReservePop \/ ReserveEnd \/ FreeEnd
  BY <1>8 DEF SetTerminate, StartSchedule, AdmitEnd, ReservePop, ReserveEnd, FreeEnd
<1>9. CASE Step
  BY <1>9 DEF Step, StepOk, StepSampleError, StepForwardError, stepRest
<1>10. CASE UNCHANGED vars
  BY <1>10 DEF vars
<1> QED BY <1>2, <1>3, <1>4, <1>5, <1>6, <1>7, <1>8, <1>9, <1>10
        DEF Next, Engine, Schedule

-----------------------------------------------------------------------------
(* Types.                                                                  *)

LEMMA TypeStep == PagedInv /\ BEInv' /\ [Next]_vars => TypeOK'
<1> SUFFICES ASSUME PagedInv, BEInv', [Next]_vars
             PROVE  TypeOK'
  OBVIOUS
<1>1. TypeOK /\ BETypeOK'
  BY DEF PagedInv, BEInv
<1>2. CASE \E s \in SeqIds : AddSeq(s)
  BY <1>1, <1>2 DEF AddSeq, TypeOK, States, errors
<1>3. CASE SetTerminate
  BY <1>1, <1>3 DEF SetTerminate, TypeOK, schedVars, seqVars, errors
<1>4. CASE StartSchedule
  BY <1>1, <1>4 DEF StartSchedule, TypeOK, seqVars, errors
<1>5. CASE Admit
  <2>1. /\ Head(waiting) \in SeqIds /\ Tail(waiting) \in Seq(SeqIds)
    BY <1>1, <1>5, HeadTailProperties DEF TypeOK, Admit, CanAdmit
  <2>2. /\ waiting' = Tail(waiting) /\ running' = running \cup {Head(waiting)}
        /\ UNCHANGED <<phase, popped, reserved, toks, cached, terminate, errors>>
    BY <1>5 DEF Admit
  <2>3. /\ ~did_ignore' /\ state' = [state EXCEPT ![Head(waiting)] = "RunningPrompt"]
        /\ scheduled' = scheduled \cup {Head(waiting)}
    BY <1>5, AdmitAllocates
  <2>4. did_ignore' \in BOOLEAN /\ state' \in [SeqIds -> States]
    BY <1>1, <1>5, <2>3 DEF TypeOK, States, Admit
  <2> QED BY <1>1, <2>1, <2>2, <2>3, <2>4 DEF TypeOK, errors
<1>6. CASE AdmitEnd
  BY <1>1, <1>6 DEF AdmitEnd, TypeOK, schedVars, seqVars, errors
<1>7. CASE ReservePop
  BY <1>1, <1>7 DEF ReservePop, TypeOK, seqVars, errors
<1>8. CASE ReserveSlot
  BY <1>1, <1>8 DEF ReserveSlot, TypeOK, seqVars, errors
<1>9. ASSUME NEW v \in SeqIds, Preempt(v)
      PROVE  /\ state' \in [SeqIds -> States] /\ cached' \in [SeqIds -> Nat]
             /\ waiting' \in Seq(SeqIds)
  <2>1. <<v>> \o waiting \in Seq(SeqIds)
    BY <1>1, SingleItem, ConcatItems DEF TypeOK
  <2> QED BY <1>1, <1>9, <2>1 DEF Preempt, TypeOK, States
<1>10. CASE PreemptOldest
  BY <1>1, <1>9, <1>10 DEF PreemptOldest, TypeOK, errors
<1>11. CASE PreemptSelf
  BY <1>1, <1>9, <1>11 DEF PreemptSelf, TypeOK, errors
<1>12. CASE ReserveEnd
  BY <1>1, <1>12 DEF ReserveEnd, TypeOK, States, errors
<1>13. /\ Forwarded \in [SeqIds -> Nat]
       /\ \A P : TokensAdded(P) \in [SeqIds -> Nat \ {0}]
       /\ \A P, F : StatesAfter(P, F) \in [SeqIds -> States]
  BY <1>1 DEF TypeOK, Forwarded, TokensAdded, StatesAfter, States
<1>14. CASE StepOk
  BY <1>1, <1>13, <1>14 DEF StepOk, TypeOK, stepRest, schedVars, errors
<1>15. CASE StepSampleError
  BY <1>1, <1>13, <1>15 DEF StepSampleError, TypeOK, stepRest, schedVars, States
<1>16. CASE StepForwardError
  BY <1>1, <1>13, <1>16 DEF StepForwardError, TypeOK, stepRest, schedVars, States
<1>17. CASE FreeFinished
  BY <1>1, <1>17 DEF FreeFinished, TypeOK, seqVars, errors
<1>18. CASE FreeEnd
  BY <1>1, <1>18 DEF FreeEnd, TypeOK, schedVars, seqVars, errors
<1>19. CASE UNCHANGED vars
  BY <1>1, <1>19 DEF vars, TypeOK, schedVars, seqVars, errors
<1> QED BY <1>2, <1>3, <1>4, <1>5, <1>6, <1>7, <1>8, <1>10, <1>11, <1>12,
           <1>14, <1>15, <1>16, <1>17, <1>18, <1>19
        DEF Next, Engine, Schedule, Step

-----------------------------------------------------------------------------
(* Queues and tables.                                                      *)

Service == NothingIgnored /\ ReserveLoop /\ AbsentNowhere /\ BlocksFollowService

\* The call of one sequence leaves the tables of the others alone; after
\* allocate or append the sequence has a table, after free it has none.
LEMMA TablesAfterTake ==
    ASSUME BEInv, NEW id \in SeqIds, NEW n \in Nat, n <= Len(free_blocks), Takes(id, n),
           n # 0 \/ block_tables[id] # <<>>
    PROVE  /\ block_tables'[id] # <<>>
           /\ \A s \in SeqIds \ {id} : block_tables'[s] = block_tables[s]
<1>1. /\ free_blocks \in Seq(Blocks) /\ NoRepeats(free_blocks)
      /\ block_tables \in [SeqIds -> Seq(Blocks)]
  BY DEF BEInv, BETypeOK, BlocksConserved
<1>2. Popped(n) \in Seq(Blocks) /\ Len(Popped(n)) = n
  <2>1. Popped(n) \in Seq(Blocks) /\ DOMAIN Popped(n) = 1..n
    BY <1>1, PoppedBlocks DEF Popped
  <2> QED BY <2>1, LenProperties
<1>3. Len(block_tables[id] \o Popped(n)) = Len(block_tables[id]) + n
  <2>1. block_tables[id] \in Seq(Blocks)
    BY <1>1
  <2> QED BY <1>2, <2>1
<1>4. Len(block_tables[id]) + n > 0
  BY <1>1, EmptySeq, LenProperties
<1>5. Len(<<>>) = 0
  BY EmptySeq
<1> QED BY <1>1, <1>3, <1>4, <1>5 DEF Takes

LEMMA TablesAfterFree ==
    ASSUME BEInv, NEW id \in SeqIds, FreeSequence(id)
    PROVE  /\ block_tables'[id] = <<>>
           /\ \A s \in SeqIds \ {id} : block_tables'[s] = block_tables[s]
BY DEF BEInv, BETypeOK, FreeSequence

\* A step that moves nobody.
LEMMA QuietStep ==
    ASSUME PagedInv, phase' = phase \/ phase # "reserve",
           UNCHANGED <<block_tables, waiting, running, popped, reserved, did_ignore>>,
           \A s \in SeqIds : state'[s] \in {"FinishedIgnored", "Absent"} => state'[s] = state[s]
    PROVE  Service'
<1>1. Queued' = Queued /\ InService' = InService
  BY DEF Queued, InService
<1>2. NothingIgnored' /\ ReserveLoop'
  BY DEF PagedInv, NothingIgnored, ReserveLoop
<1>3. AbsentNowhere'
  BY <1>1 DEF PagedInv, AbsentNowhere
<1>4. BlocksFollowService'
  BY <1>1, <1>2 DEF PagedInv, NothingIgnored, BlocksFollowService
<1> QED BY <1>2, <1>3, <1>4 DEF Service

\* A new request joins the end of the waiting queue.
LEMMA AddSeqService ==
    ASSUME PagedInv, NEW s \in SeqIds, AddSeq(s)
    PROVE  Service'
<1>1. waiting \in Seq(SeqIds) /\ NoRepeats(waiting) /\ s \notin Queued \cup InService
  BY DEF PagedInv, TypeOK, BlocksFollowService, AbsentNowhere, AddSeq
<1>2. waiting' = waiting \o <<s>>
  BY <1>1, AppendIsConcat DEF AddSeq
<1>3. NoRepeats(waiting') /\ Queued' = Queued \cup {s}
  <2>1. <<s>> \in Seq(SeqIds) /\ Items(<<s>>) = {s} /\ NoRepeats(<<s>>)
    BY SingleItem
  <2>2. Items(waiting) \cap Items(<<s>>) = {}
    BY <1>1, <2>1 DEF Queued
  <2>3. NoRepeats(waiting \o <<s>>)
    BY <1>1, <2>1, <2>2, ConcatNoRepeats
  <2>4. Items(waiting \o <<s>>) = Items(waiting) \cup Items(<<s>>)
    <3>1. waiting \in Seq(SeqIds) /\ <<s>> \in Seq(SeqIds)
      BY <1>1, <2>1
    <3> QED BY ONLY <3>1, ConcatItems
  <2> QED BY <1>2, <2>1, <2>3, <2>4 DEF Queued
<1>4. InService' = InService /\ block_tables' = block_tables
  BY DEF InService, AddSeq, beVars
<1>5. /\ state' = [state EXCEPT ![s] = "Waiting"] /\ state \in [SeqIds -> States]
      /\ UNCHANGED <<phase, running, popped, reserved, did_ignore>>
  BY DEF PagedInv, TypeOK, AddSeq
<1>6. NothingIgnored' /\ ReserveLoop'
  BY <1>5 DEF PagedInv, NothingIgnored, ReserveLoop
<1>7. AbsentNowhere'
  BY <1>3, <1>4, <1>5 DEF PagedInv, AbsentNowhere
<1>8. BlocksFollowService'
  BY <1>1, <1>3, <1>4, <1>5, <1>6 DEF PagedInv, NothingIgnored, BlocksFollowService
<1> QED BY <1>6, <1>7, <1>8 DEF Service

\* A sequence is admitted: it leaves the queue and gets a table.
LEMMA AdmitService ==
    ASSUME PagedInv, Admit
    PROVE  Service'
<1> DEFINE s == Head(waiting)
           n == LogicalBlocks(toks[s])
<1>1. /\ s \in SeqIds /\ s \in Queued /\ CallAllocate(s, n) /\ n \in 1..Cardinality(Blocks)
      /\ ~did_ignore' /\ state' = [state EXCEPT ![s] = "RunningPrompt"]
  BY AdmitAllocates
<1>2. waiting \in Seq(SeqIds) /\ waiting # <<>> /\ NoRepeats(waiting)
  BY DEF PagedInv, TypeOK, BlocksFollowService, Admit, CanAdmit
<1>3. /\ phase = "admit" /\ running' = running \cup {s} /\ waiting' = Tail(waiting)
      /\ UNCHANGED <<phase, popped, reserved>>
  BY DEF Admit
<1>4. NoRepeats(waiting') /\ Queued' = Queued \ {s}
  BY <1>2, <1>3, TailItems DEF Queued
<1>5. InService' = InService \cup {s}
  BY <1>3 DEF InService
<1>6. /\ block_tables'[s] # <<>>
      /\ \A t \in SeqIds \ {s} : block_tables'[t] = block_tables[t]
  <2>1. n \in Nat /\ n # 0
    BY <1>1, FS_CardinalityType, BlocksAssumption
  <2>2. n <= Len(free_blocks) /\ Takes(s, n)
    BY <1>1, CallsTakeOrGive DEF PagedInv
  <2> HIDE DEF s, n
  <2> QED BY <1>1, <2>1, <2>2, TablesAfterTake DEF PagedInv
<1> HIDE DEF s, n
<1>7. NothingIgnored' /\ ReserveLoop'
  BY <1>1, <1>3 DEF PagedInv, TypeOK, NothingIgnored, ReserveLoop
<1>8. AbsentNowhere'
  BY <1>1, <1>4, <1>5 DEF PagedInv, TypeOK, AbsentNowhere
<1>9. BlocksFollowService'
  BY <1>1, <1>3, <1>4, <1>5, <1>6, <1>7
     DEF PagedInv, NothingIgnored, ReserveLoop, BlocksFollowService
<1> QED BY <1>7, <1>8, <1>9 DEF Service

\* The reserve loop takes a sequence out of the running queue.
LEMMA ReservePopService ==
    ASSUME PagedInv, ReservePop
    PROVE  Service'
<1>1. PICK s \in running : popped' = {s} /\ running' = running \ {s}
  BY DEF ReservePop
<1>2. /\ popped = {} /\ phase = "reserve"
      /\ UNCHANGED <<phase, waiting, reserved, did_ignore, block_tables, state>>
  BY DEF ReservePop, beVars, seqVars
<1>3. Queued' = Queued /\ InService' = InService
  BY <1>1, <1>2 DEF Queued, InService
<1>4. NothingIgnored' /\ ReserveLoop' /\ AbsentNowhere'
  BY <1>1, <1>2, <1>3 DEF PagedInv, NothingIgnored, ReserveLoop, AbsentNowhere
<1>5. BlocksFollowService'
  BY <1>1, <1>2, <1>3 DEF PagedInv, BlocksFollowService
<1> QED BY <1>4, <1>5 DEF Service

\* The sequence got its slot.
LEMMA ReserveSlotService ==
    ASSUME PagedInv, ReserveSlot
    PROVE  Service'
<1>1. PICK s \in popped : /\ s \in SeqIds /\ popped = {s}
                         /\ BlocksToAdd(toks[s]) \in 0..1
                         /\ CallAppend(s, BlocksToAdd(toks[s]))
                         /\ reserved' = reserved \cup {s}
  BY SlotAppends
<1>2. /\ popped' = {} /\ phase = "reserve"
      /\ UNCHANGED <<phase, waiting, running, did_ignore, state>>
  BY DEF ReserveSlot, seqVars
<1>3. Queued' = Queued /\ InService' = InService
  BY <1>1, <1>2 DEF Queued, InService
<1>4. /\ block_tables'[s] # <<>> /\ block_tables[s] # <<>>
      /\ \A t \in SeqIds \ {s} : block_tables'[t] = block_tables[t]
  <2> DEFINE n == BlocksToAdd(toks[s])
  <2>1. n \in Nat /\ n <= Len(free_blocks) /\ Takes(s, n) /\ block_tables[s] # <<>>
    BY <1>1, CallsTakeOrGive DEF PagedInv, CallAppend
  <2> HIDE DEF n
  <2> QED BY <1>1, <2>1, TablesAfterTake DEF PagedInv
<1>5. NothingIgnored' /\ ReserveLoop' /\ AbsentNowhere'
  BY <1>2, <1>3 DEF PagedInv, NothingIgnored, ReserveLoop, AbsentNowhere
<1>6. running' \cap reserved' = {}
  BY <1>1, <1>2 DEF PagedInv, BlocksFollowService
<1>7. BlocksFollowService'
  BY <1>1, <1>2, <1>3, <1>4, <1>6 DEF PagedInv, BlocksFollowService
<1> QED BY <1>5, <1>7 DEF Service

\* A preempted sequence goes from service to the front of the queue, and its
\* table goes.
LEMMA PreemptMoves ==
    ASSUME PagedInv, NEW v \in SeqIds, v \in InService, Preempt(v)
    PROVE  /\ NoRepeats(waiting') /\ Queued' = Queued \cup {v}
           /\ block_tables'[v] = <<>>
           /\ \A s \in SeqIds \ {v} : block_tables'[s] = block_tables[s]
           /\ \A s \in SeqIds : state'[s] = IF s = v THEN "Waiting" ELSE state[s]
<1>1. waiting \in Seq(SeqIds) /\ NoRepeats(waiting) /\ v \notin Items(waiting)
  BY DEF PagedInv, TypeOK, BlocksFollowService, Queued
<1>2. <<v>> \in Seq(SeqIds) /\ Items(<<v>>) = {v} /\ NoRepeats(<<v>>)
  BY SingleItem
<1>3. Items(<<v>>) \cap Items(waiting) = {}
  BY <1>1, <1>2
<1>4. NoRepeats(<<v>> \o waiting)
  BY <1>1, <1>2, <1>3, ConcatNoRepeats
<1>5. Items(<<v>> \o waiting) = Items(<<v>>) \cup Items(waiting)
  <2>1. PICK one \in Seq(SeqIds) : one = <<v>>
    BY <1>2
  <2>2. Items(one \o waiting) = Items(one) \cup Items(waiting)
    BY <1>1, ConcatItems
  <2> QED BY <2>1, <2>2
<1>6. waiting' = <<v>> \o waiting /\ FreeSequence(v)
  BY DEF Preempt
<1>7. \A s \in SeqIds : state'[s] = IF s = v THEN "Waiting" ELSE state[s]
  BY DEF Preempt, PagedInv, TypeOK
<1> QED BY <1>2, <1>4, <1>5, <1>6, <1>7, TablesAfterFree DEF PagedInv, Queued

\* The oldest running sequence is preempted.
LEMMA PreemptOldestService ==
    ASSUME PagedInv, PreemptOldest
    PROVE  Service'
<1>1. PICK v \in running : Preempt(v) /\ running' = running \ {v}
  BY DEF PreemptOldest
<1>2. phase = "reserve" /\ UNCHANGED <<phase, popped, reserved, did_ignore>>
  BY DEF PreemptOldest
<1>3. v \in SeqIds /\ v \in InService /\ v \notin popped /\ v \notin reserved
  BY DEF PagedInv, TypeOK, InService, BlocksFollowService
<1>4. /\ NoRepeats(waiting') /\ Queued' = Queued \cup {v}
      /\ block_tables'[v] = <<>>
      /\ \A s \in SeqIds \ {v} : block_tables'[s] = block_tables[s]
      /\ \A s \in SeqIds : state'[s] = IF s = v THEN "Waiting" ELSE state[s]
  BY <1>1, <1>3, PreemptMoves
<1>5. InService' = InService \ {v}
  BY <1>1, <1>2, <1>3 DEF InService
<1>6. NothingIgnored' /\ ReserveLoop' /\ AbsentNowhere'
  BY <1>2, <1>4, <1>5 DEF PagedInv, NothingIgnored, ReserveLoop, AbsentNowhere
<1>7. BlocksFollowService'
  BY <1>1, <1>2, <1>3, <1>4, <1>5, <1>6 DEF PagedInv, NothingIgnored, BlocksFollowService
<1> QED BY <1>6, <1>7 DEF Service

\* The sequence preempts itself.
LEMMA PreemptSelfService ==
    ASSUME PagedInv, PreemptSelf
    PROVE  Service'
<1>1. PICK v \in popped : Preempt(v)
  BY DEF PreemptSelf
<1>2. /\ phase = "reserve" /\ running = {} /\ popped' = {}
      /\ UNCHANGED <<phase, running, reserved, did_ignore>>
  BY DEF PreemptSelf
<1>3. v \in SeqIds /\ v \in InService /\ popped = {v} /\ v \notin reserved
  BY DEF PagedInv, TypeOK, InService, BlocksFollowService, ReserveLoop
<1>4. /\ NoRepeats(waiting') /\ Queued' = Queued \cup {v}
      /\ block_tables'[v] = <<>>
      /\ \A s \in SeqIds \ {v} : block_tables'[s] = block_tables[s]
      /\ \A s \in SeqIds : state'[s] = IF s = v THEN "Waiting" ELSE state[s]
  BY <1>1, <1>3, PreemptMoves
<1>5. InService' = InService \ {v}
  BY <1>2, <1>3 DEF InService
<1>6. NothingIgnored' /\ ReserveLoop' /\ AbsentNowhere'
  BY <1>2, <1>4, <1>5 DEF PagedInv, NothingIgnored, ReserveLoop, AbsentNowhere
<1>7. BlocksFollowService'
  BY <1>2, <1>3, <1>4, <1>5, <1>6 DEF PagedInv, NothingIgnored, BlocksFollowService
<1> QED BY <1>6, <1>7 DEF Service

\* The reserve loop ends: what kept its place is running again.
LEMMA ReserveEndService ==
    ASSUME PagedInv, ReserveEnd
    PROVE  Service'
<1>1. /\ popped = {} /\ running = {} /\ running' = reserved /\ reserved' = {}
      /\ UNCHANGED <<waiting, popped, did_ignore, block_tables>>
  BY DEF ReserveEnd, beVars
<1>2. \A s \in SeqIds : state'[s] \in {"Absent", "FinishedIgnored"} => state'[s] = state[s]
  BY DEF ReserveEnd
<1>3. Queued' = Queued /\ InService' = InService
  BY <1>1 DEF Queued, InService
<1>4. NothingIgnored' /\ ReserveLoop' /\ AbsentNowhere'
  BY <1>1, <1>2, <1>3 DEF PagedInv, NothingIgnored, ReserveLoop, AbsentNowhere
<1>5. BlocksFollowService'
  BY <1>1, <1>3, <1>4 DEF PagedInv, NothingIgnored, BlocksFollowService
<1> QED BY <1>4, <1>5 DEF Service

\* A finished sequence leaves with its table.
LEMMA FreeFinishedService ==
    ASSUME PagedInv, FreeFinished
    PROVE  Service'
<1>1. PICK s \in running : FreeSequence(s) /\ running' = running \ {s}
  BY DEF FreeFinished, Finished
<1>2. /\ phase = "free"
      /\ UNCHANGED <<phase, waiting, popped, reserved, did_ignore, state>>
  BY DEF FreeFinished, seqVars
<1>3. s \in SeqIds /\ s \notin popped /\ s \notin reserved
  BY DEF PagedInv, TypeOK, BlocksFollowService
<1>4. /\ block_tables'[s] = <<>>
      /\ \A t \in SeqIds \ {s} : block_tables'[t] = block_tables[t]
  BY <1>1, <1>3, TablesAfterFree DEF PagedInv
<1>5. Queued' = Queued /\ InService' = InService \ {s}
  BY <1>1, <1>2, <1>3 DEF Queued, InService
<1>6. NothingIgnored' /\ ReserveLoop' /\ AbsentNowhere'
  BY <1>2, <1>5 DEF PagedInv, NothingIgnored, ReserveLoop, AbsentNowhere
<1>7. BlocksFollowService'
  BY <1>1, <1>2, <1>3, <1>4, <1>5, <1>6 DEF PagedInv, NothingIgnored, BlocksFollowService
<1> QED BY <1>6, <1>7 DEF Service

-----------------------------------------------------------------------------
(* The invariant.                                                          *)

LEMMA ServiceStep == PagedInv /\ [Next]_vars => Service'
<1> SUFFICES ASSUME PagedInv, [Next]_vars
             PROVE  Service'
  OBVIOUS
<1>1. CASE \E s \in SeqIds : AddSeq(s)
  BY <1>1, AddSeqService
<1>2. CASE Admit \/ ReservePop \/ ReserveSlot \/ PreemptOldest \/ PreemptSelf \/ ReserveEnd
           \/ FreeFinished
  BY <1>2, AdmitService, ReservePopService, ReserveSlotService, PreemptOldestService,
     PreemptSelfService, ReserveEndService, FreeFinishedService
<1>3. CASE SetTerminate \/ UNCHANGED vars
  <2>1. UNCHANGED <<beVars, phase, schedVars, seqVars>>
    BY <1>3 DEF SetTerminate, vars
  <2>2. UNCHANGED <<phase, state, block_tables, waiting, running, popped, reserved, did_ignore>>
    BY <2>1 DEF beVars, schedVars, seqVars
  <2> QED BY <2>2, QuietStep
<1>4. CASE StartSchedule
  <2>1. /\ phase = "top" /\ ~did_ignore /\ ~did_ignore'
        /\ UNCHANGED <<state, block_tables, waiting, running, popped, reserved>>
    BY <1>4 DEF StartSchedule, beVars, seqVars, PagedInv, NothingIgnored
  <2>2. did_ignore' = did_ignore
    BY <1>4 DEF StartSchedule, PagedInv, NothingIgnored, TypeOK
  <2> QED BY <2>1, <2>2, QuietStep
<1>5. CASE AdmitEnd \/ FreeEnd
  <2>1. /\ phase # "reserve"
        /\ UNCHANGED <<state, block_tables, waiting, running, popped, reserved, did_ignore>>
    BY <1>5 DEF AdmitEnd, FreeEnd, beVars, schedVars, seqVars
  <2> QED BY <2>1, QuietStep
<1>6. CASE Step
  <2>1. /\ phase = "step"
        /\ UNCHANGED <<block_tables, waiting, running, popped, reserved, did_ignore>>
    BY <1>6 DEF Step, StepOk, StepSampleError, StepForwardError, stepRest, beVars, schedVars
  <2>2. \A P, F : \A s \in SeqIds :
           StatesAfter(P, F)[s] \in {"Done", "Canceled", state[s]}
    BY DEF StatesAfter
  <2>3. \A s \in SeqIds : state'[s] \in {"Done", "Canceled", "Error", state[s]}
    BY <1>6, <2>2 DEF Step, StepOk, StepSampleError, StepForwardError, StatesAfter
  <2> QED BY <2>1, <2>3, QuietStep
<1> QED BY <1>1, <1>2, <1>3, <1>4, <1>5, <1>6 DEF Next, Engine, Schedule

LEMMA PagedInvInit == Init => PagedInv
<1> SUFFICES ASSUME Init
             PROVE  PagedInv
  OBVIOUS
<1>1. BEInv
  BY InitInv DEF Init
<1>2. TypeOK
  <2>1. PromptLen \in [SeqIds -> Nat \ {0}]
    <3>1. 1..MaxSeqLen \subseteq Nat \ {0}
      BY PagedAssumption
    <3> QED BY <3>1, PagedAssumption
  <2>2. <<>> \in Seq(SeqIds)
    BY EmptySeq
  <2> QED BY <1>1, <2>1, <2>2 DEF BEInv, Init, TypeOK, States
<1>3. Queued = {} /\ InService = {} /\ NoRepeats(waiting)
  BY DEF Init, Queued, InService, Items, NoRepeats
<1>4. BlocksFollowService
  BY <1>3 DEF Init, BEInit, BlocksFollowService
<1> QED BY <1>1, <1>2, <1>3, <1>4
        DEF PagedInv, Init, NothingIgnored, ReserveLoop, AbsentNowhere

LEMMA PagedInvNext == PagedInv /\ [Next]_vars => PagedInv'
<1>1. PagedInv => BEInv
  BY DEF PagedInv
<1> QED BY <1>1, LegalCalls, NextInv, TypeStep, ServiceStep DEF PagedInv, Service

LEMMA PagedInvariance == Spec => []PagedInv
BY PagedInvInit, PagedInvNext, PTL DEF Spec

(* For any instance the state of the scheduler keeps its types.            *)
THEOREM PagedTypeCorrect == Spec => []TypeOK
<1>1. PagedInv => TypeOK
  BY DEF PagedInv
<1> QED BY <1>1, PagedInvariance, PTL

(* For any instance a sequence is in at most one queue and holds blocks    *)
(* exactly while it is in service.                                         *)
THEOREM ServiceHoldsBlocks == Spec => []BlocksFollowService
<1>1. PagedInv => BlocksFollowService
  BY DEF PagedInv
<1> QED BY <1>1, PagedInvariance, PTL

(* For any instance schedule() and free_finished_sequence_groups call the  *)
(* block engine as its panics require: no allocation over a table, no pop  *)
(* of an empty free list, no double free.                                  *)
THEOREM LegalCaller == Spec => MakesLegalCalls
<1>1. Init => BEInit
  BY DEF Init
<1> QED BY <1>1, PagedInvariance, LegalCalls, PTL DEF Spec, MakesLegalCalls, BESpec

(* For any instance every block is in exactly one place at any time,       *)
(* whatever preemptions, failed steps and cancellations happen.            *)
THEOREM SystemConservation == Spec => []BlocksConserved
BY LegalCaller, Conservation, PTL DEF MakesLegalCalls

(* For any instance the scheduler on its block engine implements the       *)
(* abstract block pool.                                                    *)
THEOREM SystemRefinement == Spec => IsBlockPool
BY LegalCaller, Refinement, PTL DEF MakesLegalCalls

-----------------------------------------------------------------------------
(***************************************************************************)
(* The tokens, for any block size, any lengths and limits, any pool and    *)
(* any number of failed steps: every step has a slot for each token it     *)
(* writes, block tables exceed the logical blocks by no more than the      *)
(* failed steps, completion steps find their cache, batches are uniform,   *)
(* and no sequence passes its limits by more than the token is_done does   *)
(* not see; and the number in service stays below its maximum.             *)
(*                                                                         *)
(* TokenInv is inductive together with PagedInv.  It tells apart the       *)
(* sequences that have a slot for the next token (Fed) from the others.    *)
(***************************************************************************)

Size(s) == Len(block_tables[s])
FailedSteps == sampleErrors + forwardErrors

\* The batch schedule() has put together, and who has a slot for the next token.
Batch == IF phase \in {"admit", "step"} THEN scheduled ELSE {}
Fed   == reserved \cup Batch

\* A fed sequence has a free slot, the others have one for what they have.
Slots ==
    /\ \A s \in InService : toks[s] <= BlockSize * Size(s)
    /\ \A s \in Fed : toks[s] + 1 <= BlockSize * Size(s)

\* A sequence that is not fed lacks the block for which it will ask.
Surplus ==
    \A s \in InService :
        /\ Size(s) <= LogicalBlocks(toks[s]) + FailedSteps
        /\ s \notin Fed /\ toks[s] % BlockSize = 0 =>
              Size(s) <= toks[s] \div BlockSize + FailedSteps

Uniform ==
    /\ phase = "admit" => \A s \in scheduled : state[s] = "RunningPrompt"
    /\ BatchIsUniform

\* Only the prompts of a batch under way lack keys and values.
Prompted(s) == s \in Batch /\ state[s] = "RunningPrompt"
Caches ==
    forwardErrors = 0 => \A s \in InService : cached[s] >= toks[s] - 1 \/ Prompted(s)

\* A sequence that has ended is out of the queues, or is about to be freed.
Ended(s) == /\ state[s] \in {"Done", "Canceled"}
            /\ s \notin Queued
            /\ s \in InService => phase = "free"
Limits ==
    forwardErrors = 0 =>
        \A s \in SeqIds : \A limit \in {MaxLen[s], MaxSeqLen} :
            \/ toks[s] <= PromptLen[s] + limit
            \/ toks[s] = PromptLen[s] + limit + 1 /\ Ended(s)

TokenInv == Batch \subseteq running /\ Slots /\ Surplus /\ Uniform /\ Caches /\ Limits

-----------------------------------------------------------------------------
(* Tokens and blocks.                                                      *)

\* Quotient and remainder.
LEMMA Division ==
  ASSUME NEW n \in Nat
  PROVE  /\ n \div BlockSize \in Nat /\ n % BlockSize \in 0..(BlockSize - 1)
         /\ n = BlockSize * (n \div BlockSize) + (n % BlockSize)
<1>1. BlockSize \in Nat /\ BlockSize > 0
  BY PagedAssumption
<1>2. n % BlockSize \in 0..(BlockSize - 1)
  BY <1>1
<1>3. n = BlockSize * (n \div BlockSize) + (n % BlockSize)
  BY <1>1
<1>4. n \div BlockSize \in Nat
  BY <1>1
<1> QED
  BY <1>2, <1>3, <1>4

LEMMA Multiples ==
  ASSUME NEW b \in Nat \ {0}, NEW k \in Int, NEW m \in Int
  PROVE  /\ k < m => b * k + b <= b * m
         /\ k <= m => b * k <= b * m
<1>1. ASSUME k <= m PROVE b * k <= b * m
  <2>1. m - k \in Nat /\ b * m = b * k + b * (m - k)
    BY <1>1
  <2>2. b * (m - k) >= 0
    BY <2>1
  <2> QED
    BY <2>1, <2>2
<1>2. ASSUME k < m PROVE b * k + b <= b * m
  <2>1. m - k - 1 \in Nat /\ b * m = b * k + b + b * (m - k - 1)
    BY <1>2
  <2>2. b * (m - k - 1) >= 0
    BY <2>1
  <2> QED
    BY <2>1, <2>2
<1> QED
  BY <1>1, <1>2

\* The next token is in the same logical block, or opens one.
LEMMA NextQuotient ==
  ASSUME NEW n \in Nat
  PROVE  (n + 1) \div BlockSize = n \div BlockSize + (IF (n + 1) % BlockSize = 0 THEN 1 ELSE 0)
<1> DEFINE q == n \div BlockSize
           r == n % BlockSize
           p == (n + 1) \div BlockSize
           t == (n + 1) % BlockSize
<1>1. /\ q \in Nat /\ r \in 0..(BlockSize - 1) /\ n = BlockSize * q + r
      /\ p \in Nat /\ t \in 0..(BlockSize - 1) /\ n + 1 = BlockSize * p + t
  BY Division
<1>2. BlockSize \in Nat \ {0}
  BY PagedAssumption
<1> HIDE DEF q, r, p, t
<1>3. BlockSize * p + t = BlockSize * q + r + 1
  BY <1>1
<1>4. ~(p < q)
  <2>1. ASSUME p < q PROVE BlockSize * p + BlockSize <= BlockSize * q
    BY <1>1, <1>2, <2>1, Multiples
  <2> QED
    BY <1>1, <1>2, <1>3, <2>1
<1>5. ~(q + 1 < p)
  <2>1. q + 1 \in Int /\ BlockSize * (q + 1) = BlockSize * q + BlockSize
    BY <1>1, <1>2
  <2>2. ASSUME q + 1 < p PROVE BlockSize * (q + 1) + BlockSize <= BlockSize * p
    BY <1>1, <1>2, <2>1, <2>2, Multiples
  <2> QED
    BY <1>1, <1>2, <1>3, <2>1, <2>2
<1>6. p = q \/ p = q + 1
  BY <1>1, <1>4, <1>5
<1>7. CASE p = q
  BY <1>1, <1>2, <1>3, <1>7 DEF p, q, t
<1>8. CASE p = q + 1
  <2>1. BlockSize * p = BlockSize * q + BlockSize
    BY <1>1, <1>2, <1>8
  <2>2. t = 0
    BY <1>1, <1>2, <1>3, <2>1
  <2> QED
    BY <1>8, <2>2 DEF p, q, t
<1> QED
  BY <1>6, <1>7, <1>8

\* Room for one token more: in the last block, in a new one, after `allocate`.
LEMMA Room ==
  ASSUME NEW n \in Nat, NEW k \in Nat
  PROVE  /\ n <= BlockSize * k /\ n % BlockSize # 0 => n + 1 <= BlockSize * k
         /\ n <= BlockSize * k => n + 1 <= BlockSize * (k + 1)
         /\ n + 1 <= BlockSize * (n \div BlockSize + 1)
<1>1. BlockSize \in Nat \ {0} /\ BlockSize * k \in Nat
  BY PagedAssumption
<1>2. BlockSize * (k + 1) = BlockSize * k + BlockSize
  BY <1>1
<1> DEFINE q == n \div BlockSize
           r == n % BlockSize
<1>3. q \in Nat /\ r \in 0..(BlockSize - 1) /\ n = BlockSize * q + r
  BY Division
<1> HIDE DEF q, r
<1>4. BlockSize * (q + 1) = BlockSize * q + BlockSize
  BY <1>1, <1>3
<1>5. ASSUME n = BlockSize * k PROVE r = 0
  <2>1. BlockSize * q + r = BlockSize * k
    BY <1>3, <1>5
  <2>2. ASSUME q < k PROVE BlockSize * q + BlockSize <= BlockSize * k
    BY <1>1, <1>3, <2>2, Multiples
  <2>3. ASSUME k < q PROVE BlockSize * k + BlockSize <= BlockSize * q
    BY <1>1, <1>3, <2>3, Multiples
  <2>4. q = k
    BY <1>1, <1>3, <2>1, <2>2, <2>3
  <2> QED
    BY <1>1, <1>3, <2>1, <2>4
<1>6. n <= BlockSize * k /\ r # 0 => n + 1 <= BlockSize * k
  BY <1>1, <1>5
<1>7. n <= BlockSize * k => n + 1 <= BlockSize * (k + 1)
  BY <1>1, <1>2
<1>8. n + 1 <= BlockSize * (q + 1)
  BY <1>1, <1>3, <1>4
<1> QED
  BY <1>6, <1>7, <1>8 DEF q, r

\* A table grows by what is taken.
LEMMA TakeSizes ==
  ASSUME BEInv, NEW id \in SeqIds, NEW n \in Nat, n <= Len(free_blocks), Takes(id, n)
  PROVE  /\ Size(id)' = Size(id) + n
         /\ \A s \in SeqIds \ {id} : block_tables'[s] = block_tables[s]
<1>1. /\ free_blocks \in Seq(Blocks) /\ NoRepeats(free_blocks)
      /\ block_tables \in [SeqIds -> Seq(Blocks)]
  BY DEF BEInv, BETypeOK, BlocksConserved
<1>2. Popped(n) \in Seq(Blocks) /\ Len(Popped(n)) = n
  <2>1. Popped(n) \in Seq(Blocks) /\ DOMAIN Popped(n) = 1..n
    BY <1>1, PoppedBlocks DEF Popped
  <2> QED BY <2>1, LenProperties
<1>3. Len(block_tables[id] \o Popped(n)) = Len(block_tables[id]) + n
  <2>1. block_tables[id] \in Seq(Blocks)
    BY <1>1
  <2> QED BY <1>2, <2>1
<1> QED
  BY <1>1, <1>3 DEF Takes, Size

-----------------------------------------------------------------------------
(* Slots and blocks.                                                       *)

LEMMA Counts ==
  ASSUME PagedInv
  PROVE  /\ \A s \in SeqIds : Size(s) \in Nat /\ toks[s] \in Nat
         /\ FailedSteps \in Nat
         /\ InService \subseteq SeqIds /\ running \subseteq InService /\ reserved \subseteq InService
<1>1. \A s \in SeqIds : block_tables[s] \in Seq(Blocks)
  BY DEF PagedInv, BEInv, BETypeOK
<1>2. \A s \in SeqIds : Size(s) \in Nat
  BY <1>1, LenProperties DEF Size
<1> QED
  BY <1>2 DEF PagedInv, TypeOK, FailedSteps, InService

\* A step that takes no block and adds no token.
LEMMA QuietTokens ==
  ASSUME PagedInv, TokenInv, UNCHANGED <<toks, sampleErrors, forwardErrors>>,
         InService' \subseteq InService, Fed' = Fed, Fed' \subseteq InService',
         \A s \in InService' : block_tables'[s] = block_tables[s]
  PROVE  Slots' /\ Surplus'
<1>1. \A s \in InService' : Size(s)' = Size(s)
  BY DEF Size
<1>2. FailedSteps' = FailedSteps
  BY DEF FailedSteps
<1>3. Slots'
  BY <1>1 DEF TokenInv, Slots
<1>4. Surplus'
  BY <1>1, <1>2 DEF TokenInv, Surplus, LogicalBlocks
<1> QED
  BY <1>3, <1>4

\* An admitted sequence gets its logical blocks.
LEMMA AdmitTokens ==
  ASSUME PagedInv, TokenInv, Admit
  PROVE  Batch' \subseteq running' /\ Slots' /\ Surplus'
<1>0. PICK s \in SeqIds : s = Head(waiting)
  BY AdmitAllocates
<1> DEFINE n == LogicalBlocks(toks[s])
<1>1. /\ s \in Queued
      /\ CallAllocate(s, n)
      /\ n \in 1..Cardinality(Blocks)
      /\ scheduled' = scheduled \cup {s}
  BY <1>0, AdmitAllocates
<1>2. /\ phase = "admit" /\ running' = running \cup {s}
      /\ UNCHANGED <<phase, popped, reserved, toks, sampleErrors, forwardErrors>>
  BY <1>0 DEF Admit, errors
<1>3. BEInv /\ BlocksFollowService
  BY DEF PagedInv
<1>4. n \in Nat /\ n <= Len(free_blocks) /\ Takes(s, n)
  <2>1. toks[s] \in Nat
    BY <1>1, Counts
  <2>2. n \in Nat
    BY <2>1, BlockCounts
  <2>3. n <= Len(free_blocks) /\ Takes(s, n)
    BY <1>1, <1>3, CallsTakeOrGive
  <2> QED
    BY <2>2, <2>3
<1>5. s \notin InService /\ block_tables[s] = <<>>
  BY <1>1, <1>3 DEF BlocksFollowService, CallAllocate
<1>6. /\ Size(s)' = n
      /\ \A t \in SeqIds \ {s} : block_tables'[t] = block_tables[t]
  <2>1. Size(s) = 0
    BY <1>5, EmptySeq DEF Size
  <2>2. Size(s)' = Size(s) + n /\ \A t \in SeqIds \ {s} : block_tables'[t] = block_tables[t]
    BY <1>3, <1>4, TakeSizes
  <2> QED
    BY <1>4, <2>1, <2>2
<1>7. InService' = InService \cup {s} /\ Fed' = Fed \cup {s} /\ Batch' \subseteq running'
  BY <1>1, <1>2 DEF InService, Fed, Batch, TokenInv
<1>8. \A t \in InService : Size(t)' = Size(t)
  BY <1>5, <1>6, Counts DEF Size
<1>9. toks[s] + 1 <= BlockSize * n /\ toks[s] <= BlockSize * n /\ BlockSize * n \in Nat
  <2>1. toks[s] \in Nat
    BY <1>1, Counts
  <2>2. toks[s] + 1 <= BlockSize * n
    BY <2>1, Room DEF LogicalBlocks
  <2>3. BlockSize * n \in Nat
    BY <1>4, PagedAssumption
  <2> HIDE DEF n
  <2> QED
    BY <2>1, <2>2, <2>3
<1>10. FailedSteps' = FailedSteps /\ FailedSteps \in Nat
  BY <1>2, Counts DEF FailedSteps
<1>11. Fed \subseteq InService
  BY Counts DEF Fed, TokenInv
<1>12. Slots'
  <2> HIDE DEF n
  <2> QED
    BY <1>2, <1>6, <1>7, <1>8, <1>9, <1>11 DEF TokenInv, Slots
<1>13. Surplus'
  <2>1. ASSUME NEW t \in InService
        PROVE  /\ Size(t)' <= LogicalBlocks(toks[t]) + FailedSteps
               /\ t \notin Fed /\ toks[t] % BlockSize = 0 =>
                     Size(t)' <= toks[t] \div BlockSize + FailedSteps
    BY <1>8, <2>1 DEF TokenInv, Surplus
  <2>2. Size(s)' <= LogicalBlocks(toks[s]) + FailedSteps
    BY <1>4, <1>6, <1>10
  <2> QED
    BY <1>2, <1>7, <1>10, <2>1, <2>2 DEF Surplus, LogicalBlocks
<1> QED
  BY <1>7, <1>12, <1>13

\* The reserve loop adds a block when the last logical one is empty.
LEMMA ReserveTokens ==
  ASSUME PagedInv, TokenInv, ReserveSlot
  PROVE  Batch' \subseteq running' /\ Slots' /\ Surplus'
<1>1. PICK s \in popped : /\ s \in SeqIds /\ popped = {s}
                          /\ BlocksToAdd(toks[s]) \in 0..1
                          /\ CallAppend(s, BlocksToAdd(toks[s]))
                          /\ reserved' = reserved \cup {s}
  BY SlotAppends
<1> DEFINE n == BlocksToAdd(toks[s])
<1>2. /\ phase = "reserve" /\ popped' = {}
      /\ UNCHANGED <<phase, running, scheduled, toks, sampleErrors, forwardErrors>>
  BY DEF ReserveSlot, seqVars, errors
<1>3. /\ Size(s)' = Size(s) + n
      /\ \A t \in SeqIds \ {s} : block_tables'[t] = block_tables[t]
  <2>1. n \in Nat /\ n <= Len(free_blocks) /\ Takes(s, n)
    BY <1>1, CallsTakeOrGive DEF PagedInv
  <2> HIDE DEF n
  <2> QED
    BY <1>1, <2>1, TakeSizes DEF PagedInv
<1>4. /\ s \in InService /\ InService' = InService
      /\ s \notin Fed /\ Fed' = Fed \cup {s} /\ Batch' = {} /\ Fed \subseteq InService
  BY <1>1, <1>2 DEF InService, Fed, Batch, PagedInv, BlocksFollowService
<1>5. \A t \in InService \ {s} : Size(t)' = Size(t)
  BY <1>3, Counts DEF Size
<1>6. toks[s] \in Nat /\ Size(s) \in Nat /\ FailedSteps' = FailedSteps /\ FailedSteps \in Nat
  BY <1>1, <1>2, Counts DEF FailedSteps
<1>7. toks[s] <= BlockSize * Size(s)
  BY <1>4 DEF TokenInv, Slots
<1>8. toks[s] + 1 <= BlockSize * Size(s)'
  BY <1>3, <1>6, <1>7, Room DEF BlocksToAdd
<1>9. toks[s] <= BlockSize * Size(s)'
  <2>1. Size(s)' \in Nat
    BY <1>1, <1>3, <1>6
  <2>2. BlockSize * Size(s)' \in Nat
    BY <2>1, PagedAssumption
  <2> QED
    BY <1>6, <1>8, <2>2
<1>10. Slots'
  BY <1>2, <1>4, <1>5, <1>8, <1>9 DEF TokenInv, Slots
<1>11. Size(s)' <= LogicalBlocks(toks[s]) + FailedSteps
  <2>1. toks[s] \div BlockSize \in Nat
    BY <1>6, Division
  <2>2. CASE toks[s] % BlockSize = 0
    <3>1. Size(s) <= toks[s] \div BlockSize + FailedSteps
      BY <1>4, <2>2 DEF TokenInv, Surplus
    <3> QED
      BY <1>3, <1>6, <2>1, <2>2, <3>1 DEF LogicalBlocks, BlocksToAdd
  <2>3. CASE toks[s] % BlockSize # 0
    <3>1. Size(s) <= LogicalBlocks(toks[s]) + FailedSteps
      BY <1>4 DEF TokenInv, Surplus
    <3> QED
      BY <1>3, <1>6, <2>3, <3>1 DEF BlocksToAdd
  <2> QED
    BY <2>2, <2>3
<1>12. Surplus'
  <2>1. ASSUME NEW t \in InService \ {s}
        PROVE  /\ Size(t)' <= LogicalBlocks(toks[t]) + FailedSteps
               /\ t \notin Fed /\ toks[t] % BlockSize = 0 =>
                     Size(t)' <= toks[t] \div BlockSize + FailedSteps
    BY <1>5, <2>1 DEF TokenInv, Surplus
  <2> QED
    BY <1>2, <1>4, <1>6, <1>11, <2>1 DEF Surplus, LogicalBlocks
<1> QED
  BY <1>4, <1>10, <1>12

\* What a step does to the tokens: each sequence of the batch gets one, but for
\* those of a batch in which something failed.
LEMMA StepAdds ==
  ASSUME PagedInv, TokenInv, Step
  PROVE  /\ phase = "step" /\ phase' \in {"top", "free"}
         /\ UNCHANGED <<beVars, schedVars, terminate>>
         /\ \A s \in SeqIds : toks'[s] \in {toks[s], toks[s] + 1}
         /\ \A s \in SeqIds \ scheduled : toks'[s] = toks[s]
         /\ \/ FailedSteps' = FailedSteps /\ \A s \in scheduled : toks'[s] = toks[s] + 1
            \/ FailedSteps' = FailedSteps + 1
<1>0. scheduled \subseteq SeqIds /\ sampleErrors \in Nat /\ forwardErrors \in Nat
  BY DEF PagedInv, TypeOK
<1>1. UNCHANGED <<beVars, schedVars, terminate>>
  BY DEF Step, StepOk, StepSampleError, StepForwardError, stepRest
<1>2. CASE StepOk
  BY <1>0, <1>1, <1>2 DEF StepOk, TokensAdded, FailedSteps, errors
<1>3. CASE StepSampleError
  <2>1. PICK P \in SUBSET scheduled : toks' = TokensAdded(P)
    BY <1>3 DEF StepSampleError
  <2> QED
    BY <1>0, <1>1, <1>3, <2>1 DEF StepSampleError, TokensAdded, FailedSteps
<1>4. CASE StepForwardError
  <2>1. \/ UNCHANGED toks
        \/ \E P \in SUBSET scheduled : toks' = TokensAdded(P)
    BY <1>4 DEF StepForwardError
  <2>2. \A s \in SeqIds : toks'[s] \in {toks[s], toks[s] + 1}
    BY <2>1 DEF TokensAdded
  <2>3. \A s \in SeqIds \ scheduled : toks'[s] = toks[s]
    BY <2>1 DEF TokensAdded
  <2> QED
    BY <1>0, <1>1, <1>4, <2>2, <2>3 DEF StepForwardError, FailedSteps
<1> QED
  BY <1>2, <1>3, <1>4 DEF Step

LEMMA StepTokens ==
  ASSUME PagedInv, TokenInv, Step
  PROVE  Batch' \subseteq running' /\ Slots' /\ Surplus'
<1>1. /\ phase = "step" /\ phase' \in {"top", "free"}
      /\ UNCHANGED <<block_tables, running, popped, reserved>>
      /\ reserved = {}
  BY StepAdds DEF beVars, schedVars, PagedInv, ReserveLoop
<1>2. Batch = scheduled /\ Fed = scheduled /\ Batch' = {} /\ Fed' = {} /\ InService' = InService
  BY <1>1 DEF Batch, Fed, InService
<1>3. \A s \in SeqIds : Size(s)' = Size(s)
  BY <1>1 DEF Size
<1>4. ASSUME NEW s \in InService
      PROVE  /\ toks'[s] <= BlockSize * Size(s)
             /\ Size(s) <= LogicalBlocks(toks'[s]) + FailedSteps'
             /\ toks'[s] % BlockSize = 0 => Size(s) <= toks'[s] \div BlockSize + FailedSteps'
  <2>1. /\ s \in SeqIds /\ toks[s] \in Nat /\ Size(s) \in Nat /\ FailedSteps \in Nat
        /\ toks[s] \div BlockSize \in Nat
    BY Counts, Division
  <2>2. /\ toks[s] <= BlockSize * Size(s)
        /\ s \in scheduled => toks[s] + 1 <= BlockSize * Size(s)
        /\ Size(s) <= toks[s] \div BlockSize + 1 + FailedSteps
        /\ s \notin scheduled /\ toks[s] % BlockSize = 0 =>
              Size(s) <= toks[s] \div BlockSize + FailedSteps
    <3>1. Size(s) <= LogicalBlocks(toks[s]) + FailedSteps
      BY DEF TokenInv, Surplus
    <3> QED
      BY <1>2, <2>1, <3>1 DEF TokenInv, Slots, Surplus, LogicalBlocks
  <2>3. CASE toks'[s] = toks[s] + 1
    <3>1. s \in scheduled /\ FailedSteps' \in {FailedSteps, FailedSteps + 1}
      BY <2>1, <2>3, StepAdds
    <3>2. /\ toks'[s] \div BlockSize
                = toks[s] \div BlockSize + (IF toks'[s] % BlockSize = 0 THEN 1 ELSE 0)
      BY <2>1, <2>3, NextQuotient
    <3> QED
      BY <2>1, <2>2, <2>3, <3>1, <3>2 DEF LogicalBlocks
  <2>4. CASE toks'[s] = toks[s]
    <3>1. \/ s \notin scheduled /\ FailedSteps' = FailedSteps
          \/ FailedSteps' = FailedSteps + 1
      BY <2>1, <2>4, StepAdds
    <3> QED
      BY <2>1, <2>2, <2>4, <3>1 DEF LogicalBlocks
  <2> QED
    BY <2>1, <2>3, <2>4, StepAdds
<1>5. Slots'
  BY <1>2, <1>3, <1>4, Counts DEF Slots
<1>6. Surplus'
  BY <1>2, <1>3, <1>4, Counts DEF Surplus, LogicalBlocks
<1> QED
  BY <1>2, <1>5, <1>6

LEMMA SlotsStep ==
  ASSUME PagedInv, TokenInv, [Next]_vars
  PROVE  Batch' \subseteq running' /\ Slots' /\ Surplus'
<1>1. CASE Admit \/ ReserveSlot \/ Step
  BY <1>1, AdmitTokens, ReserveTokens, StepTokens
<1>2. ASSUME UNCHANGED <<toks, sampleErrors, forwardErrors>>,
             InService' \subseteq InService, Fed' = Fed, Batch' \subseteq running',
             \A s \in InService' : block_tables'[s] = block_tables[s], reserved' \subseteq InService'
      PROVE  Batch' \subseteq running' /\ Slots' /\ Surplus'
  <2>1. Fed' \subseteq InService'
    BY <1>2 DEF Fed, InService
  <2> QED
    BY <1>2, <2>1, QuietTokens
<1>3. ASSUME NEW s \in SeqIds, AddSeq(s)
      PROVE  Batch' \subseteq running' /\ Slots' /\ Surplus'
  <2>1. UNCHANGED <<phase, running, popped, reserved, scheduled, block_tables, toks,
                    sampleErrors, forwardErrors>>
    BY <1>3 DEF AddSeq, beVars, errors
  <2> QED
    BY <1>2, <2>1 DEF InService, Fed, Batch, TokenInv
<1>4. CASE SetTerminate \/ UNCHANGED vars
  <2>1. UNCHANGED <<phase, running, popped, reserved, scheduled, block_tables, toks,
                    sampleErrors, forwardErrors>>
    BY <1>4 DEF SetTerminate, vars, beVars, schedVars, seqVars, errors
  <2> QED
    BY <1>2, <2>1 DEF InService, Fed, Batch, TokenInv
<1>5. CASE StartSchedule
  <2>1. /\ phase = "top" /\ phase' = "admit" /\ scheduled' = {}
        /\ UNCHANGED <<running, popped, reserved, block_tables, toks, sampleErrors, forwardErrors>>
    BY <1>5 DEF StartSchedule, beVars, seqVars, errors
  <2> QED
    BY <1>2, <2>1 DEF InService, Fed, Batch
<1>6. CASE AdmitEnd
  <2>1. /\ phase = "admit" /\ phase' = IF scheduled # {} THEN "step" ELSE "reserve"
        /\ UNCHANGED <<running, popped, reserved, scheduled, block_tables, toks,
                       sampleErrors, forwardErrors>>
    BY <1>6 DEF AdmitEnd, beVars, schedVars, seqVars, errors, PagedInv, NothingIgnored
  <2> QED
    BY <1>2, <2>1 DEF InService, Fed, Batch, TokenInv
<1>7. CASE ReservePop
  <2>1. PICK s \in running : popped' = {s} /\ running' = running \ {s}
    BY <1>7 DEF ReservePop
  <2>2. /\ phase = "reserve" /\ popped = {}
        /\ UNCHANGED <<phase, reserved, scheduled, block_tables, toks, sampleErrors, forwardErrors>>
    BY <1>7 DEF ReservePop, beVars, seqVars, errors
  <2> QED
    BY <1>2, <2>1, <2>2 DEF InService, Fed, Batch
<1>8. CASE PreemptOldest \/ PreemptSelf
  <2>1. PICK v \in InService : /\ Preempt(v) /\ v \notin reserved
                               /\ running' \cup popped' = (running \cup popped) \ {v}
    BY <1>8 DEF PreemptOldest, PreemptSelf, PagedInv, BlocksFollowService, InService, ReserveLoop
  <2>2. /\ phase = "reserve" /\ UNCHANGED <<phase, reserved, toks, sampleErrors, forwardErrors>>
    BY <1>8 DEF PreemptOldest, PreemptSelf, errors
  <2>3. InService' = InService \ {v}
    BY <2>1, <2>2 DEF InService
  <2>4. \A s \in InService' : block_tables'[s] = block_tables[s]
    BY <2>1, <2>3, Counts, PreemptMoves
  <2> QED
    BY <1>2, <2>1, <2>2, <2>3, <2>4 DEF InService, Fed, Batch
<1>9. CASE ReserveEnd
  <2>1. /\ phase = "reserve" /\ popped = {} /\ running = {}
        /\ running' = reserved /\ scheduled' = reserved /\ reserved' = {}
        /\ phase' = IF reserved = {} THEN "free" ELSE "step"
        /\ UNCHANGED <<popped, block_tables, toks, sampleErrors, forwardErrors>>
    BY <1>9 DEF ReserveEnd, beVars, errors
  <2> QED
    BY <1>2, <2>1 DEF InService, Fed, Batch
<1>10. CASE FreeFinished
  <2>1. PICK v \in running : FreeSequence(v) /\ running' = running \ {v}
    BY <1>10 DEF FreeFinished, Finished
  <2>2. /\ phase = "free"
        /\ UNCHANGED <<phase, popped, reserved, scheduled, toks, sampleErrors, forwardErrors>>
    BY <1>10 DEF FreeFinished, seqVars, errors
  <2>3. InService' \subseteq InService \ {v}
    BY <2>1, <2>2 DEF InService, PagedInv, ReserveLoop
  <2>4. \A s \in InService' : block_tables'[s] = block_tables[s]
    BY <2>1, <2>3, Counts, TablesAfterFree DEF PagedInv
  <2>5. reserved' \subseteq InService' /\ Fed' = Fed /\ Batch' = {}
    BY <2>2 DEF InService, Fed, Batch
  <2> QED
    BY <1>2, <2>2, <2>3, <2>4, <2>5
<1>11. CASE FreeEnd
  <2>1. /\ phase = "free" /\ phase' = "top"
        /\ UNCHANGED <<running, popped, reserved, scheduled, block_tables, toks,
                       sampleErrors, forwardErrors>>
    BY <1>11 DEF FreeEnd, beVars, schedVars, seqVars, errors
  <2> QED
    BY <1>2, <2>1 DEF InService, Fed, Batch
<1> QED
  BY <1>1, <1>3, <1>4, <1>5, <1>6, <1>7, <1>8, <1>9, <1>10, <1>11
     DEF Next, Engine, Schedule

-----------------------------------------------------------------------------
(* Batches, caches and limits.                                             *)

\* What every action but a step leaves as it is.
Quiet ==
    /\ UNCHANGED <<toks, forwardErrors>>
    /\ \A s \in InService' : \/ s \in InService /\ cached'[s] = cached[s]
                             \/ Prompted(s)'
    /\ \A s \in InService' : Prompted(s) => Prompted(s)'
    /\ \A s \in SeqIds : Ended(s) => Ended(s)'
    /\ Uniform'

\* ... in particular one that only moves between phases and queues.
LEMMA MovesQuiet ==
  ASSUME PagedInv, TokenInv, UNCHANGED <<toks, cached, state, forwardErrors, waiting>>,
         InService' \subseteq InService, Batch' = Batch, phase # "free" \/ phase' = "free", Uniform'
  PROVE  Quiet
<1>1. \A s \in SeqIds : Ended(s) => Ended(s)'
  BY DEF Ended, Queued
<1> QED
  BY <1>1 DEF Quiet, Prompted

LEMMA QueueQuiet ==
  ASSUME PagedInv, TokenInv, NEW s \in SeqIds, AddSeq(s)
  PROVE  Quiet
<1>1. /\ phase = "top" /\ state[s] = "Absent"
      /\ state' = [state EXCEPT ![s] = "Waiting"]
      /\ UNCHANGED <<phase, running, popped, reserved, scheduled, toks, cached, forwardErrors>>
  BY DEF AddSeq, errors
<1>2. InService' = InService /\ Batch = {} /\ Batch' = {}
  BY <1>1 DEF InService, Batch
<1>3. Queued' = Queued \cup {s}
  <2>1. waiting \in Seq(SeqIds) /\ <<s>> \in Seq(SeqIds) /\ Items(<<s>>) = {s}
    BY SingleItem DEF PagedInv, TypeOK
  <2>2. waiting' = waiting \o <<s>>
    BY <2>1, AppendIsConcat DEF AddSeq
  <2>3. Items(waiting \o <<s>>) = Items(waiting) \cup Items(<<s>>)
    <3> DEFINE one == <<s>>
    <3>1. waiting \in Seq(SeqIds) /\ one \in Seq(SeqIds)
      BY <2>1
    <3> HIDE DEF one
    <3>2. Items(waiting \o one) = Items(waiting) \cup Items(one)
      BY <3>1, ConcatItems
    <3> QED
      BY <3>2 DEF one
  <2> QED
    BY <2>1, <2>2, <2>3 DEF Queued
<1>4. \A t \in SeqIds : Ended(t) => Ended(t)'
  BY <1>1, <1>2, <1>3 DEF Ended, PagedInv, TypeOK
<1>5. Uniform'
  BY <1>1 DEF Uniform, BatchIsUniform
<1> QED
  BY <1>1, <1>2, <1>4, <1>5 DEF Quiet, Prompted

LEMMA AdmitQuiet ==
  ASSUME PagedInv, TokenInv, Admit
  PROVE  Quiet
<1>1. PICK s \in SeqIds : s = Head(waiting)
  BY AdmitAllocates
<1>2. /\ s \in Queued
      /\ state' = [state EXCEPT ![s] = "RunningPrompt"]
      /\ scheduled' = scheduled \cup {s}
  BY <1>1, AdmitAllocates
<1>3. /\ phase = "admit" /\ running' = running \cup {s} /\ waiting' = Tail(waiting)
      /\ UNCHANGED <<phase, popped, reserved, toks, cached, forwardErrors>>
  BY <1>1 DEF Admit, errors
<1>4. Queued' \subseteq Queued
  <2>1. waiting \in Seq(SeqIds) /\ waiting # <<>>
    BY DEF PagedInv, TypeOK, Admit, CanAdmit
  <2> QED
    BY <1>3, <2>1, TailItems DEF Queued, PagedInv, BlocksFollowService
<1>5. InService' = InService \cup {s}
  BY <1>3 DEF InService
<1>6. \A t \in SeqIds : Ended(t) => Ended(t)'
  BY <1>2, <1>3, <1>4, <1>5 DEF Ended, PagedInv, TypeOK
<1>7. \A t \in scheduled' : state'[t] = "RunningPrompt"
  BY <1>2, <1>3 DEF TokenInv, Uniform, PagedInv, TypeOK
<1>8. Uniform'
  BY <1>3, <1>7 DEF Uniform, BatchIsUniform
<1>9. Batch' = scheduled' /\ Batch = scheduled
  BY <1>3 DEF Batch
<1> QED
  BY <1>2, <1>3, <1>5, <1>6, <1>7, <1>8, <1>9 DEF Quiet, Prompted

LEMMA PreemptQuiet ==
  ASSUME PagedInv, TokenInv, PreemptOldest \/ PreemptSelf
  PROVE  Quiet
<1>1. PICK v \in InService : /\ Preempt(v) /\ v \notin reserved
                             /\ running' \cup popped' = (running \cup popped) \ {v}
  BY DEF PreemptOldest, PreemptSelf, PagedInv, BlocksFollowService, InService, ReserveLoop
<1>2. /\ phase = "reserve" /\ UNCHANGED <<phase, reserved, scheduled, toks, forwardErrors>>
  BY DEF PreemptOldest, PreemptSelf, errors
<1>3. InService' = InService \ {v} /\ v \in SeqIds
  BY <1>1, <1>2, Counts DEF InService
<1>4. /\ Queued' = Queued \cup {v}
      /\ \A s \in SeqIds \ {v} : state'[s] = state[s] /\ cached'[s] = cached[s]
  BY <1>1, <1>3, PreemptMoves DEF Preempt, PagedInv, TypeOK
<1>5. \A s \in SeqIds : Ended(s) => Ended(s)'
  BY <1>1, <1>2, <1>3, <1>4 DEF Ended
<1>6. Uniform' /\ Batch = {}
  BY <1>2 DEF Uniform, BatchIsUniform, Batch
<1> QED
  BY <1>2, <1>3, <1>4, <1>5, <1>6, Counts DEF Quiet, Prompted

LEMMA ReserveEndQuiet ==
  ASSUME PagedInv, TokenInv, ReserveEnd
  PROVE  Quiet
<1>1. /\ phase = "reserve" /\ popped = {} /\ running = {}
      /\ running' = reserved /\ scheduled' = reserved /\ reserved' = {}
      /\ phase' = IF reserved = {} THEN "free" ELSE "step"
      /\ UNCHANGED <<waiting, popped, toks, cached, forwardErrors>>
  BY DEF ReserveEnd, errors
<1>2. \A s \in SeqIds : state'[s] = IF s \notin reserved THEN state[s]
                                     ELSE IF terminate THEN "Canceled" ELSE "RunningCompletion"
  BY DEF ReserveEnd
<1>3. InService' = InService /\ InService = reserved /\ Batch = {} /\ Queued' = Queued
  BY <1>1 DEF InService, Batch, Queued
<1>4. \A s \in SeqIds : Ended(s) => Ended(s)'
  BY <1>1, <1>2, <1>3 DEF Ended
<1>5. \A s \in scheduled' : state'[s] # "RunningPrompt"
  BY <1>1, <1>2 DEF PagedInv, TypeOK
<1>6. Uniform'
  BY <1>1, <1>5 DEF Uniform, BatchIsUniform, IsPrompt
<1> QED
  BY <1>1, <1>3, <1>4, <1>6 DEF Quiet, Prompted

LEMMA FreeQuiet ==
  ASSUME PagedInv, TokenInv, FreeFinished \/ FreeEnd
  PROVE  Quiet
<1>1. CASE FreeFinished
  <2>1. PICK v \in running : running' = running \ {v}
    BY <1>1 DEF FreeFinished, Finished
  <2>2. /\ phase = "free"
        /\ UNCHANGED <<phase, popped, reserved, scheduled, waiting, state, toks, cached, forwardErrors>>
    BY <1>1 DEF FreeFinished, seqVars, errors
  <2>3. InService' \subseteq InService /\ Batch = {} /\ Batch' = {} /\ Queued' = Queued
    BY <2>1, <2>2 DEF InService, Batch, Queued
  <2>4. \A s \in SeqIds : Ended(s) => Ended(s)'
    BY <2>2, <2>3 DEF Ended
  <2>5. Uniform'
    BY <2>2 DEF Uniform, BatchIsUniform
  <2> QED
    BY <2>2, <2>3, <2>4, <2>5 DEF Quiet, Prompted
<1>2. CASE FreeEnd
  <2>1. /\ phase = "free" /\ phase' = "top" /\ Finished = {}
        /\ UNCHANGED <<running, popped, reserved, scheduled, waiting, state, toks, cached, forwardErrors>>
    BY <1>2 DEF FreeEnd, schedVars, seqVars, errors
  <2>2. InService' = InService /\ InService = running /\ Batch = {} /\ Queued' = Queued
    BY <2>1 DEF InService, Batch, Queued, PagedInv, ReserveLoop
  <2>3. \A s \in SeqIds : Ended(s) => Ended(s)'
    BY <2>1, <2>2 DEF Ended, Finished, FinishedStates
  <2>4. Uniform'
    BY <2>1 DEF Uniform, BatchIsUniform
  <2> QED
    BY <2>1, <2>2, <2>3, <2>4 DEF Quiet, Prompted
<1> QED
  BY <1>1, <1>2

LEMMA NextQuiet ==
  ASSUME PagedInv, TokenInv, [Next]_vars, ~Step
  PROVE  Quiet
<1>1. CASE (\E s \in SeqIds : AddSeq(s)) \/ Admit \/ PreemptOldest \/ PreemptSelf \/ ReserveEnd
           \/ FreeFinished \/ FreeEnd
  BY <1>1, QueueQuiet, AdmitQuiet, PreemptQuiet, ReserveEndQuiet, FreeQuiet
<1>2. CASE SetTerminate \/ UNCHANGED vars
  <2>1. UNCHANGED <<phase, running, popped, reserved, scheduled, waiting, state, toks, cached,
                    forwardErrors>>
    BY <1>2 DEF SetTerminate, vars, schedVars, seqVars, errors
  <2>2. InService' = InService /\ Batch' = Batch /\ Uniform'
    BY <2>1 DEF InService, Batch, TokenInv, Uniform, BatchIsUniform, IsPrompt
  <2> QED
    BY <2>1, <2>2, MovesQuiet
<1>3. CASE StartSchedule
  <2>1. /\ phase = "top" /\ phase' = "admit" /\ scheduled' = {}
        /\ UNCHANGED <<running, popped, reserved, waiting, state, toks, cached, forwardErrors>>
    BY <1>3 DEF StartSchedule, seqVars, errors
  <2>2. InService' = InService /\ Batch' = Batch /\ Uniform'
    BY <2>1 DEF InService, Batch, Uniform, BatchIsUniform
  <2> QED
    BY <2>1, <2>2, MovesQuiet
<1>4. CASE AdmitEnd
  <2>1. /\ phase = "admit" /\ phase' = IF scheduled # {} THEN "step" ELSE "reserve"
        /\ UNCHANGED <<running, popped, reserved, scheduled, waiting, state, toks, cached,
                       forwardErrors>>
    BY <1>4 DEF AdmitEnd, schedVars, seqVars, errors, PagedInv, NothingIgnored
  <2>2. InService' = InService /\ Batch' = Batch /\ Uniform'
    BY <2>1 DEF InService, Batch, TokenInv, Uniform, BatchIsUniform
  <2> QED
    BY <2>1, <2>2, MovesQuiet
<1>5. CASE ReservePop \/ ReserveSlot
  <2>1. /\ phase = "reserve"
        /\ UNCHANGED <<phase, scheduled, waiting, state, toks, cached, forwardErrors>>
    BY <1>5 DEF ReservePop, ReserveSlot, seqVars, errors
  <2>2. InService' \subseteq InService
    BY <1>5, <2>1, SlotAppends DEF ReservePop, ReserveSlot, InService
  <2>3. Batch' = Batch /\ Uniform'
    BY <2>1 DEF Batch, Uniform, BatchIsUniform
  <2> QED
    BY <2>1, <2>2, <2>3, MovesQuiet
<1> QED
  BY <1>1, <1>2, <1>3, <1>4, <1>5 DEF Next, Engine, Schedule

\* A step that does not fail as a whole writes the cache of the batch ...
LEMMA StepCaches ==
  ASSUME PagedInv, TokenInv, Step, forwardErrors' = 0
  PROVE  /\ forwardErrors = 0
         /\ phase' = "free"
         /\ \A s \in SeqIds : cached'[s] = Forwarded[s]
         /\ \A s \in InService : cached'[s] >= toks'[s] - 1
<1>1. /\ forwardErrors = 0 /\ phase' = "free" /\ cached' = Forwarded
  BY DEF Step, StepOk, StepSampleError, StepForwardError, errors, PagedInv, TypeOK
<1>2. \A s \in SeqIds : cached'[s] = Forwarded[s]
  BY <1>1
<1>3. phase = "step" /\ Batch = scheduled
  BY StepAdds DEF Batch
<1>4. ASSUME NEW s \in InService PROVE cached'[s] >= toks'[s] - 1
  <2>1. /\ s \in SeqIds /\ toks[s] \in Nat /\ cached[s] \in Nat
        /\ toks'[s] \in {toks[s], toks[s] + 1}
        /\ s \notin scheduled => toks'[s] = toks[s]
    BY Counts, StepAdds DEF PagedInv, TypeOK
  <2>2. cached[s] >= toks[s] - 1 \/ (s \in scheduled /\ state[s] = "RunningPrompt")
    BY <1>1, <1>3 DEF TokenInv, Caches, Prompted
  <2>3. CASE s \in scheduled
    <3>1. IsPrompt \/ cached[s] >= toks[s] - 1
      BY <2>2, <2>3 DEF IsPrompt
    <3>2. cached'[s] = toks[s]
      BY <1>2, <2>1, <2>3, <3>1 DEF Forwarded
    <3> QED
      BY <2>1, <3>2
  <2>4. CASE s \notin scheduled
    <3>1. cached'[s] = cached[s]
      BY <1>2, <2>1, <2>4 DEF Forwarded
    <3> QED
      BY <2>1, <2>2, <2>4, <3>1
  <2> QED
    BY <2>3, <2>4
<1> QED
  BY <1>1, <1>2, <1>4

\* ... and ends the sequences that get their last token.
LEMMA StepEnds ==
  ASSUME PagedInv, TokenInv, Step, forwardErrors' = 0
  PROVE  /\ \A s \in SeqIds : toks'[s] = toks[s] + 1 /\ MustStop(s) => state'[s] \in {"Done", "Canceled"}
         /\ \A s \in SeqIds \ scheduled : state'[s] = state[s]
<1>1. ASSUME NEW P \in SUBSET scheduled, NEW F \in SUBSET P
      PROVE  /\ \A s \in P : MustStop(s) => StatesAfter(P, F)[s] \in {"Done", "Canceled"}
             /\ \A s \in SeqIds \ P : StatesAfter(P, F)[s] = state[s]
  BY DEF StatesAfter, PagedInv, TypeOK
<1>2. \A P : \A s \in SeqIds \ P : TokensAdded(P)[s] = toks[s]
  BY DEF TokensAdded
<1>3. \A s \in SeqIds : toks[s] # toks[s] + 1
  BY DEF PagedInv, TypeOK
<1>4. CASE StepOk
  <2>1. PICK F \in SUBSET scheduled : state' = StatesAfter(scheduled, F)
    BY <1>4 DEF StepOk
  <2>2. toks' = TokensAdded(scheduled)
    BY <1>4 DEF StepOk
  <2>3. /\ \A s \in scheduled : MustStop(s) => state'[s] \in {"Done", "Canceled"}
        /\ \A s \in SeqIds \ scheduled : state'[s] = state[s]
    BY <1>1, <2>1
  <2>4. \A s \in SeqIds \ scheduled : toks'[s] # toks[s] + 1
    BY <1>2, <1>3, <2>2
  <2> QED
    BY <2>3, <2>4
<1>5. CASE StepSampleError
  <2>0. PICK e \in scheduled, P \in SUBSET scheduled :
           /\ e \notin P
           /\ toks' = TokensAdded(P)
           /\ \E F \in SUBSET P : state' = [StatesAfter(P, F) EXCEPT ![e] = "Error"]
    BY <1>5 DEF StepSampleError
  <2>1. PICK F \in SUBSET P : state' = [StatesAfter(P, F) EXCEPT ![e] = "Error"]
    BY <2>0
  <2>2. \A s \in SeqIds \ {e} : state'[s] = StatesAfter(P, F)[s]
    BY <2>1 DEF StatesAfter
  <2>3. /\ \A s \in P : MustStop(s) => StatesAfter(P, F)[s] \in {"Done", "Canceled"}
        /\ \A s \in SeqIds \ P : StatesAfter(P, F)[s] = state[s]
    BY <1>1
  <2>4. \A s \in SeqIds \ P : toks'[s] # toks[s] + 1
    BY <1>2, <1>3, <2>0
  <2>5. P \subseteq scheduled /\ e \in scheduled /\ e \notin P
    BY <2>0
  <2> QED
    BY <2>2, <2>3, <2>4, <2>5
<1>6. CASE StepForwardError
  BY <1>6 DEF StepForwardError, PagedInv, TypeOK
<1> QED
  BY <1>4, <1>5, <1>6 DEF Step

LEMMA StepRest ==
  ASSUME PagedInv, TokenInv, Step
  PROVE  Uniform' /\ Caches' /\ Limits'
<1>1. /\ phase = "step" /\ phase' \in {"top", "free"}
      /\ UNCHANGED <<running, popped, reserved, waiting>>
  BY StepAdds DEF schedVars
<1>2. Uniform'
  BY <1>1 DEF Uniform, BatchIsUniform
<1>3. InService' = InService /\ Queued' = Queued
  BY <1>1 DEF InService, Queued
<1>4. Caches'
  BY <1>3, StepCaches DEF Caches
<1>5. ASSUME forwardErrors' = 0, NEW s \in SeqIds, NEW limit \in {MaxLen[s], MaxSeqLen}
      PROVE  \/ toks'[s] <= PromptLen[s] + limit
             \/ toks'[s] = PromptLen[s] + limit + 1 /\ Ended(s)'
  <2>1. forwardErrors = 0 /\ phase' = "free"
    BY <1>5, StepCaches
  <2>2. toks[s] \in Nat /\ limit \in Nat /\ PromptLen[s] \in Nat
    BY PagedAssumption DEF PagedInv, TypeOK
  <2>3. \/ toks[s] <= PromptLen[s] + limit
        \/ toks[s] = PromptLen[s] + limit + 1 /\ Ended(s)
    BY <2>1 DEF TokenInv, Limits
  <2>4. scheduled \subseteq InService
    BY <1>1, Counts DEF TokenInv, Batch
  <2>5. CASE toks'[s] = toks[s] + 1
    <3>1. s \in scheduled
      BY <2>2, <2>5, StepAdds
    <3>2. s \in InService /\ s \notin Queued /\ ~Ended(s)
      BY <1>1, <2>4, <3>1 DEF Ended, PagedInv, BlocksFollowService
    <3>3. CASE toks[s] - PromptLen[s] = limit
      <4>1. state'[s] \in {"Done", "Canceled"}
        BY <1>5, <2>5, <3>3, StepEnds DEF MustStop
      <4> QED
        BY <1>3, <2>1, <2>2, <2>5, <3>2, <3>3, <4>1 DEF Ended
    <3>4. CASE toks[s] - PromptLen[s] # limit
      BY <2>2, <2>3, <2>5, <3>2, <3>4
    <3> QED
      BY <3>3, <3>4
  <2>6. CASE toks'[s] = toks[s] /\ ~Ended(s)
    BY <2>3, <2>6
  <2>7. CASE toks'[s] = toks[s] /\ Ended(s)
    <3>1. s \notin InService
      BY <1>1, <2>7 DEF Ended
    <3>2. state'[s] = state[s]
      BY <1>5, <2>4, <3>1, StepEnds
    <3>3. Ended(s)'
      BY <1>3, <2>7, <3>1, <3>2 DEF Ended
    <3> QED
      BY <2>3, <2>7, <3>3
  <2> QED
    BY <2>5, <2>6, <2>7, StepAdds
<1>6. Limits'
  BY <1>5 DEF Limits
<1> QED
  BY <1>2, <1>4, <1>6

LEMMA RestStep ==
  ASSUME PagedInv, TokenInv, [Next]_vars
  PROVE  Uniform' /\ Caches' /\ Limits'
<1>1. CASE Step
  BY <1>1, StepRest
<1>2. CASE ~Step
  <2>1. Quiet
    BY <1>2, NextQuiet
  <2>2. Caches'
    BY <2>1 DEF Quiet, TokenInv, Caches
  <2>3. Limits'
    BY <2>1 DEF Quiet, TokenInv, Limits
  <2> QED
    BY <2>1, <2>2, <2>3 DEF Quiet
<1> QED
  BY <1>1, <1>2

-----------------------------------------------------------------------------
(* The invariant, and what follows from it.                                *)

LEMMA TokenInvInit == Init => TokenInv
<1> SUFFICES ASSUME Init PROVE TokenInv
  OBVIOUS
<1>1. InService = {} /\ Fed = {} /\ Batch = {}
  BY DEF Init, InService, Fed, Batch
<1>2. Slots /\ Surplus /\ Uniform /\ Caches
  BY <1>1 DEF Init, Slots, Surplus, Uniform, BatchIsUniform, Caches
<1>3. Limits
  BY PagedAssumption DEF Init, Limits
<1> QED
  BY <1>1, <1>2, <1>3 DEF TokenInv

LEMMA TokenInvariance == Spec => [](PagedInv /\ TokenInv)
<1>1. PagedInv /\ TokenInv /\ [Next]_vars => (PagedInv /\ TokenInv)'
  BY PagedInvNext, SlotsStep, RestStep DEF TokenInv
<1> QED
  BY <1>1, PagedInvInit, TokenInvInit, PTL DEF Spec

(* For any block size and any lengths every step finds a slot for each     *)
(* token it writes: the blocks that `allocate` and append_token_slot_to_seq*)
(* hand out are always enough for the inputs processor.                    *)
THEOREM SlotsAlwaysCover == Spec => []SlotsCoverStep
<1>1. PagedInv /\ TokenInv => SlotsCoverStep
  BY Counts DEF TokenInv, Slots, Batch, SlotsCoverStep, Size
<1> QED
  BY <1>1, TokenInvariance, PTL

(* Block tables outgrow the logical blocks by one block for each step in   *)
(* which something failed, and never otherwise.                            *)
THEOREM SurplusIsPaidFor == Spec => []SurplusNeedsAnError
<1>1. PagedInv /\ TokenInv => SurplusNeedsAnError
  <2> SUFFICES ASSUME PagedInv, TokenInv, NEW s \in InService
               PROVE  Len(block_tables[s]) <= LogicalBlocks(toks[s]) + sampleErrors + forwardErrors
    BY DEF SurplusNeedsAnError
  <2>1. Size(s) <= LogicalBlocks(toks[s]) + FailedSteps
    BY DEF TokenInv, Surplus
  <2>2. LogicalBlocks(toks[s]) \in Nat /\ sampleErrors \in Nat /\ forwardErrors \in Nat
    BY Counts, BlockCounts DEF PagedInv, TypeOK
  <2> QED
    BY <2>1, <2>2 DEF Size, FailedSteps
<1> QED
  BY <1>1, TokenInvariance, PTL

(* A completion step finds the keys and values of all tokens but the last, *)
(* however often its sequences were preempted and computed again.          *)
THEOREM CompletionsHaveCaches == Spec => []CompletionHasCache
<1>1. PagedInv /\ TokenInv => CompletionHasCache
  BY Counts DEF TokenInv, Caches, Prompted, Batch, CompletionHasCache, IsPrompt
<1> QED
  BY <1>1, TokenInvariance, PTL

(* schedule() never mixes prompts with completions.                        *)
THEOREM BatchesAreUniform == Spec => []BatchIsUniform
<1>1. TokenInv => BatchIsUniform
  BY DEF TokenInv, Uniform
<1> QED
  BY <1>1, TokenInvariance, PTL

(* The equality tests of is_done are never jumped over: a sequence has at  *)
(* most one token more than its limits allow.                              *)
THEOREM LengthsAreBounded == Spec => []LengthIsBounded
<1>1. PagedInv /\ TokenInv => LengthIsBounded
  <2> SUFFICES ASSUME PagedInv, TokenInv, forwardErrors = 0,
                      NEW s \in SeqIds, NEW limit \in {MaxLen[s], MaxSeqLen}
               PROVE  toks[s] <= PromptLen[s] + limit + 1
    BY DEF LengthIsBounded
  <2>1. toks[s] \in Nat /\ limit \in Nat /\ PromptLen[s] \in Nat
    BY PagedAssumption DEF PagedInv, TypeOK
  <2> QED
    BY <2>1 DEF TokenInv, Limits
<1> QED
  BY <1>1, TokenInvariance, PTL

-----------------------------------------------------------------------------
(* The order of the waiting queue.                                         *)

\* A sequence that has tokens of its own.
Ran(s) == toks[s] > PromptLen[s]

OrderInv ==
    /\ \A s \in SeqIds : PromptLen[s] <= toks[s]
    /\ \A s \in SeqIds : state[s] = "Absent" => toks[s] = PromptLen[s]
    /\ FailedSteps = 0 => \A s \in InService : Ran(s) \/ s \in Batch
    /\ PreemptedFirst

LEMMA OrderInit == Init => OrderInv
  BY PagedAssumption DEF Init, OrderInv, PreemptedFirst, InService

\* A sequence in front that has run, or one at the end that has not, keeps it.
LEMMA QueueOrder ==
  ASSUME PagedInv, OrderInv, NEW s \in SeqIds, UNCHANGED <<toks, sampleErrors, forwardErrors>>,
         \/ UNCHANGED waiting
         \/ waiting # <<>> /\ waiting' = Tail(waiting)
         \/ waiting' = Append(waiting, s) /\ ~Ran(s)
         \/ waiting' = <<s>> \o waiting /\ (FailedSteps = 0 => Ran(s))
  PROVE  PreemptedFirst'
<1>1. waiting \in Seq(SeqIds)
  BY DEF PagedInv, TypeOK
<1>2. PreemptedFirst
  BY DEF OrderInv
<1>3. CASE UNCHANGED waiting
  BY <1>2, <1>3 DEF PreemptedFirst
<1>4. CASE waiting # <<>> /\ waiting' = Tail(waiting)
  <2>1. \A i \in DOMAIN waiting' : i \in Nat /\ i + 1 \in DOMAIN waiting /\ waiting'[i] = waiting[i + 1]
    BY <1>1, <1>4
  <2>9. SUFFICES ASSUME FailedSteps = 0, NEW i \in DOMAIN waiting', NEW j \in DOMAIN waiting',
                       Ran(waiting'[i]), toks[waiting'[j]] = PromptLen[waiting'[j]]
                PROVE  i < j
    BY DEF PreemptedFirst, FailedSteps, Ran
  <2>2. i + 1 < j + 1
    BY <1>2, <2>1, <2>9 DEF PreemptedFirst, FailedSteps, Ran
  <2> QED
    BY <2>1, <2>2
<1>5. CASE waiting' = Append(waiting, s) /\ ~Ran(s)
  <2>1. \A i \in DOMAIN waiting' : i \in Nat
    BY <1>1, <1>5
  <2>2. \A i \in DOMAIN waiting' :
           \/ i \in DOMAIN waiting /\ waiting'[i] = waiting[i]
           \/ i = Len(waiting) + 1 /\ waiting'[i] = s
    BY <1>1, <1>5
  <2>3. \A i \in DOMAIN waiting : i < Len(waiting) + 1
    BY <1>1
  <2> QED
    BY <1>2, <1>5, <2>1, <2>2, <2>3 DEF PreemptedFirst, Ran
<1>6. CASE waiting' = <<s>> \o waiting /\ (FailedSteps = 0 => Ran(s))
  <2>1. \A i \in DOMAIN waiting' :
           \/ i = 1 /\ waiting'[i] = s
           \/ i > 1 /\ i - 1 \in DOMAIN waiting /\ waiting'[i] = waiting[i - 1]
    BY <1>1, <1>6
  <2>2. \A i \in DOMAIN waiting' : i \in Nat
    BY <1>1, <1>6
  <2>3. FailedSteps = 0 => toks[s] # PromptLen[s]
    BY <1>6, PagedAssumption DEF Ran, PagedInv, TypeOK
  <2>9. SUFFICES ASSUME FailedSteps = 0, NEW i \in DOMAIN waiting', NEW j \in DOMAIN waiting',
                       Ran(waiting'[i]), toks[waiting'[j]] = PromptLen[waiting'[j]]
                PROVE  i < j
    BY DEF PreemptedFirst, FailedSteps, Ran
  <2>4. CASE i = 1
    <3>1. j # 1
      BY <2>1, <2>3, <2>4, <2>9
    <3> QED
      BY <2>1, <2>2, <2>4, <3>1
  <2>5. CASE i > 1
    <3>1. j > 1
      BY <2>1, <2>3, <2>9
    <3>2. i - 1 < j - 1
      BY SMTT(30), <1>2, <2>1, <2>2, <2>5, <2>9, <3>1 DEF PreemptedFirst, FailedSteps, Ran
    <3> QED
      BY <2>2, <3>2
  <2> QED
    BY <2>1, <2>4, <2>5
<1> QED
  BY <1>3, <1>4, <1>5, <1>6

LEMMA OrderStep ==
  ASSUME PagedInv, TokenInv, OrderInv, [Next]_vars
  PROVE  OrderInv'
<1> USE DEF OrderInv
<1>0. \A s \in SeqIds : toks[s] \in Nat /\ PromptLen[s] \in Nat
  BY PagedAssumption DEF PagedInv, TypeOK
<1>1. CASE Step
  <2>1. /\ phase = "step" /\ phase' \in {"top", "free"}
        /\ UNCHANGED <<waiting, running, popped, reserved>>
        /\ \A s \in SeqIds : toks'[s] \in {toks[s], toks[s] + 1}
        /\ \A s \in SeqIds \ scheduled : toks'[s] = toks[s]
    BY <1>1, StepAdds DEF schedVars
  <2>2. InService' = InService /\ Batch' = {} /\ Batch = scheduled /\ scheduled \subseteq InService
    BY <2>1, Counts DEF InService, Batch, TokenInv
  <2>3. \A s \in SeqIds : PromptLen[s] <= toks'[s]
    BY <1>0, <2>1
  <2>4. \A s \in SeqIds : state'[s] = "Absent" => toks'[s] = PromptLen[s]
    <3>1. ASSUME NEW s \in SeqIds, state'[s] = "Absent" PROVE state[s] = "Absent"
      BY <1>1, <3>1 DEF Step, StepOk, StepSampleError, StepForwardError, StatesAfter
    <3>2. \A s \in SeqIds : state[s] = "Absent" => s \notin scheduled
      BY <2>2 DEF PagedInv, AbsentNowhere
    <3> QED
      BY <2>1, <3>1, <3>2
  <2>5. CASE FailedSteps' # 0
    BY <2>3, <2>4, <2>5 DEF PreemptedFirst, FailedSteps
  <2>6. CASE FailedSteps' = 0
    <3>1. FailedSteps = 0 /\ \A s \in scheduled : toks'[s] = toks[s] + 1
      BY <1>1, <2>6, StepAdds, Counts
    <3>2. \A s \in InService : toks'[s] > PromptLen[s]
      <4> SUFFICES ASSUME NEW s \in InService PROVE toks'[s] > PromptLen[s]
        OBVIOUS
      <4>1. s \in SeqIds /\ (Ran(s) \/ s \in scheduled)
        BY <2>2, <3>1, Counts
      <4> QED
        BY <1>0, <2>1, <3>1, <4>1 DEF Ran
    <3>3. \A i \in DOMAIN waiting : toks'[waiting[i]] = toks[waiting[i]]
      <4>1. \A i \in DOMAIN waiting : waiting[i] \in SeqIds /\ waiting[i] \in Queued
        BY DEF Queued, Items, PagedInv, TypeOK
      <4>2. \A i \in DOMAIN waiting : waiting[i] \notin scheduled
        BY <2>2, <4>1 DEF PagedInv, BlocksFollowService
      <4> QED
        BY <2>1, <4>1, <4>2
    <3>4. PreemptedFirst'
      BY <2>1, <3>1, <3>3 DEF PreemptedFirst, FailedSteps
    <3> QED
      BY <2>2, <2>3, <2>4, <3>2, <3>4 DEF Ran
  <2> QED
    BY <2>5, <2>6
<1>2. CASE ~Step
  <2>1. UNCHANGED <<toks, sampleErrors, forwardErrors>>
    BY <1>2 DEF Next, Engine, Schedule, AddSeq, SetTerminate, StartSchedule, Admit, AdmitEnd,
                ReservePop, ReserveSlot, PreemptOldest, PreemptSelf, ReserveEnd, FreeFinished,
                FreeEnd, vars, seqVars, errors
  <2>2. FailedSteps' = FailedSteps
    BY <2>1 DEF FailedSteps
  <2>3. \A s \in SeqIds : state'[s] = "Absent" => state[s] = "Absent"
    BY <1>2 DEF Next, Engine, Schedule, AddSeq, SetTerminate, StartSchedule, Admit, AdmitEnd,
                ReservePop, ReserveSlot, PreemptOldest, PreemptSelf, Preempt, ReserveEnd,
                FreeFinished, FreeEnd, vars, seqVars, PagedInv, TypeOK
  <2>4. \A s \in InService' : Ran(s)' = Ran(s)
    BY <2>1 DEF Ran
  <2>5. CASE \E s \in SeqIds : AddSeq(s)
    <3>1. PICK s \in SeqIds : AddSeq(s)
      BY <2>5
    <3>2. /\ state[s] = "Absent" /\ waiting' = Append(waiting, s)
          /\ UNCHANGED <<phase, running, popped, reserved, scheduled>>
      BY <3>1 DEF AddSeq
    <3>3. ~Ran(s)
      BY <1>0, <3>2 DEF Ran
    <3>4. PreemptedFirst'
      BY <2>1, <3>2, <3>3, QueueOrder
    <3>5. InService' = InService /\ Batch' = Batch
      BY <3>2 DEF InService, Batch
    <3> QED
      BY <2>1, <2>2, <2>3, <2>4, <3>4, <3>5
  <2>6. CASE Admit
    <3>1. PICK s \in SeqIds : s = Head(waiting) /\ scheduled' = scheduled \cup {s}
      BY <2>6, AdmitAllocates
    <3>2. /\ phase = "admit" /\ waiting # <<>> /\ waiting' = Tail(waiting)
          /\ running' = running \cup {s} /\ UNCHANGED <<phase, popped, reserved>>
      BY <2>6, <3>1 DEF Admit, CanAdmit
    <3>3. PreemptedFirst'
      BY <2>1, <3>2, QueueOrder
    <3>4. InService' = InService \cup {s} /\ Batch' = Batch \cup {s}
      BY <3>1, <3>2 DEF InService, Batch
    <3> QED
      BY <2>1, <2>2, <2>3, <2>4, <3>3, <3>4
  <2>7. CASE PreemptOldest \/ PreemptSelf
    <3>1. PICK v \in InService : /\ Preempt(v) /\ v \notin reserved
                                 /\ running' \cup popped' = (running \cup popped) \ {v}
      BY <2>7 DEF PreemptOldest, PreemptSelf, PagedInv, BlocksFollowService, InService, ReserveLoop
    <3>2. phase = "reserve" /\ UNCHANGED <<phase, reserved>>
      BY <2>7 DEF PreemptOldest, PreemptSelf
    <3>3. v \in SeqIds /\ Batch = {} /\ waiting' = <<v>> \o waiting
      BY <3>1, <3>2, Counts DEF Batch, Preempt
    <3>4. PreemptedFirst'
      BY <2>1, <3>3, QueueOrder
    <3>5. InService' \subseteq InService
      BY <3>1, <3>2 DEF InService
    <3> QED
      BY <2>1, <2>2, <2>3, <2>4, <3>3, <3>4, <3>5
  <2>8. CASE ~(\E s \in SeqIds : AddSeq(s)) /\ ~Admit /\ ~PreemptOldest /\ ~PreemptSelf
    <3>1. UNCHANGED waiting
      BY <1>2, <2>8 DEF Next, Engine, Schedule, SetTerminate, StartSchedule, AdmitEnd,
                ReservePop, ReserveSlot, ReserveEnd, FreeFinished, FreeEnd, vars, schedVars
    <3>2. PreemptedFirst'
      BY <2>1, <3>1 DEF PreemptedFirst
    <3>3. \A s \in InService' : s \in InService /\ (s \in Batch => s \in Batch')
      <4>1. CASE StartSchedule
        BY <4>1 DEF StartSchedule, InService, Batch
      <4>2. CASE AdmitEnd
        BY <4>2 DEF AdmitEnd, InService, Batch, schedVars, PagedInv, NothingIgnored
      <4>3. CASE ReservePop \/ ReserveSlot \/ ReserveEnd
        <5>1. InService' \subseteq InService
          BY <4>3, SlotAppends DEF ReservePop, ReserveSlot, ReserveEnd, InService
        <5>2. Batch = {}
          BY <4>3 DEF ReservePop, ReserveSlot, ReserveEnd, Batch
        <5> QED
          BY <5>1, <5>2
      <4>4. CASE FreeFinished \/ FreeEnd
        BY <4>4 DEF FreeFinished, FreeEnd, InService, Batch, schedVars
      <4>5. CASE SetTerminate \/ UNCHANGED vars
        BY <4>5 DEF SetTerminate, InService, Batch, vars, schedVars
      <4> QED
        BY <1>2, <2>8, <4>1, <4>2, <4>3, <4>4, <4>5 DEF Next, Engine, Schedule
    <3> QED
      BY <2>1, <2>2, <2>3, <2>4, <3>2, <3>3
  <2> QED
    BY <2>5, <2>6, <2>7, <2>8
<1> QED
  BY <1>1, <1>2

(* As long as no step failed, a preempted sequence stays ahead of all that *)
(* never ran: push_front of _preempt_by_recompute, pop_front of admission  *)
(* and push_back of add_seq keep the queue in that order.                  *)
THEOREM PreemptedStaysFirst == Spec => []PreemptedFirst
<1>1. PagedInv /\ TokenInv /\ OrderInv /\ [Next]_vars => OrderInv'
  BY OrderStep
<1>2. OrderInv => PreemptedFirst
  BY DEF OrderInv
<1> QED
  BY <1>1, <1>2, OrderInit, TokenInvariance, PTL DEF Spec

-----------------------------------------------------------------------------
(* The number in service.                                                  *)

\* Only admission puts a sequence in service.
LEMMA ServiceGrows ==
  ASSUME PagedInv, [Next]_vars, ~Admit
  PROVE  InService' \subseteq InService
<1>1. CASE Step
  BY <1>1 DEF Step, StepOk, StepSampleError, StepForwardError, stepRest, schedVars, InService
<1>2. CASE ReservePop \/ ReserveSlot \/ ReserveEnd
  BY <1>2, SlotAppends DEF ReservePop, ReserveSlot, ReserveEnd, InService
<1>3. CASE PreemptOldest \/ PreemptSelf
  BY <1>3 DEF PreemptOldest, PreemptSelf, InService
<1>4. CASE \E s \in SeqIds : AddSeq(s)
  BY <1>4 DEF AddSeq, InService
<1>5. CASE SetTerminate \/ StartSchedule \/ AdmitEnd \/ FreeEnd \/ UNCHANGED vars
  BY <1>5 DEF SetTerminate, StartSchedule, AdmitEnd, FreeEnd, vars, schedVars, InService
<1>6. CASE FreeFinished
  BY <1>6 DEF FreeFinished, InService
<1> QED
  BY <1>1, <1>2, <1>3, <1>4, <1>5, <1>6 DEF Next, Engine, Schedule

(* With a maximum of at least one, the equality test of the admission loop *)
(* is never jumped over: there are always less in service than that, also  *)
(* while the reserve loop moves sequences between its queues.              *)
THEOREM ServiceStaysBelowMax ==
  ASSUME MaxNumSeqs > 0
  PROVE  Spec => []RunningBelowMax
<1> DEFINE Inv == IsFiniteSet(InService) /\ RunningBelowMax
<1>1. Init => Inv
  <2> SUFFICES ASSUME Init PROVE Inv
    OBVIOUS
  <2>1. InService = {}
    BY DEF Init, InService
  <2> QED
    BY <2>1, FS_EmptySet DEF RunningBelowMax
<1>2. PagedInv /\ Inv /\ [Next]_vars => Inv'
  <2> SUFFICES ASSUME PagedInv, Inv, [Next]_vars PROVE Inv'
    OBVIOUS
  <2>1. Cardinality(InService) \in Nat /\ MaxNumSeqs \in Nat
    BY FS_CardinalityType, PagedAssumption
  <2>2. CASE Admit
    <3>1. PICK s \in SeqIds : s = Head(waiting) /\ s \in Queued
      BY <2>2, AdmitAllocates
    <3>2. /\ running' = running \cup {s} /\ UNCHANGED <<popped, reserved>>
          /\ MaxNumSeqs # Cardinality(running) + 1
          /\ phase = "admit"
      BY <2>2, <3>1 DEF Admit, CanAdmit
    <3>3. InService = running /\ InService' = running \cup {s} /\ s \notin running
      BY <3>1, <3>2 DEF InService, PagedInv, ReserveLoop, BlocksFollowService
    <3>4. IsFiniteSet(running \cup {s}) /\ Cardinality(running \cup {s}) = Cardinality(running) + 1
      BY <3>3, FS_AddElement
    <3> QED
      BY <2>1, <3>2, <3>3, <3>4 DEF RunningBelowMax
  <2>3. CASE ~Admit
    <3>1. InService' \subseteq InService
      BY <2>3, ServiceGrows
    <3>2. IsFiniteSet(InService') /\ Cardinality(InService') <= Cardinality(InService)
      BY <3>1, FS_Subset
    <3>3. Cardinality(InService') \in Nat
      BY <3>2, FS_CardinalityType
    <3> QED
      BY <2>1, <3>2, <3>3 DEF RunningBelowMax
  <2> QED
    BY <2>2, <2>3
<1>3. Inv => RunningBelowMax
  OBVIOUS
<1> QED
  BY <1>1, <1>2, <1>3, PagedInvariance, PTL DEF Spec
=============================================================================
