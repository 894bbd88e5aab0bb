------------------------- MODULE SocketBarrierProofs -------------------------
(***************************************************************************)
(* Theorems about SocketBarrier for any number of workers, local ranks,    *)
(* calls and crashes: it implements Barrier, and workers drift apart by no *)
(* more than the calls the head gave up.                                   *)
(*                                                                         *)
(* The argument balances what a node is owed: each exchange that a node    *)
(* completed, and each byte on its way to it, is paid for by a meeting of  *)
(* all threads of the other node at its barrier_all.                       *)
(***************************************************************************)
EXTENDS SocketBarrier, TLAPS

Bit(b) == IF b THEN 1 ELSE 0

Between == {"released", "cross"}
AtAll(t)   == pc[t] = "all"
AtBack(t)  == pc[t] = "back"
AllMet(n)  == \A t \in Threads : NodeOf(t) = n => pc[t] \in Between
Leads(n)   == \E t \in Threads : NodeOf(t) = n /\ pc[t] \in Leading
Acking(w)  == \E t \in Threads : NodeOf(t) = w /\ pc[t] = "write_ack"
Writing    == \E t \in Threads : pc[t] = "write_go"
Reading    == \E t \in Threads : pc[t] = "read_ack"

\* A leader is of the kind of its node, and the others of its node are past
\* barrier_all.
Roles ==
    \A t \in Threads :
        /\ pc[t] \in {"write_go", "read_ack"} => NodeOf(t) = 0
        /\ pc[t] \in {"read_go", "write_ack"} => NodeOf(t) # 0
        /\ pc[t] \in Leading =>
              \A u \in Threads : NodeOf(u) = NodeOf(t) /\ u # t => pc[u] \in Between

\* The calls of a thread are the generations of its barriers.
Generations ==
    \A t \in Threads :
        /\ entered[t] = barrier_all[NodeOf(t)] + Bit(AtAll(t))
        /\ passed[t] + Bit(AtBack(t)) = barrier_crossnode[NodeOf(t)]

\* barrier_crossnode opens once for each exchange.
Exchanges ==
    \A n \in Nodes :
        /\ confirmed[n] = barrier_crossnode[n] + Bit(AllMet(n))
        /\ barrier_all[n] = confirmed[n] + failures[n] + Bit(Leads(n))

\* What the head has or will get from a worker, the worker's threads met for.
HeadPaid ==
    \A w \in Workers :
        confirmed[0] + Bit(Reading /\ next > w) + ack[w] + Bit(Leads(w)) <= barrier_all[w]

\* What a worker has or will get from the head, the head's threads met for.
WorkerPaid ==
    \A w \in Workers :
        confirmed[w] + go[w] + Bit(Writing /\ next <= w) + Bit(Acking(w)) <= barrier_all[0]

\* The inductive invariant.
SBInv == TypeOK /\ Roles /\ Generations /\ Exchanges /\ HeadPaid /\ WorkerPaid

-----------------------------------------------------------------------------
LEMMA ThreadFacts ==
    /\ \A t \in Threads : NodeOf(t) \in Nodes
    /\ Workers \subseteq Nodes /\ 0 \in Nodes /\ 0 \notin Workers /\ 1 \in Workers
    /\ Workers \subseteq Nat
<1>1. \A t \in Threads : NodeOf(t) \in Nodes
  BY DEF Threads, NodeOf
<1>3. /\ Workers \subseteq Nodes /\ 0 \in Nodes /\ 0 \notin Workers /\ 1 \in Workers
      /\ Workers \subseteq Nat
  BY BarrierAssumption DEF Workers, Nodes
<1> QED BY <1>1, <1>3

\* No node is without ranks.
LEMMA NodeHasThreads ==
    ASSUME local_world_size \in LocalWorldSizes, NEW n \in Nodes
    PROVE  \E t \in Threads : NodeOf(t) = n
<1>1. 1 \in 1..local_world_size
  BY BarrierAssumption
<1>2. <<n, 1>> \in Threads /\ NodeOf(<<n, 1>>) = n
  BY <1>1 DEF Threads, NodeOf
<1> QED BY <1>2

-----------------------------------------------------------------------------
(* Before any rank has called the barrier the inductive invariant holds.   *)
THEOREM InitSBInv == Init => SBInv
<1> SUFFICES ASSUME Init PROVE SBInv
  OBVIOUS
<1>1. TypeOK /\ Roles /\ Generations
  BY ThreadFacts DEF Init, TypeOK, Roles, Generations, Bit, Leading, AtAll, AtBack
<1>2. /\ \A n \in Nodes : ~AllMet(n) /\ ~Leads(n)
      /\ ~Writing /\ ~Reading /\ \A w \in Workers : ~Acking(w)
  BY ThreadFacts, NodeHasThreads DEF Init, AllMet, Leads, Writing, Reading, Acking, Between, Leading
<1>3. Exchanges /\ HeadPaid /\ WorkerPaid
  BY <1>2, ThreadFacts DEF Init, Exchanges, HeadPaid, WorkerPaid, Bit
<1> QED BY <1>1, <1>3 DEF SBInv

LEMMA EnterInv ==
    ASSUME SBInv, NEW t \in Threads, Enter(t),
           UNCHANGED local_world_size, Threads' = Threads
    PROVE  SBInv'
<1> DEFINE n == NodeOf(t)
<1>1. CASE \A u \in Others(t) : pc[u] = "all"
  <2>1. /\ \A u \in Threads : NodeOf(u) # n => pc'[u] = pc[u]
        /\ \A u \in Threads : NodeOf(u) = n /\ u # t => pc[u] = "all" /\ pc'[u] = "released"
        /\ pc[t] = "out"
        /\ n = 0 => pc'[t] = "write_go"
        /\ n # 0 => pc'[t] = "read_go"
    BY <1>1 DEF Enter, Others
  <2>2. /\ barrier_all' = [barrier_all EXCEPT ![n] = @ + 1]
        /\ entered' = [entered EXCEPT ![t] = @ + 1]
        /\ UNCHANGED <<barrier_crossnode, go, ack, crashed, passed, confirmed, failures>>
    BY <1>1 DEF Enter
  <2>3. n \in Nodes /\ next' \in Workers /\ (n = 0 => next' = 1) /\ (n # 0 => next' = next)
    BY <1>1, ThreadFacts DEF Enter, SBInv, TypeOK
  <2>4. TypeOK'
    <3>1. pc' \in [Threads -> Leading \cup {"out", "all", "released", "cross", "back"}]
      BY <1>1 DEF SBInv, TypeOK, Enter, Leading
    <3>2. barrier_all' \in [Nodes -> Nat] /\ entered' \in [Threads -> Nat]
      BY <2>2, <2>3 DEF SBInv, TypeOK
    <3> QED BY <2>2, <2>3, <3>1, <3>2 DEF SBInv, TypeOK
  <2>5. Roles'
    BY <2>1, ThreadFacts DEF SBInv, Roles, Leading, Between
  <2>6. Generations'
    <3> SUFFICES ASSUME NEW u \in Threads
                 PROVE  /\ entered'[u] = barrier_all'[NodeOf(u)] + Bit(AtAll(u)')
                        /\ passed'[u] + Bit(AtBack(u)') = barrier_crossnode'[NodeOf(u)]
      BY DEF Generations
    <3>1. NodeOf(u) \in Nodes
      BY ThreadFacts
    <3>2. /\ AtBack(u)' <=> AtBack(u)
          /\ u = t => ~AtAll(u) /\ ~AtAll(u)'
          /\ NodeOf(u) = n /\ u # t => AtAll(u) /\ ~AtAll(u)'
          /\ NodeOf(u) # n => (AtAll(u)' <=> AtAll(u))
      BY <2>1 DEF AtAll, AtBack
    <3> QED BY <2>2, <2>3, <3>1, <3>2 DEF SBInv, Generations, Bit, TypeOK
  <2>7. /\ \A m \in Nodes : AllMet(m)' <=> AllMet(m)
        /\ ~Leads(n) /\ Leads(n)'
        /\ \A m \in Nodes \ {n} : Leads(m)' <=> Leads(m)
        /\ \A w \in Workers : Acking(w)' <=> Acking(w)
    BY <2>1, ThreadFacts DEF AllMet, Leads, Acking, Between, Leading
  <2>8. /\ n # 0 => (Reading' <=> Reading) /\ (Writing' <=> Writing)
        /\ n = 0 => ~Reading' /\ ~Writing
    BY <2>1 DEF SBInv, Roles, Reading, Writing
  <2>9. Exchanges'
    BY <2>2, <2>3, <2>7 DEF SBInv, Exchanges, Bit, TypeOK
  <2>10. HeadPaid'
    BY <2>2, <2>3, <2>7, <2>8, ThreadFacts DEF SBInv, HeadPaid, Bit, TypeOK
  <2>11. WorkerPaid'
    BY <2>2, <2>3, <2>7, <2>8, ThreadFacts DEF SBInv, WorkerPaid, Bit, TypeOK
  <2> QED BY <2>4, <2>5, <2>6, <2>9, <2>10, <2>11 DEF SBInv
<1>2. CASE ~(\A u \in Others(t) : pc[u] = "all")
  <2>1. /\ pc' = [pc EXCEPT ![t] = "all"] /\ pc[t] = "out"
        /\ entered' = [entered EXCEPT ![t] = @ + 1]
        /\ UNCHANGED <<barrier_all, next, barrier_crossnode, go, ack, crashed, passed,
                       confirmed, failures>>
    BY <1>2 DEF Enter, Goto
  <2>2. TypeOK'
    BY <2>1 DEF SBInv, TypeOK
  <2>3. Roles'
    BY <2>1 DEF SBInv, Roles, Leading, Between, TypeOK
  <2>4. Generations'
    <3>1. /\ \A u \in Threads : AtBack(u)' <=> AtBack(u)
          /\ \A u \in Threads \ {t} : AtAll(u)' <=> AtAll(u)
          /\ ~AtAll(t) /\ AtAll(t)'
      BY <2>1 DEF SBInv, TypeOK, AtAll, AtBack
    <3>2. /\ \A u \in Threads \ {t} : entered'[u] = entered[u]
          /\ entered'[t] = entered[t] + 1
          /\ entered \in [Threads -> Nat] /\ barrier_all \in [Nodes -> Nat]
          /\ UNCHANGED <<barrier_all, barrier_crossnode, passed>>
      BY <2>1 DEF SBInv, TypeOK
    <3>3. ASSUME NEW u \in Threads
          PROVE  entered'[u] = barrier_all'[NodeOf(u)] + Bit(AtAll(u)')
      <4>1. /\ entered[u] = barrier_all[NodeOf(u)] + Bit(AtAll(u))
            /\ barrier_all[NodeOf(u)] \in Nat
        BY <3>2, <3>3, ThreadFacts DEF SBInv, Generations
      <4>2. CASE u = t
        BY <3>1, <3>2, <4>1, <4>2 DEF Bit
      <4>3. CASE u # t
        BY <3>1, <3>2, <3>3, <4>1, <4>3 DEF Bit
      <4> QED BY <4>2, <4>3
    <3>4. ASSUME NEW u \in Threads
          PROVE  passed'[u] + Bit(AtBack(u)') = barrier_crossnode'[NodeOf(u)]
      BY <3>1, <3>2 DEF SBInv, Generations, Bit
    <3> QED BY <3>3, <3>4 DEF Generations
  <2>5. /\ \A m \in Nodes : (AllMet(m)' <=> AllMet(m)) /\ (Leads(m)' <=> Leads(m))
        /\ \A w \in Workers : Acking(w)' <=> Acking(w)
        /\ Reading' <=> Reading
        /\ Writing' <=> Writing
    BY <2>1 DEF SBInv, TypeOK, AllMet, Leads, Acking, Reading, Writing, Between, Leading
  <2>6. Exchanges'
    BY <2>1, <2>5 DEF SBInv, Exchanges, Bit
  <2>7. HeadPaid' /\ WorkerPaid'
    BY <2>1, <2>5, ThreadFacts DEF SBInv, HeadPaid, WorkerPaid, Bit
  <2> QED BY <2>2, <2>3, <2>4, <2>6, <2>7 DEF SBInv
<1> QED BY <1>1, <1>2

LEMMA CrossInv ==
    ASSUME SBInv, NEW t \in Threads, Cross(t),
           UNCHANGED local_world_size, Threads' = Threads
    PROVE  SBInv'
<1> DEFINE n == NodeOf(t)
<1>0. n \in Nodes /\ pc[t] = "released"
  BY ThreadFacts DEF Cross
<1>1. CASE \A u \in Others(t) : pc[u] = "cross"
  <2>1. /\ \A u \in Threads : NodeOf(u) # n => pc'[u] = pc[u]
        /\ \A u \in Threads : NodeOf(u) = n => pc[u] \in Between /\ pc'[u] = "back"
    BY <1>0, <1>1 DEF Cross, Others, Between
  <2>2. /\ barrier_crossnode' = [barrier_crossnode EXCEPT ![n] = @ + 1]
        /\ UNCHANGED <<barrier_all, next, go, ack, crashed, entered, passed, confirmed, failures>>
    BY <1>1 DEF Cross, bytes, counts
  <2>3. TypeOK'
    <3>1. pc' \in [Threads -> Leading \cup {"out", "all", "released", "cross", "back"}]
      BY <1>1 DEF SBInv, TypeOK, Cross, Leading
    <3> QED BY <1>0, <2>2, <3>1 DEF SBInv, TypeOK
  <2>4. Roles'
    BY <2>1 DEF SBInv, Roles, Leading, Between
  <2>5. Generations'
    <3>1. /\ \A u \in Threads : AtAll(u)' <=> AtAll(u)
          /\ \A u \in Threads : NodeOf(u) = n => ~AtBack(u) /\ AtBack(u)'
          /\ \A u \in Threads : NodeOf(u) # n => (AtBack(u)' <=> AtBack(u))
      BY <2>1 DEF AtAll, AtBack, Between
    <3> QED BY <1>0, <2>2, <3>1, ThreadFacts DEF SBInv, Generations, Bit, TypeOK
  <2>6. /\ AllMet(n) /\ ~AllMet(n)' /\ ~Leads(n) /\ ~Leads(n)'
        /\ \A m \in Nodes \ {n} : (AllMet(m)' <=> AllMet(m)) /\ (Leads(m)' <=> Leads(m))
    BY <1>0, <2>1 DEF AllMet, Leads, Between, Leading
  <2>7. /\ \A w \in Workers : Acking(w)' <=> Acking(w)
        /\ Reading' <=> Reading
        /\ Writing' <=> Writing
    BY <2>1 DEF Acking, Reading, Writing, Between
  <2>8. Exchanges'
    BY <1>0, <2>2, <2>6 DEF SBInv, Exchanges, Bit, TypeOK
  <2>9. HeadPaid' /\ WorkerPaid'
    BY <2>2, <2>6, <2>7, ThreadFacts DEF SBInv, HeadPaid, WorkerPaid, Bit
  <2> QED BY <2>3, <2>4, <2>5, <2>8, <2>9 DEF SBInv
<1>2. CASE ~(\A u \in Others(t) : pc[u] = "cross")
  <2>1. /\ pc' = [pc EXCEPT ![t] = "cross"]
        /\ UNCHANGED <<barrier_all, next, barrier_crossnode, go, ack, crashed, entered, passed,
                       confirmed, failures>>
    BY <1>2 DEF Cross, Goto, bytes, counts
  <2>2. TypeOK' /\ Roles'
    BY <1>0, <2>1 DEF SBInv, TypeOK, Roles, Leading, Between
  <2>3. Generations'
    <3>1. \A u \in Threads : (AtAll(u)' <=> AtAll(u)) /\ (AtBack(u)' <=> AtBack(u))
      BY <1>0, <2>1 DEF SBInv, TypeOK, AtAll, AtBack
    <3> QED BY <2>1, <3>1 DEF SBInv, Generations, Bit
  <2>4. /\ \A m \in Nodes : (AllMet(m)' <=> AllMet(m)) /\ (Leads(m)' <=> Leads(m))
        /\ \A w \in Workers : Acking(w)' <=> Acking(w)
        /\ Reading' <=> Reading
        /\ Writing' <=> Writing
    BY <1>0, <2>1 DEF SBInv, TypeOK, AllMet, Leads, Acking, Reading, Writing, Between, Leading
  <2>5. Exchanges'
    BY <2>1, <2>4 DEF SBInv, Exchanges, Bit
  <2>6. HeadPaid' /\ WorkerPaid'
    BY <2>1, <2>4, ThreadFacts DEF SBInv, HeadPaid, WorkerPaid, Bit
  <2> QED BY <2>2, <2>3, <2>5, <2>6 DEF SBInv
<1> QED BY <1>1, <1>2

LEMMA ReturnInv ==
    ASSUME SBInv, NEW t \in Threads, Return(t),
           UNCHANGED local_world_size, Threads' = Threads
    PROVE  SBInv'
<1>1. /\ pc[t] = "back" /\ pc' = [pc EXCEPT ![t] = "out"]
      /\ passed' = [passed EXCEPT ![t] = @ + 1]
      /\ UNCHANGED <<barrier_all, next, barrier_crossnode, go, ack, crashed, entered,
                     confirmed, failures>>
  BY DEF Return, Goto, barriers, bytes
<1>2. TypeOK'
  BY <1>1 DEF SBInv, TypeOK
<1>7. Roles'
  BY <1>1 DEF SBInv, TypeOK, Roles, Leading, Between
<1>3. Generations'
  <2>1. /\ \A u \in Threads : AtAll(u)' <=> AtAll(u)
        /\ \A u \in Threads \ {t} : AtBack(u)' <=> AtBack(u)
        /\ AtBack(t) /\ ~AtBack(t)'
    BY <1>1 DEF SBInv, TypeOK, AtAll, AtBack
  <2>2. /\ \A u \in Threads \ {t} : passed'[u] = passed[u]
        /\ passed'[t] = passed[t] + 1
        /\ passed \in [Threads -> Nat] /\ barrier_crossnode \in [Nodes -> Nat]
        /\ UNCHANGED <<barrier_all, barrier_crossnode, entered>>
    BY <1>1 DEF SBInv, TypeOK
  <2> QED BY <2>1, <2>2, ThreadFacts DEF SBInv, Generations, Bit
<1>4. /\ \A m \in Nodes : (AllMet(m)' <=> AllMet(m)) /\ (Leads(m)' <=> Leads(m))
      /\ \A w \in Workers : Acking(w)' <=> Acking(w)
      /\ Reading' <=> Reading
      /\ Writing' <=> Writing
  BY <1>1 DEF SBInv, TypeOK, AllMet, Leads, Acking, Reading, Writing, Between, Leading
<1>5. Exchanges'
  BY <1>1, <1>4 DEF SBInv, Exchanges, Bit
<1>6. HeadPaid' /\ WorkerPaid'
  BY <1>1, <1>4, ThreadFacts DEF SBInv, HeadPaid, WorkerPaid, Bit
<1> QED BY <1>2, <1>3, <1>5, <1>6, <1>7 DEF SBInv

\* A step that leaves the std barriers alone, and takes a leader to another
\* stage of its exchange, or ends it.
LEMMA LeaderSteps ==
    ASSUME SBInv, NEW t \in Threads, pc[t] \in Leading,
           NEW to \in Leading \cup {"released", "out"}, pc' = [pc EXCEPT ![t] = to],
           to \in {"write_go", "read_ack"} => NodeOf(t) = 0,
           to \in {"read_go", "write_ack"} => NodeOf(t) # 0,
           UNCHANGED <<barrier_all, barrier_crossnode, entered, passed>>, Threads' = Threads
    PROVE  /\ Roles' /\ Generations'
           /\ \A m \in Nodes \ {NodeOf(t)} : (AllMet(m)' <=> AllMet(m)) /\ (Leads(m)' <=> Leads(m))
           /\ ~AllMet(NodeOf(t)) /\ Leads(NodeOf(t))
           /\ AllMet(NodeOf(t))' <=> to = "released"
           /\ Leads(NodeOf(t))' <=> to \in Leading
           /\ NodeOf(t) # 0 => /\ (Reading' <=> Reading) /\ (Writing' <=> Writing)
                               /\ Acking(NodeOf(t)) <=> pc[t] = "write_ack"
                               /\ Acking(NodeOf(t))' <=> to = "write_ack"
           /\ NodeOf(t) = 0 => /\ Reading <=> pc[t] = "read_ack"
                               /\ Writing <=> pc[t] = "write_go"
                               /\ Reading' <=> to = "read_ack"
                               /\ Writing' <=> to = "write_go"
           /\ \A w \in Workers \ {NodeOf(t)} : Acking(w)' <=> Acking(w)
           /\ NodeOf(t) \in Nodes
<1> DEFINE n == NodeOf(t)
<1>1. /\ pc'[t] = to /\ n \in Nodes
      /\ \A u \in Threads \ {t} : pc'[u] = pc[u]
      /\ \A u \in Threads \ {t} : NodeOf(u) = n => pc[u] \in Between
  BY ThreadFacts DEF SBInv, TypeOK, Roles
<1>2. Roles'
  BY <1>1 DEF SBInv, Roles, Leading, Between
<1>3. Generations'
  <2>1. \A u \in Threads : (AtAll(u)' <=> AtAll(u)) /\ (AtBack(u)' <=> AtBack(u))
    BY <1>1 DEF AtAll, AtBack, Leading
  <2> QED BY <2>1 DEF SBInv, Generations, Bit
<1>4. \A m \in Nodes \ {n} : (AllMet(m)' <=> AllMet(m)) /\ (Leads(m)' <=> Leads(m))
  BY <1>1 DEF AllMet, Leads
<1>5. ~AllMet(n) /\ (AllMet(n)' <=> to = "released")
  BY <1>1 DEF AllMet, Between, Leading
<1>6. Leads(n) /\ (Leads(n)' <=> to \in Leading)
  BY <1>1 DEF Leads, Between, Leading
<1>7. n # 0 => /\ (Reading' <=> Reading) /\ (Writing' <=> Writing)
               /\ Acking(n) <=> pc[t] = "write_ack"
               /\ Acking(n)' <=> to = "write_ack"
  BY <1>1 DEF SBInv, Roles, Reading, Writing, Acking, Between
<1>8. n = 0 => /\ Reading <=> pc[t] = "read_ack"
               /\ Writing <=> pc[t] = "write_go"
               /\ Reading' <=> to = "read_ack"
               /\ Writing' <=> to = "write_go"
  BY <1>1 DEF SBInv, Roles, Reading, Writing, Between
<1>9. \A w \in Workers \ {n} : Acking(w)' <=> Acking(w)
  BY <1>1 DEF Acking
<1> QED BY <1>1, <1>2, <1>3, <1>4, <1>5, <1>6, <1>7, <1>8, <1>9

LEMMA WriteGoInv ==
    ASSUME SBInv, NEW t \in Threads, WriteGo(t),
           UNCHANGED local_world_size, Threads' = Threads
    PROVE  SBInv'
<1>1. /\ pc[t] = "write_go" /\ NodeOf(t) = 0
      /\ go' = [go EXCEPT ![next] = @ + 1]
      /\ UNCHANGED <<barrier_all, barrier_crossnode, ack, crashed, entered, passed,
                     confirmed, failures>>
  BY DEF SBInv, Roles, WriteGo, barriers, counts
<1>2. /\ next \in Workers /\ next' \in Workers
      /\ next = N => next' = 1
      /\ next # N => next' = next + 1
  BY BarrierAssumption DEF SBInv, TypeOK, WriteGo, Goto, Workers
<1>3. /\ Roles' /\ Generations'
      /\ \A m \in Nodes : (AllMet(m)' <=> AllMet(m)) /\ (Leads(m)' <=> Leads(m))
      /\ \A w \in Workers : Acking(w)' <=> Acking(w)
      /\ Reading' <=> next = N
      /\ Writing
      /\ Writing' <=> next # N
      /\ pc' \in [Threads -> Leading \cup {"out", "all", "released", "cross", "back"}]
  <2>1. CASE next = N
    <3>1. pc' = [pc EXCEPT ![t] = "read_ack"]
      BY <2>1 DEF WriteGo, Goto
    <3> QED BY <1>1, <2>1, <3>1, LeaderSteps, ThreadFacts DEF Leading, SBInv, TypeOK
  <2>2. CASE next # N
    <3>1. pc' = [pc EXCEPT ![t] = "write_go"]
      BY <1>1, <2>2 DEF SBInv, TypeOK, WriteGo
    <3>2. pc' \in [Threads -> Leading \cup {"out", "all", "released", "cross", "back"}]
      BY <2>2 DEF SBInv, TypeOK, WriteGo
    <3> QED BY <1>1, <2>2, <3>1, <3>2, LeaderSteps, ThreadFacts DEF Leading
  <2> QED BY <2>1, <2>2
<1>4. TypeOK'
  <2>1. go' \in [Workers -> Nat]
    BY <1>1, <1>2 DEF SBInv, TypeOK
  <2> QED BY <1>1, <1>2, <1>3, <2>1 DEF SBInv, TypeOK
<1>5. Exchanges'
  BY <1>1, <1>3 DEF SBInv, Exchanges, Bit
<1>6. ASSUME NEW w \in Workers
      PROVE  confirmed'[0] + Bit(Reading' /\ next' > w) + ack'[w] + Bit(Leads(w)')
                 <= barrier_all'[w]
  <2>1. ~(Reading' /\ next' > w)
    BY <1>2, <1>3 DEF Workers
  <2>2. /\ confirmed[0] + Bit(Reading /\ next > w) + ack[w] + Bit(Leads(w)) <= barrier_all[w]
        /\ ack[w] \in Nat /\ confirmed[0] \in Nat /\ barrier_all[w] \in Nat
        /\ Leads(w)' <=> Leads(w)
    BY <1>3, ThreadFacts DEF SBInv, HeadPaid, TypeOK
  <2> QED BY <1>1, <2>1, <2>2 DEF Bit
<1>7. ASSUME NEW w \in Workers
      PROVE  confirmed'[w] + go'[w] + Bit(Writing' /\ next' <= w) + Bit(Acking(w)')
                 <= barrier_all'[0]
  <2>1. /\ w = next => go'[w] = go[w] + 1
        /\ w # next => go'[w] = go[w]
        /\ go[w] \in Nat /\ confirmed[w] \in Nat /\ barrier_all[0] \in Nat
    BY <1>1, ThreadFacts DEF SBInv, TypeOK
  <2>2. /\ w = next => next <= w /\ ~(Writing' /\ next' <= w)
        /\ w # next /\ Writing' /\ next' <= w => next <= w
    BY <1>2, <1>3 DEF Workers
  <2>3. confirmed[w] + go[w] + Bit(next <= w) + Bit(Acking(w)) <= barrier_all[0]
    BY <1>3 DEF SBInv, WorkerPaid, Bit
  <2>4. Acking(w)' <=> Acking(w)
    BY <1>3
  <2>5. CASE w = next
    BY <1>1, <2>1, <2>2, <2>3, <2>4, <2>5 DEF Bit
  <2>6. CASE w # next
    BY <1>1, <2>1, <2>2, <2>3, <2>4, <2>6 DEF Bit
  <2> QED BY <2>5, <2>6
<1>8. HeadPaid' /\ WorkerPaid'
  BY <1>6, <1>7 DEF HeadPaid, WorkerPaid
<1> QED BY <1>3, <1>4, <1>5, <1>8 DEF SBInv

LEMMA ReadAckInv ==
    ASSUME SBInv, NEW t \in Threads, ReadAck(t),
           UNCHANGED local_world_size, Threads' = Threads
    PROVE  SBInv'
<1>1. /\ pc[t] = "read_ack" /\ NodeOf(t) = 0 /\ ack[next] > 0
      /\ ack' = [ack EXCEPT ![next] = @ - 1]
      /\ UNCHANGED <<barrier_all, barrier_crossnode, go, crashed, entered, passed, failures>>
  BY DEF SBInv, Roles, ReadAck, barriers
<1>2. /\ next \in Workers /\ next' \in Workers
      /\ next = N => next' = next
      /\ next # N => next' = next + 1
  BY BarrierAssumption DEF SBInv, TypeOK, ReadAck, Confirm, Goto, Workers
<1>3. /\ confirmed' \in [Nodes -> Nat]
      /\ \A n \in Nodes \ {0} : confirmed'[n] = confirmed[n]
      /\ next = N => confirmed'[0] = confirmed[0] + 1
      /\ next # N => confirmed'[0] = confirmed[0]
  <2>1. next = N => confirmed' = [confirmed EXCEPT ![0] = @ + 1]
    BY <1>1 DEF ReadAck, Confirm
  <2>2. next # N => confirmed' = confirmed
    BY DEF ReadAck
  <2> QED BY <2>1, <2>2, ThreadFacts DEF SBInv, TypeOK
<1>4. /\ Roles' /\ Generations'
      /\ \A m \in Nodes \ {0} : (AllMet(m)' <=> AllMet(m)) /\ (Leads(m)' <=> Leads(m))
      /\ ~AllMet(0) /\ Leads(0)
      /\ AllMet(0)' <=> next = N
      /\ Leads(0)' <=> next # N
      /\ \A w \in Workers : Acking(w)' <=> Acking(w)
      /\ Reading
      /\ Reading' <=> next # N
      /\ ~Writing /\ ~Writing'
      /\ pc' \in [Threads -> Leading \cup {"out", "all", "released", "cross", "back"}]
  <2>1. CASE next = N
    <3>1. pc' = [pc EXCEPT ![t] = "released"]
      BY <2>1 DEF ReadAck, Confirm, Goto
    <3> QED BY <1>1, <2>1, <3>1, LeaderSteps, ThreadFacts DEF Leading, SBInv, TypeOK
  <2>2. CASE next # N
    <3>1. pc' = pc /\ pc' = [pc EXCEPT ![t] = "read_ack"]
      BY <1>1, <2>2 DEF SBInv, TypeOK, ReadAck
    <3> QED BY <1>1, <2>2, <3>1, LeaderSteps, ThreadFacts DEF Leading, SBInv, TypeOK
  <2> QED BY <2>1, <2>2
<1>5. TypeOK'
  <2>1. ack' \in [Workers -> Nat]
    BY <1>1, <1>2 DEF SBInv, TypeOK
  <2> QED BY <1>1, <1>2, <1>3, <1>4, <2>1 DEF SBInv, TypeOK
<1>6. Exchanges'
  <2>1. /\ confirmed[0] = barrier_crossnode[0] + Bit(AllMet(0))
        /\ barrier_all[0] = confirmed[0] + failures[0] + Bit(Leads(0))
        /\ confirmed[0] \in Nat /\ failures[0] \in Nat /\ barrier_crossnode[0] \in Nat
    BY ThreadFacts DEF SBInv, Exchanges, TypeOK
  <2>2. /\ confirmed'[0] = barrier_crossnode'[0] + Bit(AllMet(0)')
        /\ barrier_all'[0] = confirmed'[0] + failures'[0] + Bit(Leads(0)')
    BY <1>1, <1>3, <1>4, <2>1 DEF Bit
  <2>3. \A n \in Nodes \ {0} :
           /\ confirmed'[n] = barrier_crossnode'[n] + Bit(AllMet(n)')
           /\ barrier_all'[n] = confirmed'[n] + failures'[n] + Bit(Leads(n)')
    BY <1>1, <1>3, <1>4 DEF SBInv, Exchanges, Bit
  <2> QED BY <2>2, <2>3 DEF Exchanges
<1>7. ASSUME NEW w \in Workers
      PROVE  confirmed'[0] + Bit(Reading' /\ next' > w) + ack'[w] + Bit(Leads(w)')
                 <= barrier_all'[w]
  <2>1. /\ w = next => ack'[w] = ack[w] - 1
        /\ w # next => ack'[w] = ack[w]
        /\ ack[w] \in Nat /\ confirmed[0] \in Nat /\ barrier_all[w] \in Nat
    BY <1>1, ThreadFacts DEF SBInv, TypeOK
  <2>2. /\ w = next => ~(next > w)
        /\ w # next /\ Reading' /\ next' > w => next > w
        /\ w # next /\ next = N => next > w
    BY <1>2, BarrierAssumption DEF Workers
  <2>3. confirmed[0] + Bit(next > w) + ack[w] + Bit(Leads(w)) <= barrier_all[w]
    BY <1>4 DEF SBInv, HeadPaid, Bit
  <2>4. Leads(w)' <=> Leads(w)
    BY <1>4, ThreadFacts
  <2>5. CASE w = next
    BY <1>1, <1>3, <1>4, <2>1, <2>2, <2>3, <2>4, <2>5 DEF Bit
  <2>6. CASE w # next /\ next = N
    BY <1>1, <1>3, <1>4, <2>1, <2>2, <2>3, <2>4, <2>6 DEF Bit
  <2>7. CASE w # next /\ next # N
    BY <1>1, <1>3, <1>4, <2>1, <2>2, <2>3, <2>4, <2>7 DEF Bit
  <2> QED BY <2>5, <2>6, <2>7
<1>8. ASSUME NEW w \in Workers
      PROVE  confirmed'[w] + go'[w] + Bit(Writing' /\ next' <= w) + Bit(Acking(w)')
                 <= barrier_all'[0]
  <2>1. confirmed'[w] = confirmed[w] /\ (Acking(w)' <=> Acking(w))
    BY <1>3, <1>4, ThreadFacts
  <2> QED BY <1>1, <1>4, <2>1 DEF SBInv, WorkerPaid, Bit
<1>9. HeadPaid' /\ WorkerPaid'
  BY <1>7, <1>8 DEF HeadPaid, WorkerPaid
<1> QED BY <1>4, <1>5, <1>6, <1>9 DEF SBInv

LEMMA ReadGoInv ==
    ASSUME SBInv, NEW t \in Threads, NodeOf(t) # 0, ReadGo(t),
           UNCHANGED local_world_size, Threads' = Threads
    PROVE  SBInv'
<1> DEFINE n == NodeOf(t)
<1>1. /\ pc[t] = "read_go" /\ n \in Workers /\ go[n] > 0
      /\ pc' = [pc EXCEPT ![t] = "write_ack"]
      /\ go' = [go EXCEPT ![n] = @ - 1]
      /\ UNCHANGED <<barrier_all, barrier_crossnode, next, ack, crashed, entered, passed,
                     confirmed, failures>>
  BY ThreadFacts DEF ReadGo, Goto, barriers, counts, Nodes, Workers
<1>2. TypeOK'
  <2>1. go' \in [Workers -> Nat]
    BY <1>1 DEF SBInv, TypeOK
  <2>2. pc' \in [Threads -> Leading \cup {"out", "all", "released", "cross", "back"}]
    BY <1>1 DEF SBInv, TypeOK, Leading
  <2> QED BY <1>1, <2>1, <2>2 DEF SBInv, TypeOK
<1>3. /\ Roles' /\ Generations'
      /\ \A m \in Nodes : (AllMet(m)' <=> AllMet(m)) /\ (Leads(m)' <=> Leads(m))
      /\ \A w \in Workers \ {n} : Acking(w)' <=> Acking(w)
      /\ ~Acking(n) /\ Acking(n)'
      /\ Reading' <=> Reading
      /\ Writing' <=> Writing
  BY <1>1, LeaderSteps, ThreadFacts DEF Leading
<1>4. Exchanges'
  BY <1>1, <1>3 DEF SBInv, Exchanges, Bit
<1>5. HeadPaid'
  BY <1>1, <1>3, ThreadFacts DEF SBInv, HeadPaid, Bit
<1>6. WorkerPaid'
  BY <1>1, <1>3, ThreadFacts DEF SBInv, WorkerPaid, Bit, TypeOK
<1> QED BY <1>2, <1>3, <1>4, <1>5, <1>6 DEF SBInv

LEMMA WriteAckInv ==
    ASSUME SBInv, NEW t \in Threads, NodeOf(t) # 0, WriteAck(t),
           UNCHANGED local_world_size, Threads' = Threads
    PROVE  SBInv'
<1> DEFINE n == NodeOf(t)
<1>1. /\ pc[t] = "write_ack" /\ n \in Workers
      /\ pc' = [pc EXCEPT ![t] = "released"]
      /\ ack' = [ack EXCEPT ![n] = @ + 1]
      /\ confirmed' = [confirmed EXCEPT ![n] = @ + 1]
      /\ UNCHANGED <<barrier_all, barrier_crossnode, next, go, crashed, entered, passed, failures>>
  BY ThreadFacts DEF WriteAck, Confirm, Goto, barriers, Nodes, Workers
<1>2. TypeOK'
  <2>1. ack' \in [Workers -> Nat]
    BY <1>1 DEF SBInv, TypeOK
  <2>3. confirmed' \in [Nodes -> Nat]
    <3>1. n \in Nodes /\ confirmed \in [Nodes -> Nat]
      BY <1>1, ThreadFacts DEF SBInv, TypeOK
    <3> QED BY <1>1, <3>1
  <2>2. pc' \in [Threads -> Leading \cup {"out", "all", "released", "cross", "back"}]
    BY <1>1 DEF SBInv, TypeOK, Leading
  <2> QED BY <1>1, <2>1, <2>2, <2>3 DEF SBInv, TypeOK
<1>3. /\ Roles' /\ Generations'
      /\ \A m \in Nodes \ {n} : (AllMet(m)' <=> AllMet(m)) /\ (Leads(m)' <=> Leads(m))
      /\ ~AllMet(n) /\ AllMet(n)' /\ Leads(n) /\ ~Leads(n)'
      /\ \A w \in Workers \ {n} : Acking(w)' <=> Acking(w)
      /\ Acking(n) /\ ~Acking(n)'
      /\ Reading' <=> Reading
      /\ Writing' <=> Writing
  BY <1>1, LeaderSteps, ThreadFacts DEF Leading
<1>4. Exchanges'
  BY <1>1, <1>3, ThreadFacts DEF SBInv, Exchanges, Bit, TypeOK
<1>5. HeadPaid'
  BY <1>1, <1>3, ThreadFacts DEF SBInv, HeadPaid, Bit, TypeOK
<1>6. WorkerPaid'
  BY <1>1, <1>3, ThreadFacts DEF SBInv, WorkerPaid, Bit, TypeOK
<1> QED BY <1>2, <1>3, <1>4, <1>5, <1>6 DEF SBInv

LEMMA FailInv ==
    ASSUME SBInv, NEW t \in Threads, Fail(t),
           UNCHANGED local_world_size, Threads' = Threads
    PROVE  SBInv'
<1> DEFINE n == NodeOf(t)
<1>1. /\ pc[t] \in Leading /\ n \in Nodes
      /\ pc' = [pc EXCEPT ![t] = "out"]
      /\ failures' = [failures EXCEPT ![n] = @ + 1]
      /\ UNCHANGED <<barrier_all, barrier_crossnode, next, go, ack, crashed, entered, passed,
                     confirmed>>
  BY ThreadFacts DEF Fail, IoFails, TimesOut, Disconnected, Goto, barriers, bytes, Leading
<1>2. TypeOK'
  <2>1. failures' \in [Nodes -> Nat]
    <3>1. failures \in [Nodes -> Nat]
      BY DEF SBInv, TypeOK
    <3> QED BY <1>1, <3>1
  <2>2. pc' \in [Threads -> Leading \cup {"out", "all", "released", "cross", "back"}]
    <3>1. pc \in [Threads -> Leading \cup {"out", "all", "released", "cross", "back"}]
      BY DEF SBInv, TypeOK
    <3> QED BY <1>1, <3>1
  <2> QED BY <1>1, <2>1, <2>2 DEF SBInv, TypeOK
<1>3. /\ Roles' /\ Generations'
      /\ \A m \in Nodes \ {n} : (AllMet(m)' <=> AllMet(m)) /\ (Leads(m)' <=> Leads(m))
      /\ ~AllMet(n) /\ ~AllMet(n)' /\ Leads(n) /\ ~Leads(n)'
  <2>1. /\ "out" \in Leading \cup {"released", "out"} /\ "out" \notin Leading
        /\ "out" # "released"
        /\ "out" \notin {"write_go", "read_ack"} /\ "out" \notin {"read_go", "write_ack"}
    BY DEF Leading
  <2>2. UNCHANGED <<barrier_all, barrier_crossnode, entered, passed>>
    BY <1>1
  <2> QED BY <1>1, <2>1, <2>2, LeaderSteps
<1>4. /\ \A w \in Workers : Acking(w)' => Acking(w)
      /\ Reading' => Reading
      /\ Writing' => Writing
      /\ \A m \in Nodes : Leads(m)' => Leads(m)
  <2>1. /\ pc'[t] = "out"
        /\ \A u \in Threads \ {t} : pc'[u] = pc[u]
    BY <1>1 DEF SBInv, TypeOK
  <2>2. \A w \in Workers : Acking(w)' => Acking(w)
    BY <2>1 DEF Acking
  <2>3. (Reading' => Reading) /\ (Writing' => Writing)
    BY <2>1 DEF Reading, Writing
  <2> QED BY <1>3, <2>2, <2>3
<1>5. Exchanges'
  BY <1>1, <1>3, ThreadFacts DEF SBInv, Exchanges, Bit, TypeOK
<1>6. HeadPaid'
  BY <1>1, <1>4, ThreadFacts DEF SBInv, HeadPaid, Bit, TypeOK
<1>7. WorkerPaid'
  BY <1>1, <1>4, ThreadFacts DEF SBInv, WorkerPaid, Bit, TypeOK
<1> QED BY <1>2, <1>3, <1>5, <1>6, <1>7 DEF SBInv

LEMMA CrashInv ==
    ASSUME SBInv, NEW n \in Nodes, Crash(n),
           UNCHANGED local_world_size, Threads' = Threads
    PROVE  SBInv'
BY DEF Crash, SBInv, TypeOK, Roles, Generations, Exchanges, HeadPaid, WorkerPaid, AtAll, AtBack,
       AllMet, Leads, Acking, Reading, Writing, Bit, barriers, bytes, counts

LEMMA StutterInv == SBInv /\ UNCHANGED vars /\ Threads' = Threads => SBInv'
BY DEF vars, SBInv, TypeOK, Roles, Generations, Exchanges, HeadPaid, WorkerPaid, AtAll, AtBack,
       AllMet, Leads, Acking, Reading, Writing, Bit, barriers, bytes, counts

\* Every step of the system preserves the inductive invariant.
THEOREM NextSBInv == SBInv /\ [Next]_vars => SBInv'
<1> SUFFICES ASSUME SBInv, [Next]_vars PROVE SBInv'
  OBVIOUS
<1>0. UNCHANGED local_world_size /\ Threads' = Threads
  BY DEF Next, vars, Threads
<1>1. ASSUME NEW t \in Threads, Step(t) PROVE SBInv'
  BY <1>0, <1>1, EnterInv, CrossInv, ReturnInv, WriteGoInv, ReadAckInv, ReadGoInv, WriteAckInv, FailInv
     DEF Step, Head, Worker
<1>2. ASSUME NEW n \in Nodes, Crash(n) PROVE SBInv'
  BY <1>0, <1>2, CrashInv
<1> QED BY <1>0, <1>1, <1>2, StutterInv DEF Next

-----------------------------------------------------------------------------
(* The inductive invariant holds in every reachable state.                 *)
THEOREM InvariantSB == Spec => []SBInv
BY InitSBInv, NextSBInv, PTL DEF Spec

(* The types of all variables, in every reachable state.                   *)
THEOREM TypeCorrect == Spec => []TypeOK
<1>1. SBInv => TypeOK
  BY DEF SBInv
<1> QED BY <1>1, InvariantSB, PTL

\* What a node completed, and what it can have from the others.
LEMMA Owed ==
    ASSUME SBInv, NEW t \in Threads, NEW u \in Threads
    PROVE  /\ passed[t] + Bit(AtBack(t)) <= confirmed[NodeOf(t)]
           /\ barrier_all[NodeOf(u)] <= entered[u]
           /\ \A n \in Nodes : confirmed[n] <= barrier_all[n]
           /\ \A w \in Workers : confirmed[0] <= barrier_all[w] /\ confirmed[w] <= barrier_all[0]
           /\ barrier_all[0] <= confirmed[0] + failures[0] + 1
<1>1. NodeOf(t) \in Nodes /\ NodeOf(u) \in Nodes /\ 0 \in Nodes /\ Workers \subseteq Nodes
  BY ThreadFacts
<1>2. passed[t] + Bit(AtBack(t)) <= confirmed[NodeOf(t)]
  <2>1. /\ passed[t] + Bit(AtBack(t)) = barrier_crossnode[NodeOf(t)]
        /\ confirmed[NodeOf(t)] = barrier_crossnode[NodeOf(t)] + Bit(AllMet(NodeOf(t)))
        /\ barrier_crossnode[NodeOf(t)] \in Nat
    BY <1>1 DEF SBInv, Generations, Exchanges, TypeOK
  <2> QED BY <2>1 DEF Bit
<1>3. barrier_all[NodeOf(u)] <= entered[u]
  BY <1>1 DEF SBInv, Generations, TypeOK, Bit
<1>4. ASSUME NEW n \in Nodes
      PROVE  /\ confirmed[n] <= barrier_all[n]
             /\ barrier_all[n] <= confirmed[n] + failures[n] + 1
  BY DEF SBInv, Exchanges, TypeOK, Bit
<1>5. ASSUME NEW w \in Workers
      PROVE  confirmed[0] <= barrier_all[w] /\ confirmed[w] <= barrier_all[0]
  <2>1. /\ confirmed[0] \in Nat /\ confirmed[w] \in Nat /\ ack[w] \in Nat /\ go[w] \in Nat
        /\ barrier_all[0] \in Nat /\ barrier_all[w] \in Nat
    BY <1>1 DEF SBInv, TypeOK
  <2>2. confirmed[0] + Bit(Reading /\ next > w) + ack[w] + Bit(Leads(w)) <= barrier_all[w]
    BY DEF SBInv, HeadPaid
  <2>3. confirmed[w] + go[w] + Bit(Writing /\ next <= w) + Bit(Acking(w)) <= barrier_all[0]
    BY DEF SBInv, WorkerPaid
  <2> QED BY <2>1, <2>2, <2>3 DEF Bit
<1> QED BY <1>1, <1>2, <1>3, <1>4, <1>5

(* Workers drift apart by one call, and by those that the head gave up.    *)
THEOREM SkewIsBounded == Spec => []SkewBounded
<1>1. SBInv => SkewBounded
  <2> SUFFICES ASSUME SBInv, NEW t \in Threads, NEW u \in Threads
               PROVE  passed[t] <= entered[u] + 1 + failures[0]
    BY DEF SkewBounded
  <2>1. /\ passed[t] \in Nat /\ entered[u] \in Nat /\ failures[0] \in Nat
        /\ confirmed \in [Nodes -> Nat] /\ barrier_all \in [Nodes -> Nat]
        /\ NodeOf(t) \in Nodes /\ NodeOf(u) \in Nodes /\ 0 \in Nodes
    BY ThreadFacts DEF SBInv, TypeOK
  <2>2. passed[t] <= confirmed[NodeOf(t)] /\ barrier_all[NodeOf(u)] <= entered[u]
    BY <2>1, Owed DEF Bit
  <2>3. \A n \in Nodes : n = 0 \/ n \in Workers
    BY DEF Nodes, Workers
  <2>4. confirmed[NodeOf(t)] <= barrier_all[0]
    BY <2>1, <2>3, Owed
  <2>5. barrier_all[0] <= confirmed[0] + failures[0] + 1
    BY Owed
  <2>6. confirmed[0] <= barrier_all[NodeOf(u)]
    BY <2>1, <2>3, Owed
  <2> QED BY <2>1, <2>2, <2>4, <2>5, <2>6
<1> QED BY <1>1, InvariantSB, PTL

-----------------------------------------------------------------------------
(* SocketBarrier implements Barrier.                                       *)

inside == {t \in Threads : Inside(t)}

\* A call that returns Ok has waited for a call by everybody it waits for.
LEMMA ReturnHasWaited ==
    ASSUME SBInv, NEW t \in Threads, pc[t] = "back", NEW u \in WaitsFor[t]
    PROVE  passed[t] < entered[u]
<1>1. u \in Threads /\ (NodeOf(t) = 0 \/ NodeOf(u) = 0 \/ NodeOf(u) = NodeOf(t))
  BY DEF WaitsFor
<1>2. /\ passed[t] \in Nat /\ entered[u] \in Nat
      /\ confirmed \in [Nodes -> Nat] /\ barrier_all \in [Nodes -> Nat]
      /\ NodeOf(t) \in Nodes /\ NodeOf(u) \in Nodes /\ 0 \in Nodes
  BY <1>1, ThreadFacts DEF SBInv, TypeOK
<1>3. \A n \in Nodes : n = 0 \/ n \in Workers
  BY DEF Nodes, Workers
<1>4. passed[t] + 1 <= confirmed[NodeOf(t)] /\ barrier_all[NodeOf(u)] <= entered[u]
  BY <1>1, Owed DEF Bit, AtBack
<1>5. confirmed[NodeOf(t)] <= barrier_all[NodeOf(u)]
  BY <1>1, <1>2, <1>3, Owed
<1> QED BY <1>2, <1>4, <1>5

\* A step either leaves what Barrier sees alone, or is one of its three.
LEMMA StepRefines ==
    ASSUME SBInv, NEW t \in Threads, Step(t), Threads' = Threads
    PROVE  \/ UNCHANGED <<WaitsFor, entered, passed, inside>>
           \/ B!Call(t) \/ B!ReturnOk(t) \/ B!ReturnErr(t)
<1> DEFINE Hidden == UNCHANGED <<entered, passed>> /\ \A u \in Threads : pc[u] = "out" <=> pc'[u] = "out"
<1>0. WaitsFor' = WaitsFor /\ DOMAIN WaitsFor = Threads
  BY DEF WaitsFor
<1>1. ASSUME Hidden PROVE UNCHANGED <<WaitsFor, entered, passed, inside>>
  BY <1>0, <1>1 DEF inside, Inside
<1>2. pc \in [Threads -> Leading \cup {"out", "all", "released", "cross", "back"}]
  BY DEF SBInv, TypeOK
<1>3. CASE Enter(t)
  <2>1. /\ pc[t] = "out" /\ pc'[t] # "out"
        /\ \A u \in Threads \ {t} : pc[u] = "out" <=> pc'[u] = "out"
        /\ entered' = [entered EXCEPT ![t] = @ + 1] /\ passed' = passed
    BY <1>2, <1>3 DEF Enter, Goto, Others
  <2>2. t \notin inside /\ inside' = inside \cup {t}
    BY <2>1 DEF inside, Inside
  <2> QED BY <1>0, <2>1, <2>2 DEF B!Call, inside
<1>4. CASE Cross(t)
  <2>1. Hidden
    BY <1>2, <1>4 DEF Cross, Goto, Others, counts
  <2> QED BY <1>1, <2>1
<1>5. CASE Return(t)
  <2>1. /\ pc[t] = "back" /\ pc' = [pc EXCEPT ![t] = "out"]
        /\ passed' = [passed EXCEPT ![t] = @ + 1] /\ entered' = entered
    BY <1>5 DEF Return, Goto
  <2>2. t \in inside /\ inside' = inside \ {t}
    BY <1>2, <2>1 DEF inside, Inside
  <2>3. \A u \in WaitsFor[t] : passed[t] < entered[u]
    BY <2>1, ReturnHasWaited
  <2> QED BY <1>0, <2>1, <2>2, <2>3 DEF B!ReturnOk, inside
<1>6. CASE Fail(t)
  <2>1. /\ pc[t] # "out" /\ pc' = [pc EXCEPT ![t] = "out"]
        /\ passed' = passed /\ entered' = entered
    BY <1>6 DEF Fail, IoFails, TimesOut, Disconnected, Goto
  <2>2. t \in inside /\ inside' = inside \ {t}
    BY <1>2, <2>1 DEF inside, Inside
  <2> QED BY <1>0, <2>1, <2>2 DEF B!ReturnErr, inside
<1>7. CASE WriteGo(t)
  <2>1. Hidden
    BY <1>2, <1>7 DEF WriteGo, Goto, counts
  <2> QED BY <1>1, <2>1
<1>8. CASE ReadAck(t)
  <2>1. Hidden
    BY <1>2, <1>8 DEF ReadAck, Confirm, Goto
  <2> QED BY <1>1, <2>1
<1>9. CASE ReadGo(t)
  <2>1. Hidden
    BY <1>2, <1>9 DEF ReadGo, Goto, counts
  <2> QED BY <1>1, <2>1
<1>10. CASE WriteAck(t)
  <2>1. Hidden
    BY <1>2, <1>10 DEF WriteAck, Confirm, Goto
  <2> QED BY <1>1, <2>1
<1> QED BY <1>3, <1>4, <1>5, <1>6, <1>7, <1>8, <1>9, <1>10 DEF Step, Head, Worker

(* The socket barrier keeps the promise of Barrier, for any number of      *)
(* workers and ranks, whatever times out or crashes.                       *)
THEOREM BarrierRefinement == Spec => ImplementsBarrier
<1>1. Init => B!Init
  BY DEF Init, B!Init, B!Threads, WaitsFor, Inside
<1>2. SBInv /\ [Next]_vars => [B!Next]_B!vars
  <2> SUFFICES ASSUME SBInv, [Next]_vars
               PROVE  B!Next \/ UNCHANGED <<WaitsFor, entered, passed, inside>>
    BY DEF B!vars, inside
  <2>0. Threads' = Threads /\ WaitsFor' = WaitsFor /\ DOMAIN WaitsFor = Threads
    BY DEF Next, vars, Threads, WaitsFor
  <2>1. CASE \E t \in Threads : Step(t)
    BY <2>0, <2>1, StepRefines DEF B!Next, B!Threads
  <2>2. CASE \E n \in Nodes : Crash(n)
    BY <2>0, <2>2 DEF Crash, counts, inside, Inside
  <2>3. CASE UNCHANGED vars
    BY <2>0, <2>3 DEF vars, counts, inside, Inside
  <2> QED BY <2>1, <2>2, <2>3 DEF Next
<1> QED BY <1>1, <1>2, InvariantSB, PTL DEF Spec, B!Spec, ImplementsBarrier
=============================================================================
