---------------------------- MODULE SocketBarrier ----------------------------
(***************************************************************************)
(* The barrier of a multi-node run (mistralrs-quant/src/distributed/       *)
(* socket.rs), which every rank passes before every all-reduce             *)
(* (SumAllReduce::apply in mod.rs).                                        *)
(*                                                                         *)
(* Node 0 is the head, with a Server; nodes 1..N are the workers, each     *)
(* with a Client, numbered as the head accepted them.  A thread <<n, r>>   *)
(* is local rank r of node n.  On each node the threads meet at            *)
(* barrier_all; the last to arrive leads, exchanges bytes with the other   *)
(* nodes, and joins the rest at barrier_crossnode.                         *)
(***************************************************************************)
EXTENDS Integers, FiniteSets
LOCAL INSTANCE FiniteSetsExt  \* Max

CONSTANTS N,
          LocalWorldSizes,  \* how many ranks a node may have
          Rounds,           \* bound: calls of `wait` by one thread, for each size
          MaxCrashes        \* bound: nodes that crash

ASSUME BarrierAssumption ==
    /\ N \in Nat \ {0} /\ LocalWorldSizes \subseteq Nat \ {0}
    /\ Rounds \in [LocalWorldSizes -> Nat] /\ MaxCrashes \in Nat

Workers == 1..N
Nodes == 0..N
NodeOf(t) == t[1]

VARIABLES local_world_size,  \* ranks of each node, the same on all, fixed at the start
          pc,
          barrier_all, barrier_crossnode,  \* node -> generation of its std Barrier
          next,      \* connection at which the loop of the head's leader is
          go, ack,   \* worker -> bytes 'g' and 'a' on their way
          crashed,   \* nodes whose process died
          entered, passed,  \* thread -> calls of `wait`, and those that returned Ok
          confirmed, failures  \* node -> exchanges that its leaders completed, and not

barriers == <<barrier_all, barrier_crossnode>>
bytes    == <<next, go, ack>>
counts   == <<entered, passed, confirmed, failures>>
vars == <<local_world_size, pc, barriers, bytes, crashed, counts>>

Threads == Nodes \X (1..local_world_size)
PossibleThreads == Nodes \X (1..Max(LocalWorldSizes))

Init ==
    /\ local_world_size \in LocalWorldSizes
    /\ pc = [t \in Threads |-> "out"]
    /\ barrier_all = [n \in Nodes |-> 0] /\ barrier_crossnode = [n \in Nodes |-> 0]
    /\ next = 1
    /\ go = [w \in Workers |-> 0] /\ ack = [w \in Workers |-> 0]
    /\ crashed = {}
    /\ entered = [t \in Threads |-> 0] /\ passed = [t \in Threads |-> 0]
    /\ confirmed = [n \in Nodes |-> 0] /\ failures = [n \in Nodes |-> 0]

-----------------------------------------------------------------------------
Inside(t) == t \in Threads /\ pc[t] # "out"
Others(t) == {u \in Threads \ {t} : NodeOf(u) = NodeOf(t)}
Goto(t, to) == pc' = [pc EXCEPT ![t] = to]

\* barrier_all.wait(): the last thread releases the others, and leads.
Enter(t) ==
    /\ pc[t] = "out" /\ entered[t] < Rounds[local_world_size]
    /\ entered' = [entered EXCEPT ![t] = @ + 1]
    /\ IF \A u \in Others(t) : pc[u] = "all"
       THEN /\ pc' = [u \in Threads |->
                         IF u = t THEN IF NodeOf(t) = 0 THEN "write_go" ELSE "read_go"
                         ELSE IF NodeOf(u) = NodeOf(t) THEN "released" ELSE pc[u]]
            /\ barrier_all' = [barrier_all EXCEPT ![NodeOf(t)] = @ + 1]
            /\ next' = IF NodeOf(t) = 0 THEN 1 ELSE next
       ELSE Goto(t, "all") /\ UNCHANGED <<barrier_all, next>>
    /\ UNCHANGED <<barrier_crossnode, go, ack, crashed, passed, confirmed, failures>>

\* barrier_crossnode.wait()
Cross(t) ==
    /\ pc[t] = "released"
    /\ IF \A u \in Others(t) : pc[u] = "cross"
       THEN /\ pc' = [u \in Threads |-> IF NodeOf(u) = NodeOf(t) THEN "back" ELSE pc[u]]
            /\ barrier_crossnode' = [barrier_crossnode EXCEPT ![NodeOf(t)] = @ + 1]
       ELSE Goto(t, "cross") /\ UNCHANGED barrier_crossnode
    /\ UNCHANGED <<barrier_all, bytes, crashed, counts>>

Return(t) ==
    /\ pc[t] = "back"
    /\ Goto(t, "out")
    /\ passed' = [passed EXCEPT ![t] = @ + 1]
    /\ UNCHANGED <<barriers, bytes, crashed, entered, confirmed, failures>>

\* The exchange is complete, and the leader goes on to barrier_crossnode.
Confirm(t) ==
    /\ Goto(t, "released")
    /\ confirmed' = [confirmed EXCEPT ![NodeOf(t)] = @ + 1]

-----------------------------------------------------------------------------
(* The head: 'g' to every connection, then 'a' from every connection.      *)

WriteGo(t) ==
    /\ pc[t] = "write_go"
    /\ go' = [go EXCEPT ![next] = @ + 1]
    /\ IF next = N THEN Goto(t, "read_ack") /\ next' = 1
       ELSE next' = next + 1 /\ UNCHANGED pc
    /\ UNCHANGED <<barriers, ack, crashed, counts>>

\* Mutation: the acknowledgements are not waited for.
ReadAckBlind(t) ==
    /\ pc[t] = "read_ack"
    /\ Confirm(t)
    /\ UNCHANGED <<barriers, bytes, crashed, entered, passed, failures>>

ReadAck(t) ==
    /\ pc[t] = "read_ack" /\ ack[next] > 0
    /\ ack' = [ack EXCEPT ![next] = @ - 1]
    /\ IF next = N THEN Confirm(t) /\ UNCHANGED next
       ELSE next' = next + 1 /\ UNCHANGED <<pc, confirmed>>
    /\ UNCHANGED <<barriers, go, crashed, entered, passed, failures>>

(* A worker: 'g' from the head, then 'a' back.                             *)

ReadGo(t) ==
    /\ pc[t] = "read_go" /\ go[NodeOf(t)] > 0
    /\ go' = [go EXCEPT ![NodeOf(t)] = @ - 1]
    /\ Goto(t, "write_ack")
    /\ UNCHANGED <<barriers, next, ack, crashed, counts>>

WriteAck(t) ==
    /\ pc[t] = "write_ack"
    /\ ack' = [ack EXCEPT ![NodeOf(t)] = @ + 1]
    /\ Confirm(t)
    /\ UNCHANGED <<barriers, next, go, crashed, entered, passed, failures>>

-----------------------------------------------------------------------------
(* Failures.                                                               *)

Peer(t) == IF NodeOf(t) = 0 THEN next ELSE 0

\* A read sees nothing for 10 s; any of them may find that the other end is gone.
TimesOut(t) ==
    \/ pc[t] = "read_ack" /\ ack[next] = 0
    \/ pc[t] = "read_go" /\ go[NodeOf(t)] = 0

Disconnected(t) ==
    Peer(t) \in crashed /\ pc[t] \in {"read_go", "read_ack", "write_go", "write_ack"}

\* Mutation: sockets without a timeout.
IoFailsDisconnected(t) == Disconnected(t)

IoFails(t) == TimesOut(t) \/ Disconnected(t)

\* `?` in the leader: it returns at once, and never comes to barrier_crossnode.
Fail(t) ==
    /\ IoFails(t)
    /\ Goto(t, "out")
    /\ failures' = [failures EXCEPT ![NodeOf(t)] = @ + 1]
    /\ UNCHANGED <<barriers, bytes, crashed, entered, passed, confirmed>>

Crash(n) ==
    /\ n \notin crashed /\ Cardinality(crashed) < MaxCrashes
    /\ crashed' = crashed \cup {n}
    /\ UNCHANGED <<pc, barriers, bytes, counts>>

Head(t)   == NodeOf(t) = 0 /\ (WriteGo(t) \/ ReadAck(t))
Worker(t) == NodeOf(t) # 0 /\ (ReadGo(t) \/ WriteAck(t))
Step(t) ==
    /\ NodeOf(t) \notin crashed
    /\ Enter(t) \/ Cross(t) \/ Return(t) \/ Head(t) \/ Worker(t) \/ Fail(t)

Next == /\ \/ \E t \in Threads : Step(t)
           \/ \E n \in Nodes : Crash(n)
        /\ UNCHANGED local_world_size

Spec == Init /\ [][Next]_vars

\* Ranks are threads that go from one all-reduce to the next; a socket that has
\* nothing to read times out.
FairSpec ==
    Spec /\ \A t \in PossibleThreads :
                WF_vars(t \in Threads /\ Step(t) /\ UNCHANGED local_world_size)

-----------------------------------------------------------------------------
Leading == {"write_go", "read_ack", "read_go", "write_ack"}

(* The types of program counters, barriers, bytes and counts.              *)
TypeOK ==
    /\ local_world_size \in LocalWorldSizes
    /\ pc \in [Threads -> Leading \cup {"out", "all", "released", "cross", "back"}]
    /\ barrier_all \in [Nodes -> Nat] /\ barrier_crossnode \in [Nodes -> Nat]
    /\ next \in Workers
    /\ go \in [Workers -> Nat] /\ ack \in [Workers -> Nat]
    /\ crashed \subseteq Nodes
    /\ entered \in [Threads -> Nat] /\ passed \in [Threads -> Nat]
    /\ confirmed \in [Nodes -> Nat] /\ failures \in [Nodes -> Nat]

(* A rank waits for its own node and for the head, a rank of the head for  *)
(* everybody, in spite of timeouts, late bytes and crashes: the bytes of   *)
(* an exchange that was given up are never counted twice.                  *)
WaitsFor == [t \in Threads |-> {u \in Threads : NodeOf(t) = 0 \/ NodeOf(u) \in {0, NodeOf(t)}}]
B == INSTANCE Barrier WITH waits <- WaitsFor, inside <- {t \in Threads : Inside(t)}
ImplementsBarrier == B!Spec

(* Workers do not wait for each other: one may leave the barrier before    *)
(* another comes to it.  It is then at most one call ahead, and one more   *)
(* for each exchange that the head gave up.                                *)
SkewBounded ==
    \A t, u \in Threads : passed[t] <= entered[u] + 1 + failures[0]

(* With one rank to a node every call returns, whatever is late and        *)
(* whoever dies elsewhere.  With several, a leader that gives up leaves    *)
(* its node behind for good, the others in barrier_crossnode and itself in *)
(* barrier_all at its next call; a failing node spreads that far, through  *)
(* the time-outs of the leaders that wait for it, and no further: a call   *)
(* hangs on no other condition than a time-out of its own leader.  (The    *)
(* ranks of a node are interchangeable: the first stands for each.)        *)
CallsReturn ==
    \A t \in Nodes \X {1} :
        Inside(t) ~> \/ ~Inside(t) \/ NodeOf(t) \in crashed
                     \/ local_world_size > 1 /\ failures[NodeOf(t)] > 0
=============================================================================
