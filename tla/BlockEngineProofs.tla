-------------------------- MODULE BlockEngineProofs --------------------------
(***************************************************************************)
(* Theorems about BlockEngine for any finite set of blocks and any set of  *)
(* sequences: conservation of blocks and reference counts, as one          *)
(* inductive invariant, and the refinement of BlockPool.                   *)
(*                                                                         *)
(* The argument is about sets of blocks.  The lemmas on lists reduce the   *)
(* three operations to two kinds of step: a sequence takes a set of blocks *)
(* that is cut off the free list (TakesBlocks), or gives all of its blocks *)
(* back (GivesBlocks).                                                     *)
(***************************************************************************)
EXTENDS BlockEngine, FiniteSetTheorems, SequenceTheorems, TLAPS

\* The inductive invariant.
BEInv == BETypeOK /\ BlocksConserved /\ RefcountMatchesTables

-----------------------------------------------------------------------------
(* Lists of blocks, or of sequences.                                       *)

\* The items of two lists put together.
LEMMA ConcatItems ==
    ASSUME NEW S, NEW s \in Seq(S), NEW t \in Seq(S)
    PROVE  /\ s \o t \in Seq(S)
           /\ Items(s \o t) = Items(s) \cup Items(t)
<1>1. s \o t \in Seq(S) /\ Len(s \o t) = Len(s) + Len(t)
  BY ConcatProperties
<1>2. Items(s \o t) \subseteq Items(s) \cup Items(t)
  <2> SUFFICES ASSUME NEW i \in 1..(Len(s) + Len(t))
               PROVE  (s \o t)[i] \in Items(s) \cup Items(t)
    BY <1>1, LenProperties DEF Items
  <2>1. CASE i <= Len(s)
    <3>1. (s \o t)[i] = s[i] /\ i \in DOMAIN s
      BY <2>1
    <3> QED BY <3>1 DEF Items
  <2>2. CASE i > Len(s)
    <3>1. (s \o t)[i] = t[i - Len(s)] /\ i - Len(s) \in DOMAIN t
      BY <2>2
    <3> QED BY <3>1 DEF Items
  <2> QED BY <2>1, <2>2
<1>3. Items(s) \subseteq Items(s \o t)
  <2> SUFFICES ASSUME NEW i \in DOMAIN s
               PROVE  s[i] \in Items(s \o t)
    BY DEF Items
  <2>1. i \in DOMAIN (s \o t) /\ (s \o t)[i] = s[i]
    OBVIOUS
  <2> QED BY <2>1 DEF Items
<1>4. Items(t) \subseteq Items(s \o t)
  <2> SUFFICES ASSUME NEW i \in DOMAIN t
               PROVE  t[i] \in Items(s \o t)
    BY DEF Items
  <2>1. i + Len(s) \in DOMAIN (s \o t) /\ (s \o t)[i + Len(s)] = t[i]
    OBVIOUS
  <2> QED BY <2>1 DEF Items
<1> QED BY <1>1, <1>2, <1>3, <1>4

\* Two lists without repetition that share no item make one.
LEMMA ConcatNoRepeats ==
    ASSUME NEW S, NEW s \in Seq(S), NEW t \in Seq(S),
           NoRepeats(s), NoRepeats(t),
           Items(s) \cap Items(t) = {}
    PROVE  NoRepeats(s \o t)
<1> SUFFICES ASSUME NEW i \in DOMAIN (s \o t), NEW j \in DOMAIN (s \o t),
                    (s \o t)[i] = (s \o t)[j]
             PROVE  i = j
  BY DEF NoRepeats
<1>1. \A k \in DOMAIN (s \o t) :
         \/ k \in DOMAIN s /\ (s \o t)[k] = s[k]
         \/ k - Len(s) \in DOMAIN t /\ (s \o t)[k] = t[k - Len(s)]
  OBVIOUS
<1>2. CASE i \in DOMAIN s /\ (s \o t)[i] = s[i] /\ j \in DOMAIN s /\ (s \o t)[j] = s[j]
  BY <1>2 DEF NoRepeats
<1>3. CASE /\ i - Len(s) \in DOMAIN t /\ (s \o t)[i] = t[i - Len(s)]
           /\ j - Len(s) \in DOMAIN t /\ (s \o t)[j] = t[j - Len(s)]
  <2>1. i - Len(s) = j - Len(s)
    BY <1>3 DEF NoRepeats
  <2> QED BY <2>1
<1>4. ASSUME NEW a \in DOMAIN s, NEW b \in DOMAIN t
      PROVE  s[a] # t[b]
  BY DEF Items
<1> QED BY <1>1, <1>2, <1>3, <1>4

\* What is left when the head of a list without repetition is taken off.
LEMMA TailItems ==
    ASSUME NEW S, NEW s \in Seq(S), s # <<>>, NoRepeats(s)
    PROVE  /\ Head(s) \in S /\ Tail(s) \in Seq(S) /\ NoRepeats(Tail(s))
           /\ Head(s) \in Items(s)
           /\ Items(Tail(s)) = Items(s) \ {Head(s)}
<1>1. /\ Len(s) \in Nat \ {0} /\ DOMAIN s = 1..Len(s) /\ Head(s) = s[1] /\ Head(s) \in S
      /\ Tail(s) \in Seq(S) /\ Len(Tail(s)) = Len(s) - 1
      /\ DOMAIN Tail(s) = 1..(Len(s) - 1)
      /\ \A i \in 1..(Len(s) - 1) : Tail(s)[i] = s[i + 1]
  BY HeadTailProperties, EmptySeq, LenProperties
<1>2. NoRepeats(Tail(s))
  BY <1>1 DEF NoRepeats
<1>3. Head(s) \in Items(s)
  BY <1>1 DEF Items
<1>4. Items(Tail(s)) \subseteq Items(s) \ {Head(s)}
  <2> SUFFICES ASSUME NEW i \in 1..(Len(s) - 1)
               PROVE  Tail(s)[i] \in Items(s) /\ Tail(s)[i] # Head(s)
    BY <1>1 DEF Items
  <2>1. i + 1 \in DOMAIN s /\ 1 \in DOMAIN s /\ i + 1 # 1
    BY <1>1
  <2> QED BY <1>1, <2>1 DEF Items, NoRepeats
<1>5. Items(s) \ {Head(s)} \subseteq Items(Tail(s))
  <2> SUFFICES ASSUME NEW i \in DOMAIN s, s[i] # Head(s)
               PROVE  s[i] \in Items(Tail(s))
    BY DEF Items
  <2>1. i - 1 \in 1..(Len(s) - 1) /\ (i - 1) + 1 = i
    BY <1>1
  <2>2. Tail(s)[i - 1] = s[i] /\ i - 1 \in DOMAIN Tail(s)
    BY <1>1, <2>1
  <2> QED BY <2>2 DEF Items
<1> QED BY <1>1, <1>2, <1>3, <1>4, <1>5

\* A list of one item.
LEMMA SingleItem ==
    ASSUME NEW S, NEW x \in S
    PROVE  <<x>> \in Seq(S) /\ Items(<<x>>) = {x} /\ NoRepeats(<<x>>)
BY DEF Items, NoRepeats

\* A function on 1..n is a list.
LEMMA FunctionIsList ==
    ASSUME NEW n \in Nat, NEW f \in [1..n -> Blocks]
    PROVE  f \in Seq(Blocks)
BY SeqDef

\* What `allocate` pops, n times, is cut off the free list.
LEMMA PoppedBlocks ==
    ASSUME free_blocks \in Seq(Blocks), NoRepeats(free_blocks),
           NEW n \in Nat, n <= Len(free_blocks)
    PROVE  /\ Popped(n) \in Seq(Blocks) /\ NoRepeats(Popped(n))
           /\ AfterPops(n) \in Seq(Blocks) /\ NoRepeats(AfterPops(n))
           /\ Items(Popped(n)) \subseteq Items(free_blocks)
           /\ Items(AfterPops(n)) = Items(free_blocks) \ Items(Popped(n))
<1> DEFINE m == Len(free_blocks)
<1>1. m \in Nat /\ free_blocks \in [1..m -> Blocks]
  BY LenProperties
<1>2. /\ Popped(n) \in [1..n -> Blocks]
      /\ \A i \in 1..n : Popped(n)[i] = free_blocks[m + 1 - i]
  BY <1>1 DEF Popped
<1>3. /\ AfterPops(n) \in Seq(Blocks)
      /\ DOMAIN AfterPops(n) = 1..(m - n)
      /\ \A i \in 1..(m - n) : AfterPops(n)[i] = free_blocks[i]
  <2>1. m - n \in Nat /\ 1..(m - n) \subseteq 1..m
    BY <1>1
  <2>2. SubSeq(free_blocks, 1, m - n) = [i \in 1..(m - n) |-> free_blocks[i]]
    BY <1>1, <2>1
  <2>3. [i \in 1..(m - n) |-> free_blocks[i]] \in [1..(m - n) -> Blocks]
    BY <1>1, <2>1
  <2> QED BY <2>1, <2>2, <2>3, SeqDef DEF AfterPops
<1>4. Popped(n) \in Seq(Blocks)
  <2>1. [i \in 1..n |-> free_blocks[m + 1 - i]] \in [1..n -> Blocks]
    BY <1>1
  <2> HIDE DEF m
  <2>2. [i \in 1..n |-> free_blocks[m + 1 - i]] \in Seq(Blocks)
    BY <2>1, FunctionIsList
  <2> QED BY <2>2 DEF Popped, m
<1>5. NoRepeats(Popped(n))
  <2> SUFFICES ASSUME NEW i \in 1..n, NEW j \in 1..n, Popped(n)[i] = Popped(n)[j]
               PROVE  i = j
    BY <1>2 DEF NoRepeats
  <2>1. m + 1 - i \in 1..m /\ m + 1 - j \in 1..m
    BY <1>1
  <2>2. m + 1 - i = m + 1 - j
    BY <1>1, <1>2, <2>1 DEF NoRepeats
  <2> QED BY <1>1, <2>2
<1>6. NoRepeats(AfterPops(n))
  BY <1>1, <1>3 DEF NoRepeats
<1>7. Items(Popped(n)) \subseteq Items(free_blocks)
  BY <1>1, <1>2 DEF Items
<1>8. Items(AfterPops(n)) \subseteq Items(free_blocks)
  BY <1>1, <1>3 DEF Items
<1>9. Items(AfterPops(n)) \cap Items(Popped(n)) = {}
  <2>1. ASSUME NEW i \in 1..(m - n), NEW j \in 1..n
        PROVE  AfterPops(n)[i] # Popped(n)[j]
    <3>1. i \in 1..m /\ m + 1 - j \in 1..m /\ i # m + 1 - j
      BY <1>1
    <3> QED BY <1>1, <1>2, <1>3, <3>1 DEF NoRepeats
  <2>2. DOMAIN AfterPops(n) = 1..(m - n) /\ DOMAIN Popped(n) = 1..n
    BY <1>2, <1>3
  <2> QED BY <2>1, <2>2 DEF Items
<1>10. Items(free_blocks) \subseteq Items(AfterPops(n)) \cup Items(Popped(n))
  <2> SUFFICES ASSUME NEW i \in 1..m
               PROVE  free_blocks[i] \in Items(AfterPops(n)) \cup Items(Popped(n))
    BY <1>1 DEF Items
  <2>1. CASE i <= m - n
    <3>1. i \in DOMAIN AfterPops(n) /\ AfterPops(n)[i] = free_blocks[i]
      BY <1>1, <1>3, <2>1
    <3> QED BY <3>1 DEF Items
  <2>2. CASE i > m - n
    <3>1. m + 1 - i \in 1..n /\ m + 1 - (m + 1 - i) = i
      BY <1>1, <2>2
    <3>2. m + 1 - i \in DOMAIN Popped(n) /\ Popped(n)[m + 1 - i] = free_blocks[i]
      BY <1>2, <3>1
    <3> QED BY <3>2 DEF Items
  <2> QED BY <1>1, <2>1, <2>2
<1> QED BY <1>3, <1>4, <1>5, <1>6, <1>7, <1>8, <1>9, <1>10

-----------------------------------------------------------------------------
(* The two kinds of step.                                                  *)

\* A sequence takes n blocks off the end of the free list: what allocate does
\* for a sequence without a table, and append_token_slot_to_seq for one with.
Takes(id, n) ==
    /\ block_tables' = [block_tables EXCEPT ![id] = @ \o Popped(n)]
    /\ refcount' = [b \in Blocks |-> IF b \in Items(Popped(n)) THEN 1 ELSE refcount[b]]
    /\ free_blocks' = AfterPops(n)

\* Taking blocks keeps the invariant.
LEMMA TakesBlocks ==
    ASSUME BEInv, NEW id \in SeqIds, NEW n \in Nat, n <= Len(free_blocks),
           Takes(id, n)
    PROVE  BEInv'
<1> DEFINE P == Items(Popped(n))
           F == Items(free_blocks)
           T(s) == Items(block_tables[s])
<1>1. /\ free_blocks \in Seq(Blocks) /\ NoRepeats(free_blocks)
      /\ block_tables \in [SeqIds -> Seq(Blocks)] /\ refcount \in [Blocks -> {0, 1}]
  BY DEF BEInv, BETypeOK, BlocksConserved
<1>2. /\ Popped(n) \in Seq(Blocks) /\ NoRepeats(Popped(n)) /\ P \subseteq F
      /\ free_blocks' \in Seq(Blocks) /\ NoRepeats(free_blocks)'
      /\ Items(free_blocks)' = F \ P
  BY <1>1, PoppedBlocks DEF Takes
<1>3. /\ block_tables'[id] = block_tables[id] \o Popped(n)
      /\ \A s \in SeqIds \ {id} : block_tables'[s] = block_tables[s]
      /\ block_tables' = [s \in SeqIds |-> block_tables'[s]]
  BY <1>1 DEF Takes
<1>4. block_tables'[id] \in Seq(Blocks) /\ Items(block_tables[id])' = T(id) \cup P
  BY <1>1, <1>2, <1>3, ConcatItems
<1>5. \A s \in SeqIds \ {id} : Items(block_tables'[s]) = T(s)
  BY <1>3
<1>6. F \cap T(id) = {} /\ NoRepeats(block_tables[id])
  BY DEF BEInv, BlocksConserved, FreeListExclusive
<1>7. BETypeOK'
  <2>1. block_tables' \in [SeqIds -> Seq(Blocks)]
    BY <1>1, <1>3, <1>4
  <2>2. refcount' \in [Blocks -> {0, 1}]
    BY <1>1 DEF Takes
  <2> QED BY <1>2, <2>1, <2>2 DEF BETypeOK
<1>8. \A s \in SeqIds : NoRepeats(block_tables'[s])
  <2>1. NoRepeats(block_tables'[id])
    BY <1>1, <1>2, <1>3, <1>6, ConcatNoRepeats
  <2>2. \A s \in SeqIds \ {id} : NoRepeats(block_tables'[s])
    BY <1>3 DEF BEInv, BlocksConserved
  <2> QED BY <2>1, <2>2
<1> HIDE DEF P, F, T
<1>9. /\ \A s \in SeqIds : F \cap T(s) = {}
      /\ \A s, t \in SeqIds : s # t => T(s) \cap T(t) = {}
      /\ \A b \in Blocks : b \in F \/ \E s \in SeqIds : b \in T(s)
  BY DEF BEInv, BlocksConserved, FreeListExclusive, TablesExclusive, NoBlockLost, F, T
<1>10. \A s \in SeqIds : Items(block_tables'[s]) = IF s = id THEN T(s) \cup P ELSE T(s)
  BY <1>4, <1>5
<1>11. FreeListExclusive'
  <2>1. \A s \in SeqIds : (F \ P) \cap (IF s = id THEN T(s) \cup P ELSE T(s)) = {}
    BY <1>9
  <2> QED BY <1>2, <1>10, <2>1 DEF FreeListExclusive
<1>12. TablesExclusive'
  <2>1. \A s \in SeqIds : P \cap T(s) = {}
    BY <1>2, <1>9
  <2>2. \A s, t \in SeqIds : s # t =>
           (IF s = id THEN T(s) \cup P ELSE T(s)) \cap (IF t = id THEN T(t) \cup P ELSE T(t)) = {}
    BY <1>9, <2>1
  <2> QED BY <1>10, <2>2 DEF TablesExclusive
<1>13. NoBlockLost'
  <2>1. \A b \in Blocks : \/ b \in F \ P
                          \/ \E s \in SeqIds : b \in IF s = id THEN T(s) \cup P ELSE T(s)
    BY <1>9
  <2> QED BY <1>2, <1>10, <2>1 DEF NoBlockLost
<1>14. RefcountMatchesTables'
  <2>1. \A b \in Blocks : refcount[b] = IF \E s \in SeqIds : b \in T(s) THEN 1 ELSE 0
    BY DEF BEInv, RefcountMatchesTables, T
  <2>2. \A b \in Blocks : refcount'[b] = IF b \in P THEN 1 ELSE refcount[b]
    BY DEF P, Takes
  <2> QED BY <1>10, <2>1, <2>2 DEF RefcountMatchesTables
<1> QED BY <1>2, <1>7, <1>8, <1>11, <1>12, <1>13, <1>14 DEF BEInv, BlocksConserved

\* Giving all blocks back keeps the invariant.
LEMMA GivesBlocks ==
    ASSUME BEInv, NEW id \in SeqIds, FreeSequence(id)
    PROVE  BEInv'
<1> DEFINE F == Items(free_blocks)
           T(s) == Items(block_tables[s])
<1>1. /\ free_blocks \in Seq(Blocks) /\ NoRepeats(free_blocks)
      /\ block_tables \in [SeqIds -> Seq(Blocks)] /\ refcount \in [Blocks -> {0, 1}]
  BY DEF BEInv, BETypeOK, BlocksConserved
<1>2. F \cap T(id) = {} /\ NoRepeats(block_tables[id])
  BY DEF BEInv, BlocksConserved, FreeListExclusive
<1>3. /\ free_blocks' \in Seq(Blocks) /\ NoRepeats(free_blocks)'
      /\ Items(free_blocks)' = F \cup T(id)
  BY <1>1, <1>2, ConcatItems, ConcatNoRepeats DEF FreeSequence
<1>4. /\ block_tables' \in [SeqIds -> Seq(Blocks)]
      /\ block_tables'[id] = <<>>
      /\ \A s \in SeqIds \ {id} : block_tables'[s] = block_tables[s]
  BY <1>1 DEF FreeSequence
<1>5. Items(<<>>) = {} /\ NoRepeats(<<>>)
  BY DEF Items, NoRepeats
<1>6. \A s \in SeqIds : NoRepeats(block_tables'[s])
  BY <1>4, <1>5 DEF BEInv, BlocksConserved
<1>7. \A s \in SeqIds : Items(block_tables'[s]) = IF s = id THEN {} ELSE T(s)
  BY <1>4, <1>5
<1> HIDE DEF F, T
<1>8. /\ \A s \in SeqIds : F \cap T(s) = {}
      /\ \A s, t \in SeqIds : s # t => T(s) \cap T(t) = {}
      /\ \A b \in Blocks : b \in F \/ \E s \in SeqIds : b \in T(s)
  BY DEF BEInv, BlocksConserved, FreeListExclusive, TablesExclusive, NoBlockLost, F, T
<1>9. FreeListExclusive' /\ TablesExclusive' /\ NoBlockLost'
  BY <1>3, <1>7, <1>8 DEF FreeListExclusive, TablesExclusive, NoBlockLost
<1>10. \A b \in Blocks : refcount[b] = IF \E s \in SeqIds : b \in T(s) THEN 1 ELSE 0
  BY DEF BEInv, RefcountMatchesTables, T
<1>11. \A b \in Blocks : refcount'[b] = IF b \in T(id) THEN 0 ELSE refcount[b]
  <2>1. \A b \in Blocks : refcount'[b] = IF b \in T(id) THEN refcount[b] - 1 ELSE refcount[b]
    BY DEF FreeSequence, T
  <2>2. \A b \in Blocks : b \in T(id) => refcount[b] = 1
    BY <1>10
  <2> QED BY <2>1, <2>2
<1>12. RefcountMatchesTables'
  BY <1>7, <1>8, <1>10, <1>11 DEF RefcountMatchesTables
<1>13. refcount' \in [Blocks -> {0, 1}]
  <2>1. refcount' = [b \in Blocks |-> refcount'[b]]
    BY DEF FreeSequence
  <2> QED BY <1>1, <1>11, <2>1
<1> QED BY <1>3, <1>4, <1>6, <1>9, <1>12, <1>13 DEF BEInv, BETypeOK, BlocksConserved

-----------------------------------------------------------------------------
(* The invariant.                                                          *)

\* A list of all blocks that is as long as there are blocks repeats none.
LEMMA InitInv == BEInit => BEInv
<1> SUFFICES ASSUME BEInit
             PROVE  BEInv
  OBVIOUS
<1> DEFINE N == Cardinality(Blocks)
<1>1. N \in Nat
  BY FS_CardinalityType, BlocksAssumption
<1>2. free_blocks \in [1..N -> Blocks] /\ Items(free_blocks) = Blocks
  BY DEF BEInit
<1>3. free_blocks \in Seq(Blocks)
  BY <1>1, <1>2, FunctionIsList
<1>4. NoRepeats(free_blocks)
  <2>1. IsFiniteSet(1..N) /\ Cardinality(1..N) = N
    BY <1>1, FS_Interval
  <2>2. free_blocks \in Surjection(1..N, Blocks)
    BY <1>2 DEF Surjection, Items
  <2>3. free_blocks \in Injection(1..N, Blocks)
    BY <2>1, <2>2, FS_SurjSameCardinalityImpliesInj
  <2> QED BY <1>2, <2>3 DEF Injection, IsInjective, NoRepeats
<1>5. \A s \in SeqIds : block_tables[s] = <<>>
  BY DEF BEInit
<1>6. Items(<<>>) = {} /\ NoRepeats(<<>>)
  BY DEF Items, NoRepeats
<1>7. BETypeOK
  BY <1>3 DEF BEInit, BETypeOK
<1>8. BlocksConserved
  BY <1>2, <1>4, <1>5, <1>6
     DEF BlocksConserved, FreeListExclusive, TablesExclusive, NoBlockLost
<1>9. RefcountMatchesTables
  BY <1>5, <1>6 DEF BEInit, RefcountMatchesTables
<1> QED BY <1>7, <1>8, <1>9 DEF BEInv

\* The calls are steps of the two kinds.
LEMMA CallsTakeOrGive ==
    ASSUME BEInv, NEW id \in SeqIds
    PROVE  /\ \A n \in 1..Cardinality(Blocks) :
                 CallAllocate(id, n) => n <= Len(free_blocks) /\ Takes(id, n)
           /\ \A n \in 0..1 : CallAppend(id, n) => n <= Len(free_blocks) /\ Takes(id, n)
           /\ CallFree(id) => FreeSequence(id)
<1>1. free_blocks \in Seq(Blocks) /\ block_tables \in [SeqIds -> Seq(Blocks)]
  BY DEF BEInv, BETypeOK
<1>2. ASSUME NEW n \in 1..Cardinality(Blocks), CallAllocate(id, n)
      PROVE  n <= Len(free_blocks) /\ Takes(id, n)
  <2>1. n \in Nat
    BY FS_CardinalityType, BlocksAssumption
  <2>2. n <= Len(free_blocks)
    BY <1>1, <1>2, <2>1 DEF CallAllocate, CanAllocate
  <2>3. Popped(n) \in Seq(Blocks)
    BY <1>1, <2>1, <2>2, PoppedBlocks DEF BEInv, BlocksConserved
  <2>4. block_tables[id] \o Popped(n) = Popped(n)
    BY <1>2, <2>3 DEF CallAllocate
  <2> QED BY <1>2, <2>2, <2>4 DEF CallAllocate, Allocate, Takes
<1>3. ASSUME NEW n \in 0..1, CallAppend(id, n)
      PROVE  n <= Len(free_blocks) /\ Takes(id, n)
  BY <1>3 DEF CallAppend, CanAppend, AppendTokenSlot, Takes
<1> QED BY <1>2, <1>3 DEF CallFree

LEMMA NextInv == BEInv /\ [BENext]_beVars => BEInv'
<1> SUFFICES ASSUME BEInv, [BENext]_beVars
             PROVE  BEInv'
  OBVIOUS
<1>1. ASSUME NEW id \in SeqIds, NEW n \in 1..Cardinality(Blocks), CallAllocate(id, n)
      PROVE  BEInv'
  <2>1. n \in Nat
    BY FS_CardinalityType, BlocksAssumption
  <2> QED BY <1>1, <2>1, CallsTakeOrGive, TakesBlocks
<1>2. ASSUME NEW id \in SeqIds, NEW n \in 0..1, CallAppend(id, n)
      PROVE  BEInv'
  BY <1>2, CallsTakeOrGive, TakesBlocks
<1>3. ASSUME NEW id \in SeqIds, CallFree(id)
      PROVE  BEInv'
  BY <1>3, CallsTakeOrGive, GivesBlocks
<1>4. CASE UNCHANGED beVars
  BY <1>4 DEF beVars, BEInv, BETypeOK, BlocksConserved, RefcountMatchesTables,
              FreeListExclusive, TablesExclusive, NoBlockLost
<1> QED BY <1>1, <1>2, <1>3, <1>4 DEF BENext

(* For any pool and any sequences, the block engine's lists are lists of   *)
(* blocks and no count leaves 0..1, so no block is ever shared.            *)
THEOREM TypeCorrect == BESpec => []BETypeOK
<1>1. BEInv => BETypeOK
  BY DEF BEInv
<1> QED BY <1>1, InitInv, NextInv, PTL DEF BESpec

(* For any pool and any sequences, allocate, append_token_slot_to_seq and  *)
(* free_sequence keep every block in exactly one place.                    *)
THEOREM Conservation == BESpec => []BlocksConserved
<1>1. BEInv => BlocksConserved
  BY DEF BEInv
<1> QED BY <1>1, InitInv, NextInv, PTL DEF BESpec

(* For any pool and any sequences, reference counts follow the tables: the *)
(* double-free panic of free_block is out of reach of a correct caller.    *)
THEOREM NoDoubleFree == BESpec => []RefcountMatchesTables
<1>1. BEInv => RefcountMatchesTables
  BY DEF BEInv
<1> QED BY <1>1, InitInv, NextInv, PTL DEF BESpec

-----------------------------------------------------------------------------
(* The block engine implements the block pool.                             *)

\* The owner the refinement mapping gives to a block.
OwnerOf(b) == CHOOSE x \in Holders(b) : TRUE

\* The owner is the sequence whose table lists the block, and Nobody when the
\* block is on the free list.
OwnersFollowLists ==
    /\ \A b \in Items(free_blocks) : OwnerOf(b) = Nobody
    /\ \A s \in SeqIds : \A b \in Items(block_tables[s]) : OwnerOf(b) = s
    /\ \A b \in Blocks : OwnerOf(b) = Nobody => b \in Items(free_blocks)
    /\ \A s \in SeqIds : \A b \in Blocks :
          OwnerOf(b) = s => b \in Items(block_tables[s])

\* Under the invariant a block has exactly one holder.
LEMMA OneHolder == BEInv => OwnersFollowLists
<1> SUFFICES ASSUME BEInv
             PROVE  OwnersFollowLists
  OBVIOUS
<1>1. FreeListExclusive /\ TablesExclusive /\ NoBlockLost
  BY DEF BEInv, BlocksConserved
<1>2. ASSUME NEW b \in Items(free_blocks)
      PROVE  OwnerOf(b) = Nobody
  <2>1. Holders(b) = {Nobody}
    BY <1>1 DEF Holders, FreeListExclusive
  <2> QED BY <2>1 DEF OwnerOf
<1>3. ASSUME NEW s \in SeqIds, NEW b \in Items(block_tables[s])
      PROVE  OwnerOf(b) = s
  <2>1. Holders(b) = {s}
    BY <1>1 DEF Holders, FreeListExclusive, TablesExclusive
  <2> QED BY <2>1 DEF OwnerOf
<1>4. \A b \in Blocks : OwnerOf(b) = Nobody => b \in Items(free_blocks)
  BY <1>1, <1>3, BlocksAssumption DEF NoBlockLost
<1>5. ASSUME NEW s \in SeqIds, NEW b \in Blocks, OwnerOf(b) = s
      PROVE  b \in Items(block_tables[s])
  BY <1>1, <1>2, <1>3, <1>5, BlocksAssumption DEF NoBlockLost
<1> QED BY <1>2, <1>3, <1>4, <1>5 DEF OwnersFollowLists

\* The same after a step.
LEMMA OneHolderNext == BEInv' => OwnersFollowLists'
BY OneHolder, PTL

\* A sequence that takes blocks takes what Nobody owned.
LEMMA TakesIsTake ==
    ASSUME BEInv, BEInv', NEW id \in SeqIds, NEW n \in Nat, n <= Len(free_blocks),
           Takes(id, n)
    PROVE  Pool!Take(id, Items(Popped(n)))
<1> DEFINE P == Items(Popped(n))
           owner == [b \in Blocks |-> OwnerOf(b)]
<1>1. free_blocks \in Seq(Blocks) /\ block_tables \in [SeqIds -> Seq(Blocks)]
  BY DEF BEInv, BETypeOK
<1>2. /\ Popped(n) \in Seq(Blocks) /\ P \subseteq Items(free_blocks)
      /\ Items(free_blocks') = Items(free_blocks) \ P
  BY <1>1, PoppedBlocks DEF BEInv, BlocksConserved, Takes
<1>3. P \subseteq Blocks
  BY <1>2 DEF Items
<1>4. /\ Items(block_tables'[id]) = Items(block_tables[id]) \cup P
      /\ \A s \in SeqIds \ {id} : block_tables'[s] = block_tables[s]
  BY <1>1, <1>2, ConcatItems DEF Takes
<1>5. P \subseteq {b \in Blocks : owner[b] = Nobody}
  BY <1>2, <1>3, OneHolder DEF OwnersFollowLists
<1>6. /\ \A b \in Items(free_blocks') : OwnerOf(b)' = Nobody
      /\ \A s \in SeqIds : \A b \in Items(block_tables'[s]) : OwnerOf(b)' = s
  BY OneHolderNext DEF OwnersFollowLists
<1>7. ASSUME NEW b \in Blocks
      PROVE  OwnerOf(b)' = IF b \in P THEN id ELSE OwnerOf(b)
  <2>1. CASE b \in P
    BY <1>4, <1>6, <2>1
  <2>2. CASE b \notin P /\ b \in Items(free_blocks)
    BY <1>2, <1>6, <2>2, OneHolder DEF OwnersFollowLists
  <2>3. ASSUME NEW s \in SeqIds, b \in Items(block_tables[s]), b \notin P
        PROVE  OwnerOf(b)' = OwnerOf(b)
    <3>1. b \in Items(block_tables'[s])
      BY <1>4, <2>3
    <3> QED BY <1>6, <2>3, <3>1, OneHolder DEF OwnersFollowLists
  <2> QED BY <2>1, <2>2, <2>3 DEF BEInv, BlocksConserved, NoBlockLost
<1> QED BY <1>5, <1>7 DEF Pool!Take, Pool!Owned, OwnerOf

\* A sequence that gives its blocks back releases all it owned.
LEMMA GivesIsRelease ==
    ASSUME BEInv, BEInv', NEW id \in SeqIds, FreeSequence(id)
    PROVE  Pool!Release(id)
<1>1. free_blocks \in Seq(Blocks) /\ block_tables \in [SeqIds -> Seq(Blocks)]
  BY DEF BEInv, BETypeOK
<1>2. /\ Items(free_blocks') = Items(free_blocks) \cup Items(block_tables[id])
      /\ \A s \in SeqIds \ {id} : block_tables'[s] = block_tables[s]
  BY <1>1, ConcatItems DEF FreeSequence
<1>3. /\ \A b \in Items(free_blocks') : OwnerOf(b)' = Nobody
      /\ \A s \in SeqIds : \A b \in Items(block_tables'[s]) : OwnerOf(b)' = s
  BY OneHolderNext DEF OwnersFollowLists
<1>4. ASSUME NEW b \in Blocks
      PROVE  OwnerOf(b)' = IF OwnerOf(b) = id THEN Nobody ELSE OwnerOf(b)
  <2>1. CASE OwnerOf(b) = id
    BY <1>2, <1>3, <2>1, OneHolder DEF OwnersFollowLists
  <2>2. CASE b \in Items(free_blocks)
    BY <1>2, <1>3, <2>2, OneHolder, BlocksAssumption DEF OwnersFollowLists
  <2>3. ASSUME NEW s \in SeqIds, b \in Items(block_tables[s]), s # id
        PROVE  OwnerOf(b)' = s /\ OwnerOf(b) = s
    BY <1>2, <1>3, <2>3, OneHolder DEF OwnersFollowLists
  <2> QED BY <2>1, <2>2, <2>3, OneHolder DEF OwnersFollowLists, BEInv, BlocksConserved, NoBlockLost
<1> QED BY <1>4 DEF Pool!Release, OwnerOf

(* For any pool and any sequences, the block engine implements the block   *)
(* pool: allocate and append_token_slot_to_seq take blocks nobody owns,    *)
(* free_sequence gives back all that the sequence owns.                    *)
THEOREM Refinement == BESpec => IsBlockPool
<1>1. BEInit => Pool!Init
  <2> SUFFICES ASSUME BEInit
               PROVE  \A b \in Blocks : OwnerOf(b) = Nobody
    BY DEF Pool!Init, OwnerOf
  <2> QED BY InitInv, OneHolder DEF OwnersFollowLists, BEInit
<1>2. BEInv /\ BEInv' /\ [BENext]_beVars => [Pool!Next]_([b \in Blocks |-> OwnerOf(b)])
  <2> SUFFICES ASSUME BEInv, BEInv', [BENext]_beVars
               PROVE  Pool!Next \/ UNCHANGED [b \in Blocks |-> OwnerOf(b)]
    OBVIOUS
  <2>1. ASSUME NEW id \in SeqIds, NEW n \in Nat, n <= Len(free_blocks), Takes(id, n)
        PROVE  Pool!Next
    <3>1. Pool!Take(id, Items(Popped(n)))
      BY <2>1, TakesIsTake
    <3>2. Items(Popped(n)) \in SUBSET Blocks
      BY <2>1, PoppedBlocks DEF BEInv, BETypeOK, BlocksConserved, Items
    <3> QED BY <3>1, <3>2 DEF Pool!Next
  <2>2. ASSUME NEW id \in SeqIds, NEW n \in 1..Cardinality(Blocks), CallAllocate(id, n)
        PROVE  Pool!Next
    <3>1. n \in Nat
      BY FS_CardinalityType, BlocksAssumption
    <3>2. n <= Len(free_blocks) /\ Takes(id, n)
      BY <2>2, CallsTakeOrGive
    <3> QED BY <2>1, <3>1, <3>2
  <2>3. ASSUME NEW id \in SeqIds, NEW n \in 0..1, CallAppend(id, n)
        PROVE  Pool!Next
    <3>1. n <= Len(free_blocks) /\ Takes(id, n)
      BY <2>3, CallsTakeOrGive
    <3> QED BY <2>1, <3>1
  <2>4. ASSUME NEW id \in SeqIds, CallFree(id)
        PROVE  Pool!Next
    BY <2>4, CallsTakeOrGive, GivesIsRelease DEF Pool!Next
  <2>5. CASE UNCHANGED beVars
    BY <2>5 DEF beVars, OwnerOf, Holders
  <2> QED BY <2>2, <2>3, <2>4, <2>5 DEF BENext
<1> QED BY <1>1, <1>2, InitInv, NextInv, PTL DEF BESpec, IsBlockPool, Pool!Spec, OwnerOf
=============================================================================
