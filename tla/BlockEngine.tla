---------------------------- MODULE BlockEngine ----------------------------
(***************************************************************************)
(* The physical block allocator of PagedAttention                          *)
(* (mistralrs-core/src/paged_attention/block_engine.rs).  A `BlockEngine`  *)
(* owns the GPU KV-cache blocks: each one is either on the free list of    *)
(* the GPU allocator or in the block table of one sequence.                *)
(*                                                                         *)
(* The free list is the `Vec` of the code (popped and pushed at its end);  *)
(* a sequence that has no entry in the `block_tables` map has the empty    *)
(* table here, because an entry always has at least one block.  The swap   *)
(* operations and the CPU allocator are left out: `_preempt` of the        *)
(* scheduler always recomputes, so nothing calls them, no block is ever    *)
(* shared, and the copy-on-write arm of append_token_slot_to_seq is dead.  *)
(***************************************************************************)
EXTENDS Integers, Sequences, FiniteSets

CONSTANTS Blocks,  \* the GPU blocks (num_gpu_blocks of them)
          SeqIds,  \* the sequences that can ask for blocks
          Nobody   \* not a sequence: the owner of a free block

ASSUME BlocksAssumption == IsFiniteSet(Blocks) /\ Nobody \notin SeqIds

VARIABLES free_blocks,   \* free list of the GPU allocator
          refcount,      \* the `refcount` field of every block
          block_tables   \* sequence id -> its blocks, in logical order

beVars == <<free_blocks, refcount, block_tables>>

\* The items of a list.
Items(list) == {list[i] : i \in DOMAIN list}

-----------------------------------------------------------------------------
\* `can_allocate`: the shortage of free blocks is tested first.
CanAllocate(n) ==
    IF Len(free_blocks) < n THEN "Later"
    ELSE IF Cardinality(Blocks) < n THEN "Impossible"
    ELSE "Ok"

\* `can_append_token_to_seq` for a sequence that needs n more blocks.
CanAppend(n) == n <= Len(free_blocks)

\* Mutation: the last block is looked at, not popped.
PeekedOnly(n) == [i \in 1..n |-> free_blocks[Len(free_blocks)]]

\* The blocks n calls of the allocator's `allocate` pop, in that order.
Popped(n) == [i \in 1..n |-> free_blocks[Len(free_blocks) + 1 - i]]

\* The free list after n pops.
AfterPops(n) == SubSeq(free_blocks, 1, Len(free_blocks) - n)

\* `allocate`: a fresh table of n blocks replaces whatever the map had for id.
Allocate(id, n) ==
    /\ block_tables' = [block_tables EXCEPT ![id] = Popped(n)]
    /\ refcount' = [b \in Blocks |-> IF b \in Items(Popped(n)) THEN 1 ELSE refcount[b]]
    /\ free_blocks' = AfterPops(n)

\* Mutation: the last block of the table is referenced again, as if shared.
AppendReferencesLast(id, n) ==
    IF block_tables[id] = <<>> THEN UNCHANGED beVars
    ELSE /\ block_tables' = [block_tables EXCEPT ![id] = @ \o Popped(n)]
         /\ LET last == block_tables[id][Len(block_tables[id])]
            IN  refcount' = [b \in Blocks |-> IF b \in Items(Popped(n)) THEN 1
                                              ELSE IF b = last THEN refcount[b] + 1
                                              ELSE refcount[b]]
         /\ free_blocks' = AfterPops(n)

\* `append_token_slot_to_seq`: one more block for a sequence with a table, when
\* it needs one (n is 0 or 1).
AppendTokenSlot(id, n) ==
    IF block_tables[id] = <<>> THEN UNCHANGED beVars
    ELSE /\ block_tables' = [block_tables EXCEPT ![id] = @ \o Popped(n)]
         /\ refcount' = [b \in Blocks |-> IF b \in Items(Popped(n)) THEN 1 ELSE refcount[b]]
         /\ free_blocks' = AfterPops(n)

\* Mutation: blocks go back with their count still up.
FreeKeepsCount(id) ==
    /\ free_blocks' = free_blocks \o block_tables[id]
    /\ block_tables' = [block_tables EXCEPT ![id] = <<>>]
    /\ UNCHANGED refcount

\* Mutation: only the first block of the table goes back.
FreeFirstOnly(id) ==
    /\ block_tables[id] # <<>>
    /\ refcount' = [refcount EXCEPT ![block_tables[id][1]] = @ - 1]
    /\ free_blocks' = Append(free_blocks, block_tables[id][1])
    /\ block_tables' = [block_tables EXCEPT ![id] = Tail(@)]

\* `free_sequence`: every block of the table goes back, then the entry does.
\* `free_block` panics on a block whose count is already zero.
FreeSequence(id) ==
    /\ \A b \in Items(block_tables[id]) : refcount[b] # 0
    /\ refcount' = [b \in Blocks |-> IF b \in Items(block_tables[id])
                                     THEN refcount[b] - 1 ELSE refcount[b]]
    /\ free_blocks' = free_blocks \o block_tables[id]
    /\ block_tables' = [block_tables EXCEPT ![id] = <<>>]

-----------------------------------------------------------------------------
\* `BlockEngine::new`: every block free (the code pushes them by number; which
\* number comes first is of no consequence, so any order will do).
BEInit ==
    /\ free_blocks \in [1..Cardinality(Blocks) -> Blocks]
    /\ Items(free_blocks) = Blocks
    /\ refcount = [b \in Blocks |-> 0]
    /\ block_tables = [s \in SeqIds |-> <<>>]

(* The calls a correct caller makes: it asks can_allocate or               *)
(* can_append_token_to_seq first, and never allocates over a table.        *)
CallAllocate(id, n) ==
    /\ block_tables[id] = <<>>
    /\ CanAllocate(n) = "Ok"
    /\ Allocate(id, n)

CallAppend(id, n) ==
    /\ block_tables[id] # <<>>
    /\ CanAppend(n)
    /\ AppendTokenSlot(id, n)

CallFree(id) == FreeSequence(id)

BENext == \E id \in SeqIds :
             \/ \E n \in 1..Cardinality(Blocks) : CallAllocate(id, n)
             \/ \E n \in 0..1 : CallAppend(id, n)
             \/ CallFree(id)

BESpec == BEInit /\ [][BENext]_beVars

-----------------------------------------------------------------------------
BETypeOK ==
    /\ free_blocks \in Seq(Blocks)
    /\ refcount \in [Blocks -> {0, 1}]
    /\ block_tables \in [SeqIds -> Seq(Blocks)]

\* No list mentions a block twice.
NoRepeats(list) == \A i, j \in DOMAIN list : list[i] = list[j] => i = j

\* The free list and the tables share no block.
FreeListExclusive ==
    \A s \in SeqIds : Items(free_blocks) \cap Items(block_tables[s]) = {}

\* No block serves two sequences.
TablesExclusive ==
    \A s, t \in SeqIds : s # t =>
        Items(block_tables[s]) \cap Items(block_tables[t]) = {}

\* Every block is on the free list or in a table.
NoBlockLost ==
    \A b \in Blocks : \/ b \in Items(free_blocks)
                      \/ \E s \in SeqIds : b \in Items(block_tables[s])

(* Block conservation: at any time every GPU block is in exactly one place *)
(* of the free list and the block tables, so no KV data of one sequence is *)
(* overwritten through the table of another and no block is ever lost      *)
(* (allocate, append_token_slot_to_seq, free_sequence).                    *)
BlocksConserved ==
    /\ NoRepeats(free_blocks)
    /\ \A s \in SeqIds : NoRepeats(block_tables[s])
    /\ FreeListExclusive
    /\ TablesExclusive
    /\ NoBlockLost

(* A block has one reference exactly while a table holds it: the double-   *)
(* free panic of free_block cannot be reached.                             *)
RefcountMatchesTables ==
    \A b \in Blocks :
        refcount[b] = IF \E s \in SeqIds : b \in Items(block_tables[s]) THEN 1 ELSE 0

\* The places where a block is: the free list, the tables of sequences.
Holders(b) == {s \in SeqIds : b \in Items(block_tables[s])}
              \cup (IF b \in Items(free_blocks) THEN {Nobody} ELSE {})

Pool == INSTANCE BlockPool WITH owner <- [b \in Blocks |-> CHOOSE x \in Holders(b) : TRUE]

(* The block engine is a block pool: with free lists and tables read as    *)
(* ownership, every call takes free blocks or gives all back.              *)
IsBlockPool == Pool!Spec
=============================================================================
