----------------------------- MODULE BlockPool -----------------------------
(***************************************************************************)
(* What a block allocator promises its callers, without free lists, block  *)
(* tables or counts: every block belongs to nobody or to one sequence; a   *)
(* sequence takes blocks that belong to nobody, a few at a time, keeps     *)
(* every one of them, and gives them all back at once.                     *)
(***************************************************************************)
CONSTANTS Blocks,
          SeqIds,
          Nobody   \* not in SeqIds: the owner of a free block

VARIABLE owner

Owned(s) == {b \in Blocks : owner[b] = s}

Init == owner = [b \in Blocks |-> Nobody]

\* A sequence takes a set of blocks that nobody owns.
Take(s, B) ==
    /\ B \subseteq Owned(Nobody)
    /\ owner' = [b \in Blocks |-> IF b \in B THEN s ELSE owner[b]]

\* A sequence gives back everything it owns.
Release(s) == owner' = [b \in Blocks |-> IF owner[b] = s THEN Nobody ELSE owner[b]]

Next == \E s \in SeqIds : Release(s) \/ \E B \in SUBSET Blocks : Take(s, B)

Spec == Init /\ [][Next]_owner
=============================================================================
