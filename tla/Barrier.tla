------------------------------- MODULE Barrier -------------------------------
(***************************************************************************)
(* What a BarrierLike of mistralrs-quant promises, whatever it is made of: *)
(* a call of `wait` that returns Ok has waited for the other ranks; one    *)
(* that returns Err promises nothing.                                      *)
(***************************************************************************)
EXTENDS Integers

VARIABLES waits,    \* thread -> those it waits for, fixed when the barrier is made
          entered,  \* calls of `wait` by each thread
          passed,   \* how many of them returned Ok
          inside    \* threads in a call

vars == <<waits, entered, passed, inside>>

Threads == DOMAIN waits

Init ==
    /\ entered = [t \in Threads |-> 0]
    /\ passed = [t \in Threads |-> 0]
    /\ inside = {}

Call(t) ==
    /\ t \notin inside
    /\ inside' = inside \cup {t}
    /\ entered' = [entered EXCEPT ![t] = @ + 1]
    /\ UNCHANGED <<waits, passed>>

\* The k-th call that succeeds needs a k-th call by everybody it waits for.
ReturnOk(t) ==
    /\ t \in inside
    /\ \A u \in waits[t] : passed[t] < entered[u]
    /\ inside' = inside \ {t}
    /\ passed' = [passed EXCEPT ![t] = @ + 1]
    /\ UNCHANGED <<waits, entered>>

ReturnErr(t) ==
    /\ t \in inside
    /\ inside' = inside \ {t}
    /\ UNCHANGED <<waits, entered, passed>>

Next == \E t \in Threads : Call(t) \/ ReturnOk(t) \/ ReturnErr(t)

Spec == Init /\ [][Next]_vars
=============================================================================
