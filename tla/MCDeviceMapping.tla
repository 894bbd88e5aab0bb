--------------------------- MODULE MCDeviceMapping ---------------------------
(* Instances of DeviceMapping for TLC: models of up to four layers, and    *)
(* systems with a CPU only and with one and two GPUs.                      *)
EXTENDS DeviceMapping

\* The last is too large for a CPU that is listed twice, and its layers are not.
MCModels ==
    [sizes : {<<2>>, <<2, 2, 2>>, <<2, 2, 2, 2>>, <<1, 3, 2>>}, non_mapped : {0, 3},
     act : {0, 1}, non_mapped_act : {0, 2}, kv : [BOOLEAN -> {0, 1}]]
    \cup {[sizes |-> <<1, 1, 1, 1>>, non_mapped |-> 8, act |-> 0, non_mapped_act |-> 0,
           kv |-> [p \in BOOLEAN |-> 0]]}

Gpu(n)  == [cpu |-> FALSE, avail |-> n]
Host(n) == [cpu |-> TRUE, avail |-> n]

MCSystems ==
    {<<Host(n), Host(n)>> : n \in {3, 10, 20}}
    \cup {<<Gpu(a), Host(n)>> : a \in {2, 5, 9, 20}, n \in {3, 20}}
    \cup {<<Gpu(a), Gpu(b), Host(n)>> : a \in {2, 5, 9}, b \in {2, 5, 9}, n \in {3, 20}}
=============================================================================
