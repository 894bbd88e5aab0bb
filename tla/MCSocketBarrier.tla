--------------------------- MODULE MCSocketBarrier ---------------------------
(* An instance of SocketBarrier for TLC: nodes of two ranks, whose calls   *)
(* may hang, and nodes of one, whose calls go on after a time-out and may  *)
(* read the bytes of an exchange that was given up.                        *)
EXTENDS SocketBarrier

MCLocalWorldSizes == 1..2
MCRounds == [s \in MCLocalWorldSizes |-> IF s = 1 THEN 3 ELSE 2]
=============================================================================
