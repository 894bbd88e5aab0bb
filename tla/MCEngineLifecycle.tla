-------------------------- MODULE MCEngineLifecycle --------------------------
(* An instance of EngineLifecycle for TLC: one MistralRs and three         *)
(* clients, one that streams and one whose request is invalid.             *)
EXTENDS EngineLifecycle

CONSTANTS c1, c2, c3
MCClients   == {c1, c2, c3}
MCStreaming == {c2}
MCInvalid   == {c3}
MCHome      == [c \in MCClients |-> 0]
MCOne       == {0}
=============================================================================
