--------------------------- MODULE MCRequestGroups ---------------------------
(* An instance of RequestGroups for TLC: a JSON request of two choices,    *)
(* whose prompt is too long, and a stream of one; or a stream of two.      *)
EXTENDS RequestGroups

MCRequests  == 1..3
MCN         == <<2, 1, 2>>
MCStreaming == {2, 3}
MCMixes     == {{1, 2}, {3}}
MCPromptLen == <<6, 1, 1>>
MCMaxLen    == <<1, 1, 1>>
=============================================================================
