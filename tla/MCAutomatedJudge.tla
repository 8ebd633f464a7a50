-------------------------- MODULE MCAutomatedJudge --------------------------
(* Three assertions, one of them matched to Gold evidence.                 *)
EXTENDS AutomatedJudge

CONSTANTS a1, a2, a3, v1, v2

Ordered == <<a1, a2, a3>>
Symmetric == Permutations(Versions)
=============================================================================
