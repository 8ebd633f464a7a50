--------------------------- MODULE MCPocExecution ---------------------------
(* An instance of PocExecution for TLC: two candidates, one of which has a *)
(* reviewed recipe. A tick is twenty seconds of a run's limit, a removal   *)
(* takes one, and the budgets are those of one and of two such pairs.      *)
EXTENDS PocExecution

McAsked == <<"lib", "other">>
McRunnable == {"lib"}
=============================================================================
