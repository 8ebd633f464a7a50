-------------------------- MODULE MCLiveGeneration --------------------------
(* Two launchers of two executions of one campaign.                        *)
EXTENDS LiveGeneration

CONSTANTS l1, l2, e1, e2, c1, c2, v1, v2, v3

RunsExecution == (l1 :> e1) @@ (l2 :> e2)
CaseBound == (e1 :> 2) @@ (e2 :> 1)
LaunchBound == (l1 :> 2) @@ (l2 :> 1)
OrderedCases == (e1 :> <<c1, c2>>) @@ (e2 :> <<c1>>)
Behaviours ==
  [kind : {"transient", "fatal", "invalid"}, units : {Unknown}]
  \cup [kind : {"refused", "sound", "unsound"}, units : {1}]
Versions == (e1 :> {v1, v2}) @@ (e2 :> {v3})
Symmetric == Permutations({v1, v2})
=============================================================================
