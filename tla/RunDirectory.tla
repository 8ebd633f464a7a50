---------------------------- MODULE RunDirectory ----------------------------
(***************************************************************************)
(* What a survey promises to whoever called it and to whoever reads its    *)
(* directory (the web executor, the run pages): the manifest is published  *)
(* once, a success only beside both reports and only by a call that        *)
(* returns, and a call that raises PipelineRunFailed has left it failed.   *)
(***************************************************************************)
VARIABLES status,    \* of the manifest, or "none"
          reported,  \* both reports are there
          call       \* "working", or how it ended

vars == <<status, reported, call>>

Success == {"completed", "completed_with_degradation"}

Init == status = "none" /\ reported = FALSE /\ call = "working"

Begin ==
  /\ status = "none" /\ call = "working"
  /\ status' = "running"
  /\ UNCHANGED <<reported, call>>

Report ==
  /\ status = "running" /\ call = "working"
  /\ reported' = TRUE
  /\ UNCHANGED <<status, call>>

Return ==
  /\ status = "running" /\ call = "working" /\ reported
  /\ status' \in Success
  /\ call' = "returned"
  /\ UNCHANGED reported

(* The call raises as it publishes the failure, or a little later.         *)
Fail ==
  /\ status = "running" /\ call = "working"
  /\ status' = "failed"
  /\ call' \in {"raised", "stopped", "working"}
  /\ UNCHANGED reported

(* Any other exception, or the process dies.                               *)
Stop ==
  /\ call = "working"
  /\ call' = "stopped"
  /\ UNCHANGED <<status, reported>>

Next == Begin \/ Report \/ Return \/ Fail \/ Stop

Spec == Init /\ [][Next]_vars
=============================================================================
