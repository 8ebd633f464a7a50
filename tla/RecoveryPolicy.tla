--------------------------- MODULE RecoveryPolicy ---------------------------
(***************************************************************************)
(* The typed failures of TechScout and the policy that decides whether the *)
(* one local recovery of a run may repeat a failed stage                   *)
(* (paper_agent/techscout/errors.py, recovery/policy.py).  Pure operators: *)
(* the harness and the stage services build on them.                       *)
(***************************************************************************)
EXTENDS Naturals

None == "none"

(* A checkpoint is named by its sequence number, which starts at 1.        *)
NoCheckpoint == 0

FailureStage ==
  {"intake", "planning", "research", "context", "poc_planning",
   "poc_execution", "validation", "reporting", "policy", "orchestration",
   "publishing"}

FailureCode ==
  {"invalid_request", "search_timeout", "search_rate_limited",
   "search_unavailable", "page_parsing_failed", "malformed_mcp_response",
   "tool_timeout", "tool_unavailable", "dependency_conflict",
   "version_conflict", "poc_recipe_unsupported", "poc_timeout",
   "poc_nonzero_exit", "poc_artifact_invalid", "report_schema_invalid",
   "report_evidence_invalid", "unsafe_request", "approval_denied",
   "budget_exhausted", "deadline_exceeded", "artifact_publish_failed"}

RecoveryAction ==
  {"use_cache_or_retry_search", "fetch_alternate_source", "retry_tool_call",
   "pin_version_and_rerun_poc", "diagnose_and_rerun_poc", "repair_report",
   "downgrade_to_research_only", "request_approval",
   "publish_limited_result", "fail_safely"}

(* A failure: identifiers, messages and details are left out.  Only a      *)
(* recoverable failure may name a retry action, and it must name one.      *)
Failure ==
  {f \in [code : FailureCode, stage : FailureStage, recoverable : BOOLEAN,
          action : RecoveryAction \cup {None}] :
     IF f.recoverable
     THEN f.action # None
     ELSE f.action \in {None, "publish_limited_result", "fail_safely"}}

ResearchStage ==
  {"normalize_request", "plan_research", "research_candidates",
   "select_context", "plan_poc", "execute_poc", "validate", "recover_once",
   "review_report", "publish", "terminal"}

(* The stage a failure stage names; policy and orchestration name none.    *)
StageOfFailure ==
  [fs \in FailureStage |->
     CASE fs = "intake"        -> "normalize_request"
       [] fs = "planning"      -> "plan_research"
       [] fs = "research"      -> "research_candidates"
       [] fs = "context"       -> "select_context"
       [] fs = "poc_planning"  -> "plan_poc"
       [] fs = "poc_execution" -> "execute_poc"
       [] fs = "validation"    -> "validate"
       [] fs = "reporting"     -> "review_report"
       [] fs = "publishing"    -> "publish"
       [] OTHER                -> None]

FailureStageOf(stage) ==
  CHOOSE fs \in FailureStage : StageOfFailure[fs] = stage

(* The closed table of what may be retried, where, and by which action.    *)
Allowed ==
  {<<"search_timeout", "research", "use_cache_or_retry_search">>,
   <<"search_rate_limited", "research", "use_cache_or_retry_search">>,
   <<"page_parsing_failed", "research", "fetch_alternate_source">>,
   <<"malformed_mcp_response", "research", "retry_tool_call">>,
   <<"dependency_conflict", "poc_execution", "pin_version_and_rerun_poc">>,
   <<"version_conflict", "poc_execution", "pin_version_and_rerun_poc">>,
   <<"report_schema_invalid", "reporting", "repair_report">>,
   <<"report_evidence_invalid", "reporting", "repair_report">>}

(* Mutated policies: the attempt is not counted; the action is not looked  *)
(* up in the table.                                                        *)
PermittedUncounted(failure, recovery_count, checkpoint) ==
  /\ failure.recoverable
  /\ checkpoint # NoCheckpoint
  /\ StageOfFailure[failure.stage] # None
  /\ <<failure.code, failure.stage, failure.action>> \in Allowed

PermittedUnlisted(failure, recovery_count, checkpoint) ==
  /\ failure.recoverable
  /\ recovery_count = 0
  /\ checkpoint # NoCheckpoint
  /\ StageOfFailure[failure.stage] # None

Permitted(failure, recovery_count, checkpoint) ==
  /\ failure.recoverable
  /\ recovery_count = 0
  /\ checkpoint # NoCheckpoint
  /\ StageOfFailure[failure.stage] # None
  /\ <<failure.code, failure.stage, failure.action>> \in Allowed

Decide(failure, recovery_count, checkpoint) ==
  IF Permitted(failure, recovery_count, checkpoint)
  THEN [should_recover |-> TRUE,
        action         |-> failure.action,
        repeated_stage |-> StageOfFailure[failure.stage],
        checkpoint     |-> checkpoint]
  ELSE [should_recover |-> FALSE,
        action         |->
          IF \/ failure.action = "publish_limited_result"
             \/ failure.stage \in {"research", "poc_planning", "poc_execution"}
          THEN "publish_limited_result"
          ELSE "fail_safely",
        repeated_stage |-> None,
        checkpoint     |-> NoCheckpoint]
=============================================================================
