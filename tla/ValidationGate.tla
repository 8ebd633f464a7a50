--------------------------- MODULE ValidationGate ---------------------------
(***************************************************************************)
(* The deterministic gate over a drafted decision report                   *)
(* (techscout/validation/gate.py): it collects findings in a fixed order,  *)
(* turns them into failures and settles the outcome.  Pure operators.      *)
(*                                                                         *)
(* Left out are the checks that what the stage services hand over passes   *)
(* by its construction: unique identifiers, sources, chunks and evidence   *)
(* that name each other, reviewed recipes behind trusted plans, a manifest *)
(* of this run and the full list of terminal artifacts.                    *)
(***************************************************************************)
EXTENDS Sequences, SequencesExt, RecoveryPolicy

PocStatus == {"passed", "failed", "timed_out", "research_only"}

(* The version a PoC resolved, against the one the request asks for.       *)
Version == {"none", "requested", "other"}

(* What the validator of a PoC result demands of its code.                *)
PocResult(candidates) ==
  {r \in [candidate : candidates, status : PocStatus,
          code : FailureCode \cup {None}, version : Version,
          artifacts : BOOLEAN] :
     /\ r.status = "passed" => r.code = None
     /\ r.status = "timed_out" => r.code = "poc_timeout"
     /\ r.status = "failed" => r.code # None}

Finding(code, recoverable, action) ==
  [code |-> code, recoverable |-> recoverable, action |-> action]
Plain(code) == Finding(code, FALSE, None)

(* A finding the first validation may have repaired.                       *)
Repairable(recovery_count) ==
  IF recovery_count = 0
  THEN Finding("report_evidence_invalid", TRUE, "repair_report")
  ELSE Finding("report_evidence_invalid", FALSE, "fail_safely")

(* A PoC that passed has resolved a version, and the one asked for; the    *)
(* mutant lets it resolve none.                                            *)
VersionFindingsIfResolved(r) ==
  IF r.status = "passed" /\ r.version = "other"
  THEN <<Plain("version_conflict")>> ELSE <<>>

VersionFindings(r) ==
  IF r.status = "passed" /\ r.version # "requested"
  THEN <<Plain("version_conflict")>> ELSE <<>>

ArtifactFindings(r) ==
  IF r.status = "passed" /\ ~r.artifacts
  THEN <<Plain("poc_artifact_invalid")>> ELSE <<>>

(* Only a conflict that was diagnosed asks for another attempt.            *)
StatusFindings(r, recovery_count) ==
  CASE r.status = "timed_out" ->
         <<Finding("poc_timeout", FALSE, "publish_limited_result")>>
    [] r.status = "failed" ->
         IF /\ r.code \in {"dependency_conflict", "version_conflict"}
            /\ recovery_count = 0
         THEN <<Finding(r.code, TRUE, "pin_version_and_rerun_poc")>>
         ELSE <<Finding(r.code, FALSE, "publish_limited_result")>>
    [] OTHER -> <<>>

PocFindings(r, recovery_count) ==
  VersionFindings(r) \o ArtifactFindings(r) \o StatusFindings(r, recovery_count)

(* A recommendation needs a passed PoC of its own and evidence for every   *)
(* hard constraint.                                                        *)
ReportFindings(results, recommendation, evidenced, recovery_count) ==
  IF recommendation = None THEN <<>>
  ELSE (IF \E i \in DOMAIN results :
              /\ results[i].candidate = recommendation
              /\ results[i].status = "passed"
        THEN <<>> ELSE <<Repairable(recovery_count)>>)
       \o (IF recommendation \in evidenced
           THEN <<>> ELSE <<Repairable(recovery_count)>>)

Findings(results, recommendation, evidenced, recovery_count) ==
  FlattenSeq([i \in DOMAIN results |-> PocFindings(results[i], recovery_count)])
  \o ReportFindings(results, recommendation, evidenced, recovery_count)

StageOfCode(code) ==
  CASE code \in {"report_schema_invalid", "report_evidence_invalid"} ->
         "reporting"
    [] code = "poc_recipe_unsupported" -> "poc_planning"
    [] code \in {"dependency_conflict", "version_conflict", "poc_timeout",
                 "poc_nonzero_exit", "poc_artifact_invalid",
                 "tool_unavailable"} -> "poc_execution"
    [] OTHER -> "validation"

(* The failures the findings become.                                       *)
FailuresOf(findings) ==
  [i \in DOMAIN findings |->
     [code        |-> findings[i].code,
      stage       |-> StageOfCode(findings[i].code),
      recoverable |-> findings[i].recoverable,
      action      |-> findings[i].action]]

(* Findings that only limit a result.                                      *)
LimitingCodes ==
  {"poc_recipe_unsupported", "poc_timeout", "poc_nonzero_exit",
   "dependency_conflict", "tool_unavailable"}

OutcomeOf(findings) ==
  LET codes == {findings[i].code : i \in DOMAIN findings}
  IN IF findings = <<>> THEN "passed"
     ELSE IF \E i \in DOMAIN findings : findings[i].recoverable THEN "recover"
     ELSE IF codes \subseteq LimitingCodes THEN "limited"
     ELSE "failed"
=============================================================================
