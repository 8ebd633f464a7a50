------------------------------ MODULE MCHarness ------------------------------
(* Instances of Harness for TLC.  The answers follow what the stage        *)
(* services of techscout_execution.py and the harness tests produce: only  *)
(* validate decides the gate, review_report drafts the report, publish     *)
(* the manifest; a stage may also answer nothing usable, time out or raise.*)
EXTENDS Harness

Answer ==
  [kind |-> "result", run_id |-> "run:1", erases |-> FALSE, failures |-> <<>>,
   gate_outcome |-> None, report |-> NoReport, manifest |-> NoManifest,
   tool_calls |-> 0, tokens |-> 0]

Malformed == [Answer EXCEPT !.kind = "malformed"]
TimedOut  == [Answer EXCEPT !.kind = "deadline"]
Erroring  == [Answer EXCEPT !.kind = "error"]

F(code, stage, action) ==
  [code |-> code, stage |-> stage, recoverable |-> action # None,
   action |-> action]

SearchTimeout == F("search_timeout", "research", "use_cache_or_retry_search")
Conflict == F("dependency_conflict", "poc_execution", "pin_version_and_rerun_poc")
Diagnose == F("dependency_conflict", "poc_execution", "diagnose_and_rerun_poc")
NonzeroExit == F("poc_nonzero_exit", "poc_execution", None)
BadReport == F("report_schema_invalid", "reporting", "repair_report")

Gate(outcome, failures) ==
  [Answer EXCEPT !.gate_outcome = outcome, !.failures = failures]
Drafts(id, run) ==
  [Answer EXCEPT !.report = [report_id |-> id, run_id |-> run]]
Publishes(id, run, status) ==
  [Answer EXCEPT !.manifest = [run_id |-> run, report_id |-> id,
                               terminal_status |-> status]]

McRunIds == {"run:1", "run:2"}
McReportIds == {"report:1", "report:2"}

McOutcomes ==
  [normalize_request   |-> {Answer, Erroring},
   plan_research       |-> {[Answer EXCEPT !.tokens = 1],
                            [Answer EXCEPT !.tokens = 3]},
   research_candidates |-> {[Answer EXCEPT !.tool_calls = 1],
                            [Answer EXCEPT !.failures = <<SearchTimeout>>],
                            TimedOut},
   select_context      |-> {Answer,
                            [Answer EXCEPT !.erases = TRUE]},
   plan_poc            |-> {Answer, [Answer EXCEPT !.run_id = "run:2"]},
   execute_poc         |-> {[Answer EXCEPT !.tool_calls = 1],
                            [Answer EXCEPT !.tool_calls = 1,
                                           !.failures = <<Diagnose>>],
                            Malformed, TimedOut, Erroring},
   validate            |-> {Gate("passed", <<>>),
                            Gate("limited", <<NonzeroExit>>),
                            Gate("recover", <<Conflict>>),
                            Gate("recover", <<Conflict, NonzeroExit>>),
                            Gate("recover", <<BadReport>>),
                            Gate("failed", <<NonzeroExit>>)},
   review_report       |-> {Drafts("report:1", "run:1"),
                            Drafts("report:1", "run:2"), Malformed},
   publish             |-> {Publishes("report:1", "run:1", "completed"),
                            Publishes("report:1", "run:1",
                                      "completed_with_limitations"),
                            Publishes("report:2", "run:1", "completed"),
                            Publishes("report:1", "run:2", "completed"),
                            Answer}]
=============================================================================
