---------------------------- MODULE TechScoutRun ----------------------------
(***************************************************************************)
(* One TechScout run in the worker of web/techscout_execution.py: the      *)
(* harness of Harness, driven by the fast or the verified stage services,  *)
(* whose memory is saved to stage-workspace.json before the graph commits  *)
(* its checkpoint; then the terminal files, the sealed trace and the row.  *)
(* A process that dies is restarted and resumes the run from the           *)
(* checkpoint with the memory of the workspace.                            *)
(*                                                                         *)
(* Taken from the environment: LangGraph's checkpoint is on disk before    *)
(* the next node starts; the queue restarts an interrupted run (see        *)
(* TechScoutQueue).                                                        *)
(***************************************************************************)
EXTENDS Harness, ValidationGate

CONSTANTS Candidates,
          Reviewed,        \* candidates that _recipe_for knows
          Runnable,        \* those whose plan compiles to a container
          Covered,         \* those with a hero-case source policy
          Requests,        \* what may be asked for
          TheReport,       \* the identifier of the run's report
          MaxCrashes, MaxFaults   \* bounds on crashes and raised exceptions

Acquisition == {"live", "cache", "unavailable"}

(* unmet: candidates whose requested version is not the reviewed one.      *)
Request ==
  [mode : {"fast", "verified"}, asks : {"happy", "recovery", "cached"},
   candidates : Seq(Candidates), unmet : SUBSET Candidates]

ASSUME CandidateAssumption ==
  /\ Runnable \subseteq Reviewed /\ Reviewed \subseteq Candidates
  /\ Covered \subseteq Candidates
  /\ None \notin Candidates
  /\ TheReport \in ReportIds
  /\ Requests \subseteq Request
  /\ \A q \in Requests : q.candidates # <<>>

ASSUME FaultAssumption == MaxCrashes \in Nat /\ MaxFaults \in Nat

NoDraft == [recommendation |-> None, status |-> None]
Draft == [recommendation : Candidates \cup {None},
          status : TerminalStatus]
NoRetry == [candidate |-> None, stage |-> None]
Retry == [candidate : Candidates, stage : {"install", "test"}]

(* What the services remember between stages.  history keeps the statuses  *)
(* of every PoC result so far; retry is _failed_poc_stage.                 *)
Memory ==
  [acquired : [Candidates -> Acquisition \cup {None}],
   evidence : SUBSET Candidates, planned : BOOLEAN,
   results : Seq(PocResult(Candidates)), history : SUBSET PocStatus,
   retry : Retry \cup {NoRetry}, draft : Draft \cup {NoDraft}]

EmptyMemory ==
  [acquired |-> [c \in Candidates |-> None], evidence |-> {},
   planned |-> FALSE, results |-> <<>>, history |-> {}, retry |-> NoRetry,
   draft |-> NoDraft]

VARIABLES
  request,      \* row.request
  memory,       \* the services' attributes
  saved,        \* stage-workspace.json was written
  workspace,    \* its content
  phase,        \* where run() is: in the graph, publishing, after an exception
  row,          \* the registry row's status
  files,        \* the terminal files and the trace stream
  repeats,      \* PoC attempts after the first that the graph accepted (history)
  crashes, faults

runVars == <<request, memory, saved, workspace, phase, row, files, repeats,
             crashes, faults>>
allVars == <<vars, runVars>>
-----------------------------------------------------------------------------
(* The scenario the services work under.                                   *)

FastScenario ==
  IF Range(request.candidates) \cap Reviewed = {} THEN "research_only"
  ELSE CASE request.asks = "recovery" -> "single_recovery"
         [] request.asks = "cached"   -> "cached_degradation"
         [] OTHER                     -> "happy"

Statuses(results) == {results[i].status : i \in DOMAIN results}
Broke(r) == r.status \in {"failed", "timed_out"}

VerifiedScenario(m) ==
  LET acquired == {m.acquired[c] : c \in Candidates}
      broken   == {i \in DOMAIN m.results : Broke(m.results[i])}
  IN CASE \E i \in broken : m.results[i].code # "tool_unavailable" ->
            "verification_failed"
       [] "unavailable" \in acquired                -> "research_unavailable"
       [] "cache" \in acquired                      -> "cached_degradation"
       [] broken # {}                               -> "docker_unavailable"
       [] Statuses(m.results) = {"research_only"}   -> "research_only"
       [] "passed" \notin Statuses(m.results)       -> "docker_unavailable"
       [] OTHER                                     -> "verified"

Scenario(m) ==
  IF request.mode = "fast" THEN FastScenario ELSE VerifiedScenario(m)
-----------------------------------------------------------------------------
(* What a call of the services may come to: the answer for the harness,    *)
(* and the memory it leaves.                                               *)

Blank ==
  [kind |-> "result", run_id |-> RunId, erases |-> FALSE, failures |-> <<>>,
   gate_outcome |-> None, report |-> NoReport, manifest |-> NoManifest,
   tool_calls |-> 0, tokens |-> 0]
Escaping(kind) == [Blank EXCEPT !.kind = kind]

Serves(answer, m) == [answer |-> answer, memory |-> m, repeat |-> FALSE]
Metered(tool_calls, tokens) ==
  [Blank EXCEPT !.tool_calls = tool_calls,
                !.tokens = IF request.mode = "fast" THEN tokens ELSE 0]

Asked == request.candidates
Researched(acquired, evidence) ==
  [memory EXCEPT !.acquired = [c \in Candidates |-> IF c \in DOMAIN acquired
                                             THEN acquired[c] ELSE @[c]],
                 !.evidence = evidence]

(* Each candidate's sources are fetched, found in the cache, or not        *)
(* available; what was fetched may yield no evidence.                      *)
ResearchVerified ==
  UNION {{Serves(Metered(Len(Asked), 0), Researched(acquired, evidence)) :
            evidence \in SUBSET {c \in Range(Asked) : acquired[c] # "unavailable"}} :
         acquired \in {a \in [Range(Asked) -> Acquisition] :
                         \A c \in Range(Asked) \ Covered : a[c] = "unavailable"}}

(* The search tool answers for every candidate, or fails at one of them.   *)
ResearchFast ==
  LET found(k) == Researched(<<>>, {Asked[i] : i \in 1..k})
      failure  == [code |-> "tool_unavailable", stage |-> "research",
                   recoverable |-> FALSE, action |-> None]
  IN {Serves(Metered(Len(Asked), 160 * Len(Asked)), found(Len(Asked)))}
     \cup {Serves([Metered(k, 0) EXCEPT !.failures = <<failure>>], found(k - 1)) :
             k \in DOMAIN Asked}

PlanPoc == {Serves(Metered(0, 60), [memory EXCEPT !.planned = TRUE])}

Poc(c, status, code, version, kept) ==
  [candidate |-> c, status |-> status, code |-> code, version |-> version,
   artifacts |-> kept]

Executed(results, retry) ==
  [memory EXCEPT !.results = results, !.history = @ \cup Statuses(results),
                 !.retry = retry]

(* The demo tool passes every reviewed candidate, after one conflict if    *)
(* the question asks for a recovery.                                       *)
ExecuteFast ==
  LET conflict == Poc(Asked[1], "failed", "dependency_conflict", "none", FALSE)
      results  == [i \in DOMAIN Asked |->
                     IF Asked[i] \in Reviewed
                     THEN Poc(Asked[i], "passed", None,
                              IF Asked[i] \in request.unmet THEN "other"
                              ELSE "requested", TRUE)
                     ELSE Poc(Asked[i], "research_only",
                              "poc_recipe_unsupported", "none", FALSE)]
      calls_made == Cardinality({i \in DOMAIN Asked : Asked[i] \in Reviewed})
  IN IF /\ FastScenario = "single_recovery"
        /\ memory.history = {} /\ Asked[1] \in Reviewed
     THEN {Serves([Metered(1, 100) EXCEPT !.failures =
                     <<[code |-> "dependency_conflict",
                        stage |-> "poc_execution", recoverable |-> TRUE,
                        action |-> "pin_version_and_rerun_poc"]>>],
                  Executed(<<conflict>>, NoRetry))}
     ELSE {[Serves(Metered(calls_made, 100 * Max({1, calls_made})),
                   Executed(results, NoRetry))
              EXCEPT !.repeat = /\ FastScenario = "single_recovery"
                                /\ "failed" \in memory.history]}

(* How a container run may end: passed, or broken with a code.             *)
BreakingCodes == {"tool_unavailable", "unsafe_request", "dependency_conflict",
                  "version_conflict", "poc_nonzero_exit"}

Broken(c) ==
  {Poc(c, "failed", code, "none", TRUE) : code \in BreakingCodes}
  \cup {Poc(c, "failed", "poc_artifact_invalid", "none", FALSE),
        Poc(c, "timed_out", "poc_timeout", "none", TRUE)}

Ends(c) ==
  IF c \in Runnable \ request.unmet
  THEN Broken(c) \cup {Poc(c, "passed", None, "requested", TRUE)}
  ELSE {Poc(c, "research_only", "poc_recipe_unsupported", "none", TRUE),
        Poc(c, "failed", "poc_artifact_invalid", "none", FALSE)}

Diagnosable(r) == Broke(r) /\ r.code # "tool_unavailable"

(* The first diagnosable failure is told last and marked for a rerun.      *)
Attempted(results, stage) ==
  LET told(i) ==
        [code |-> results[i].code, stage |-> "poc_execution",
         recoverable |-> FALSE, action |-> "publish_limited_result"]
      marked == {i \in DOMAIN results : Diagnosable(results[i])}
      first  == Min(marked)
      others == FlattenSeq([i \in DOMAIN results |->
                              IF Broke(results[i]) /\ (marked = {} \/ i # first)
                              THEN <<told(i)>> ELSE <<>>])
      answer(failures) ==
        [Metered(Cardinality({i \in DOMAIN results :
                                results[i].status # "research_only"}), 0)
           EXCEPT !.failures = failures]
  IN IF marked = {} THEN Serves(answer(others), Executed(results, NoRetry))
     ELSE Serves(answer(Append(others,
                   [told(first) EXCEPT !.recoverable = TRUE,
                                       !.action = "diagnose_and_rerun_poc"])),
                 Executed(results, [candidate |-> results[first].candidate,
                                    stage |-> stage]))

(* The stage of a result without an artifact is taken to be the install.   *)
FailedStages(results) ==
  LET marked == {i \in DOMAIN results : Diagnosable(results[i])}
  IN IF marked # {} /\ results[Min(marked)].artifacts
     THEN {"install", "test"} ELSE {"install"}

AttemptVerified ==
  UNION {{Attempted(results, stage) : stage \in FailedStages(results)} :
         results \in {f \in [DOMAIN Asked -> UNION {Ends(c) : c \in Range(Asked)}] :
                        \A i \in DOMAIN Asked : f[i] \in Ends(Asked[i])}}

(* A rerun of one stage replaces the result's status, code and artifacts;  *)
(* it resolves no version, and an install alone never passes.  The mutant  *)
(* keeps the old code where the rerun has none.                            *)
MergedKeepingCode(result, attempt) ==
  LET status == IF memory.retry.stage = "test" THEN attempt.status ELSE "failed"
  IN [result EXCEPT !.status = status,
        !.code = IF attempt.code = None THEN @ ELSE attempt.code,
        !.artifacts = @ \/ attempt.artifacts]

Merged(result, attempt) ==
  LET status == IF memory.retry.stage = "test" THEN attempt.status ELSE "failed"
  IN [result EXCEPT !.status = status,
        !.code = IF status = "failed" /\ attempt.code = None
                 THEN "poc_nonzero_exit" ELSE attempt.code,
        !.artifacts = @ \/ attempt.artifacts]

RecoverPoc ==
  LET marked == memory.retry.candidate
  IN {[Serves(Metered(1, 0),
         Executed([i \in DOMAIN memory.results |->
                     IF memory.results[i].candidate = marked
                     THEN Merged(memory.results[i], attempt)
                     ELSE memory.results[i]], memory.retry))
         EXCEPT !.repeat = TRUE] : attempt \in Ends(marked)}

(* Whether a PoC is run or rerun is asked of the memory alone.             *)
ExecutePoc ==
  IF request.mode = "fast" THEN ExecuteFast
  ELSE IF memory.retry = NoRetry THEN AttemptVerified ELSE RecoverPoc
-----------------------------------------------------------------------------
(* Validation drafts report and manifest and asks the gate.                *)

Limited == {"cached_degradation", "research_only", "docker_unavailable",
            "research_unavailable"}

Candidate ==
  LET passed == {i \in DOMAIN Asked :
                   \E k \in DOMAIN memory.results :
                     /\ memory.results[k].candidate = Asked[i]
                     /\ memory.results[k].status = "passed"}
  IN IF passed = {} THEN None ELSE Asked[Min(passed)]

(* The limitation that the scenario adds to a gate that passed.            *)
Limitation(scenario) ==
  [code   |-> IF scenario = "research_only" THEN "poc_recipe_unsupported"
              ELSE "tool_unavailable",
   stage  |-> IF scenario = "research_only" THEN "poc_planning"
              ELSE "poc_execution",
   recoverable |-> FALSE, action |-> "publish_limited_result"]

Judged(scenario, recommendation) ==
  LET findings == Findings(memory.results, recommendation, memory.evidence,
                           state.recovery_count)
      failures == FailuresOf(findings)
      all      == state.failures \o failures
      gate     == OutcomeOf(findings)
      outcome  ==
        IF /\ scenario = "verification_failed"
           /\ \/ state.recovery_count >= 1
              \/ \A i \in DOMAIN all : ~all[i].recoverable
        THEN "failed"
        ELSE IF scenario \in Limited /\ gate = "passed" THEN "limited"
        ELSE gate
  IN Serves([Blank EXCEPT !.gate_outcome = outcome, !.tokens = 120,
               !.failures = IF outcome = "limited" /\ gate = "passed"
                            THEN Append(failures, Limitation(scenario))
                            ELSE failures],
            IF outcome \in {"recover", "failed"} THEN memory
            ELSE [memory EXCEPT !.draft =
                    [recommendation |-> recommendation,
                     status |-> IF recommendation = None
                                THEN "completed_with_limitations"
                                ELSE "completed"]])

(* A reviewed candidate without evidence is a KeyError; a recommendation   *)
(* beside a failed PoC is a manifest that its own validator refuses.       *)
Validate ==
  LET scenario == Scenario(memory)
      recommendation == IF scenario \in Limited THEN None ELSE Candidate
  IN {CASE /\ recommendation # None
           /\ ~(Range(Asked) \cap Reviewed \subseteq memory.evidence) ->
             Serves(Escaping("error"), memory)
        [] /\ recommendation # None /\ scenario = "verification_failed"
           /\ Range(Asked) \cap Reviewed \subseteq memory.evidence ->
             Serves(Escaping("malformed"), memory)
        [] OTHER -> Judged(scenario, recommendation)}

(* A report or manifest is handed out only if one was drafted.             *)
HandOut(answer) ==
  {Serves(IF memory.draft = NoDraft THEN Escaping("malformed") ELSE answer,
          memory)}

Drafted == [report_id |-> TheReport, run_id |-> RunId]
ReviewReport == HandOut([Metered(0, 80) EXCEPT !.report = Drafted])
PublishManifest ==
  HandOut([Metered(0, 40) EXCEPT !.manifest =
             [run_id |-> RunId, report_id |-> TheReport,
              terminal_status |-> memory.draft.status]])

(* Calls that go out of the process, and what may come of them besides.    *)
Outgoing == {"research_candidates", "execute_poc"}

Answered(s) ==
  CASE s = "plan_research"       -> {Serves([Blank EXCEPT !.tokens = 80], memory)}
    [] s = "research_candidates" -> IF request.mode = "fast" THEN ResearchFast
                                    ELSE ResearchVerified
    [] s = "plan_poc"            -> PlanPoc
    [] s = "execute_poc"         -> ExecutePoc
    [] s = "validate"            -> Validate
    [] s = "review_report"       -> ReviewReport
    [] s = "publish"             -> PublishManifest
    [] OTHER                     -> {Serves(Metered(0, 20), memory)}

(* StageResult and the models in it are validated as they are built.       *)
Served(s) ==
  {r \in Answered(s)
         \cup {Serves(Escaping("deadline"), memory)}
         \cup (IF s \in Outgoing THEN {Serves(Escaping("malformed"), memory)}
               ELSE {}) :
     r.answer \in Outcome}

(* A stage that ran past the deadline raises; one that must wait for       *)
(* something that takes longer than what is left raises at once.           *)
InTime(s, kind) ==
  kind = "deadline" => expired' \/ (request.mode = "verified" /\ s \in Outgoing)
-----------------------------------------------------------------------------
(* The run.                                                                *)
InGraph == row = "running" /\ phase = "graph"

(* The stage whose services the next node calls.                           *)
Called == IF next = "recover_once" THEN RecoveryDecision(state).repeated_stage
          ELSE next

Calling ==
  /\ ~NoTimeLeft(expired)
  /\ \/ next \in StageNodes /\ MayStart(next)
     \/ next = "recover_once" /\ RecoveryDecision(state).should_recover

(* The memory is saved when the stage succeeded, before the node commits;  *)
(* the mutant saves what the stage started from.                           *)
SavedBefore(r) == memory
Saved(r) == r.memory

Remember(r) ==
  IF r.answer.kind = "result"
  THEN /\ memory' = r.memory /\ workspace' = Saved(r) /\ saved' = TRUE
       /\ repeats' = IF r.repeat THEN repeats + 1 ELSE repeats
  ELSE UNCHANGED <<memory, workspace, saved, repeats>>

Stage(s) ==
  /\ InGraph
  /\ MayStart(s) /\ ~NoTimeLeft(expired)
  /\ \E r \in Served(s) :
       /\ r.answer.kind # "error"
       /\ StageAnswered(s, r.answer)
       /\ InTime(s, r.answer.kind)
       /\ Remember(r)
  /\ CallServices(s)
  /\ UNCHANGED <<retried, replays, request, phase, row, files, crashes, faults>>

Recover ==
  LET decision == RecoveryDecision(state)
  IN /\ InGraph
     /\ next = "recover_once" /\ decision.should_recover
     /\ ~NoTimeLeft(expired)
     /\ \E r \in Served(decision.repeated_stage) :
          /\ r.answer.kind # "error"
          /\ RecoveryAnswered(r.answer, decision)
          /\ InTime(decision.repeated_stage, r.answer.kind)
          /\ Remember(r)
     /\ CallServices(decision.repeated_stage)
     /\ retried' = decision.repeated_stage
     /\ UNCHANGED <<replays, request, phase, row, files, crashes, faults>>

(* Nodes that call no services.                                            *)
Quiet ==
  /\ InGraph
  /\ \/ \E s \in StageNodes : RefuseStage(s) \/ StageStartsLate(s)
     \/ RecoveryStartsLate
     \/ TerminalNode
  /\ UNCHANGED runVars

TimePasses == InGraph /\ DeadlinePasses /\ UNCHANGED runVars

Fault == faults < MaxFaults /\ faults' = faults + 1

(* An exception that the harness does not handle: the node commits         *)
(* nothing and run() raises.                                               *)
NodeRaises ==
  /\ InGraph /\ Calling
  /\ \/ Fault
     \/ (\E r \in Served(Called) : r.answer.kind = "error") /\ UNCHANGED faults
  /\ phase' = "node raised"
  /\ UNCHANGED <<vars, request, memory, saved, workspace, row, files, repeats,
                 crashes>>

NoFiles == [report |-> FALSE, manifest |-> None, projection |-> None,
            trace |-> None]

PublishedFiles ==
  [report     |-> artifacts.report # NoReport,
   manifest   |-> artifacts.manifest.terminal_status,
   projection |-> state.terminal_status,
   trace      |-> None]

(* _publish rewrites the files one after the other.                        *)
Publish ==
  /\ InGraph /\ next = "end"
  /\ files' = PublishedFiles
  /\ phase' = "published"
  /\ UNCHANGED <<vars, request, memory, saved, workspace, row, repeats, crashes,
                 faults>>

PublishRaises ==
  /\ InGraph /\ next = "end" /\ Fault
  /\ \E rewritten \in {{}, {"report"}, {"report", "manifest"}} :
       files' = [f \in DOMAIN files |-> IF f \in rewritten THEN PublishedFiles[f]
                                        ELSE files[f]]
  /\ phase' = "raised"
  /\ UNCHANGED <<vars, request, memory, saved, workspace, row, repeats, crashes>>

(* The trace is sealed, then the registry row ends.                        *)
Terminate ==
  /\ row = "running" /\ phase = "published"
  /\ files' = [files EXCEPT !.trace = state.terminal_status]
  /\ row' = state.terminal_status
  /\ phase' = "over"
  /\ UNCHANGED <<vars, request, memory, saved, workspace, repeats, crashes,
                 faults>>

TerminateRaises ==
  /\ row = "running" /\ phase = "published" /\ Fault
  /\ files' \in {files, [files EXCEPT !.trace = state.terminal_status]}
  /\ phase' = "raised"
  /\ UNCHANGED <<vars, request, memory, saved, workspace, row, repeats, crashes>>

(* publish_failed_projection: everything but the decision report is        *)
(* rewritten; the mutant leaves the projection of the run that failed.     *)
FailedFilesKeepingProjection ==
  [files EXCEPT !.manifest = "failed", !.trace = "failed"]
FailedFiles ==
  [files EXCEPT !.manifest = "failed", !.projection = "failed",
                !.trace = "failed"]

(* The exception of a node ends the graph of the harness.                  *)
NodeIsOver ==
  IF phase = "node raised"
  THEN \/ /\ next \in StageNodes
          /\ StageAnswered(next, Escaping("error"))
          /\ CallServices(next)
          /\ UNCHANGED <<retried, replays>>
       \/ /\ next = "recover_once"
          /\ RecoveryAnswered(Escaping("error"), RecoveryDecision(state))
          /\ CallServices(Called)
          /\ retried' = Called
          /\ UNCHANGED replays
  ELSE UNCHANGED vars

Excepted == row = "running" /\ phase \in {"raised", "node raised"}

FailRun ==
  /\ Excepted
  /\ files' = FailedFiles
  /\ row' = "failed"
  /\ phase' = "over"
  /\ NodeIsOver
  /\ UNCHANGED <<request, memory, saved, workspace, repeats, crashes, faults>>

(* That raises too: fail_stuck_techscout ends the row without files; the   *)
(* mutated worker leaves the row as it is.                                 *)
ReleasedRunning == "running"
Released == "released"

Release ==
  /\ Excepted /\ Fault
  /\ files' \in {files, FailedFiles}
  /\ row' = Released
  /\ phase' = "over"
  /\ NodeIsOver
  /\ UNCHANGED <<request, memory, saved, workspace, repeats, crashes>>

Over == phase = "over" /\ UNCHANGED allVars
-----------------------------------------------------------------------------
(* Crashes.  The next process claims the row again, loads the workspace    *)
(* and resumes the graph if there is one, or starts it afresh.             *)

Afresh ==
  /\ next' = "normalize_request"
  /\ \E steps \in StepBudgets :
       state' = [stage |-> "normalize_request", max_steps |-> steps,
                 step_count |-> 0, tool_call_count |-> 0, token_count |-> 0,
                 recovery_count |-> 0, failures |-> <<>>, gate_outcome |-> None,
                 terminal_status |-> None, checkpoint |-> FirstCheckpoint]
  /\ artifacts' = [report |-> NoReport, manifest |-> NoManifest,
                   recovery |-> NoDecision]
  /\ expired' = FALSE
  /\ calls' = [s \in StageNodes |-> 0]
  /\ retried' = None
  /\ replays' = 0

Dies ==
  /\ row = "running" /\ phase # "over" /\ crashes < MaxCrashes
  /\ crashes' = crashes + 1
  /\ phase' = "graph"
  /\ UNCHANGED <<request, row, repeats, faults>>

Resumes(repeated) ==
  /\ memory' = workspace'
  /\ IF ~saved' THEN Afresh
     ELSE IF repeated THEN Replay ELSE UNCHANGED vars

(* In a node, before its checkpoint: the stage may have saved its memory.  *)
DieInNode ==
  /\ Dies /\ phase = "graph" /\ Calling
  /\ \/ UNCHANGED <<saved, workspace>>
     \/ \E r \in Served(Called) :
          r.answer.kind = "result" /\ saved' = TRUE /\ workspace' = r.memory
  /\ Resumes(TRUE)
  /\ files' = [files EXCEPT !.trace = None]

(* Anywhere else; the files of a failed run may be written already.        *)
DieBetween ==
  /\ Dies
  /\ phase = "graph" => ~Calling \/ saved
  /\ UNCHANGED <<saved, workspace>>
  /\ Resumes(phase = "node raised")
  /\ files' \in {[f EXCEPT !.trace = None] :
                   f \in IF Excepted THEN {files, FailedFiles} ELSE {files}}

RunInit ==
  /\ Init
  /\ request \in Requests
  /\ memory = EmptyMemory /\ workspace = EmptyMemory /\ saved = FALSE
  /\ phase = "graph" /\ row = "running" /\ files = NoFiles
  /\ repeats = 0 /\ crashes = 0 /\ faults = 0

Work ==
  \/ \E s \in StageNodes : Stage(s)
  \/ Recover
  \/ Quiet
  \/ Publish
  \/ Terminate
  \/ FailRun

RunNext ==
  \/ Work
  \/ TimePasses
  \/ NodeRaises \/ PublishRaises \/ TerminateRaises \/ Release
  \/ DieInNode \/ DieBetween
  \/ Over

RunSpec == RunInit /\ [][RunNext]_allVars

(* Everything the worker does, once it can, it does; nothing makes a       *)
(* process die or a call raise.                                            *)
LiveSpec == RunSpec /\ WF_allVars(Work)
-----------------------------------------------------------------------------
(* Type correctness of the run around the graph; the validators of the     *)
(* services' own results never refuse one.                                 *)
RunTypeOK ==
  /\ TypeOK
  /\ InGraph /\ Calling => Answered(Called) \subseteq Served(Called)
  /\ request \in Requests
  /\ memory \in Memory /\ workspace \in Memory /\ saved \in BOOLEAN
  /\ phase \in {"graph", "published", "raised", "node raised", "over"}
  /\ row \in TerminalStatus \cup {"running", "released"}
  /\ files \in [report : BOOLEAN, manifest : TerminalStatus \cup {None},
                projection : TerminalStatus \cup {None},
                trace : TerminalStatus \cup {None}]
  /\ repeats \in Nat /\ crashes \in 0..MaxCrashes /\ faults \in 0..MaxFaults

(* Wherever the process died, the services that continue from a checkpoint *)
(* remember what its completed stages produced: _load_workspace never      *)
(* hands the graph a memory older than its checkpoint.                     *)
MemoryFitsCheckpoint ==
  LET done == Range(state.checkpoint.completed)
  IN InGraph =>
       /\ "research_candidates" \in done /\ request.mode = "verified" =>
            \A c \in Range(Asked) : memory.acquired[c] # None
       /\ "plan_poc" \in done => memory.planned
       /\ "execute_poc" \in done => memory.results # <<>>
       /\ artifacts.report # NoReport => memory.draft # NoDraft
       /\ artifacts.manifest # NoManifest =>
            artifacts.manifest.terminal_status = memory.draft.status

(* A run that completes without limitations recommends a candidate whose   *)
(* own PoC passed with the version asked for and kept its artifact, with   *)
(* evidence for every reviewed candidate, beside no broken PoC, and, if it *)
(* was to be verified, on sources that were all fetched live.              *)
RecommendationIsVerified ==
  row = "completed" =>
    /\ \E i \in DOMAIN memory.results :
         LET r == memory.results[i]
         IN /\ r.candidate = memory.draft.recommendation
            /\ r.status = "passed" /\ r.version = "requested" /\ r.artifacts
    /\ memory.draft.recommendation \in Reviewed
    /\ Range(Asked) \cap Reviewed \subseteq memory.evidence
    /\ \A i \in DOMAIN memory.results : ~Broke(memory.results[i])
    /\ request.mode = "verified" =>
         \A c \in Range(Asked) : memory.acquired[c] = "live"

(* Whatever end the worker recorded of a run, after crashes in the middle  *)
(* of publishing and exceptions after it, the row, the projection and the  *)
(* sealed trace say the same, and a row that did not fail has its report   *)
(* and manifest.  Not so for a run that fail_stuck_techscout ends after    *)
(* recording the failure failed too (the row "released"): its files are    *)
(* whatever the failing steps left.                                        *)
EndAgrees ==
  row \in TerminalStatus =>
    /\ files.projection = row /\ files.trace = row
    /\ row # "failed" =>
         /\ files.manifest = row /\ files.report
         /\ state.terminal_status = row

(* A restart continues: it never takes back a stage whose checkpoint was   *)
(* committed.                                                              *)
RestartContinues ==
  [][LET done  == state.checkpoint.completed
         done2 == state'.checkpoint.completed
     IN Len(done) <= Len(done2) /\ SubSeq(done2, 1, Len(done)) = done]_allVars

(* Every life of the process accepts at most one rerun of a PoC beyond the *)
(* one the whole run may have.                                             *)
RepeatsWithinLives == repeats <= 1 + crashes

(* Every run ends: the row leaves running however the calls come out.      *)
RunEnds == <>(row # "running")

(* What the documents say, and the code does not do in every case.         *)

(* At most one recovery attempt may repeat the failed stage.               *)
AtMostOneRecovery == repeats <= 1

(* The terminal manifest is authority: the row does not contradict it.     *)
ManifestIsAuthority ==
  row \in TerminalStatus /\ files.manifest # None => files.manifest = row
=============================================================================
