------------------------------- MODULE Harness -------------------------------
(***************************************************************************)
(* The bounded LangGraph of one TechScout run                              *)
(* (paper_agent/techscout/harness/graph.py).  A node reads the stored      *)
(* state, checks the budgets, calls the injected stage services once,      *)
(* applies the result and stores the state; an edge picks the next node.   *)
(*                                                                         *)
(* Stage services are the environment: Outcomes[s] is the set of outcomes  *)
(* the services may produce when they execute stage s.                     *)
(***************************************************************************)
EXTENDS Integers, Sequences, RecoveryPolicy

CONSTANTS StepBudgets,                        \* budget.max_steps, of any run
          MaxToolCalls, MaxTokens,            \* the rest of its RunBudget
          RecoveryLimit,                      \* RunBudget.recovery_limit
          MaxReplays,                         \* bound on crashes inside a node
          RunId,                              \* the run's identifier
          RunIds, ReportIds,                  \* identifiers a service may write
          Outcomes                            \* what the services may answer

(* The graph's edges, but for those after validate and terminal.           *)
Following ==
  [normalize_request   |-> "plan_research",
   plan_research       |-> "research_candidates",
   research_candidates |-> "select_context",
   select_context      |-> "plan_poc",
   plan_poc            |-> "execute_poc",
   execute_poc         |-> "validate",
   review_report       |-> "publish",
   recover_once        |-> "validate",
   publish             |-> "terminal"]

StageNodes ==
  {"normalize_request", "plan_research", "research_candidates",
   "select_context", "plan_poc", "execute_poc", "validate", "review_report",
   "publish"}

(* "end" is LangGraph's END; an exception of the services ("raised") or a  *)
(* state that fails its own validators ("unreadable") leaves the graph.    *)
Nodes == StageNodes \cup {"recover_once", "terminal", "end", "raised",
                          "unreadable"}

GateOutcome == {"passed", "recover", "limited", "failed"}
TerminalStatus == {"completed", "completed_with_limitations", "failed"}

Report == [report_id : ReportIds, run_id : RunIds]
NoReport == [report_id |-> None, run_id |-> None]

(* A failed manifest names no report; the others name one.                 *)
Manifest ==
  {m \in [run_id : RunIds, report_id : ReportIds \cup {None},
          terminal_status : TerminalStatus] :
     (m.terminal_status = "failed") <=> (m.report_id = None)}
NoManifest == [run_id |-> None, report_id |-> None, terminal_status |-> None]

Decision ==
  [should_recover : {TRUE}, action : RecoveryAction,
   repeated_stage : ResearchStage, checkpoint : Nat \ {NoCheckpoint}]
NoDecision ==
  [should_recover |-> FALSE, action |-> None, repeated_stage |-> None,
   checkpoint |-> NoCheckpoint]

Checkpoint == [sequence : Nat, parent : Nat, completed : Seq(ResearchStage)]
FirstCheckpoint == [sequence |-> NoCheckpoint, parent |-> NoCheckpoint,
                    completed |-> <<>>]

(* ResearchState, without the identifiers the graph only carries along.    *)
ResearchState ==
  [stage : ResearchStage, max_steps : Nat, step_count : Nat,
   tool_call_count : Nat, token_count : Nat, recovery_count : Nat, failures : Seq(Failure),
   gate_outcome : GateOutcome \cup {None},
   terminal_status : TerminalStatus \cup {None},
   checkpoint : Checkpoint]

StageArtifacts ==
  [report : Report \cup {NoReport}, manifest : Manifest \cup {NoManifest},
   recovery : Decision \cup {NoDecision}]

(* What a call of the services may come to: a result, a ValueError         *)
(* ("malformed"), a StageDeadlineExceeded ("deadline"), or any other       *)
(* exception ("error").  A result appends failures (unless it erases the   *)
(* existing ones), may set the gate outcome, and meters its usage.         *)
Outcome ==
  [kind : {"result", "malformed", "deadline", "error"},
   run_id : RunIds, erases : BOOLEAN, failures : Seq(Failure),
   gate_outcome : GateOutcome \cup {None},
   report : Report \cup {NoReport}, manifest : Manifest \cup {NoManifest},
   tool_calls : Nat, tokens : Nat]

ASSUME BudgetAssumption ==
  /\ StepBudgets \subseteq 1..16
  /\ MaxToolCalls \in Nat \ {0}
  /\ MaxTokens \in Nat \ {0}
  /\ RecoveryLimit \in 0..1
  /\ MaxReplays \in Nat

ASSUME IdAssumption ==
  RunId \in RunIds /\ None \notin RunIds /\ None \notin ReportIds

ASSUME OutcomesAssumption ==
  Outcomes \in [StageNodes -> SUBSET Outcome]

VARIABLES
  next,       \* the graph node LangGraph runs next
  state,      \* research_state_json
  artifacts,  \* report_json, manifest_json, recovery_json
  expired,    \* the clock is past budget.deadline_at
  calls,      \* how often services.execute was called, per stage (history)
  retried,    \* the stage the recovery node called (history)
  replays     \* nodes cut short by a crash and run again (history)

vars == <<next, state, artifacts, expired, calls, retried, replays>>
-----------------------------------------------------------------------------
(* Terminal states.                                                        *)

FailedWith(s, code, stage) ==
  [s EXCEPT !.stage = "terminal",
            !.failures = Append(@, [code |-> code, stage |-> stage,
                                    recoverable |-> FALSE, action |-> None]),
            !.gate_outcome = "failed",
            !.terminal_status = "failed"]

TerminalizeBudget(s, code) == FailedWith(s, code, "orchestration")

(* Mutated: the research stage is stored where a failure stage belongs.    *)
TerminalizeMalformedUnmapped(s, stage) ==
  [FailedWith(s, "report_schema_invalid", stage)
     EXCEPT !.step_count = @ + 1]

TerminalizeMalformedOutput(s, stage) ==
  [FailedWith(s, "report_schema_invalid", FailureStageOf(stage))
     EXCEPT !.step_count = @ + 1]

TerminalizeInvalidArtifacts(s) ==
  FailedWith(s, "report_schema_invalid", "reporting")

(* The budget code at a moment when the deadline has or has not passed.    *)
BudgetCode(s, late, require_next_step) ==
  IF late THEN "deadline_exceeded"
  ELSE IF require_next_step /\ s.step_count >= s.max_steps THEN "budget_exhausted"
  ELSE None

(* What model_validate_json demands of a stored state; the candidates it   *)
(* must keep are left out, as no service answers with fewer of them.       *)
Readable(s) ==
  /\ s.step_count <= s.max_steps
  /\ s.tool_call_count <= MaxToolCalls
  /\ s.token_count <= MaxTokens
  /\ s.recovery_count <= RecoveryLimit
  /\ (s.stage = "terminal") <=> (s.terminal_status # None)
  /\ s.stage = "terminal" => s.gate_outcome # None
-----------------------------------------------------------------------------
(* Applying what the services answered.                                    *)

(* A result that names another run or drops a failure is a ValueError.     *)
Acceptable(prev, o) ==
  /\ o.kind = "result"
  /\ o.run_id = RunId
  /\ o.erases => prev.failures = <<>>

(* The mutant meters the steps only.                                       *)
OverrunsStepsOnly(prev, o) == prev.step_count + 1 > prev.max_steps
Overruns(prev, o) ==
  \/ prev.step_count + 1 > prev.max_steps
  \/ prev.tool_call_count + o.tool_calls > MaxToolCalls
  \/ prev.token_count + o.tokens > MaxTokens

Accepted(prev, stage, o) ==
  [stage           |-> stage,
   max_steps       |-> prev.max_steps,
   step_count      |-> prev.step_count + 1,
   tool_call_count |-> prev.tool_call_count + o.tool_calls,
   token_count     |-> prev.token_count + o.tokens,
   recovery_count  |-> prev.recovery_count,
   failures        |-> IF o.erases THEN o.failures
                       ELSE prev.failures \o o.failures,
   gate_outcome    |-> IF o.gate_outcome = None THEN prev.gate_outcome
                       ELSE o.gate_outcome,
   terminal_status |-> None,
   checkpoint      |-> [sequence  |-> prev.step_count + 1,
                        parent    |-> prev.checkpoint.sequence,
                        completed |-> Append(prev.checkpoint.completed, stage)]]

(* An overrun drops the result, its failures included.                     *)
ApplyResult(prev, stage, o) ==
  IF Overruns(prev, o)
  THEN TerminalizeBudget(
         [prev EXCEPT !.step_count = IF @ + 1 <= prev.max_steps
                                     THEN @ + 1 ELSE prev.max_steps],
         "budget_exhausted")
  ELSE Accepted(prev, stage, o)

Merge(previous, o) ==
  [previous EXCEPT !.report   = IF o.report = NoReport THEN @ ELSE o.report,
                   !.manifest = IF o.manifest = NoManifest THEN @
                                ELSE o.manifest]

(* The decision is taken on the last failure, whatever the gate found.     *)
RecoveryDecision(s) ==
  IF s.failures = <<>> THEN NoDecision
  ELSE Decide(s.failures[Len(s.failures)], s.recovery_count,
              s.checkpoint.sequence)

RouteAfterValidation(s) ==
  IF s.gate_outcome = "failed" THEN "terminal"
  ELSE IF s.gate_outcome = "recover" /\ RecoveryDecision(s).should_recover
       THEN "recover_once"
  ELSE "review_report"

Route(node, s) ==
  IF node = "terminal" \/ s.stage = "terminal" THEN "end"
  ELSE IF node = "validate" THEN RouteAfterValidation(s)
  ELSE Following[node]

(* The node's writes and its edge commit together; the edge reads the      *)
(* state it is about to store.                                             *)
Commit(node, updated, merged) ==
  IF Readable(updated)
  THEN state' = updated /\ artifacts' = merged /\ next' = Route(node, updated)
  ELSE next' = "unreadable" /\ UNCHANGED <<state, artifacts>>
-----------------------------------------------------------------------------
(* Nodes.  The clock is read before the services are called and after they *)
(* return; "late" says the deadline has passed by the last reading.        *)

CallServices(stage) == calls' = [calls EXCEPT ![stage] = @ + 1]

(* The budgets are spent before the node calls anything.                   *)
RefuseStage(s) ==
  LET code == BudgetCode(state, expired, TRUE)
  IN /\ next = s
     /\ code # None
     /\ Commit(s, TerminalizeBudget(state, code), artifacts)
     /\ UNCHANGED <<expired, calls, retried, replays>>

MayStart(s) == next = s /\ BudgetCode(state, expired, TRUE) = None

(* A later reading of the clock.                                           *)
Later == {e \in BOOLEAN : expired => e}

(* _execute_stage reads the clock again and may find no time left.         *)
NoTimeLeft(late) == late

StageStartsLate(s) ==
  /\ MayStart(s)
  /\ expired' \in Later
  /\ NoTimeLeft(expired')
  /\ Commit(s, TerminalizeBudget(state, "deadline_exceeded"), artifacts)
  /\ UNCHANGED <<calls, retried, replays>>

StageResult(s, o, late) ==
  LET updated == ApplyResult(state, s, o)
      code    == BudgetCode(updated, late, s # "publish")
  IN /\ Acceptable(state, o)
     /\ Commit(s,
               IF updated.stage # "terminal" /\ code # None
               THEN TerminalizeBudget(updated, code) ELSE updated,
               Merge(artifacts, o))

StageMalformed(s, o) ==
  /\ o.kind \in {"result", "malformed"}
  /\ ~Acceptable(state, o)
  /\ Commit(s, TerminalizeMalformedOutput(state, s), artifacts)

StageDeadline(s, o) ==
  /\ o.kind = "deadline"
  /\ Commit(s, TerminalizeBudget(state, "deadline_exceeded"), artifacts)

StageRaises(o) ==
  /\ o.kind = "error"
  /\ next' = "raised"
  /\ UNCHANGED <<state, artifacts>>

(* What the node does with the answer o.                                   *)
StageAnswered(s, o) ==
  \E late \in Later :
    /\ expired' = late
    /\ \/ StageResult(s, o, late)
       \/ StageMalformed(s, o)
       \/ StageDeadline(s, o)
       \/ StageRaises(o)

ExecuteStage(s) ==
  /\ MayStart(s)
  /\ ~NoTimeLeft(expired)
  /\ \E o \in Outcomes[s] : StageAnswered(s, o)
  /\ CallServices(s)
  /\ UNCHANGED <<retried, replays>>

(* The recovery is counted however it ends.                                *)
Counted(s) == [s EXCEPT !.recovery_count = @ + 1]
Linked(decision) == [artifacts EXCEPT !.recovery = decision]

(* The recovery node has no budget check of its own before the services    *)
(* are called; the clock is read by _execute_stage alone.                  *)
RecoveryStartsLate ==
  LET decision == RecoveryDecision(state)
  IN /\ next = "recover_once"
     /\ decision.should_recover
     /\ expired' \in Later
     /\ NoTimeLeft(expired')
     /\ Commit("recover_once",
               Counted(TerminalizeBudget(state, "deadline_exceeded")),
               Linked(decision))
     /\ UNCHANGED <<calls, retried, replays>>

RecoveryResult(o, late, decision) ==
  LET updated == ApplyResult(state, "recover_once", o)
      code    == BudgetCode(Counted(updated), late, TRUE)
  IN /\ Acceptable(state, o)
     /\ IF updated.stage = "terminal"
        THEN Commit("recover_once", updated, Linked(decision))
        ELSE Commit("recover_once",
                    IF code # None
                    THEN TerminalizeBudget(Counted(updated), code)
                    ELSE Counted(updated),
                    Merge(Linked(decision), o))

RecoveryMalformed(o, decision) ==
  /\ o.kind \in {"result", "malformed"}
  /\ ~Acceptable(state, o)
  /\ Commit("recover_once",
            Counted(TerminalizeMalformedOutput(state, decision.repeated_stage)),
            Linked(decision))

RecoveryDeadline(o, decision) ==
  /\ o.kind = "deadline"
  /\ Commit("recover_once",
            Counted(TerminalizeBudget(state, "deadline_exceeded")),
            Linked(decision))

RecoveryAnswered(o, decision) ==
  \E late \in Later :
    /\ expired' = late
    /\ \/ RecoveryResult(o, late, decision)
       \/ RecoveryMalformed(o, decision)
       \/ RecoveryDeadline(o, decision)
       \/ StageRaises(o)

(* A recovery calls the failed stage's services with the state as it is.   *)
RecoverOnce ==
  LET decision == RecoveryDecision(state)
  IN /\ next = "recover_once"
     /\ decision.should_recover
     /\ ~NoTimeLeft(expired)
     /\ \E o \in Outcomes[decision.repeated_stage] : RecoveryAnswered(o, decision)
     /\ CallServices(decision.repeated_stage)
     /\ retried' = decision.repeated_stage
     /\ UNCHANGED replays

StatusOf(gate_outcome) ==
  CASE gate_outcome = "passed"               -> "completed"
    [] gate_outcome \in {"limited", "recover"} -> "completed_with_limitations"
    [] OTHER                                 -> "failed"

(* Mutated check: the manifest of another run is taken.                    *)
CoherentWhicheverRun(report, manifest, terminal_status) ==
  /\ report # NoReport
  /\ manifest # NoManifest
  /\ manifest.report_id = report.report_id
  /\ manifest.terminal_status = terminal_status

Coherent(report, manifest, terminal_status) ==
  /\ report # NoReport
  /\ manifest # NoManifest
  /\ report.run_id = RunId
  /\ manifest.run_id = RunId
  /\ manifest.report_id = report.report_id
  /\ manifest.terminal_status = terminal_status

TerminalNode ==
  LET status == StatusOf(state.gate_outcome)
  IN /\ next = "terminal"
     /\ Commit("terminal",
               IF status # "failed"
                  /\ ~Coherent(artifacts.report, artifacts.manifest, status)
               THEN TerminalizeInvalidArtifacts(state)
               ELSE [state EXCEPT !.stage = "terminal",
                                  !.gate_outcome = IF @ = None THEN "failed"
                                                   ELSE @,
                                  !.terminal_status = status],
               artifacts)
     /\ UNCHANGED <<expired, calls, retried, replays>>

(* The process dies in a node after calling the services and before the    *)
(* checkpoint commits; run(run_id) runs the same node again.  Time passes. *)
Replay ==
  /\ replays < MaxReplays
  /\ replays' = replays + 1
  /\ expired' \in Later
  /\ ~NoTimeLeft(expired)
  /\ \/ \E s \in StageNodes :
          /\ MayStart(s)
          /\ CallServices(s)
          /\ UNCHANGED retried
     \/ /\ next = "recover_once"
        /\ RecoveryDecision(state).should_recover
        /\ CallServices(RecoveryDecision(state).repeated_stage)
        /\ retried' = RecoveryDecision(state).repeated_stage
  /\ UNCHANGED <<next, state, artifacts>>

Outside == {"end", "raised", "unreadable"}

(* The deadline passes between two nodes.                                  *)
DeadlinePasses ==
  /\ next \notin Outside
  /\ ~expired
  /\ expired' = TRUE
  /\ UNCHANGED <<next, state, artifacts, calls, retried, replays>>

Finished == next \in Outside /\ UNCHANGED vars

Init ==
  /\ next = "normalize_request"
  /\ \E steps \in StepBudgets :
       state = [stage |-> "normalize_request", max_steps |-> steps,
                step_count |-> 0, tool_call_count |-> 0, token_count |-> 0,
                recovery_count |-> 0, failures |-> <<>>, gate_outcome |-> None,
                terminal_status |-> None, checkpoint |-> FirstCheckpoint]
  /\ artifacts = [report |-> NoReport, manifest |-> NoManifest,
                  recovery |-> NoDecision]
  /\ expired = FALSE
  /\ calls = [s \in StageNodes |-> 0]
  /\ retried = None
  /\ replays = 0

Next ==
  \/ \E s \in StageNodes : RefuseStage(s) \/ StageStartsLate(s) \/ ExecuteStage(s)
  \/ RecoveryStartsLate
  \/ RecoverOnce
  \/ TerminalNode
  \/ Replay
  \/ DeadlinePasses
  \/ Finished

Spec == Init /\ [][Next]_vars
-----------------------------------------------------------------------------
(* Type correctness of the graph state and of the history variables.       *)
TypeOK ==
  /\ next \in Nodes
  /\ state \in ResearchState
  /\ artifacts \in StageArtifacts
  /\ expired \in BOOLEAN
  /\ calls \in [StageNodes -> Nat]
  /\ retried \in StageNodes \cup {None}
  /\ replays \in 0..MaxReplays

(* No node ever hands its successor a state that the state's own           *)
(* validators reject: every path through _apply_result, the recovery count *)
(* and the terminalizations stays within the budget it was given.          *)
NeverUnreadable == next # "unreadable"

(* A stage is executed once, and once more only if it is the one failed    *)
(* stage the recovery repeated (or the validation that follows it), apart  *)
(* from the nodes a crash made LangGraph run again.                        *)
RepeatsOnlyTheFailedStage ==
  \A s \in StageNodes :
    calls[s] <= 1 + replays + (IF s = retried THEN 1 ELSE 0)
                  + (IF s = "validate" /\ retried # None THEN 1 ELSE 0)

(* A run that ends without failing has completed publish, and its report   *)
(* and manifest are of this run, name each other and carry the status the  *)
(* run ends with; only a passed gate completes it without limitations.     *)
CompletedIsEarned ==
  LET done == state.checkpoint.completed
  IN state.terminal_status \in {"completed", "completed_with_limitations"} =>
       /\ done # <<>> /\ done[Len(done)] = "publish"
       /\ state.terminal_status = "completed" <=> state.gate_outcome = "passed"
       /\ {artifacts.report.run_id, artifacts.manifest.run_id} = {RunId}
       /\ artifacts.manifest.report_id = artifacts.report.report_id
       /\ artifacts.manifest.terminal_status = state.terminal_status

(* Once the deadline has passed, no service is called and no stage result  *)
(* is accepted any more, in the recovery node as in the others.            *)
DeadlineStopsServices ==
  [][expired => calls' = calls /\ state'.checkpoint = state.checkpoint]_vars

(* A run that has spent its steps calls no service; the recovery node does *)
(* not look at the steps and relies on the node before it.                 *)
SpentStepsStopServices ==
  [][state.step_count >= state.max_steps => calls' = calls]_vars

=============================================================================
