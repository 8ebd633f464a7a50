------------------------- MODULE TechScoutRunProofs -------------------------
(* Proofs about the TechScout harness and about a whole run of it.         *)
(*                                                                         *)
(* The harness (Harness), for every budget, every set of identifiers and   *)
(* every behaviour of the stage services that answers with typed outcomes: *)
(* type correctness comes first; then what a run that is still open stores *)
(* (Running, WithinBudget), how often a stage was called (CallsCounted)    *)
(* and what a run that reaches its terminal node has completed             *)
(* (EarnsItsEnd).                                                          *)
(*                                                                         *)
(* A whole run (TechScoutRun): the graph with the real services, crashes   *)
(* and restarts around it.  Every step of the run is, to the graph, one of *)
(* its own steps under services that may answer anything, or a fresh       *)
(* start; so what is shown of one step of the harness carries over, and    *)
(* the end of a run is argued on top of it.                                *)
EXTENDS TechScoutRun, SequenceTheorems, FiniteSetTheorems,
        WellFoundedInduction, NaturalsInduction, TLAPS

-----------------------------------------------------------------------------
(* Operators.                                                              *)

(* Every stage node has a failure stage of its own.                        *)
LEMMA FailureStageTyped ==
  ASSUME NEW s \in StageNodes
  PROVE  FailureStageOf(s) \in FailureStage
<1>1. \E fs \in FailureStage : StageOfFailure[fs] = s
  <2> DEFINE W(fs) == fs \in FailureStage /\ StageOfFailure[fs] = s
  <2>1. \/ W("intake") \/ W("planning") \/ W("research") \/ W("context")
        \/ W("poc_planning") \/ W("poc_execution") \/ W("validation")
        \/ W("reporting") \/ W("publishing")
    BY DEF StageNodes, FailureStage, StageOfFailure
  <2> QED BY <2>1
<1> QED BY <1>1 DEF FailureStageOf

(* A terminalization keeps a typed state typed and ends it as failed.      *)
LEMMA FailedWithTyped ==
  ASSUME NEW s \in ResearchState, NEW code \in FailureCode,
         NEW stage \in FailureStage
  PROVE  FailedWith(s, code, stage) \in ResearchState
<1> DEFINE f == [code |-> code, stage |-> stage, recoverable |-> FALSE,
                 action |-> None]
<1>1. f \in Failure
  BY DEF Failure
<1>2. Append(s.failures, f) \in Seq(Failure)
  BY <1>1 DEF ResearchState
<1> HIDE DEF f
<1> QED
  BY <1>2 DEF FailedWith, ResearchState, ResearchStage, GateOutcome, TerminalStatus, f

LEMMA BudgetCodeTyped ==
  ASSUME NEW s, NEW late \in BOOLEAN, NEW next_step \in BOOLEAN
  PROVE  BudgetCode(s, late, next_step) \in FailureCode \cup {None}
BY DEF BudgetCode, FailureCode

LEMMA TerminalizeBudgetTyped ==
  ASSUME NEW s \in ResearchState, NEW code \in FailureCode
  PROVE  TerminalizeBudget(s, code) \in ResearchState
BY FailedWithTyped DEF TerminalizeBudget, FailureStage

LEMMA TerminalizeMalformedTyped ==
  ASSUME NEW s \in ResearchState, NEW stage \in StageNodes
  PROVE  TerminalizeMalformedOutput(s, stage) \in ResearchState
<1> DEFINE f == FailedWith(s, "report_schema_invalid", FailureStageOf(stage))
<1>1. f \in ResearchState
  BY FailureStageTyped, FailedWithTyped DEF FailureCode
<1> DEFINE n == f.step_count + 1
<1>2. TerminalizeMalformedOutput(s, stage) = [f EXCEPT !.step_count = n]
  BY DEF TerminalizeMalformedOutput
<1> HIDE DEF f
<1>3. n \in Nat
  BY <1>1 DEF ResearchState
<1> HIDE DEF n
<1>4. [f EXCEPT !.step_count = n] \in ResearchState
  BY <1>1, <1>3 DEF ResearchState
<1> QED BY <1>2, <1>4

(* Applying a typed answer yields a typed state.                           *)
LEMMA ApplyResultTyped ==
  ASSUME NEW s \in ResearchState, NEW stage \in ResearchStage,
         NEW o \in Outcome
  PROVE  ApplyResult(s, stage, o) \in ResearchState
<1>1. CASE Overruns(s, o)
  <2> DEFINE n == IF s.step_count + 1 <= s.max_steps THEN s.step_count + 1
                  ELSE s.max_steps
  <2>0. n \in Nat
    BY BudgetAssumption DEF ResearchState
  <2> HIDE DEF n
  <2>1. [s EXCEPT !.step_count = n] \in ResearchState
    BY <2>0 DEF ResearchState
  <2>2. TerminalizeBudget([s EXCEPT !.step_count = n], "budget_exhausted")
          \in ResearchState
    BY <2>1, TerminalizeBudgetTyped DEF FailureCode
  <2> QED BY <1>1, <2>2 DEF ApplyResult, n
<1>2. CASE ~Overruns(s, o)
  <2>1. s.failures \o o.failures \in Seq(Failure) /\ o.failures \in Seq(Failure)
    BY DEF ResearchState, Outcome
  <2>2. [sequence  |-> s.step_count + 1,
         parent    |-> s.checkpoint.sequence,
         completed |-> Append(s.checkpoint.completed, stage)] \in Checkpoint
    BY DEF ResearchState, Checkpoint
  <2>3. Accepted(s, stage, o) \in ResearchState
    BY <2>1, <2>2 DEF Accepted, ResearchState, Outcome
  <2> QED BY <1>2, <2>3 DEF ApplyResult
<1> QED BY <1>1, <1>2

LEMMA MergeTyped ==
  ASSUME NEW a \in StageArtifacts, NEW o \in Outcome
  PROVE  Merge(a, o) \in StageArtifacts
BY DEF Merge, StageArtifacts, Outcome

(* A decision to recover repeats a stage that the services know.           *)
LEMMA DecisionTyped ==
  ASSUME NEW s \in ResearchState, RecoveryDecision(s).should_recover
  PROVE  /\ RecoveryDecision(s) \in Decision
         /\ RecoveryDecision(s).repeated_stage \in StageNodes
         /\ s.recovery_count = 0
<1> DEFINE f == s.failures[Len(s.failures)]
<1>1. s.failures # <<>>
  BY DEF RecoveryDecision, NoDecision
<1>2. f \in Failure
  BY <1>1 DEF ResearchState
<1>3. Permitted(f, s.recovery_count, s.checkpoint.sequence)
  BY <1>1 DEF RecoveryDecision, Decide
<1>4. RecoveryDecision(s) = [should_recover |-> TRUE, action |-> f.action,
                             repeated_stage |-> StageOfFailure[f.stage],
                             checkpoint |-> s.checkpoint.sequence]
  BY <1>1, <1>3 DEF RecoveryDecision, Decide
<1>5. f.action \in RecoveryAction
  BY <1>2, <1>3 DEF Failure, Permitted
<1>6. f.stage \in FailureStage
  BY <1>2 DEF Failure
<1>7. StageOfFailure[f.stage] \in StageNodes
  BY <1>3, <1>6 DEF Permitted, StageOfFailure, FailureStage, StageNodes
<1>8. s.checkpoint.sequence \in Nat \ {NoCheckpoint}
  BY <1>3 DEF Permitted, ResearchState, Checkpoint
<1>9. StageNodes \subseteq ResearchStage
  BY DEF StageNodes, ResearchStage
<1>10. s.recovery_count = 0
  BY <1>3 DEF Permitted
<1> HIDE DEF f
<1> QED BY <1>4, <1>5, <1>7, <1>8, <1>9, <1>10 DEF Decision

LEMMA RouteTyped ==
  ASSUME NEW node \in StageNodes \cup {"recover_once", "terminal"}, NEW s
  PROVE  Route(node, s) \in Nodes \ {"raised", "unreadable"}
BY DEF Route, RouteAfterValidation, Following, Nodes, StageNodes

LEMMA CommitTyped ==
  ASSUME TypeOK, NEW node \in StageNodes \cup {"recover_once", "terminal"},
         NEW updated \in ResearchState, NEW merged \in StageArtifacts,
         Commit(node, updated, merged)
  PROVE  next' \in Nodes /\ state' \in ResearchState /\ artifacts' \in StageArtifacts
BY RouteTyped DEF Commit, TypeOK, Nodes
-----------------------------------------------------------------------------
(* Type correctness.                                                       *)

LEMMA InitTyped == Init => TypeOK
<1> SUFFICES ASSUME Init PROVE TypeOK
  OBVIOUS
<1>1. FirstCheckpoint \in Checkpoint
  BY DEF FirstCheckpoint, Checkpoint, NoCheckpoint
<1>2. state \in ResearchState
  <2>1. PICK steps \in StepBudgets :
          state = [stage |-> "normalize_request", max_steps |-> steps,
                   step_count |-> 0, tool_call_count |-> 0, token_count |-> 0,
                   recovery_count |-> 0, failures |-> <<>>,
                   gate_outcome |-> None, terminal_status |-> None,
                   checkpoint |-> FirstCheckpoint]
    BY DEF Init
  <2>2. steps \in Nat
    BY BudgetAssumption
  <2> QED BY <1>1, <2>1, <2>2 DEF ResearchState, ResearchStage
<1>3. artifacts \in StageArtifacts
  BY DEF Init, StageArtifacts
<1>4. next \in Nodes /\ expired \in BOOLEAN /\ retried \in StageNodes \cup {None}
  BY DEF Init, Nodes, StageNodes
<1>5. calls \in [StageNodes -> Nat]
  BY DEF Init
<1>6. replays \in 0..MaxReplays
  BY BudgetAssumption DEF Init
<1> QED BY <1>2, <1>3, <1>4, <1>5, <1>6 DEF TypeOK

(* The graph under services that may answer anything: what is proved of    *)
(* AnyNext holds for the services of every module built on Harness.        *)
AnyStage(s) ==
  /\ MayStart(s)
  /\ ~NoTimeLeft(expired)
  /\ \E o \in Outcome : StageAnswered(s, o)
  /\ CallServices(s)
  /\ UNCHANGED <<retried, replays>>

AnyRecovery ==
  LET decision == RecoveryDecision(state)
  IN /\ next = "recover_once"
     /\ decision.should_recover
     /\ ~NoTimeLeft(expired)
     /\ \E o \in Outcome : RecoveryAnswered(o, decision)
     /\ CallServices(decision.repeated_stage)
     /\ retried' = decision.repeated_stage
     /\ UNCHANGED replays

AnyNext ==
  \/ \E s \in StageNodes : RefuseStage(s) \/ StageStartsLate(s) \/ AnyStage(s)
  \/ RecoveryStartsLate
  \/ AnyRecovery
  \/ TerminalNode
  \/ Replay
  \/ DeadlinePasses

LEMMA NextIsAny == TypeOK /\ [Next]_vars => [AnyNext]_vars
<1> SUFFICES ASSUME TypeOK, [Next]_vars PROVE [AnyNext]_vars
  OBVIOUS
<1>1. ASSUME NEW s \in StageNodes, ExecuteStage(s) PROVE AnyStage(s)
  BY <1>1, OutcomesAssumption DEF ExecuteStage, AnyStage
<1>2. ASSUME RecoverOnce PROVE AnyRecovery
  <2>1. RecoveryDecision(state).repeated_stage \in StageNodes
    BY <1>2, DecisionTyped DEF RecoverOnce, TypeOK
  <2> QED BY <1>2, <2>1, OutcomesAssumption DEF RecoverOnce, AnyRecovery
<1> QED BY <1>1, <1>2 DEF Next, AnyNext, Finished

(* The stage counter is typed.                                             *)
LEMMA CallTyped ==
  ASSUME TypeOK, NEW s \in StageNodes, CallServices(s)
  PROVE  calls' \in [StageNodes -> Nat]
BY DEF TypeOK, CallServices

(* What a stage node stores is typed, whichever way it goes.               *)
LEMMA StageCommitTyped ==
  ASSUME TypeOK, NEW s \in StageNodes, NEW o \in Outcome,
         NEW late \in BOOLEAN,
         \/ StageResult(s, o, late) \/ StageMalformed(s, o)
         \/ StageDeadline(s, o) \/ StageRaises(o)
  PROVE  next' \in Nodes /\ state' \in ResearchState /\ artifacts' \in StageArtifacts
<1> USE DEF TypeOK
<1>0. s \in ResearchStage /\ o \in Outcome
  BY DEF StageNodes, ResearchStage
<1>1. CASE StageResult(s, o, late)
  <2> DEFINE updated == ApplyResult(state, s, o)
             code    == BudgetCode(updated, late, s # "publish")
             final   == IF updated.stage # "terminal" /\ code # None
                        THEN TerminalizeBudget(updated, code) ELSE updated
  <2>1. updated \in ResearchState
    BY <1>0, ApplyResultTyped
  <2>2. code \in FailureCode \cup {None}
    BY BudgetCodeTyped
  <2>3. Commit(s, final, Merge(artifacts, o))
    BY <1>1 DEF StageResult
  <2> HIDE DEF updated, code
  <2>4. final \in ResearchState
    BY <2>1, <2>2, TerminalizeBudgetTyped
  <2>5. Merge(artifacts, o) \in StageArtifacts
    BY <1>0, MergeTyped
  <2> HIDE DEF final
  <2> QED BY <2>3, <2>4, <2>5, CommitTyped
<1>2. CASE StageMalformed(s, o)
  BY <1>2, TerminalizeMalformedTyped, CommitTyped DEF StageMalformed
<1>3. CASE StageDeadline(s, o)
  BY <1>3, TerminalizeBudgetTyped, CommitTyped DEF StageDeadline, FailureCode
<1>4. CASE StageRaises(o)
  BY <1>4 DEF StageRaises, Nodes
<1> QED BY <1>1, <1>2, <1>3, <1>4

LEMMA CountedTyped ==
  ASSUME NEW s \in ResearchState
  PROVE  Counted(s) \in ResearchState
BY DEF Counted, ResearchState

LEMMA LinkedTyped ==
  ASSUME TypeOK, NEW decision \in Decision
  PROVE  Linked(decision) \in StageArtifacts
BY DEF TypeOK, Linked, StageArtifacts

(* What the recovery node stores is typed, whichever way it goes.          *)
LEMMA RecoveryCommitTyped ==
  ASSUME TypeOK, NEW decision \in Decision,
         decision.repeated_stage \in StageNodes,
         NEW o \in Outcome, NEW late \in BOOLEAN,
         \/ RecoveryResult(o, late, decision) \/ RecoveryMalformed(o, decision)
         \/ RecoveryDeadline(o, decision) \/ StageRaises(o)
  PROVE  next' \in Nodes /\ state' \in ResearchState /\ artifacts' \in StageArtifacts
<1>0. /\ o \in Outcome /\ "recover_once" \in ResearchStage
      /\ state \in ResearchState /\ artifacts \in StageArtifacts
      /\ Linked(decision) \in StageArtifacts
  BY LinkedTyped DEF ResearchStage, TypeOK
<1>1. CASE RecoveryResult(o, late, decision)
  <2> DEFINE updated == ApplyResult(state, "recover_once", o)
             code    == BudgetCode(Counted(updated), late, TRUE)
  <2>1. updated \in ResearchState /\ Counted(updated) \in ResearchState
    BY <1>0, ApplyResultTyped, CountedTyped
  <2>2. code \in FailureCode \cup {None}
    BY BudgetCodeTyped
  <2>3. code # None => TerminalizeBudget(Counted(updated), code) \in ResearchState
    BY <2>1, <2>2, TerminalizeBudgetTyped
  <2>4. Merge(Linked(decision), o) \in StageArtifacts
    BY <1>0, MergeTyped
  <2>5. IF updated.stage = "terminal"
        THEN Commit("recover_once", updated, Linked(decision))
        ELSE Commit("recover_once",
                    IF code # None THEN TerminalizeBudget(Counted(updated), code)
                    ELSE Counted(updated),
                    Merge(Linked(decision), o))
    BY <1>1 DEF RecoveryResult
  <2> HIDE DEF updated, code
  <2> QED BY <1>0, <2>1, <2>3, <2>4, <2>5, CommitTyped
<1>2. CASE RecoveryMalformed(o, decision)
  BY <1>0, <1>2, TerminalizeMalformedTyped, CountedTyped, CommitTyped
     DEF RecoveryMalformed
<1>3. CASE RecoveryDeadline(o, decision)
  BY <1>0, <1>3, TerminalizeBudgetTyped, CountedTyped, CommitTyped
     DEF RecoveryDeadline, FailureCode
<1>4. CASE StageRaises(o)
  BY <1>0, <1>4 DEF StageRaises, Nodes
<1> QED BY <1>1, <1>2, <1>3, <1>4

LEMMA LaterTyped == ASSUME TypeOK PROVE Later \subseteq BOOLEAN
BY DEF Later

LEMMA StepTyped == TypeOK /\ [AnyNext]_vars => TypeOK'
<1> SUFFICES ASSUME TypeOK, [AnyNext]_vars PROVE TypeOK'
  OBVIOUS
<1>0. /\ state \in ResearchState /\ artifacts \in StageArtifacts
      /\ expired \in BOOLEAN /\ next \in Nodes
      /\ calls \in [StageNodes -> Nat] /\ retried \in StageNodes \cup {None}
      /\ replays \in 0..MaxReplays
  BY DEF TypeOK
<1>1. ASSUME NEW s \in StageNodes, RefuseStage(s) PROVE TypeOK'
  <2> DEFINE code == BudgetCode(state, expired, TRUE)
  <2>1. code \in FailureCode /\ Commit(s, TerminalizeBudget(state, code), artifacts)
    BY <1>0, <1>1, BudgetCodeTyped DEF RefuseStage
  <2> HIDE DEF code
  <2>2. next' \in Nodes /\ state' \in ResearchState /\ artifacts' \in StageArtifacts
    BY <1>0, <2>1, TerminalizeBudgetTyped, CommitTyped
  <2> QED BY <1>0, <1>1, <2>2 DEF RefuseStage, TypeOK
<1>2. ASSUME NEW s \in StageNodes, StageStartsLate(s) PROVE TypeOK'
  <2>1. next' \in Nodes /\ state' \in ResearchState /\ artifacts' \in StageArtifacts
    BY <1>0, <1>2, TerminalizeBudgetTyped, CommitTyped
       DEF StageStartsLate, FailureCode
  <2> QED BY <1>0, <1>2, <2>1, LaterTyped DEF StageStartsLate, TypeOK
<1>3. ASSUME NEW s \in StageNodes, AnyStage(s) PROVE TypeOK'
  <2>1. PICK o \in Outcome, late \in Later :
          /\ expired' = late
          /\ \/ StageResult(s, o, late) \/ StageMalformed(s, o)
             \/ StageDeadline(s, o) \/ StageRaises(o)
    BY <1>3 DEF AnyStage, StageAnswered
  <2>2. late \in BOOLEAN
    BY LaterTyped
  <2>3. next' \in Nodes /\ state' \in ResearchState /\ artifacts' \in StageArtifacts
    BY <2>1, <2>2, StageCommitTyped
  <2>4. calls' \in [StageNodes -> Nat]
    BY <1>3, CallTyped DEF AnyStage, StageAnswered
  <2> QED BY <1>0, <1>3, <2>1, <2>2, <2>3, <2>4 DEF AnyStage, StageAnswered, TypeOK
<1>4. ASSUME RecoveryStartsLate PROVE TypeOK'
  <2> DEFINE decision == RecoveryDecision(state)
  <2>1. decision \in Decision
    BY <1>0, <1>4, DecisionTyped DEF RecoveryStartsLate
  <2>2. Commit("recover_once",
               Counted(TerminalizeBudget(state, "deadline_exceeded")),
               Linked(decision))
    BY <1>4 DEF RecoveryStartsLate
  <2> HIDE DEF decision
  <2>3. next' \in Nodes /\ state' \in ResearchState /\ artifacts' \in StageArtifacts
    BY <1>0, <2>1, <2>2, TerminalizeBudgetTyped, CountedTyped, LinkedTyped,
       CommitTyped DEF FailureCode
  <2> QED BY <1>0, <1>4, <2>3, LaterTyped DEF RecoveryStartsLate, TypeOK
<1>5. ASSUME AnyRecovery PROVE TypeOK'
  <2> DEFINE decision == RecoveryDecision(state)
  <2>1. decision \in Decision /\ decision.repeated_stage \in StageNodes
    BY <1>0, <1>5, DecisionTyped DEF AnyRecovery, RecoveryAnswered
  <2>2. PICK o \in Outcome, late \in Later :
          /\ expired' = late
          /\ \/ RecoveryResult(o, late, decision) \/ RecoveryMalformed(o, decision)
             \/ RecoveryDeadline(o, decision) \/ StageRaises(o)
    BY <1>5 DEF AnyRecovery, RecoveryAnswered
  <2>3. CallServices(decision.repeated_stage) /\ retried' = decision.repeated_stage
        /\ replays' = replays
    BY <1>5 DEF AnyRecovery, RecoveryAnswered
  <2> HIDE DEF decision
  <2>4. late \in BOOLEAN
    BY LaterTyped
  <2>5. next' \in Nodes /\ state' \in ResearchState /\ artifacts' \in StageArtifacts
    BY <2>1, <2>2, <2>4, RecoveryCommitTyped
  <2>6. calls' \in [StageNodes -> Nat]
    BY <2>1, <2>3, CallTyped
  <2> QED BY <1>0, <2>1, <2>2, <2>3, <2>4, <2>5, <2>6 DEF TypeOK
<1>6. ASSUME TerminalNode PROVE TypeOK'
  <2> DEFINE status == StatusOf(state.gate_outcome)
             done   == [state EXCEPT !.stage = "terminal",
                                     !.gate_outcome = IF @ = None THEN "failed"
                                                      ELSE @,
                                     !.terminal_status = status]
             failed == TerminalizeInvalidArtifacts(state)
  <2>1. status \in TerminalStatus
    BY DEF StatusOf, TerminalStatus
  <2>2. done \in ResearchState
    BY <1>0, <2>1 DEF ResearchState, ResearchStage, GateOutcome
  <2>3. failed \in ResearchState
    BY <1>0, FailedWithTyped DEF TerminalizeInvalidArtifacts, FailureCode, FailureStage
  <2>4. Commit("terminal",
               IF status # "failed"
                  /\ ~Coherent(artifacts.report, artifacts.manifest, status)
               THEN failed ELSE done, artifacts)
    BY <1>6 DEF TerminalNode
  <2> HIDE DEF status, done, failed
  <2>5. next' \in Nodes /\ state' \in ResearchState /\ artifacts' \in StageArtifacts
    BY <1>0, <2>2, <2>3, <2>4, CommitTyped
  <2> QED BY <1>0, <1>6, <2>5 DEF TerminalNode, TypeOK
<1>7. ASSUME Replay PROVE TypeOK'
  <2>1. calls' \in [StageNodes -> Nat] /\ retried' \in StageNodes \cup {None}
    BY <1>0, <1>7, CallTyped, DecisionTyped DEF Replay
  <2>2. replays' \in 0..MaxReplays
    BY <1>0, <1>7, BudgetAssumption DEF Replay
  <2> QED BY <1>0, <1>7, <2>1, <2>2, LaterTyped DEF Replay, TypeOK
<1>8. CASE DeadlinePasses
  BY <1>0, <1>8 DEF DeadlinePasses, TypeOK
<1>9. CASE UNCHANGED vars
  BY <1>0, <1>9 DEF vars, TypeOK
<1> QED
  BY <1>1, <1>2, <1>3, <1>4, <1>5, <1>6, <1>7, <1>8, <1>9 DEF AnyNext

(* The graph state stays typed for every budget and every behaviour of the *)
(* stage services (graph.py, state.py).                                    *)
THEOREM TypeCorrect == Spec => []TypeOK
<1>1. Init => TypeOK
  BY InitTyped
<1>2. TypeOK /\ [AnyNext]_vars => TypeOK'
  BY StepTyped
<1> QED BY <1>1, <1>2, NextIsAny, PTL DEF Spec
-----------------------------------------------------------------------------
(* Safety.                                                                 *)
Running ==
  next \notin Outside => state.stage # "terminal" /\ state.terminal_status = None

(* The recovery node is entered with a step to spare and a decision to     *)
(* recover: it checks neither.                                             *)
MayRecover ==
  next = "recover_once" =>
    state.step_count < state.max_steps /\ RecoveryDecision(state).should_recover

WithinBudget == Readable(state) /\ NeverUnreadable

Rank ==
  [normalize_request |-> 1, plan_research |-> 2, research_candidates |-> 3,
   select_context |-> 4, plan_poc |-> 5, execute_poc |-> 6, validate |-> 7,
   recover_once |-> 8, review_report |-> 9, publish |-> 10, terminal |-> 11,
   end |-> 12, raised |-> 12, unreadable |-> 12]

(* How often the graph itself had the services execute s so far.           *)
Visits(s) ==
  (IF Rank[s] < Rank[next] THEN 1 ELSE 0)
  + (IF next # "recover_once" /\ s = retried THEN 1 ELSE 0)
  + (IF next # "recover_once" /\ s = "validate" /\ retried # None THEN 1 ELSE 0)

CallsCounted ==
  /\ \A s \in StageNodes : calls[s] <= Visits(s) + replays
  /\ Rank[next] < 7 => retried = None
  /\ next = "validate" /\ state.recovery_count = 0 => retried = None
  /\ next = "recover_once" =>
       retried \in {None, RecoveryDecision(state).repeated_stage}

EarnsItsEnd ==
  LET done == state.checkpoint.completed
  IN next = "terminal" /\ state.gate_outcome # "failed" =>
       done # <<>> /\ done[Len(done)] = "publish"
-----------------------------------------------------------------------------
(* What a node may leave behind.                                           *)

(* A node that leaves the graph stores a failure or nothing.               *)
Leaves ==
  /\ next' \in Outside
  /\ \/ state' = state
     \/ state'.terminal_status = "failed" /\ state'.gate_outcome = "failed"

(* A node that keeps the run open has accepted the answer of its stage.    *)
StaysOpen(s, o) ==
  /\ next' = Route(s, state')
  /\ state' = Accepted(state, s, o)
  /\ Acceptable(state, o)
  /\ ~Overruns(state, o)
  /\ s # "publish" => state'.step_count < state'.max_steps

LEMMA RouteTerminal ==
  ASSUME NEW node, NEW s, s.stage = "terminal"
  PROVE  Route(node, s) = "end"
BY DEF Route

LEMMA FailedWithEnds ==
  ASSUME NEW s \in ResearchState, NEW code, NEW stage
  PROVE  /\ FailedWith(s, code, stage).stage = "terminal"
         /\ FailedWith(s, code, stage).terminal_status = "failed"
         /\ FailedWith(s, code, stage).gate_outcome = "failed"
         /\ FailedWith(s, code, stage).max_steps = s.max_steps
         /\ FailedWith(s, code, stage).step_count = s.step_count
         /\ FailedWith(s, code, stage).tool_call_count = s.tool_call_count
         /\ FailedWith(s, code, stage).token_count = s.token_count
         /\ FailedWith(s, code, stage).recovery_count = s.recovery_count
         /\ FailedWith(s, code, stage).checkpoint = s.checkpoint
BY DEF FailedWith, ResearchState

(* Storing a failed state leaves the graph.                                *)
LEMMA CommitFailedLeaves ==
  ASSUME NEW node, NEW updated, NEW merged, Commit(node, updated, merged),
         updated.stage = "terminal", updated.terminal_status = "failed",
         updated.gate_outcome = "failed"
  PROVE  Leaves
BY RouteTerminal DEF Commit, Leaves, Outside

LEMMA BudgetFails ==
  ASSUME NEW s \in ResearchState, NEW code
  PROVE  /\ TerminalizeBudget(s, code).stage = "terminal"
         /\ TerminalizeBudget(s, code).terminal_status = "failed"
         /\ TerminalizeBudget(s, code).gate_outcome = "failed"
BY FailedWithEnds DEF TerminalizeBudget

LEMMA TerminalizedFails ==
  ASSUME NEW s \in ResearchState, NEW stage \in StageNodes, NEW code
  PROVE  /\ TerminalizeBudget(s, code).stage = "terminal"
         /\ TerminalizeBudget(s, code).terminal_status = "failed"
         /\ TerminalizeBudget(s, code).gate_outcome = "failed"
         /\ TerminalizeMalformedOutput(s, stage).stage = "terminal"
         /\ TerminalizeMalformedOutput(s, stage).terminal_status = "failed"
         /\ TerminalizeMalformedOutput(s, stage).gate_outcome = "failed"
<1>1. /\ TerminalizeBudget(s, code).stage = "terminal"
      /\ TerminalizeBudget(s, code).terminal_status = "failed"
      /\ TerminalizeBudget(s, code).gate_outcome = "failed"
  BY FailedWithEnds DEF TerminalizeBudget
<1>2. TerminalizeMalformedOutput(s, stage).stage = "terminal"
  BY DEF TerminalizeMalformedOutput, FailedWith, ResearchState
<1>3. /\ TerminalizeMalformedOutput(s, stage).terminal_status = "failed"
      /\ TerminalizeMalformedOutput(s, stage).gate_outcome = "failed"
  BY DEF TerminalizeMalformedOutput, FailedWith, ResearchState
<1> QED BY <1>1, <1>2, <1>3

LEMMA ApplyResultMoves ==
  ASSUME NEW s \in ResearchState, NEW stage \in ResearchStage \ {"terminal"},
         NEW o \in Outcome
  PROVE  \/ /\ ApplyResult(s, stage, o).stage = "terminal"
            /\ ApplyResult(s, stage, o).terminal_status = "failed"
            /\ ApplyResult(s, stage, o).gate_outcome = "failed"
         \/ /\ ApplyResult(s, stage, o) = Accepted(s, stage, o)
            /\ Accepted(s, stage, o).stage = stage
            /\ ~Overruns(s, o)
<1>1. CASE Overruns(s, o)
  <2> DEFINE n == IF s.step_count + 1 <= s.max_steps THEN s.step_count + 1
                  ELSE s.max_steps
  <2>1. n \in Nat
    BY BudgetAssumption DEF ResearchState
  <2> HIDE DEF n
  <2>2. [s EXCEPT !.step_count = n] \in ResearchState
    BY <2>1 DEF ResearchState
  <2>3. /\ TerminalizeBudget([s EXCEPT !.step_count = n],
                             "budget_exhausted").stage = "terminal"
        /\ TerminalizeBudget([s EXCEPT !.step_count = n],
                             "budget_exhausted").terminal_status = "failed"
        /\ TerminalizeBudget([s EXCEPT !.step_count = n],
                             "budget_exhausted").gate_outcome = "failed"
    BY <2>2, FailedWithEnds DEF TerminalizeBudget
  <2> QED BY <1>1, <2>3 DEF ApplyResult, n
<1>2. CASE ~Overruns(s, o)
  BY <1>2 DEF ApplyResult, Accepted
<1> QED BY <1>1, <1>2

(* The four ways a stage call may go come to two.                          *)
LEMMA StageMoves ==
  ASSUME TypeOK, NEW s \in StageNodes, NEW o \in Outcome,
         NEW late \in BOOLEAN,
         \/ StageResult(s, o, late) \/ StageMalformed(s, o)
         \/ StageDeadline(s, o) \/ StageRaises(o)
  PROVE  Leaves \/ StaysOpen(s, o)
<1>0. /\ s \in ResearchStage \ {"terminal"} /\ o \in Outcome
      /\ state \in ResearchState
  BY DEF StageNodes, ResearchStage, TypeOK
<1>1. CASE StageResult(s, o, late)
  <2> DEFINE updated == ApplyResult(state, s, o)
             code    == BudgetCode(updated, late, s # "publish")
             final   == IF updated.stage # "terminal" /\ code # None
                        THEN TerminalizeBudget(updated, code) ELSE updated
  <2>1. Commit(s, final, Merge(artifacts, o)) /\ Acceptable(state, o)
    BY <1>1 DEF StageResult
  <2>2. updated \in ResearchState
    BY <1>0, ApplyResultTyped
  <2>3. CASE updated.stage = "terminal"
    <3>1. /\ final = updated /\ updated.terminal_status = "failed"
          /\ updated.gate_outcome = "failed"
      BY <1>0, <2>3, ApplyResultMoves
    <3> HIDE DEF updated, final
    <3> QED BY <2>1, <2>3, <3>1, CommitFailedLeaves
  <2>4. CASE updated.stage # "terminal" /\ code # None
    <3>1. final = TerminalizeBudget(updated, code)
      BY <2>4
    <3>2. /\ final.stage = "terminal" /\ final.terminal_status = "failed"
          /\ final.gate_outcome = "failed"
      BY <1>0, <2>2, <3>1, TerminalizedFails
    <3> HIDE DEF updated, code, final
    <3> QED BY <2>1, <3>2, CommitFailedLeaves
  <2>5. CASE updated.stage # "terminal" /\ code = None
    <3>1. final = Accepted(state, s, o) /\ ~Overruns(state, o)
          /\ final \in ResearchState /\ final = updated
      BY <1>0, <2>2, <2>5, ApplyResultMoves
    <3>2. s # "publish" => final.step_count < final.max_steps
      BY <2>5, <3>1, BudgetAssumption DEF BudgetCode, None, ResearchState
    <3> HIDE DEF updated, code, final
    <3> QED BY <2>1, <3>1, <3>2 DEF Commit, Leaves, StaysOpen, Outside
  <2> QED BY <2>3, <2>4, <2>5
<1>2. CASE StageMalformed(s, o)
  BY <1>0, <1>2, TerminalizedFails, CommitFailedLeaves DEF StageMalformed
<1>3. CASE StageDeadline(s, o)
  BY <1>0, <1>3, TerminalizedFails, CommitFailedLeaves DEF StageDeadline
<1>4. CASE StageRaises(o)
  BY <1>4 DEF StageRaises, Leaves, Outside
<1> QED BY <1>1, <1>2, <1>3, <1>4

LEMMA CountedKeeps ==
  ASSUME NEW s \in ResearchState
  PROVE  /\ Counted(s).stage = s.stage
         /\ Counted(s).terminal_status = s.terminal_status
         /\ Counted(s).max_steps = s.max_steps
         /\ Counted(s).step_count = s.step_count
         /\ Counted(s).tool_call_count = s.tool_call_count
         /\ Counted(s).token_count = s.token_count
         /\ Counted(s).gate_outcome = s.gate_outcome
         /\ Counted(s).checkpoint = s.checkpoint
         /\ Counted(s).recovery_count = s.recovery_count + 1
BY DEF Counted, ResearchState

(* A recovery leaves the graph or goes back to validate, counted.          *)
LEMMA RecoveryMoves ==
  ASSUME TypeOK, NEW decision \in Decision,
         decision.repeated_stage \in StageNodes,
         NEW o \in Outcome, NEW late \in BOOLEAN,
         \/ RecoveryResult(o, late, decision) \/ RecoveryMalformed(o, decision)
         \/ RecoveryDeadline(o, decision) \/ StageRaises(o)
  PROVE  \/ Leaves
         \/ /\ next' = "validate"
            /\ Acceptable(state, o)
            /\ ~Overruns(state, o)
            /\ state' = Counted(Accepted(state, "recover_once", o))
<1>0. /\ "recover_once" \in ResearchStage \ {"terminal"} /\ o \in Outcome
      /\ state \in ResearchState
  BY DEF ResearchStage, TypeOK
<1>1. CASE RecoveryResult(o, late, decision)
  <2> DEFINE updated == ApplyResult(state, "recover_once", o)
             code    == BudgetCode(Counted(updated), late, TRUE)
  <2>1. IF updated.stage = "terminal"
        THEN Commit("recover_once", updated, Linked(decision))
        ELSE Commit("recover_once",
                    IF code # None THEN TerminalizeBudget(Counted(updated), code)
                    ELSE Counted(updated),
                    Merge(Linked(decision), o))
    BY <1>1 DEF RecoveryResult
  <2>2. updated \in ResearchState /\ Counted(updated) \in ResearchState
    BY <1>0, ApplyResultTyped, CountedTyped
  <2>3. CASE updated.stage = "terminal"
    <3>1. updated.terminal_status = "failed" /\ updated.gate_outcome = "failed"
      BY <1>0, <2>3, ApplyResultMoves
    <3> HIDE DEF updated
    <3> QED BY <2>1, <2>3, <3>1, CommitFailedLeaves
  <2>4. CASE updated.stage # "terminal" /\ code # None
    <3>1. /\ TerminalizeBudget(Counted(updated), code).stage = "terminal"
          /\ TerminalizeBudget(Counted(updated), code).terminal_status = "failed"
          /\ TerminalizeBudget(Counted(updated), code).gate_outcome = "failed"
      BY <2>2, BudgetFails
    <3> HIDE DEF updated, code
    <3> QED BY <2>1, <2>4, <3>1, CommitFailedLeaves
  <2>5. CASE updated.stage # "terminal" /\ code = None
    <3>1. updated = Accepted(state, "recover_once", o) /\ ~Overruns(state, o)
      BY <1>0, <2>5, ApplyResultMoves
    <3>2. Commit("recover_once", Counted(updated), Merge(Linked(decision), o))
      BY <2>1, <2>5
    <3>3. Counted(updated).stage # "terminal"
      BY <2>2, <2>5, CountedKeeps
    <3>4. Acceptable(state, o)
      BY <1>1 DEF RecoveryResult
    <3> HIDE DEF updated, code
    <3>5. \/ next' = "unreadable" /\ state' = state
          \/ next' = "validate" /\ state' = Counted(updated)
      BY <3>2, <3>3 DEF Commit, Route, Following
    <3> QED BY <3>1, <3>4, <3>5 DEF Leaves, Outside
  <2> QED BY <2>3, <2>4, <2>5
<1>2. CASE RecoveryMalformed(o, decision)
  <2> DEFINE t == TerminalizeMalformedOutput(state, decision.repeated_stage)
  <2>1. /\ t \in ResearchState /\ t.stage = "terminal"
        /\ t.terminal_status = "failed" /\ t.gate_outcome = "failed"
    BY <1>0, TerminalizeMalformedTyped, TerminalizedFails
  <2>2. Commit("recover_once", Counted(t), Linked(decision))
    BY <1>2 DEF RecoveryMalformed
  <2> HIDE DEF t
  <2> QED BY <2>1, <2>2, CountedKeeps, CommitFailedLeaves
<1>3. CASE RecoveryDeadline(o, decision)
  <2> DEFINE t == TerminalizeBudget(state, "deadline_exceeded")
  <2>1. /\ t \in ResearchState /\ t.stage = "terminal"
        /\ t.terminal_status = "failed" /\ t.gate_outcome = "failed"
    BY <1>0, TerminalizeBudgetTyped, TerminalizedFails DEF StageNodes, FailureCode
  <2>2. Commit("recover_once", Counted(t), Linked(decision))
    BY <1>3 DEF RecoveryDeadline
  <2> HIDE DEF t
  <2> QED BY <2>1, <2>2, CountedKeeps, CommitFailedLeaves
<1>4. CASE StageRaises(o)
  BY <1>4 DEF StageRaises, Leaves, Outside
<1> QED BY <1>1, <1>2, <1>3, <1>4
-----------------------------------------------------------------------------
(* Every step, by what it does to the graph.                               *)

LEMMA RefuseLeaves ==
  ASSUME TypeOK, NEW s \in StageNodes, RefuseStage(s) \/ StageStartsLate(s)
  PROVE  Leaves
BY BudgetFails, CommitFailedLeaves DEF TypeOK, RefuseStage, StageStartsLate

LEMMA LateRecoveryLeaves ==
  ASSUME TypeOK, RecoveryStartsLate
  PROVE  Leaves
<1> DEFINE t == TerminalizeBudget(state, "deadline_exceeded")
<1>1. /\ t \in ResearchState /\ t.stage = "terminal"
      /\ t.terminal_status = "failed" /\ t.gate_outcome = "failed"
  BY TerminalizeBudgetTyped, BudgetFails DEF TypeOK, FailureCode
<1>2. Commit("recover_once", Counted(t), Linked(RecoveryDecision(state)))
  BY DEF RecoveryStartsLate
<1> HIDE DEF t
<1> QED BY <1>1, <1>2, CountedKeeps, CommitFailedLeaves

LEMMA TerminalNodeEnds ==
  ASSUME TypeOK, TerminalNode
  PROVE  next' \in {"end", "unreadable"}
BY DEF TerminalNode, Commit, Route

LEMMA ExecuteMoves ==
  ASSUME TypeOK, NEW s \in StageNodes, AnyStage(s)
  PROVE  Leaves \/ \E o \in Outcome : StaysOpen(s, o)
<1>1. PICK o \in Outcome, late \in Later :
        \/ StageResult(s, o, late) \/ StageMalformed(s, o)
        \/ StageDeadline(s, o) \/ StageRaises(o)
  BY DEF AnyStage, StageAnswered
<1>2. late \in BOOLEAN
  BY LaterTyped
<1> QED BY <1>1, <1>2, StageMoves

LEMMA RecoverMoves ==
  ASSUME TypeOK, AnyRecovery
  PROVE  LET d == RecoveryDecision(state).repeated_stage
         IN /\ d \in StageNodes
            /\ retried' = d
            /\ calls' = [calls EXCEPT ![d] = @ + 1]
            /\ replays' = replays
            /\ \/ Leaves
               \/ /\ next' = "validate"
                  /\ \E o \in Outcome :
                       /\ Acceptable(state, o)
                       /\ ~Overruns(state, o)
                       /\ state' = Counted(Accepted(state, "recover_once", o))
<1> DEFINE decision == RecoveryDecision(state)
<1>0. decision \in Decision /\ decision.repeated_stage \in StageNodes
  BY DecisionTyped DEF AnyRecovery, RecoveryAnswered, TypeOK
<1>1. PICK o \in Outcome, late \in Later :
        \/ RecoveryResult(o, late, decision) \/ RecoveryMalformed(o, decision)
        \/ RecoveryDeadline(o, decision) \/ StageRaises(o)
  BY DEF AnyRecovery, RecoveryAnswered
<1>2. late \in BOOLEAN
  BY LaterTyped
<1>3. /\ retried' = decision.repeated_stage /\ replays' = replays
      /\ calls' = [calls EXCEPT ![decision.repeated_stage] = @ + 1]
  BY DEF AnyRecovery, RecoveryAnswered, CallServices
<1> HIDE DEF decision
<1>4. \/ Leaves
      \/ /\ next' = "validate"
         /\ Acceptable(state, o)
         /\ ~Overruns(state, o)
         /\ state' = Counted(Accepted(state, "recover_once", o))
  BY <1>0, <1>1, <1>2, RecoveryMoves
<1> QED BY <1>0, <1>1, <1>3, <1>4 DEF decision

LEMMA AcceptedKeeps ==
  ASSUME NEW s \in ResearchState, NEW stage \in ResearchStage, NEW o \in Outcome
  PROVE  /\ Accepted(s, stage, o) \in ResearchState
         /\ Accepted(s, stage, o).stage = stage
         /\ Accepted(s, stage, o).terminal_status = None
         /\ Accepted(s, stage, o).recovery_count = s.recovery_count
         /\ Accepted(s, stage, o).step_count = s.step_count + 1
<1>1. s.failures \o o.failures \in Seq(Failure) /\ o.failures \in Seq(Failure)
  BY DEF ResearchState, Outcome
<1>2. [sequence  |-> s.step_count + 1,
       parent    |-> s.checkpoint.sequence,
       completed |-> Append(s.checkpoint.completed, stage)] \in Checkpoint
  BY DEF ResearchState, Checkpoint
<1>3. Accepted(s, stage, o) \in ResearchState
  BY <1>1, <1>2 DEF Accepted, ResearchState, Outcome
<1> QED BY <1>3 DEF Accepted
-----------------------------------------------------------------------------
(* The invariants.                                                         *)

(* Every step keeps the terminal states outside the graph.                 *)
LEMMA RunningStep ==
  TypeOK /\ Running /\ [AnyNext]_vars => Running'
<1> SUFFICES ASSUME TypeOK, Running, [AnyNext]_vars PROVE Running'
  OBVIOUS
<1>1. ASSUME Leaves PROVE Running'
  BY <1>1 DEF Leaves, Running
<1>2. ASSUME NEW s \in StageNodes, RefuseStage(s) \/ StageStartsLate(s)
      PROVE  Running'
  BY <1>1, <1>2, RefuseLeaves
<1>3. ASSUME NEW s \in StageNodes, AnyStage(s) PROVE Running'
  <2>1. ASSUME NEW o \in Outcome, StaysOpen(s, o) PROVE Running'
    BY <2>1 DEF StaysOpen, Accepted, Running, StageNodes
  <2> QED BY <1>1, <1>3, <2>1, ExecuteMoves
<1>4. CASE RecoveryStartsLate
  BY <1>1, <1>4, LateRecoveryLeaves
<1>5. CASE AnyRecovery
  <2>1. ASSUME NEW o \in Outcome,
               state' = Counted(Accepted(state, "recover_once", o))
        PROVE  Running'
    <3>1. /\ o \in Outcome /\ state \in ResearchState
          /\ "recover_once" \in ResearchStage
      BY <1>5, RecoverMoves DEF TypeOK, ResearchStage
    <3> QED BY <2>1, <3>1, AcceptedKeeps, CountedKeeps DEF Running
  <2> QED BY <1>1, <1>5, <2>1, RecoverMoves
<1>6. CASE TerminalNode
  BY <1>6, TerminalNodeEnds DEF Running, Outside
<1>7. CASE Replay \/ DeadlinePasses \/ UNCHANGED vars
  BY <1>7 DEF Replay, DeadlinePasses, vars, Running
<1> QED BY <1>2, <1>3, <1>4, <1>5, <1>6, <1>7 DEF AnyNext

(* A run that is still in the graph stores no terminal state: nothing      *)
(* routes on after a terminalization (graph.py, _route_next).              *)
THEOREM TerminalLeavesGraph == Spec => []Running
<1>1. Init => Running
  BY DEF Init, Running
<1> QED BY <1>1, RunningStep, TypeCorrect, NextIsAny, PTL DEF Spec

(* The recovery node never lacks its decision or its step, although it     *)
(* raises without the one and does not look at the other.                  *)
THEOREM RecoveryIsPossible == Spec => []MayRecover
<1>1. Init => MayRecover
  BY DEF Init, MayRecover
<1>2. TypeOK /\ MayRecover /\ [AnyNext]_vars => MayRecover'
  <2> SUFFICES ASSUME TypeOK, MayRecover, [AnyNext]_vars PROVE MayRecover'
    OBVIOUS
  <2>1. ASSUME Leaves PROVE MayRecover'
    BY <2>1 DEF Leaves, Outside, MayRecover
  <2>2. ASSUME NEW s \in StageNodes, RefuseStage(s) \/ StageStartsLate(s)
        PROVE  MayRecover'
    BY <2>1, <2>2, RefuseLeaves
  <2>3. ASSUME NEW s \in StageNodes, AnyStage(s) PROVE MayRecover'
    <3>1. ASSUME NEW o \in Outcome, StaysOpen(s, o) PROVE MayRecover'
      BY <3>1 DEF StaysOpen, MayRecover, Route, RouteAfterValidation, Following,
                  StageNodes
    <3> QED BY <2>1, <2>3, <3>1, ExecuteMoves
  <2>4. CASE RecoveryStartsLate
    BY <2>1, <2>4, LateRecoveryLeaves
  <2>5. CASE AnyRecovery
    BY <2>1, <2>5, RecoverMoves DEF MayRecover
  <2>6. CASE TerminalNode
    BY <2>6, TerminalNodeEnds DEF MayRecover
  <2>7. CASE Replay \/ DeadlinePasses \/ UNCHANGED vars
    BY <2>7 DEF Replay, DeadlinePasses, vars, MayRecover
  <2> QED BY <2>2, <2>3, <2>4, <2>5, <2>6, <2>7 DEF AnyNext
<1> QED BY <1>1, <1>2, TypeCorrect, NextIsAny, PTL DEF Spec
-----------------------------------------------------------------------------
(* How often a stage is called.                                            *)

LEMMA VisitsGrow ==
  ASSUME TypeOK, next' \in Outside, retried' = retried, next \notin Outside
  PROVE  \A t \in StageNodes :
           /\ Visits(t) \in Nat /\ Visits(t)' \in Nat
           /\ Visits(t)' >= Visits(t)
           /\ t = next => Visits(t)' = Visits(t) + 1
BY DEF TypeOK, Visits, Rank, Outside, StageNodes, Nodes

(* The edge of an accepted stage leads on to a later node.                 *)
LEMMA RouteAhead ==
  ASSUME TypeOK, NEW s \in StageNodes, NEW o \in Outcome, StaysOpen(s, o)
  PROVE  /\ Rank[s] < Rank[next']
         /\ next' \notin Outside
         /\ next' \in {"validate", "recover_once"} =>
              s = "execute_poc" \/ (s = "validate" /\ next' = "recover_once")
         /\ next' = "recover_once" =>
              RecoveryDecision(state').should_recover
         /\ state' \in ResearchState
         /\ state'.recovery_count = state.recovery_count
<1>1. /\ s \in ResearchStage \ {"terminal"} /\ o \in Outcome
      /\ state \in ResearchState
  BY DEF StageNodes, ResearchStage, TypeOK
<1>2. /\ state' \in ResearchState
      /\ state'.stage # "terminal"
      /\ state'.recovery_count = state.recovery_count
  BY <1>1, AcceptedKeeps DEF StaysOpen
<1>3. next' = IF s = "validate" THEN RouteAfterValidation(state') ELSE Following[s]
  BY <1>2 DEF StaysOpen, Route, StageNodes
<1>4. CASE s = "validate"
  BY <1>2, <1>3, <1>4 DEF RouteAfterValidation, Rank, Outside
<1>5. CASE s # "validate"
  BY <1>2, <1>3, <1>5 DEF StageNodes, Following, Rank, Outside
<1> QED BY <1>4, <1>5

LEMMA CallsCountedStep ==
  TypeOK /\ MayRecover /\ CallsCounted /\ [AnyNext]_vars => CallsCounted'
<1> SUFFICES ASSUME TypeOK, MayRecover, CallsCounted, [AnyNext]_vars
             PROVE  CallsCounted'
  OBVIOUS
<1>0. /\ calls \in [StageNodes -> Nat] /\ replays \in Nat /\ next \in Nodes
      /\ retried \in StageNodes \cup {None} /\ state \in ResearchState
  BY BudgetAssumption DEF TypeOK
<1>1. ASSUME next' \in Outside, next \notin Outside, calls' = calls,
             retried' = retried, replays' = replays
      PROVE  CallsCounted'
  <2>1. \A t \in StageNodes : calls[t]' <= Visits(t)' + replays'
    BY <1>0, <1>1, VisitsGrow DEF CallsCounted
  <2>2. ~(Rank[next] < 7)' /\ next' # "validate" /\ next' # "recover_once"
    BY <1>1 DEF Outside, Rank
  <2> QED BY <2>1, <2>2 DEF CallsCounted
<1>2. ASSUME NEW s \in StageNodes, RefuseStage(s) \/ StageStartsLate(s)
      PROVE  CallsCounted'
  BY <1>1, <1>2, RefuseLeaves
     DEF RefuseStage, StageStartsLate, MayStart, Leaves, Outside, StageNodes
<1>3. ASSUME NEW s \in StageNodes, AnyStage(s) PROVE CallsCounted'
  <2>1. /\ next = s /\ calls' = [calls EXCEPT ![s] = @ + 1]
        /\ retried' = retried /\ replays' = replays
    BY <1>3 DEF AnyStage, StageAnswered, MayStart, CallServices
  <2>2. CASE Leaves
    <3>1. next \notin Outside
      BY <2>1 DEF Outside, StageNodes
    <3>2. \A t \in StageNodes : calls[t]' <= Visits(t)' + replays'
      BY <1>0, <2>1, <2>2, <3>1, VisitsGrow DEF CallsCounted, Leaves
    <3>3. ~(Rank[next] < 7)' /\ next' # "validate" /\ next' # "recover_once"
      BY <2>2 DEF Leaves, Outside, Rank
    <3> QED BY <3>2, <3>3 DEF CallsCounted
  <2>3. ASSUME NEW o \in Outcome, StaysOpen(s, o) PROVE CallsCounted'
    <3>1. next' = "recover_once" => retried = None
      <4> SUFFICES ASSUME next' = "recover_once" PROVE retried = None
        OBVIOUS
      <4>1. s = "execute_poc" \/ s = "validate"
        BY <2>3, RouteAhead
      <4>2. CASE s = "execute_poc"
        BY <2>1, <4>2 DEF CallsCounted, Rank
      <4>3. CASE s = "validate"
        <5>1. state'.recovery_count = 0
          BY <2>3, RouteAhead, DecisionTyped
        <5> QED BY <2>1, <2>3, <4>3, <5>1, RouteAhead DEF CallsCounted
      <4> QED BY <4>1, <4>2, <4>3
    <3>2. \A t \in StageNodes : Visits(t)' >= Visits(t) + (IF t = s THEN 1 ELSE 0)
                                /\ Visits(t) \in Nat /\ Visits(t)' \in Nat
      <4> SUFFICES ASSUME NEW t \in StageNodes
                   PROVE  Visits(t)' >= Visits(t) + (IF t = s THEN 1 ELSE 0)
                          /\ Visits(t) \in Nat /\ Visits(t)' \in Nat
        OBVIOUS
      <4>1. Rank[s] < Rank[next'] /\ s # "recover_once"
        BY <2>3, RouteAhead DEF StageNodes
      <4>2. Rank[t] \in Nat /\ Rank[s] \in Nat /\ Rank[next'] \in Nat /\ None \notin StageNodes
        BY <2>3, RouteTyped DEF Rank, StageNodes, StaysOpen, Nodes, None
      <4> QED BY <2>1, <3>1, <4>1, <4>2 DEF Visits
    <3>3. \A t \in StageNodes : calls[t]' <= Visits(t)' + replays'
      BY <1>0, <2>1, <3>2 DEF CallsCounted
    <3>4. (Rank[next] < 7)' => retried' = None
      <4> SUFFICES ASSUME Rank[next'] < 7 PROVE retried' = None
        OBVIOUS
      <4>1. Rank[s] < Rank[next']
        BY <2>3, RouteAhead
      <4>2. Rank[s] \in Nat /\ Rank[next'] \in Nat
        BY <2>3, RouteTyped DEF Rank, StageNodes, StaysOpen, Nodes
      <4> QED BY <2>1, <4>1, <4>2 DEF CallsCounted
    <3>5. next' = "validate" => retried' = None
      BY <2>1, <2>3, RouteAhead DEF CallsCounted, StageNodes, Rank
    <3> QED BY <2>1, <3>1, <3>3, <3>4, <3>5 DEF CallsCounted
  <2> QED BY <1>3, <2>2, <2>3, ExecuteMoves
<1>4. CASE RecoveryStartsLate
  BY <1>1, <1>4, LateRecoveryLeaves DEF RecoveryStartsLate, Leaves, Outside
<1>5. CASE AnyRecovery
  <2> DEFINE d == RecoveryDecision(state).repeated_stage
  <2>1. /\ d \in StageNodes /\ retried' = d /\ replays' = replays
        /\ calls' = [calls EXCEPT ![d] = @ + 1]
    BY <1>5, RecoverMoves
  <2>2. next = "recover_once"
    BY <1>5 DEF AnyRecovery, RecoveryAnswered
  <2>3. \/ next' \in Outside
        \/ /\ next' = "validate"
           /\ \E o \in Outcome :
                state' = Counted(Accepted(state, "recover_once", o))
    BY <1>5, RecoverMoves DEF Leaves
  <2>4. next' = "validate" => state'.recovery_count # 0
    <3> SUFFICES ASSUME next' = "validate" PROVE state'.recovery_count # 0
      OBVIOUS
    <3>1. PICK o \in Outcome :
            state' = Counted(Accepted(state, "recover_once", o))
      BY <2>3 DEF Outside
    <3>2. o \in Outcome /\ "recover_once" \in ResearchStage
      BY <2>1 DEF ResearchStage
    <3> DEFINE a == Accepted(state, "recover_once", o)
    <3>3. a \in ResearchState /\ a.recovery_count = state.recovery_count
      BY <1>0, <3>2, AcceptedKeeps
    <3>4. state'.recovery_count = a.recovery_count + 1
      BY <3>1, <3>3, CountedKeeps
    <3> HIDE DEF a
    <3> QED BY <1>0, <3>3, <3>4 DEF ResearchState
  <2> HIDE DEF d
  <2>5. \A t \in StageNodes : Visits(t)' >= Visits(t) + (IF t = d THEN 1 ELSE 0)
                              /\ Visits(t) \in Nat /\ Visits(t)' \in Nat
    BY <2>1, <2>2, <2>3 DEF Visits, Rank, StageNodes, Outside, None
  <2>6. \A t \in StageNodes : calls[t]' <= Visits(t)' + replays'
    BY <1>0, <2>1, <2>5 DEF CallsCounted
  <2>7. ~(Rank[next] < 7)' /\ next' # "recover_once"
    BY <2>3 DEF Outside, Rank
  <2> QED BY <2>4, <2>6, <2>7 DEF CallsCounted
<1>6. CASE TerminalNode
  BY <1>1, <1>6, TerminalNodeEnds DEF TerminalNode, Outside
<1>7. CASE Replay
  <2>1. next' = next /\ state' = state /\ replays' = replays + 1
    BY <1>7 DEF Replay
  <2>2. PICK s \in StageNodes :
          /\ calls' = [calls EXCEPT ![s] = @ + 1]
          /\ \/ retried' = retried
             \/ /\ next = "recover_once"
                /\ retried' = RecoveryDecision(state).repeated_stage
    BY <1>0, <1>7, DecisionTyped DEF Replay, CallServices
  <2>3. \A t \in StageNodes : Visits(t)' = Visits(t) /\ Visits(t) \in Nat
    BY <2>1, <2>2 DEF Visits
  <2>4. \A t \in StageNodes : calls[t]' <= Visits(t)' + replays'
    BY <1>0, <2>1, <2>2, <2>3 DEF CallsCounted
  <2>5. (next' = "recover_once" => retried' \in
            {None, RecoveryDecision(state').repeated_stage})
        /\ (next' # "recover_once" => retried' = retried)
    BY <2>1, <2>2 DEF CallsCounted
  <2>6. ~(Rank["recover_once"] < 7)
    BY DEF Rank
  <2> QED BY <2>1, <2>4, <2>5, <2>6 DEF CallsCounted
<1>8. CASE DeadlinePasses \/ UNCHANGED vars
  BY <1>8 DEF DeadlinePasses, vars, CallsCounted, Visits
<1> QED BY <1>2, <1>3, <1>4, <1>5, <1>6, <1>7, <1>8 DEF AnyNext

LEMMA CallsCountedAlways == Spec => []CallsCounted
<1>1. Init => CallsCounted
  BY BudgetAssumption DEF Init, CallsCounted, Visits, Rank, StageNodes, None
<1> QED BY <1>1, CallsCountedStep, TypeCorrect, NextIsAny, RecoveryIsPossible, PTL DEF Spec

(* Apart from nodes a crash made LangGraph run again, a run executes each  *)
(* stage once, and a second time only the failed stage its single recovery *)
(* names and the validation after it (graph.py, recovery/policy.py).       *)
THEOREM OnlyTheFailedStageRepeats == Spec => []RepeatsOnlyTheFailedStage
<1>1. TypeOK /\ CallsCounted => RepeatsOnlyTheFailedStage
  BY BudgetAssumption
     DEF TypeOK, CallsCounted, Visits, RepeatsOnlyTheFailedStage, Rank, StageNodes, Nodes
<1> QED BY <1>1, TypeCorrect, CallsCountedAlways, PTL
-----------------------------------------------------------------------------
(* What a run that does not fail has earned.                               *)

LEMMA AppendLast ==
  ASSUME NEW S, NEW q \in Seq(S), NEW e \in S
  PROVE  Append(q, e) # <<>> /\ Append(q, e)[Len(Append(q, e))] = e
OBVIOUS

(* Only publish leads to the terminal node without a failed gate.          *)
LEMMA EarnsItsEndStep ==
  TypeOK /\ EarnsItsEnd /\ [AnyNext]_vars => EarnsItsEnd'
<1> SUFFICES ASSUME TypeOK, EarnsItsEnd, [AnyNext]_vars PROVE EarnsItsEnd'
  OBVIOUS
<1>1. ASSUME next' # "terminal" PROVE EarnsItsEnd'
  BY <1>1 DEF EarnsItsEnd
<1>2. ASSUME Leaves PROVE EarnsItsEnd'
  BY <1>2 DEF Leaves, Outside, EarnsItsEnd
<1>3. ASSUME NEW s \in StageNodes, RefuseStage(s) \/ StageStartsLate(s)
      PROVE  EarnsItsEnd'
  BY <1>2, <1>3, RefuseLeaves
<1>4. ASSUME NEW s \in StageNodes, AnyStage(s) PROVE EarnsItsEnd'
  <2>1. ASSUME NEW o \in Outcome, StaysOpen(s, o), next' = "terminal",
               state'.gate_outcome # "failed"
        PROVE  LET done == state'.checkpoint.completed
               IN done # <<>> /\ done[Len(done)] = "publish"
    <3>1. state'.stage # "terminal"
      BY <2>1 DEF StaysOpen, Accepted, StageNodes
    <3>2. s = "publish"
      BY <2>1, <3>1 DEF StaysOpen, Route, RouteAfterValidation, Following, StageNodes
    <3>3. state'.checkpoint.completed
            = Append(state.checkpoint.completed, "publish")
      BY <2>1, <3>2 DEF StaysOpen, Accepted
    <3>4. /\ state.checkpoint.completed \in Seq(ResearchStage)
          /\ "publish" \in ResearchStage
      BY DEF TypeOK, ResearchState, Checkpoint, ResearchStage
    <3> QED BY <3>3, <3>4, AppendLast
  <2> QED BY <1>2, <1>4, <2>1, ExecuteMoves DEF EarnsItsEnd
<1>5. CASE RecoveryStartsLate
  BY <1>2, <1>5, LateRecoveryLeaves
<1>6. CASE AnyRecovery
  BY <1>1, <1>2, <1>6, RecoverMoves
<1>7. CASE TerminalNode
  BY <1>1, <1>7, TerminalNodeEnds
<1>8. CASE Replay \/ DeadlinePasses \/ UNCHANGED vars
  BY <1>8 DEF Replay, DeadlinePasses, vars, EarnsItsEnd
<1> QED BY <1>3, <1>4, <1>5, <1>6, <1>7, <1>8 DEF AnyNext

LEMMA EarnsItsEndAlways == Spec => []EarnsItsEnd
<1>1. Init => EarnsItsEnd
  BY DEF Init, EarnsItsEnd
<1> QED BY <1>1, EarnsItsEndStep, TypeCorrect, NextIsAny, PTL DEF Spec

(* The terminal node keeps what publish has earned.                        *)
LEMMA CompletedStep ==
  TypeOK /\ Running /\ EarnsItsEnd /\ CompletedIsEarned /\ [AnyNext]_vars
  => CompletedIsEarned'
<1> SUFFICES ASSUME TypeOK, Running, EarnsItsEnd, CompletedIsEarned, [AnyNext]_vars
             PROVE  CompletedIsEarned'
  OBVIOUS
<1>1. ASSUME state'.terminal_status \in {None, "failed"} PROVE CompletedIsEarned'
  BY <1>1 DEF CompletedIsEarned, None
<1>2. ASSUME Leaves, next \notin Outside PROVE CompletedIsEarned'
  BY <1>1, <1>2 DEF Leaves, Running
<1>3. ASSUME NEW s \in StageNodes, RefuseStage(s) \/ StageStartsLate(s)
      PROVE  CompletedIsEarned'
  BY <1>2, <1>3, RefuseLeaves DEF RefuseStage, StageStartsLate, MayStart,
                                  Outside, StageNodes
<1>4. ASSUME NEW s \in StageNodes, AnyStage(s) PROVE CompletedIsEarned'
  <2>1. next \notin Outside
    BY <1>4 DEF AnyStage, StageAnswered, MayStart, Outside, StageNodes
  <2>2. ASSUME NEW o \in Outcome, StaysOpen(s, o) PROVE CompletedIsEarned'
    BY <1>1, <2>2 DEF StaysOpen, Accepted
  <2> QED BY <1>2, <1>4, <2>1, <2>2, ExecuteMoves
<1>5. CASE RecoveryStartsLate
  BY <1>2, <1>5, LateRecoveryLeaves DEF RecoveryStartsLate, Outside
<1>6. CASE AnyRecovery
  <2>1. ASSUME NEW o \in Outcome,
               state' = Counted(Accepted(state, "recover_once", o))
        PROVE  CompletedIsEarned'
    <3>1. /\ o \in Outcome /\ state \in ResearchState
          /\ "recover_once" \in ResearchStage
      BY <1>6, RecoverMoves DEF TypeOK, ResearchStage
    <3> QED BY <1>1, <2>1, <3>1, AcceptedKeeps, CountedKeeps
  <2> QED BY <1>2, <1>6, <2>1, RecoverMoves DEF AnyRecovery, RecoveryAnswered, Outside
<1>7. CASE TerminalNode
  <2> DEFINE status == StatusOf(state.gate_outcome)
             done   == [state EXCEPT !.stage = "terminal",
                                     !.gate_outcome = IF @ = None THEN "failed"
                                                      ELSE @,
                                     !.terminal_status = status]
  <2>0. next = "terminal" /\ state \in ResearchState
        /\ state.terminal_status = None
    BY <1>7 DEF TerminalNode, TypeOK, Running, Outside
  <2>1. CASE state' = state
    BY <1>1, <2>0, <2>1
  <2>2. CASE state' = TerminalizeInvalidArtifacts(state)
    BY <1>1, <2>0, <2>2, FailedWithEnds DEF TerminalizeInvalidArtifacts
  <2>3. CASE /\ state' = done /\ artifacts' = artifacts
             /\ status # "failed"
             /\ Coherent(artifacts.report, artifacts.manifest, status)
    <3>1. state'.terminal_status = status
      BY <2>0, <2>3 DEF ResearchState
    <3>2. /\ state.gate_outcome # "failed" /\ state.gate_outcome # None
          /\ status = "completed" <=> state.gate_outcome = "passed"
      BY <2>3 DEF StatusOf, None
    <3>3. state'.gate_outcome = state.gate_outcome
      BY <2>0, <2>3, <3>2 DEF ResearchState
    <3>4. state'.checkpoint = state.checkpoint
      BY <2>0, <2>3 DEF ResearchState
    <3>5. LET d == state'.checkpoint.completed
          IN d # <<>> /\ d[Len(d)] = "publish"
      BY <2>0, <3>2, <3>4 DEF EarnsItsEnd
    <3> HIDE DEF done, status
    <3> QED BY <2>3, <3>1, <3>2, <3>3, <3>5 DEF CompletedIsEarned, Coherent
  <2>4. CASE state' = done /\ status = "failed"
    <3>1. state'.terminal_status = "failed"
      BY <2>0, <2>4 DEF ResearchState
    <3> QED BY <1>1, <3>1
  <2> QED BY <1>7, <2>1, <2>2, <2>3, <2>4 DEF TerminalNode, Commit
<1>8. CASE Replay \/ DeadlinePasses \/ UNCHANGED vars
  BY <1>8 DEF Replay, DeadlinePasses, vars, CompletedIsEarned
<1> QED BY <1>3, <1>4, <1>5, <1>6, <1>7, <1>8 DEF AnyNext

(* The terminal node publishes nothing it cannot account for: a run ends   *)
(* completed or limited only after publish, with a report and a manifest   *)
(* of this run that agree with each other and with the status              *)
(* (graph.py, _terminal_node).                                             *)
THEOREM CompletionIsEarned == Spec => []CompletedIsEarned
<1>1. Init => CompletedIsEarned
  BY DEF Init, CompletedIsEarned, None
<1> QED BY <1>1, CompletedStep, TypeCorrect, NextIsAny, TerminalLeavesGraph, EarnsItsEndAlways, PTL
        DEF Spec
-----------------------------------------------------------------------------
(* The limits on time and on steps.                                        *)

LEMMA TerminalizationsKeepCheckpoint ==
  ASSUME NEW s \in ResearchState, NEW code
  PROVE  /\ TerminalizeBudget(s, code).checkpoint = s.checkpoint
         /\ TerminalizeInvalidArtifacts(s).checkpoint = s.checkpoint
BY FailedWithEnds DEF TerminalizeBudget, TerminalizeInvalidArtifacts

(* No service is called and no result accepted once the deadline has       *)
(* passed (graph.py, _budget_code and _execute_stage).                     *)
THEOREM DeadlineHolds == Spec => DeadlineStopsServices
<1>1. TypeOK /\ [AnyNext]_vars =>
        (expired => calls' = calls /\ state'.checkpoint = state.checkpoint)
  <2> SUFFICES ASSUME TypeOK, [AnyNext]_vars, expired
               PROVE  calls' = calls /\ state'.checkpoint = state.checkpoint
    OBVIOUS
  <2>0. state \in ResearchState
    BY DEF TypeOK
  <2>1. ASSUME NEW s \in StageNodes, RefuseStage(s) \/ StageStartsLate(s)
        PROVE  calls' = calls /\ state'.checkpoint = state.checkpoint
    BY <2>0, <2>1, TerminalizationsKeepCheckpoint
       DEF RefuseStage, StageStartsLate, Commit
  <2>2. ASSUME NEW s \in StageNodes PROVE ~AnyStage(s)
    BY DEF AnyStage, StageAnswered, NoTimeLeft
  <2>3. CASE RecoveryStartsLate
    <3> DEFINE t == TerminalizeBudget(state, "deadline_exceeded")
    <3>1. t \in ResearchState /\ t.checkpoint = state.checkpoint
      BY <2>0, TerminalizeBudgetTyped, TerminalizationsKeepCheckpoint DEF FailureCode
    <3>2. calls' = calls /\ (state' = state \/ state' = Counted(t))
      BY <2>3 DEF RecoveryStartsLate, Commit
    <3> HIDE DEF t
    <3> QED BY <3>1, <3>2, CountedKeeps
  <2>4. ~AnyRecovery /\ ~Replay
    BY DEF AnyRecovery, RecoveryAnswered, Replay, NoTimeLeft
  <2>5. CASE TerminalNode
    BY <2>0, <2>5, TerminalizationsKeepCheckpoint DEF TerminalNode, Commit, ResearchState
  <2>6. CASE DeadlinePasses \/ UNCHANGED vars
    BY <2>6 DEF DeadlinePasses, vars
  <2> QED BY <2>1, <2>2, <2>3, <2>4, <2>5, <2>6 DEF AnyNext
<1> QED BY <1>1, TypeCorrect, NextIsAny, PTL DEF Spec, DeadlineStopsServices

(* A run that has spent its steps calls no service, not even from the      *)
(* recovery node (graph.py, _budget_code).                                 *)
THEOREM StepBudgetHolds == Spec => SpentStepsStopServices
<1>1. TypeOK /\ MayRecover /\ [AnyNext]_vars =>
        (state.step_count >= state.max_steps => calls' = calls)
  <2> SUFFICES ASSUME TypeOK, MayRecover, [AnyNext]_vars,
                      state.step_count >= state.max_steps
               PROVE  calls' = calls
    OBVIOUS
  <2>0. state.step_count \in Nat /\ state.max_steps \in Nat
    BY BudgetAssumption DEF TypeOK, ResearchState
  <2>1. ASSUME NEW s \in StageNodes PROVE ~MayStart(s)
    BY <2>0 DEF MayStart, BudgetCode, None
  <2>2. next # "recover_once"
    BY <2>0 DEF MayRecover
  <2> QED BY <2>1, <2>2 DEF AnyNext, RefuseStage, StageStartsLate, AnyStage, StageAnswered,
              RecoveryStartsLate, AnyRecovery, RecoveryAnswered, TerminalNode, Replay,
              DeadlinePasses, vars
<1> QED BY <1>1, TypeCorrect, NextIsAny, RecoveryIsPossible, PTL DEF Spec, SpentStepsStopServices
-----------------------------------------------------------------------------
(* The states a node stores pass their own validators.                     *)

LEMMA FailedReadable ==
  ASSUME NEW s \in ResearchState, Readable(s), NEW code, NEW stage
  PROVE  Readable(FailedWith(s, code, stage))
BY FailedWithEnds DEF Readable, None

LEMMA MalformedReadable ==
  ASSUME NEW s \in ResearchState, Readable(s), s.step_count < s.max_steps,
         NEW stage \in StageNodes
  PROVE  Readable(TerminalizeMalformedOutput(s, stage))
<1> DEFINE f == FailedWith(s, "report_schema_invalid", FailureStageOf(stage))
<1>1. f \in ResearchState
  BY FailureStageTyped, FailedWithTyped DEF FailureCode
<1>2. Readable(f) /\ f.step_count = s.step_count /\ f.max_steps = s.max_steps
  BY FailedReadable, FailedWithEnds
<1>3. TerminalizeMalformedOutput(s, stage) = [f EXCEPT !.step_count = @ + 1]
  BY DEF TerminalizeMalformedOutput
<1> DEFINE g == [f EXCEPT !.step_count = @ + 1]
<1> HIDE DEF f
<1>4. /\ g.step_count = s.step_count + 1
      /\ g.max_steps = f.max_steps /\ f.max_steps = s.max_steps
      /\ g.tool_call_count = f.tool_call_count
      /\ g.token_count = f.token_count
      /\ g.recovery_count = f.recovery_count
      /\ g.stage = f.stage /\ g.terminal_status = f.terminal_status
      /\ g.gate_outcome = f.gate_outcome
  BY <1>1, <1>2 DEF ResearchState
<1> HIDE DEF g
<1>5. s.step_count + 1 <= s.max_steps
  BY BudgetAssumption DEF ResearchState
<1>6. Readable(g)
  BY <1>2, <1>4, <1>5 DEF Readable
<1> QED BY <1>3, <1>6 DEF g

LEMMA ApplyResultReadable ==
  ASSUME NEW s \in ResearchState, Readable(s),
         NEW stage \in ResearchStage \ {"terminal"}, NEW o \in Outcome
  PROVE  Readable(ApplyResult(s, stage, o))
<1>1. CASE Overruns(s, o)
  <2> DEFINE n == IF s.step_count + 1 <= s.max_steps THEN s.step_count + 1
                  ELSE s.max_steps
             t == [s EXCEPT !.step_count = n]
  <2>1. n \in Nat /\ n <= s.max_steps
    BY BudgetAssumption DEF ResearchState
  <2> HIDE DEF n
  <2>2. t \in ResearchState /\ Readable(t)
    BY <2>1 DEF ResearchState, Readable
  <2> HIDE DEF t
  <2>3. Readable(TerminalizeBudget(t, "budget_exhausted"))
    BY <2>2, FailedReadable DEF TerminalizeBudget
  <2> QED BY <1>1, <2>3 DEF ApplyResult, n, t
<1>2. CASE ~Overruns(s, o)
  <2>1. ApplyResult(s, stage, o) = Accepted(s, stage, o)
    BY <1>2 DEF ApplyResult
  <2>2. Accepted(s, stage, o).stage # "terminal"
        /\ Accepted(s, stage, o).terminal_status = None
    BY DEF Accepted
  <2>3. /\ Accepted(s, stage, o).max_steps = s.max_steps
        /\ Accepted(s, stage, o).step_count = s.step_count + 1
        /\ Accepted(s, stage, o).tool_call_count = s.tool_call_count + o.tool_calls
        /\ Accepted(s, stage, o).token_count = s.token_count + o.tokens
        /\ Accepted(s, stage, o).recovery_count = s.recovery_count
    BY DEF Accepted
  <2> QED BY <1>2, <2>1, <2>2, <2>3, BudgetAssumption
          DEF Overruns, Readable, ResearchState, Outcome
<1> QED BY <1>1, <1>2

LEMMA CountedReadable ==
  ASSUME RecoveryLimit = 1, NEW s \in ResearchState, Readable(s),
         s.recovery_count = 0
  PROVE  Readable(Counted(s))
BY CountedKeeps DEF Readable

LEMMA CommitReadable ==
  ASSUME NEW node \in StageNodes \cup {"recover_once", "terminal"},
         NEW updated, NEW merged, Commit(node, updated, merged),
         Readable(updated)
  PROVE  WithinBudget'
<1>1. state' = updated /\ next' = Route(node, updated)
  BY DEF Commit
<1>2. next' # "unreadable"
  BY <1>1, RouteTyped
<1> QED BY <1>1, <1>2 DEF WithinBudget, NeverUnreadable, Readable

LEMMA ApplyResultKeepsCount ==
  ASSUME NEW s \in ResearchState, NEW stage \in ResearchStage, NEW o \in Outcome
  PROVE  ApplyResult(s, stage, o).recovery_count = s.recovery_count
<1>1. CASE Overruns(s, o)
  <2> DEFINE n == IF s.step_count + 1 <= s.max_steps THEN s.step_count + 1
                  ELSE s.max_steps
             t == [s EXCEPT !.step_count = n]
  <2>1. n \in Nat
    BY BudgetAssumption DEF ResearchState
  <2> HIDE DEF n
  <2>2. t \in ResearchState /\ t.recovery_count = s.recovery_count
    BY <2>1 DEF ResearchState
  <2> HIDE DEF t
  <2>3. TerminalizeBudget(t, "budget_exhausted").recovery_count = s.recovery_count
    BY <2>2, FailedWithEnds DEF TerminalizeBudget
  <2> QED BY <1>1, <2>3 DEF ApplyResult, n, t
<1>2. CASE ~Overruns(s, o)
  BY <1>2 DEF ApplyResult, Accepted
<1> QED BY <1>1, <1>2

LEMMA RecoveryReadable ==
  ASSUME RecoveryLimit = 1, TypeOK, WithinBudget, MayRecover, AnyRecovery
  PROVE  WithinBudget'
<1> DEFINE decision == RecoveryDecision(state)
<1>0. /\ state \in ResearchState /\ Readable(state)
      /\ "recover_once" \in ResearchStage \ {"terminal"}
      /\ decision \in Decision /\ decision.repeated_stage \in StageNodes
      /\ state.recovery_count = 0 /\ state.step_count < state.max_steps
  BY DecisionTyped DEF AnyRecovery, RecoveryAnswered, TypeOK, WithinBudget, MayRecover, ResearchStage
<1>1. PICK o \in Outcome, late \in Later :
        \/ RecoveryResult(o, late, decision) \/ RecoveryMalformed(o, decision)
        \/ RecoveryDeadline(o, decision) \/ StageRaises(o)
  BY DEF AnyRecovery, RecoveryAnswered
<1> HIDE DEF decision
<1>2. o \in Outcome
  BY <1>0
<1>3. CASE RecoveryResult(o, late, decision)
  <2> DEFINE updated == ApplyResult(state, "recover_once", o)
             code    == BudgetCode(Counted(updated), late, TRUE)
  <2>1. updated \in ResearchState /\ Readable(updated)
        /\ updated.recovery_count = 0
    BY <1>0, <1>2, ApplyResultTyped, ApplyResultReadable, ApplyResultKeepsCount
  <2>2. IF updated.stage = "terminal"
        THEN Commit("recover_once", updated, Linked(decision))
        ELSE Commit("recover_once",
                    IF code # None THEN TerminalizeBudget(Counted(updated), code)
                    ELSE Counted(updated),
                    Merge(Linked(decision), o))
    BY <1>3 DEF RecoveryResult
  <2> HIDE DEF updated, code
  <2>3. Counted(updated) \in ResearchState /\ Readable(Counted(updated))
    BY <2>1, CountedTyped, CountedReadable
  <2>4. Readable(TerminalizeBudget(Counted(updated), code))
    BY <2>3, FailedReadable DEF TerminalizeBudget
  <2> QED BY <2>1, <2>2, <2>3, <2>4, CommitReadable
<1>4. CASE RecoveryMalformed(o, decision)
  <2> DEFINE t == TerminalizeMalformedOutput(state, decision.repeated_stage)
  <2>1. t \in ResearchState /\ Readable(t)
    BY <1>0, TerminalizeMalformedTyped, MalformedReadable
  <2>2. t.recovery_count = 0
    BY <1>0 DEF TerminalizeMalformedOutput, FailedWith, ResearchState
  <2>3. Commit("recover_once", Counted(t), Linked(decision))
    BY <1>4 DEF RecoveryMalformed
  <2> HIDE DEF t
  <2> QED BY <2>1, <2>2, <2>3, CountedReadable, CommitReadable
<1>5. CASE RecoveryDeadline(o, decision)
  <2> DEFINE t == TerminalizeBudget(state, "deadline_exceeded")
  <2>1. t \in ResearchState /\ Readable(t) /\ t.recovery_count = 0
    BY <1>0, TerminalizeBudgetTyped, FailedReadable, FailedWithEnds
       DEF FailureCode, TerminalizeBudget
  <2>2. Commit("recover_once", Counted(t), Linked(decision))
    BY <1>5 DEF RecoveryDeadline
  <2> HIDE DEF t
  <2> QED BY <2>1, <2>2, CountedReadable, CommitReadable
<1>6. CASE StageRaises(o)
  BY <1>0, <1>6 DEF StageRaises, WithinBudget, NeverUnreadable, Readable
<1> QED BY <1>1, <1>3, <1>4, <1>5, <1>6

LEMMA StageReadable ==
  ASSUME TypeOK, WithinBudget, NEW s \in StageNodes, AnyStage(s)
  PROVE  WithinBudget'
<1>0. /\ state \in ResearchState /\ Readable(state)
      /\ s \in ResearchStage \ {"terminal"}
      /\ state.step_count < state.max_steps
  BY BudgetAssumption
     DEF AnyStage, StageAnswered, MayStart, BudgetCode, None, TypeOK, WithinBudget,
         ResearchStage, ResearchState, StageNodes
<1>1. PICK o \in Outcome, late \in Later :
        \/ StageResult(s, o, late) \/ StageMalformed(s, o)
        \/ StageDeadline(s, o) \/ StageRaises(o)
  BY DEF AnyStage, StageAnswered
<1>2. o \in Outcome
  OBVIOUS
<1>3. CASE StageResult(s, o, late)
  <2> DEFINE updated == ApplyResult(state, s, o)
             code    == BudgetCode(updated, late, s # "publish")
  <2>1. updated \in ResearchState /\ Readable(updated)
    BY <1>0, <1>2, ApplyResultTyped, ApplyResultReadable
  <2>2. Commit(s, IF updated.stage # "terminal" /\ code # None
                  THEN TerminalizeBudget(updated, code) ELSE updated,
               Merge(artifacts, o))
    BY <1>3 DEF StageResult
  <2> HIDE DEF updated, code
  <2>3. Readable(TerminalizeBudget(updated, code))
    BY <2>1, FailedReadable DEF TerminalizeBudget
  <2> QED BY <2>1, <2>2, <2>3, CommitReadable
<1>4. CASE StageMalformed(s, o)
  BY <1>0, <1>4, MalformedReadable, CommitReadable DEF StageMalformed
<1>5. CASE StageDeadline(s, o)
  BY <1>0, <1>5, FailedReadable, CommitReadable DEF StageDeadline, TerminalizeBudget
<1>6. CASE StageRaises(o)
  BY <1>0, <1>6 DEF StageRaises, WithinBudget, NeverUnreadable, Readable
<1> QED BY <1>1, <1>3, <1>4, <1>5, <1>6

(* With a recovery limit of one, the only one the product sets, no node    *)
(* ever produces a state that its own validators reject: budgets and       *)
(* recovery count stay within RunBudget (graph.py, state.py).              *)
THEOREM BudgetsHold ==
  ASSUME RecoveryLimit = 1
  PROVE  Spec => []NeverUnreadable
<1>1. Init => WithinBudget
  BY BudgetAssumption DEF Init, WithinBudget, NeverUnreadable, Readable, None
<1>2. TypeOK /\ MayRecover /\ WithinBudget /\ [AnyNext]_vars => WithinBudget'
  <2> SUFFICES ASSUME TypeOK, MayRecover, WithinBudget, [AnyNext]_vars
               PROVE  WithinBudget'
    OBVIOUS
  <2>0. state \in ResearchState /\ Readable(state)
    BY DEF TypeOK, WithinBudget
  <2>1. ASSUME NEW s \in StageNodes, RefuseStage(s) \/ StageStartsLate(s)
        PROVE  WithinBudget'
    BY <2>0, <2>1, FailedReadable, CommitReadable
       DEF RefuseStage, StageStartsLate, TerminalizeBudget
  <2>2. ASSUME NEW s \in StageNodes, AnyStage(s) PROVE WithinBudget'
    BY <2>2, StageReadable
  <2>3. CASE RecoveryStartsLate
    <3> DEFINE t == TerminalizeBudget(state, "deadline_exceeded")
    <3>1. t \in ResearchState /\ Readable(t) /\ t.recovery_count = 0
      BY <2>0, <2>3, TerminalizeBudgetTyped, FailedReadable, FailedWithEnds,
         DecisionTyped DEF FailureCode, TerminalizeBudget, RecoveryStartsLate
    <3>2. Commit("recover_once", Counted(t), Linked(RecoveryDecision(state)))
      BY <2>3 DEF RecoveryStartsLate
    <3> HIDE DEF t
    <3> QED BY <3>1, <3>2, CountedReadable, CommitReadable
  <2>4. CASE AnyRecovery
    BY <2>4, RecoveryReadable
  <2>5. CASE TerminalNode
    <3> DEFINE status == StatusOf(state.gate_outcome)
               done   == [state EXCEPT !.stage = "terminal",
                                       !.gate_outcome = IF @ = None THEN "failed"
                                                        ELSE @,
                                       !.terminal_status = status]
    <3>1. Readable(done)
      BY <2>0 DEF Readable, ResearchState, StatusOf, None, GateOutcome
    <3>2. Readable(TerminalizeInvalidArtifacts(state))
      BY <2>0, FailedReadable DEF TerminalizeInvalidArtifacts
    <3>3. \/ Commit("terminal", done, artifacts)
          \/ Commit("terminal", TerminalizeInvalidArtifacts(state), artifacts)
      BY <2>5 DEF TerminalNode
    <3> HIDE DEF done
    <3> QED BY <3>1, <3>2, <3>3, CommitReadable
  <2>6. CASE Replay \/ DeadlinePasses \/ UNCHANGED vars
    BY <2>6 DEF Replay, DeadlinePasses, vars, WithinBudget, NeverUnreadable, Readable
  <2> QED BY <2>1, <2>2, <2>3, <2>4, <2>5, <2>6 DEF AnyNext
<1>3. WithinBudget => NeverUnreadable
  BY DEF WithinBudget
<1> QED BY <1>1, <1>2, <1>3, TypeCorrect, NextIsAny, RecoveryIsPossible, PTL DEF Spec
-----------------------------------------------------------------------------
(* The steps of the run, seen from the graph.                              *)

(* A node that raised had called its services.                             *)
RaisedInACall == phase = "node raised" => Calling

LEMMA EscapingTyped ==
  ASSUME NEW kind \in {"malformed", "deadline", "error"}
  PROVE  Escaping(kind) \in Outcome
<1>1. Blank \in Outcome
  BY IdAssumption DEF Blank, Outcome
<1> QED BY <1>1 DEF Escaping, Outcome

LEMMA NodeOverIsAny ==
  ASSUME TypeOK, RaisedInACall, NodeIsOver
  PROVE  [AnyNext]_vars
<1>1. CASE phase # "node raised"
  BY <1>1 DEF NodeIsOver
<1>2. ASSUME phase = "node raised", next \in StageNodes,
             StageAnswered(next, Escaping("error")), CallServices(next),
             UNCHANGED <<retried, replays>>
      PROVE  AnyNext
  <2>1. MayStart(next) /\ ~NoTimeLeft(expired)
    BY <1>2 DEF RaisedInACall, Calling, StageNodes
  <2>2. AnyStage(next)
    BY <1>2, <2>1, EscapingTyped DEF AnyStage
  <2> QED BY <1>2, <2>2 DEF AnyNext
<1>3. ASSUME phase = "node raised", next = "recover_once",
             RecoveryAnswered(Escaping("error"), RecoveryDecision(state)),
             CallServices(Called), retried' = Called, UNCHANGED replays
      PROVE  AnyNext
  <2>1. RecoveryDecision(state).should_recover /\ ~NoTimeLeft(expired)
    BY <1>3 DEF RaisedInACall, Calling, StageNodes
  <2>2. Called = RecoveryDecision(state).repeated_stage
    BY <1>3 DEF Called
  <2>3. AnyRecovery
    BY <1>3, <2>1, <2>2, EscapingTyped DEF AnyRecovery
  <2> QED BY <2>3 DEF AnyNext
<1> QED BY <1>1, <1>2, <1>3 DEF NodeIsOver

LEMMA StageIsAny ==
  ASSUME NEW s \in StageNodes, Stage(s)
  PROVE  AnyStage(s)
BY DEF Stage, AnyStage, Served

LEMMA RecoverIsAny ==
  ASSUME Recover
  PROVE  AnyRecovery
BY DEF Recover, AnyRecovery, Served

LEMMA RunStepIsAny ==
  ASSUME TypeOK, RaisedInACall, [RunNext]_allVars
  PROVE  [AnyNext]_vars \/ Afresh
<1>1. ASSUME NEW s \in StageNodes, Stage(s) PROVE AnyNext
  BY <1>1, StageIsAny DEF AnyNext
<1>2. CASE Recover
  BY <1>2, RecoverIsAny DEF AnyNext
<1>3. CASE Quiet
  BY <1>3 DEF Quiet, AnyNext
<1>4. CASE FailRun \/ Release
  BY <1>4, NodeOverIsAny DEF FailRun, Release
<1>5. CASE TimePasses
  BY <1>5 DEF TimePasses, AnyNext
<1>6. CASE DieInNode
  BY <1>6 DEF DieInNode, Resumes, AnyNext
<1>7. CASE DieBetween
  BY <1>7 DEF DieBetween, Resumes, AnyNext
<1>8. CASE Publish \/ Terminate \/ NodeRaises \/ PublishRaises
           \/ TerminateRaises \/ Over \/ UNCHANGED allVars
  BY <1>8 DEF Publish, Terminate, NodeRaises, PublishRaises, TerminateRaises,
              Over, allVars
<1> QED BY <1>1, <1>2, <1>3, <1>4, <1>5, <1>6, <1>7, <1>8 DEF RunNext, Work
-----------------------------------------------------------------------------
(* What holds of the graph in every run.                                   *)

LEMMA FreshStart == Afresh => Init'
BY DEF Afresh, Init

LEMMA RaisedInACallStep ==
  RaisedInACall /\ [RunNext]_allVars => RaisedInACall'
<1> SUFFICES ASSUME RaisedInACall, [RunNext]_allVars, phase' = "node raised"
             PROVE  Calling'
  BY DEF RaisedInACall
<1>1. UNCHANGED <<next, state, expired>> /\ Calling
  <2>1. CASE NodeRaises
    BY <2>1 DEF NodeRaises, vars
  <2>2. CASE UNCHANGED allVars
    BY <2>2 DEF allVars, runVars, vars, RaisedInACall
  <2> QED
    BY <2>1, <2>2
       DEF RunNext, Work, Stage, Recover, Quiet, Publish, Terminate, FailRun,
           TimePasses, PublishRaises, TerminateRaises, Release, DieInNode,
           DieBetween, Dies, Over, InGraph, runVars
<1> QED BY <1>1 DEF Calling, MayStart, RecoveryDecision, BudgetCode

GraphInv ==
  TypeOK /\ RaisedInACall /\ Running /\ EarnsItsEnd /\ CompletedIsEarned

(* The graph of a run is typed, leaves nothing terminal inside and ends    *)
(* with what it has earned, crashes and restarts included.                 *)
LEMMA GraphInvAlways == RunSpec => []GraphInv
<1>1. RunInit => GraphInv
  <2> SUFFICES ASSUME RunInit PROVE GraphInv
    OBVIOUS
  <2>1. Init /\ phase = "graph"
    BY DEF RunInit
  <2> QED BY <2>1, InitTyped
          DEF GraphInv, RaisedInACall, Init, Running, EarnsItsEnd,
              CompletedIsEarned, None
<1>2. GraphInv /\ [RunNext]_allVars => GraphInv'
  <2> SUFFICES ASSUME GraphInv, [RunNext]_allVars PROVE GraphInv'
    OBVIOUS
  <2>1. TypeOK /\ RaisedInACall /\ Running /\ EarnsItsEnd /\ CompletedIsEarned
    BY DEF GraphInv
  <2>2. RaisedInACall'
    BY <2>1, RaisedInACallStep
  <2>3. CASE [AnyNext]_vars
    BY <2>1, <2>2, <2>3, StepTyped, RunningStep, EarnsItsEndStep, CompletedStep
       DEF GraphInv
  <2>4. CASE Afresh
    <3>1. Init'
      BY <2>4, FreshStart
    <3>2. TypeOK'
      BY <3>1, InitTyped, PTL
    <3>3. Running' /\ EarnsItsEnd' /\ CompletedIsEarned'
      BY <3>1 DEF Init, Running, EarnsItsEnd, CompletedIsEarned, None
    <3> QED BY <2>2, <3>2, <3>3 DEF GraphInv
  <2> QED BY <2>1, <2>3, <2>4, RunStepIsAny
<1> QED BY <1>1, <1>2, PTL DEF RunSpec
-----------------------------------------------------------------------------
(* How a run ends.                                                         *)

(* The files were published from the state the graph ended with, which     *)
(* nothing touches until the row ends.                                     *)
PublishedAsEnded == phase = "published" => files = PublishedFiles

(* A row that ended is not worked on any more.                             *)
EndedIsOver == row # "running" => phase = "over"

(* The terminal files are always these four.                               *)
FilesNamed == DOMAIN files = {"report", "manifest", "projection", "trace"}

LEMMA FilesNamedStep ==
  FilesNamed /\ [RunNext]_allVars => FilesNamed'
<1> SUFFICES ASSUME FilesNamed, [RunNext]_allVars PROVE DOMAIN files' = DOMAIN files
  BY DEF FilesNamed
<1>1. DOMAIN FailedFiles = DOMAIN files
  BY DEF FailedFiles
<1>2. CASE Publish
  BY <1>2 DEF Publish, PublishedFiles, FilesNamed
<1>3. CASE PublishRaises
  BY <1>3 DEF PublishRaises
<1>4. CASE Terminate \/ TerminateRaises
  BY <1>4 DEF Terminate, TerminateRaises
<1>5. CASE FailRun \/ Release
  BY <1>1, <1>5 DEF FailRun, Release
<1>6. CASE DieInNode
  BY <1>6 DEF DieInNode
<1>7. CASE DieBetween
  <2>1. PICK f \in {files, FailedFiles} : files' = [f EXCEPT !.trace = None]
    BY <1>7 DEF DieBetween
  <2> QED BY <1>1, <2>1
<1>8. CASE UNCHANGED files
  BY <1>8
<1> QED
  BY <1>2, <1>3, <1>4, <1>5, <1>6, <1>7, <1>8
     DEF RunNext, Work, Stage, Recover, Quiet, TimePasses, NodeRaises, Over,
         allVars, runVars

LEMMA PublishedAsEndedStep ==
  PublishedAsEnded /\ [RunNext]_allVars => PublishedAsEnded'
<1> SUFFICES ASSUME PublishedAsEnded, [RunNext]_allVars, phase' = "published"
             PROVE  files' = PublishedFiles'
  BY DEF PublishedAsEnded
<1>1. CASE Publish
  BY <1>1 DEF Publish, PublishedFiles, vars
<1>2. CASE UNCHANGED allVars
  BY <1>2 DEF allVars, runVars, vars, PublishedFiles, PublishedAsEnded
<1> QED
  BY <1>1, <1>2
     DEF RunNext, Work, Stage, Recover, Quiet, Terminate, FailRun, TimePasses,
         NodeRaises, PublishRaises, TerminateRaises, Release, DieInNode,
         DieBetween, Dies, Over, InGraph, runVars

(* The terminal row agrees with what the graph has earned.                 *)
LEMMA TerminateAgrees ==
  ASSUME GraphInv, FilesNamed, PublishedAsEnded, Terminate
  PROVE  EndAgrees'
<1>1. /\ files = PublishedFiles /\ row' = state.terminal_status
      /\ files' = [files EXCEPT !.trace = state.terminal_status]
      /\ state' = state
  BY DEF Terminate, PublishedAsEnded, vars
<1>2. /\ files'.projection = row' /\ files'.trace = row'
      /\ files'.report = (artifacts.report # NoReport)
      /\ files'.manifest = artifacts.manifest.terminal_status
  BY <1>1 DEF PublishedFiles, FilesNamed
<1>3. ASSUME row' \in {"completed", "completed_with_limitations"}
      PROVE  artifacts.report # NoReport /\ files'.manifest = row'
  BY <1>1, <1>2, <1>3, IdAssumption DEF GraphInv, CompletedIsEarned, NoReport
<1> QED BY <1>1, <1>2, <1>3 DEF EndAgrees, TerminalStatus

LEMMA EndAgreesStep ==
  /\ GraphInv /\ FilesNamed /\ PublishedAsEnded /\ EndedIsOver /\ EndAgrees
  /\ [RunNext]_allVars
  => EndAgrees' /\ EndedIsOver'
<1> SUFFICES ASSUME GraphInv, FilesNamed, PublishedAsEnded, EndedIsOver,
                    EndAgrees, [RunNext]_allVars
             PROVE  EndAgrees' /\ EndedIsOver'
  OBVIOUS
<1>1. CASE Terminate
  BY <1>1, TerminateAgrees DEF Terminate, EndedIsOver
<1>2. CASE FailRun
  BY <1>2 DEF FailRun, EndAgrees, EndedIsOver, FailedFiles, FilesNamed
<1>3. CASE Release
  BY <1>3 DEF Release, Released, EndAgrees, EndedIsOver, TerminalStatus
<1>4. CASE Over \/ UNCHANGED allVars
  BY <1>4 DEF Over, allVars, runVars, vars, EndAgrees, EndedIsOver
<1>5. row = "running" /\ row' = row => EndAgrees' /\ EndedIsOver'
  BY DEF EndAgrees, EndedIsOver, TerminalStatus
<1> QED
  BY <1>1, <1>2, <1>3, <1>4, <1>5
     DEF RunNext, Work, Stage, Recover, Quiet, Publish, TimePasses, NodeRaises,
         PublishRaises, TerminateRaises, DieInNode, DieBetween, Dies, InGraph,
         runVars, EndedIsOver

(* Wherever processes died and whatever raised, a row whose end the worker *)
(* recorded, its projection and its sealed trace say the same, and a row   *)
(* that did not fail has the report and the manifest of the status it      *)
(* claims (web/techscout_execution.py, run, _publish and _execute).        *)
THEOREM RunEndAgrees == RunSpec => []EndAgrees
<1>1. RunInit => FilesNamed /\ PublishedAsEnded /\ EndedIsOver /\ EndAgrees
  BY DEF RunInit, NoFiles, FilesNamed, PublishedAsEnded, EndedIsOver, EndAgrees,
         TerminalStatus
<1> QED BY <1>1, GraphInvAlways, FilesNamedStep, PublishedAsEndedStep,
           EndAgreesStep, PTL
        DEF RunSpec
-----------------------------------------------------------------------------
(* What a restart keeps.                                                   *)

(* The checkpoint grows by a stage or stays as it is.                      *)
Keeps == state'.checkpoint.completed = state.checkpoint.completed
GrowsBy(stage) ==
  state'.checkpoint.completed = Append(state.checkpoint.completed, stage)
Grows == \E stage \in ResearchStage : GrowsBy(stage)

(* A run that has checkpointed a stage has saved its workspace.            *)
SavedFirst == saved \in BOOLEAN /\ (~saved => state.checkpoint.completed = <<>>)

LEMMA TerminalizedKeeps ==
  ASSUME NEW s \in ResearchState, NEW code, NEW stage
  PROVE  /\ TerminalizeBudget(s, code).checkpoint = s.checkpoint
         /\ TerminalizeMalformedOutput(s, stage).checkpoint = s.checkpoint
<1>1. TerminalizeBudget(s, code).checkpoint = s.checkpoint
  BY TerminalizationsKeepCheckpoint
<1>2. TerminalizeMalformedOutput(s, stage).checkpoint = s.checkpoint
  BY DEF TerminalizeMalformedOutput, FailedWith, ResearchState
<1> QED BY <1>1, <1>2

LEMMA ApplyResultGrows ==
  ASSUME NEW s \in ResearchState, NEW stage \in ResearchStage, NEW o \in Outcome
  PROVE  ApplyResult(s, stage, o).checkpoint.completed
           \in {s.checkpoint.completed, Append(s.checkpoint.completed, stage)}
<1>1. CASE Overruns(s, o)
  <2> DEFINE n == IF s.step_count + 1 <= s.max_steps THEN s.step_count + 1
                  ELSE s.max_steps
             t == [s EXCEPT !.step_count = n]
  <2>1. n \in Nat
    BY BudgetAssumption DEF ResearchState
  <2> HIDE DEF n
  <2>2. t \in ResearchState /\ t.checkpoint = s.checkpoint
    BY <2>1 DEF ResearchState
  <2>3. ApplyResult(s, stage, o) = TerminalizeBudget(t, "budget_exhausted")
    BY <1>1 DEF ApplyResult, n
  <2> HIDE DEF t
  <2> QED BY <2>2, <2>3, TerminalizedKeeps
<1>2. CASE ~Overruns(s, o)
  BY <1>2 DEF ApplyResult, Accepted
<1> QED BY <1>1, <1>2

(* Only an answer that is a result completes a stage.                      *)
LEMMA StageGrows ==
  ASSUME TypeOK, NEW s \in StageNodes, NEW o \in Outcome, StageAnswered(s, o)
  PROVE  Keeps \/ (GrowsBy(s) /\ o.kind = "result")
<1>0. state \in ResearchState /\ s \in ResearchStage
  BY DEF TypeOK, StageNodes, ResearchStage
<1>1. PICK late \in Later :
        \/ StageResult(s, o, late) \/ StageMalformed(s, o)
        \/ StageDeadline(s, o) \/ StageRaises(o)
  BY DEF StageAnswered
<1>2. CASE StageResult(s, o, late)
  <2> DEFINE updated == ApplyResult(state, s, o)
             code    == BudgetCode(updated, late, s # "publish")
             final   == IF updated.stage # "terminal" /\ code # None
                        THEN TerminalizeBudget(updated, code) ELSE updated
  <2>1. /\ updated \in ResearchState
        /\ updated.checkpoint.completed
             \in {state.checkpoint.completed, Append(state.checkpoint.completed, s)}
    BY <1>0, ApplyResultTyped, ApplyResultGrows
  <2>2. Commit(s, final, Merge(artifacts, o)) /\ o.kind = "result"
    BY <1>2 DEF StageResult, Acceptable
  <2> HIDE DEF updated, code
  <2>3. final.checkpoint = updated.checkpoint
    BY <2>1, TerminalizedKeeps
  <2> HIDE DEF final
  <2>4. state' = state \/ state' = final
    BY <2>2 DEF Commit
  <2> QED BY <1>0, <2>1, <2>2, <2>3, <2>4 DEF Keeps, GrowsBy
<1>3. CASE StageMalformed(s, o)
  BY <1>0, <1>3, TerminalizedKeeps DEF StageMalformed, Commit, Keeps
<1>4. CASE StageDeadline(s, o)
  BY <1>0, <1>4, TerminalizedKeeps DEF StageDeadline, Commit, Keeps
<1>5. CASE StageRaises(o)
  BY <1>5 DEF StageRaises, Keeps
<1> QED BY <1>1, <1>2, <1>3, <1>4, <1>5

LEMMA RecoveryGrows ==
  ASSUME TypeOK, NEW decision \in Decision,
         decision.repeated_stage \in StageNodes,
         NEW o \in Outcome, RecoveryAnswered(o, decision)
  PROVE  Keeps \/ (GrowsBy("recover_once") /\ o.kind = "result")
<1>0. state \in ResearchState /\ "recover_once" \in ResearchStage
  BY DEF TypeOK, ResearchStage
<1>1. PICK late \in Later :
        \/ RecoveryResult(o, late, decision) \/ RecoveryMalformed(o, decision)
        \/ RecoveryDeadline(o, decision) \/ StageRaises(o)
  BY DEF RecoveryAnswered
<1>2. CASE RecoveryResult(o, late, decision)
  <2> DEFINE updated == ApplyResult(state, "recover_once", o)
             code    == BudgetCode(Counted(updated), late, TRUE)
  <2>1. /\ updated \in ResearchState
        /\ updated.checkpoint.completed
             \in {state.checkpoint.completed,
                  Append(state.checkpoint.completed, "recover_once")}
    BY <1>0, ApplyResultTyped, ApplyResultGrows
  <2>2. /\ o.kind = "result"
        /\ state' \in {state, updated, Counted(updated),
                       TerminalizeBudget(Counted(updated), code)}
    BY <1>2 DEF RecoveryResult, Acceptable, Commit
  <2> HIDE DEF updated, code
  <2>3. /\ Counted(updated).checkpoint = updated.checkpoint
        /\ TerminalizeBudget(Counted(updated), code).checkpoint = updated.checkpoint
    BY <2>1, CountedTyped, CountedKeeps, TerminalizedKeeps
  <2> QED BY <1>0, <2>1, <2>2, <2>3 DEF Keeps, GrowsBy
<1>3. CASE RecoveryMalformed(o, decision)
  <2> DEFINE t == TerminalizeMalformedOutput(state, decision.repeated_stage)
  <2>1. t \in ResearchState /\ t.checkpoint = state.checkpoint
    BY <1>0, TerminalizeMalformedTyped, TerminalizedKeeps
  <2>2. state' = state \/ state' = Counted(t)
    BY <1>3 DEF RecoveryMalformed, Commit
  <2> HIDE DEF t
  <2> QED BY <2>1, <2>2, CountedKeeps DEF Keeps
<1>4. CASE RecoveryDeadline(o, decision)
  <2> DEFINE t == TerminalizeBudget(state, "deadline_exceeded")
  <2>1. t \in ResearchState /\ t.checkpoint = state.checkpoint
    BY <1>0, TerminalizeBudgetTyped, TerminalizedKeeps DEF FailureCode
  <2>2. state' = state \/ state' = Counted(t)
    BY <1>4 DEF RecoveryDeadline, Commit
  <2> HIDE DEF t
  <2> QED BY <2>1, <2>2, CountedKeeps DEF Keeps
<1>5. CASE StageRaises(o)
  BY <1>5 DEF StageRaises, Keeps
<1> QED BY <1>1, <1>2, <1>3, <1>4, <1>5

LEMMA QuietKeeps ==
  ASSUME TypeOK, Quiet
  PROVE  Keeps
<1>0. state \in ResearchState
  BY DEF TypeOK
<1>1. ASSUME NEW s \in StageNodes, RefuseStage(s) \/ StageStartsLate(s) PROVE Keeps
  BY <1>0, <1>1, TerminalizedKeeps DEF RefuseStage, StageStartsLate, Commit, Keeps
<1>2. CASE RecoveryStartsLate
  <2> DEFINE t == TerminalizeBudget(state, "deadline_exceeded")
  <2>1. t \in ResearchState /\ t.checkpoint = state.checkpoint
    BY <1>0, TerminalizeBudgetTyped, TerminalizedKeeps DEF FailureCode
  <2>2. state' = state \/ state' = Counted(t)
    BY <1>2 DEF RecoveryStartsLate, Commit
  <2> HIDE DEF t
  <2> QED BY <2>1, <2>2, CountedKeeps DEF Keeps
<1>3. CASE TerminalNode
  BY <1>0, <1>3, TerminalizationsKeepCheckpoint
     DEF TerminalNode, Commit, Keeps, ResearchState
<1> QED BY <1>1, <1>2, <1>3 DEF Quiet

(* The exception of a node completes nothing.                              *)
LEMMA NodeOverKeeps ==
  ASSUME TypeOK, RaisedInACall, NodeIsOver
  PROVE  Keeps
<1>0. Escaping("error") \in Outcome /\ Escaping("error").kind # "result"
  BY EscapingTyped DEF Escaping, Blank
<1>1. CASE UNCHANGED vars
  BY <1>1 DEF vars, Keeps
<1>2. ASSUME next \in StageNodes, StageAnswered(next, Escaping("error")) PROVE Keeps
  BY <1>0, <1>2, StageGrows
<1>3. ASSUME phase = "node raised", next = "recover_once",
             RecoveryAnswered(Escaping("error"), RecoveryDecision(state))
      PROVE  Keeps
  <2>1. RecoveryDecision(state).should_recover
    BY <1>3 DEF RaisedInACall, Calling, StageNodes
  <2>2. /\ RecoveryDecision(state) \in Decision
        /\ RecoveryDecision(state).repeated_stage \in StageNodes
    BY <2>1, DecisionTyped DEF TypeOK
  <2> QED BY <1>0, <1>3, <2>2, RecoveryGrows
<1> QED BY <1>1, <1>2, <1>3 DEF NodeIsOver

(* A step completes nothing, or a stage whose memory is saved with it, or  *)
(* starts over a run that has saved nothing.                               *)
LEMMA RunStepGrows ==
  ASSUME TypeOK, RaisedInACall, SavedFirst, [RunNext]_allVars
  PROVE  \/ Keeps /\ saved' \in {saved, TRUE}
         \/ Grows /\ saved' = TRUE
         \/ /\ ~saved /\ saved' = saved
            /\ state'.checkpoint.completed = <<>>
<1>1. ASSUME NEW s \in StageNodes, Stage(s)
      PROVE  \/ Keeps /\ saved' \in {saved, TRUE}
             \/ Grows /\ saved' = TRUE
  <2>1. PICK r \in Served(s) : StageAnswered(s, r.answer) /\ Remember(r)
    BY <1>1 DEF Stage
  <2>2. Keeps \/ (Grows /\ r.answer.kind = "result")
    BY <2>1, StageGrows DEF Served, Grows, StageNodes, ResearchStage
  <2> QED BY <2>1, <2>2 DEF Remember
<1>2. ASSUME Recover
      PROVE  \/ Keeps /\ saved' \in {saved, TRUE}
             \/ Grows /\ saved' = TRUE
  <2> DEFINE decision == RecoveryDecision(state)
  <2>1. decision \in Decision /\ decision.repeated_stage \in StageNodes
    BY <1>2, DecisionTyped DEF Recover, TypeOK
  <2>2. PICK r \in Served(decision.repeated_stage) :
          RecoveryAnswered(r.answer, decision) /\ Remember(r)
    BY <1>2 DEF Recover
  <2>3. r.answer \in Outcome
    BY DEF Served
  <2> HIDE DEF decision
  <2>4. Keeps \/ (Grows /\ r.answer.kind = "result")
    BY <2>1, <2>2, <2>3, RecoveryGrows DEF Grows, ResearchStage
  <2> QED BY <2>2, <2>4 DEF Remember
<1>3. CASE Quiet
  BY <1>3, QuietKeeps DEF Quiet, runVars
<1>4. CASE FailRun \/ Release
  BY <1>4, NodeOverKeeps DEF FailRun, Release
<1>5. ASSUME Resumes(TRUE) \/ Resumes(FALSE), saved' \in {saved, TRUE}
      PROVE  \/ Keeps
             \/ /\ ~saved /\ saved' = saved
                /\ state'.checkpoint.completed = <<>>
  <2>1. CASE saved'
    BY <1>5, <2>1 DEF Resumes, Replay, vars, Keeps, SavedFirst
  <2>2. CASE ~saved'
    <3>1. Afresh
      BY <1>5, <2>2 DEF Resumes
    <3>2. state'.checkpoint.completed = <<>>
      BY <3>1 DEF Afresh, FirstCheckpoint
    <3>3. saved' = saved \/ saved' = TRUE
      BY <1>5
    <3>4. ~saved /\ saved' = saved
      BY <1>5, <2>2, <3>3
    <3> QED BY <3>2, <3>4
  <2> QED BY <2>1, <2>2
<1>6. CASE DieInNode
  BY <1>5, <1>6 DEF DieInNode
<1>7. CASE DieBetween
  BY <1>5, <1>7 DEF DieBetween
<1>8. CASE TimePasses \/ Publish \/ Terminate \/ NodeRaises \/ PublishRaises
           \/ TerminateRaises \/ Over \/ UNCHANGED allVars
  BY <1>8 DEF TimePasses, DeadlinePasses, Publish, Terminate, NodeRaises,
              PublishRaises, TerminateRaises, Over, allVars, runVars, vars, Keeps
<1> QED BY <1>1, <1>2, <1>3, <1>4, <1>6, <1>7, <1>8 DEF RunNext, Work

(* A sequence is a prefix of what is appended to it.                       *)
LEMMA Prefix ==
  ASSUME NEW S, NEW q \in Seq(S), NEW e \in S
  PROVE  Len(q) <= Len(Append(q, e)) /\ SubSeq(Append(q, e), 1, Len(q)) = q
<1>1. SubSeq(Append(q, e), 1, Len(q)) = q
  BY AppendProperties, SubSeqProperties
<1>2. Len(q) \in Nat /\ Len(Append(q, e)) = Len(q) + 1
  BY AppendProperties, LenProperties
<1> QED BY <1>1, <1>2

(* No death, restart or exception takes back a stage whose checkpoint was  *)
(* committed: the graph is started afresh only where no stage has saved    *)
(* its memory, and then no stage has completed (web/techscout_execution.py,*)
(* run; techscout/harness/graph.py, run).                                  *)
THEOREM RunContinues == RunSpec => RestartContinues
<1> DEFINE done  == state.checkpoint.completed
           done2 == state'.checkpoint.completed
<1>1. RunInit => SavedFirst
  <2>1. Init => state.checkpoint.completed = <<>>
    BY DEF Init, FirstCheckpoint
  <2> QED BY <2>1 DEF RunInit, SavedFirst
<1>2. ASSUME TypeOK, RaisedInACall, SavedFirst, [RunNext]_allVars
      PROVE  /\ SavedFirst'
             /\ Len(done) <= Len(done2) /\ SubSeq(done2, 1, Len(done)) = done
  <2>1. done \in Seq(ResearchStage)
    BY <1>2 DEF TypeOK, ResearchState, Checkpoint
  <2>2. CASE Keeps /\ saved' \in {saved, TRUE}
    <3>1. done2 = done /\ (saved' = saved \/ saved' = TRUE)
      BY <2>2 DEF Keeps
    <3>2. SavedFirst'
      BY <1>2, <3>1 DEF SavedFirst
    <3>3. Len(done) <= Len(done2) /\ SubSeq(done2, 1, Len(done)) = done
      BY <2>1, <3>1, SubSeqFull, LenProperties
    <3> QED BY <3>2, <3>3
  <2>3. CASE Grows /\ saved' = TRUE
    <3>1. PICK stage \in ResearchStage : done2 = Append(done, stage)
      BY <2>3 DEF Grows, GrowsBy
    <3> QED BY <2>1, <2>3, <3>1, Prefix DEF SavedFirst
  <2>4. CASE ~saved /\ saved' = saved /\ done2 = <<>>
    BY <1>2, <2>1, <2>4, Prefix DEF SavedFirst
  <2> QED BY <1>2, <2>2, <2>3, <2>4, RunStepGrows
<1>3. TypeOK /\ RaisedInACall /\ SavedFirst /\ [RunNext]_allVars
        => SavedFirst' /\ Len(done) <= Len(done2) /\ SubSeq(done2, 1, Len(done)) = done
  BY <1>2
<1>4. GraphInv => TypeOK /\ RaisedInACall
  BY DEF GraphInv
<1> QED BY <1>1, <1>3, <1>4, GraphInvAlways, PTL DEF RunSpec, RestartContinues
-----------------------------------------------------------------------------
(* How often a PoC is run again.                                           *)

(* An answer that neither runs nor reruns a PoC remembers the attempts.    *)
NoAttempt(r) ==
  /\ r.repeat = FALSE
  /\ DOMAIN r.memory = DOMAIN memory
  /\ r.memory.history = memory.history
  /\ r.memory.retry = memory.retry

LEMMA ServesNoAttempt ==
  ASSUME NEW answer, NEW m, DOMAIN m = DOMAIN memory,
         m.history = memory.history, m.retry = memory.retry
  PROVE  NoAttempt(Serves(answer, m))
BY DEF NoAttempt, Serves

AttemptsKnown == {"history", "retry"} \subseteq DOMAIN memory

LEMMA ResearchedKeeps ==
  ASSUME AttemptsKnown, NEW acquired, NEW evidence, NEW answer
  PROVE  NoAttempt(Serves(answer, Researched(acquired, evidence)))
<1> DEFINE m == Researched(acquired, evidence)
<1>1. DOMAIN m = DOMAIN memory
  BY DEF Researched
<1>2. m.history = memory.history /\ m.retry = memory.retry
  BY DEF Researched, AttemptsKnown
<1> QED BY <1>1, <1>2, ServesNoAttempt

LEMMA ValidateNoAttempt ==
  ASSUME AttemptsKnown, NEW r \in Validate
  PROVE  NoAttempt(r)
<1>1. \/ \E answer : r = Serves(answer, memory)
      \/ \E scenario, recommendation : r = Judged(scenario, recommendation)
  BY DEF Validate
<1>2. ASSUME NEW scenario, NEW recommendation
      PROVE  NoAttempt(Judged(scenario, recommendation))
  <2> DEFINE judged == Judged(scenario, recommendation)
  <2>1. judged.repeat = FALSE
    BY DEF Judged, Serves
  <2>2. \/ judged.memory = memory
        \/ \E draft : judged.memory = [memory EXCEPT !.draft = draft]
    BY DEF Judged, Serves
  <2> HIDE DEF judged
  <2>3. /\ DOMAIN judged.memory = DOMAIN memory
        /\ judged.memory.history = memory.history
        /\ judged.memory.retry = memory.retry
    BY <2>2 DEF AttemptsKnown
  <2> QED BY <2>1, <2>3 DEF NoAttempt, judged
<1>3. ASSUME NEW answer PROVE NoAttempt(Serves(answer, memory))
  BY ServesNoAttempt
<1> QED BY <1>1, <1>2, <1>3

LEMMA OnlyPocAttempts ==
  ASSUME AttemptsKnown, NEW s \in StageNodes \ {"execute_poc"}, NEW r \in Served(s)
  PROVE  NoAttempt(r)
<1>1. ASSUME NEW answer PROVE NoAttempt(Serves(answer, memory))
  BY ServesNoAttempt
<1>2. CASE r \notin Answered(s)
  BY <1>1, <1>2 DEF Served
<1>3. CASE r \in Answered(s)
  <2>1. CASE s = "research_candidates"
    <3>1. CASE r \in ResearchVerified
      <4>1. PICK acquired, evidence :
              r = Serves(Metered(Len(Asked), 0), Researched(acquired, evidence))
        BY <3>1 DEF ResearchVerified
      <4> QED BY <4>1, ResearchedKeeps
    <3>2. CASE r \in ResearchFast
      <4> DEFINE found(k)  == Researched(<<>>, {Asked[i] : i \in 1..k})
                 failed(k) == [Metered(k, 0) EXCEPT !.failures =
                                 <<[code |-> "tool_unavailable", stage |-> "research",
                                    recoverable |-> FALSE, action |-> None]>>]
      <4>1. \/ r = Serves(Metered(Len(Asked), 160 * Len(Asked)), found(Len(Asked)))
            \/ \E k \in DOMAIN Asked : r = Serves(failed(k), found(k - 1))
        BY <3>2 DEF ResearchFast
      <4>2. ASSUME NEW answer, NEW k PROVE NoAttempt(Serves(answer, found(k)))
        BY ResearchedKeeps
      <4> HIDE DEF found, failed
      <4> QED BY <4>1, <4>2
    <3> QED BY <1>3, <2>1, <3>1, <3>2 DEF Answered
  <2>2. CASE s = "plan_poc"
    <3>1. r = Serves(Metered(0, 60), [memory EXCEPT !.planned = TRUE])
      BY <1>3, <2>2 DEF Answered, PlanPoc
    <3> QED BY <3>1, ServesNoAttempt DEF AttemptsKnown
  <2>3. CASE s = "validate"
    BY <1>3, <2>3, ValidateNoAttempt DEF Answered
  <2>4. CASE s \in {"review_report", "publish"}
    BY <1>1, <1>3, <2>4 DEF Answered, ReviewReport, PublishManifest, HandOut
  <2>5. CASE s \in {"normalize_request", "plan_research", "select_context"}
    BY <1>1, <1>3, <2>5 DEF Answered
  <2> QED BY <2>1, <2>2, <2>3, <2>4, <2>5 DEF StageNodes
<1> QED BY <1>2, <1>3

(* The first attempt of a PoC is no repetition.                            *)
LEMMA FirstAttempt ==
  ASSUME NEW r \in Served("execute_poc"), memory.history = {},
         memory.retry = NoRetry
  PROVE  ~r.repeat
<1>1. ASSUME NEW answer, NEW m PROVE ~Serves(answer, m).repeat
  BY DEF Serves
<1>2. CASE r \notin ExecutePoc
  BY <1>1, <1>2 DEF Served, Answered
<1>3. CASE r \in ExecuteFast
  BY <1>1, <1>3 DEF ExecuteFast, Serves
<1>4. CASE r \in AttemptVerified
  <2>1. PICK results, stage : r = Attempted(results, stage)
    BY <1>4 DEF AttemptVerified
  <2> QED BY <1>1, <2>1 DEF Attempted
<1> QED BY <1>2, <1>3, <1>4 DEF ExecutePoc

Early == {"normalize_request", "plan_research", "research_candidates",
          "select_context", "plan_poc", "execute_poc"}

(* Each node that runs a PoC is passed once: execute_poc may repeat an     *)
(* attempt only if a process died, and recover_once is entered with a      *)
(* recovery to spare.                                                      *)
AttemptsCounted ==
  /\ AttemptsKnown /\ {"history", "retry"} \subseteq DOMAIN workspace
  /\ crashes \in Nat /\ repeats \in Nat /\ repeats <= 2
  /\ ~saved => repeats = 0
  /\ next \in Early => repeats = 0
  /\ next \notin Outside /\ state.recovery_count = 0 => repeats <= 1
  /\ crashes = 0 => repeats <= 1
  /\ crashes = 0 /\ next \notin Outside /\ state.recovery_count = 0 => repeats = 0
  /\ crashes = 0 /\ next \in Early => memory.history = {} /\ memory.retry = NoRetry

LEMMA PocKnown ==
  ASSUME AttemptsKnown, NEW r \in Served("execute_poc")
  PROVE  DOMAIN r.memory = DOMAIN memory
<1>1. ASSUME NEW answer PROVE Serves(answer, memory).memory = memory
  BY DEF Serves
<1>2. ASSUME NEW results, NEW retry
      PROVE  DOMAIN Executed(results, retry) = DOMAIN memory
  BY DEF Executed
<1>3. CASE r \notin ExecutePoc
  BY <1>1, <1>3 DEF Served, Answered
<1>4. CASE r \in ExecuteFast
  <2> DEFINE conflict == Poc(Asked[1], "failed", "dependency_conflict", "none", FALSE)
             results  == [i \in DOMAIN Asked |->
                            IF Asked[i] \in Reviewed
                            THEN Poc(Asked[i], "passed", None,
                                     IF Asked[i] \in request.unmet THEN "other"
                                     ELSE "requested", TRUE)
                            ELSE Poc(Asked[i], "research_only",
                                     "poc_recipe_unsupported", "none", FALSE)]
  <2>1. \/ \E answer : r = Serves(answer, Executed(<<conflict>>, NoRetry))
        \/ \E answer : r = [Serves(answer, Executed(results, NoRetry))
                            EXCEPT !.repeat = /\ FastScenario = "single_recovery"
                                              /\ "failed" \in memory.history]
    BY <1>4, Zenon DEF ExecuteFast
  <2>2. ASSUME NEW answer, NEW m, NEW b
        PROVE  /\ Serves(answer, m).memory = m
               /\ [Serves(answer, m) EXCEPT !.repeat = b].memory = m
    BY DEF Serves
  <2> DEFINE again == FastScenario = "single_recovery" /\ "failed" \in memory.history
  <2> HIDE DEF conflict, results, again
  <2>3. ASSUME NEW answer, r = Serves(answer, Executed(<<conflict>>, NoRetry))
        PROVE  DOMAIN r.memory = DOMAIN memory
    BY <1>2, <2>2, <2>3
  <2>4. ASSUME NEW answer,
               r = [Serves(answer, Executed(results, NoRetry)) EXCEPT !.repeat = again]
        PROVE  DOMAIN r.memory = DOMAIN memory
    <3>1. r.memory = Executed(results, NoRetry)
      BY <2>2, <2>4
    <3> QED BY <1>2, <3>1
  <2> QED BY <2>1, <2>3, <2>4 DEF again
<1>5. CASE r \in AttemptVerified
  <2>1. PICK results, stage : r = Attempted(results, stage)
    BY <1>5 DEF AttemptVerified
  <2>2. \E retry : r.memory = Executed(results, retry)
    BY <2>1 DEF Attempted, Serves
  <2> QED BY <1>2, <2>2
<1>6. CASE r \in RecoverPoc
  <2>1. \E results, retry : r.memory = Executed(results, retry)
    BY <1>6 DEF RecoverPoc, Serves
  <2> QED BY <1>2, <2>1
<1> QED BY <1>3, <1>4, <1>5, <1>6 DEF ExecutePoc

(* Outside the graph nothing is left to count.                             *)
LEMMA AttemptsOutside ==
  ASSUME AttemptsCounted, next' \in Outside, UNCHANGED <<crashes, repeats>>,
         {"history", "retry"} \subseteq DOMAIN memory',
         {"history", "retry"} \subseteq DOMAIN workspace',
         saved' = saved \/ saved' = TRUE
  PROVE  AttemptsCounted'
BY DEF AttemptsCounted, AttemptsKnown, Early, Outside

(* What a stage leaves of the attempts once its answer is stored.          *)
LEMMA StageAttempts ==
  ASSUME TypeOK, AttemptsCounted, NEW s \in StageNodes, Stage(s)
  PROVE  AttemptsCounted'
<1>1. PICK r \in Served(s) : Remember(r)
  BY DEF Stage
<1>2. next = s /\ crashes' = crashes
  BY DEF Stage, MayStart
<1>3. Leaves \/ \E o \in Outcome : StaysOpen(s, o)
  BY StageIsAny, ExecuteMoves
<1>4. DOMAIN r.memory = DOMAIN memory
  BY OnlyPocAttempts, PocKnown DEF AttemptsCounted, NoAttempt
<1>5. /\ {"history", "retry"} \subseteq DOMAIN memory'
      /\ {"history", "retry"} \subseteq DOMAIN workspace'
      /\ saved' = saved \/ saved' = TRUE
  BY <1>1, <1>4 DEF Remember, Saved, AttemptsCounted, AttemptsKnown
<1>6. CASE s = "execute_poc"
  <2>1. repeats = 0
    BY <1>2, <1>6 DEF AttemptsCounted, Early
  <2>2. repeats' \in {0, 1} /\ (~saved' => repeats' = 0)
    BY <1>1, <2>1 DEF Remember
  <2>3. crashes = 0 => repeats' = 0
    <3>1. crashes = 0 => memory.history = {} /\ memory.retry = NoRetry
      BY <1>2, <1>6 DEF AttemptsCounted, Early
    <3> QED BY <1>1, <1>6, <2>1, <3>1, FirstAttempt DEF Remember
  <2>4. next' \notin Early
    BY <1>3, <1>6
       DEF Leaves, StaysOpen, Route, Following, Early, Outside
  <2> QED BY <1>2, <1>5, <2>2, <2>3, <2>4 DEF AttemptsCounted, AttemptsKnown
<1>7. CASE s # "execute_poc"
  <2>1. NoAttempt(r)
    BY <1>7, OnlyPocAttempts DEF AttemptsCounted
  <2>2. repeats' = repeats
    BY <1>1, <2>1 DEF Remember, NoAttempt
  <2>3. memory'.history = memory.history /\ memory'.retry = memory.retry
    BY <1>1, <2>1 DEF Remember, NoAttempt
  <2>4. CASE Leaves
    BY <1>2, <1>5, <2>2, <2>4, AttemptsOutside DEF Leaves
  <2>5. ASSUME NEW o \in Outcome, StaysOpen(s, o) PROVE AttemptsCounted'
    <3>1. state'.recovery_count = state.recovery_count
      BY <2>5 DEF StaysOpen, Accepted
    <3>2. next \notin Outside
      BY <1>2 DEF Outside, StageNodes
    <3>3. next' \in Early => next \in Early
      BY <1>2, <2>5
         DEF StaysOpen, Route, RouteAfterValidation, Following, Early, StageNodes
    <3> QED BY <1>2, <1>5, <2>2, <2>3, <3>1, <3>2, <3>3
            DEF AttemptsCounted, AttemptsKnown
  <2> QED BY <1>3, <2>4, <2>5
<1> QED BY <1>6, <1>7

(* The one recovery of the graph reruns at most one PoC.                   *)
LEMMA RecoverAttempts ==
  ASSUME TypeOK, AttemptsCounted, Recover
  PROVE  AttemptsCounted'
<1> DEFINE decision == RecoveryDecision(state)
<1>1. /\ next = "recover_once" /\ crashes' = crashes
      /\ decision.repeated_stage \in StageNodes /\ state.recovery_count = 0
  BY DecisionTyped DEF Recover, TypeOK
<1>2. PICK r \in Served(decision.repeated_stage) : Remember(r)
  BY DEF Recover
<1> HIDE DEF decision
<1>3. DOMAIN r.memory = DOMAIN memory
  BY <1>1, OnlyPocAttempts, PocKnown DEF AttemptsCounted, NoAttempt
<1>4. /\ {"history", "retry"} \subseteq DOMAIN memory'
      /\ {"history", "retry"} \subseteq DOMAIN workspace'
      /\ saved' = saved \/ saved' = TRUE
  BY <1>2, <1>3 DEF Remember, Saved, AttemptsCounted, AttemptsKnown
<1>5. repeats \in Nat /\ repeats <= 1 /\ (crashes = 0 => repeats = 0)
  BY <1>1 DEF AttemptsCounted, Outside
<1>6. /\ repeats' \in {repeats, repeats + 1}
      /\ ~saved' => repeats' = 0
  BY <1>2 DEF Remember, AttemptsCounted
<1>7. \/ next' \in Outside
      \/ next' = "validate" /\ state'.recovery_count # 0
  <2>1. ASSUME NEW o \in Outcome,
               state' = Counted(Accepted(state, "recover_once", o))
        PROVE  state'.recovery_count # 0
    <3>1. state \in ResearchState /\ "recover_once" \in ResearchStage
      BY DEF TypeOK, ResearchStage
    <3> QED BY <1>1, <2>1, <3>1, AcceptedKeeps, CountedKeeps
  <2>2. AnyRecovery
    BY RecoverIsAny
  <2>3. \/ Leaves
        \/ /\ next' = "validate"
           /\ \E o \in Outcome :
                state' = Counted(Accepted(state, "recover_once", o))
    BY <2>2, RecoverMoves
  <2> QED BY <2>1, <2>3 DEF Leaves
<1> QED BY <1>1, <1>4, <1>5, <1>6, <1>7
        DEF AttemptsCounted, AttemptsKnown, Early, Outside

LEMMA AttemptsStep ==
  TypeOK /\ AttemptsCounted /\ [RunNext]_allVars => AttemptsCounted'
<1> SUFFICES ASSUME TypeOK, AttemptsCounted, [RunNext]_allVars
             PROVE  AttemptsCounted'
  OBVIOUS
<1>1. ASSUME NEW s \in StageNodes, Stage(s) PROVE AttemptsCounted'
  BY <1>1, StageAttempts
<1>2. CASE Recover
  BY <1>2, RecoverAttempts
<1>3. CASE Quiet
  <2>1. next' \in Outside
    BY <1>3, RefuseLeaves, LateRecoveryLeaves, TerminalNodeEnds
       DEF Quiet, Leaves, Outside
  <2> QED BY <1>3, <2>1, AttemptsOutside
          DEF Quiet, runVars, AttemptsCounted, AttemptsKnown
<1>4. ASSUME UNCHANGED <<next, state, memory, workspace, saved, repeats, crashes>>
      PROVE  AttemptsCounted'
  BY <1>4 DEF AttemptsCounted, AttemptsKnown
<1>5. CASE FailRun \/ Release
  <2>1. \/ UNCHANGED vars
        \/ next' = "raised"
    BY <1>5 DEF FailRun, Release, NodeIsOver, StageAnswered, RecoveryAnswered,
                StageResult, StageMalformed, StageDeadline, StageRaises,
                RecoveryResult, RecoveryMalformed, RecoveryDeadline, Acceptable,
                Escaping, Blank
  <2>2. UNCHANGED <<memory, workspace, saved, repeats, crashes>>
    BY <1>5 DEF FailRun, Release
  <2>3. CASE UNCHANGED vars
    BY <1>4, <2>2, <2>3 DEF vars
  <2>4. CASE next' = "raised"
    BY <2>2, <2>4, AttemptsOutside DEF AttemptsCounted, AttemptsKnown, Outside
  <2> QED BY <2>1, <2>3, <2>4
<1>6. CASE TimePasses \/ Publish \/ Terminate \/ NodeRaises \/ PublishRaises
           \/ TerminateRaises \/ Over \/ UNCHANGED allVars
  BY <1>4, <1>6
     DEF TimePasses, DeadlinePasses, Publish, Terminate, NodeRaises,
         PublishRaises, TerminateRaises, Over, allVars, runVars, vars
<1>7. ASSUME Resumes(TRUE) \/ Resumes(FALSE), crashes' = crashes + 1,
             repeats' = repeats, saved' = saved \/ saved' = TRUE,
             {"history", "retry"} \subseteq DOMAIN workspace'
      PROVE  AttemptsCounted'
  <2>1. memory' = workspace' /\ crashes' # 0 /\ crashes' \in Nat
    BY <1>7 DEF Resumes, AttemptsCounted
  <2>2. CASE saved'
    <3>1. next' = next /\ state' = state
      BY <1>7, <2>2 DEF Resumes, Replay, vars
    <3> QED BY <1>7, <2>1, <2>2, <3>1 DEF AttemptsCounted, AttemptsKnown
  <2>3. CASE ~saved'
    <3>1. ~saved
      BY <1>7, <2>3
    <3>2. repeats' = 0
      BY <1>7, <3>1 DEF AttemptsCounted
    <3> QED BY <1>7, <2>1, <3>2 DEF AttemptsCounted, AttemptsKnown
  <2> QED BY <2>2, <2>3
<1>8. CASE DieInNode
  <2>1. \/ UNCHANGED <<saved, workspace>>
        \/ \E r \in Served(Called) : saved' = TRUE /\ workspace' = r.memory
    BY <1>8 DEF DieInNode
  <2>2. Called \in StageNodes
    BY <1>8, DecisionTyped DEF DieInNode, Calling, Called, TypeOK, StageNodes
  <2>3. \A r \in Served(Called) : DOMAIN r.memory = DOMAIN memory
    BY <2>2, OnlyPocAttempts, PocKnown DEF AttemptsCounted, NoAttempt
  <2>4. {"history", "retry"} \subseteq DOMAIN workspace'
    BY <2>1, <2>3 DEF AttemptsCounted, AttemptsKnown
  <2> QED BY <1>7, <1>8, <2>1, <2>4 DEF DieInNode, Dies
<1>9. CASE DieBetween
  <2>1. Resumes(TRUE) \/ Resumes(FALSE)
    BY <1>9 DEF DieBetween
  <2> QED BY <1>7, <1>9, <2>1 DEF DieBetween, Dies, AttemptsCounted
<1> QED BY <1>1, <1>2, <1>3, <1>5, <1>6, <1>8, <1>9 DEF RunNext, Work

(* A run whose process never dies accepts one rerun of a PoC at most, and  *)
(* deaths never add more than one each: whether execute_poc reruns is      *)
(* asked of the services' memory, which a death leaves ahead of the        *)
(* checkpoint (web/techscout_execution.py, _execute_poc and _recover_poc). *)
THEOREM RepeatsBounded == RunSpec => []RepeatsWithinLives
<1>1. RunInit => AttemptsCounted
  <2>1. Init => next = "normalize_request"
    BY DEF Init
  <2> QED BY <2>1 DEF RunInit, EmptyMemory, AttemptsCounted, AttemptsKnown, Outside
<1>2. AttemptsCounted => RepeatsWithinLives
  BY DEF AttemptsCounted, RepeatsWithinLives
<1>3. GraphInv => TypeOK
  BY DEF GraphInv
<1> QED BY <1>1, <1>2, <1>3, GraphInvAlways, AttemptsStep, PTL DEF RunSpec
-----------------------------------------------------------------------------
(* Joined sequences.                                                       *)

(* The joining of sequences is a fold, which no step of a proof can unroll:*)
(* what it yields is shown by the least index at which it would be wrong.  *)
LEMMA Least ==
  ASSUME NEW S, S \subseteq Nat, S # {}
  PROVE  Min(S) \in S /\ \A y \in S : Min(S) <= y
<1> DEFINE Less == OpToRel(<, Nat)
<1>1. IsWellFoundedOn(Less, Nat)
  BY NatLessThanWellFounded
<1> HIDE DEF Less
<1>2. PICK k \in S : \A j \in S : ~(<<j, k>> \in Less)
  BY <1>1, WFMin
<1>3. \A j \in S : ~(j < k)
  BY <1>2 DEF Less, OpToRel
<1>4. \A j \in S : k <= j
  BY <1>2, <1>3
<1> QED BY <1>2, <1>4 DEF Min

(* g is the joining of the first n sequences of ss, step by step.          *)
Joins(g, ss, n) ==
  g = [i \in 1..n |-> IF i = 1 THEN ss[i] ELSE g[i - 1] \o ss[i]]

LEMMA JoinExists ==
  ASSUME NEW ss, NEW n \in Nat
  PROVE  \E g : Joins(g, ss, n)
<1> DEFINE Fails == {m \in Nat : ~\E g : Joins(g, ss, m)}
<1> SUFFICES ASSUME Fails # {} PROVE FALSE
  OBVIOUS
<1>1. PICK m \in Nat : ~(\E g : Joins(g, ss, m)) /\ \A k \in Nat : k < m => \E g : Joins(g, ss, k)
  <2>1. Fails \subseteq Nat
    OBVIOUS
  <2> HIDE DEF Fails
  <2>2. Min(Fails) \in Fails /\ \A y \in Fails : Min(Fails) <= y
    BY <2>1, Least
  <2> QED BY <2>1, <2>2 DEF Fails
<1>2. CASE m = 0
  <2>1. Joins([i \in 1..0 |-> ss], ss, 0)
    BY DEF Joins
  <2> QED BY <1>1, <1>2, <2>1
<1>3. CASE m # 0
  <2>1. PICK g : Joins(g, ss, m - 1)
    BY <1>1, <1>3
  <2> DEFINE Step(h, i) == IF i = 1 THEN ss[i] ELSE h[i - 1] \o ss[i]
             h == [i \in 1..m |-> IF i = m THEN Step(g, m) ELSE g[i]]
  <2>2. \A i \in 1..m : h[i] = Step(h, i)
    <3> TAKE i \in 1..m
    <3>0. g = [j \in 1..(m-1) |-> Step(g, j)]
      BY <2>1 DEF Joins
    <3>1. CASE i # m
      <4>0. i \in 1..(m - 1)
        BY <3>1
      <4>1. g[i] = Step(g, i) /\ h[i] = g[i]
        BY <3>0, <3>1, <4>0, Zenon
      <4>2. i # 1 => h[i - 1] = g[i - 1]
        BY <3>1
      <4> QED BY <4>1, <4>2
    <3>2. CASE i = m
      <4>1. h[i] = Step(g, m)
        BY <3>2
      <4>2. i # 1 => h[i - 1] = g[i - 1]
        BY <3>2
      <4> QED BY <3>2, <4>1, <4>2
    <3> QED BY <3>1, <3>2
  <2>3. Joins(h, ss, m)
    <3>1. h = [i \in 1..m |-> h[i]]
      OBVIOUS
    <3> HIDE DEF h
    <3> QED BY <2>2, <3>1 DEF Joins
  <2> QED BY <1>1, <2>3
<1> QED BY <1>2, <1>3

LEMMA FlattenIs ==
  ASSUME NEW T, NEW ss \in Seq(Seq(T)), ss # <<>>
  PROVE  \E g : Joins(g, ss, Len(ss)) /\ FlattenSeq(ss) = g[Len(ss)]
<1> DEFINE g == CHOOSE f : f = [i \in 1..Len(ss) |-> IF i = 1 THEN ss[i] ELSE f[i - 1] \o ss[i]]
<1>1. Len(ss) \in Nat /\ Len(ss) # 0
  BY LenProperties, EmptySeq
<1>2. Joins(g, ss, Len(ss))
  BY <1>1, JoinExists DEF Joins
<1>3. FlattenSeq(ss) = g[Len(ss)]
  BY <1>1 DEF FlattenSeq
<1> QED BY <1>2, <1>3

LEMMA Flattened ==
  ASSUME NEW T, NEW ss \in Seq(Seq(T))
  PROVE  /\ FlattenSeq(ss) \in Seq(T)
         /\ FlattenSeq(ss) = <<>> => \A i \in DOMAIN ss : ss[i] = <<>>
<1>1. CASE ss = <<>>
  BY <1>1 DEF FlattenSeq
<1>2. CASE ss # <<>>
  <2>1. PICK g : Joins(g, ss, Len(ss)) /\ FlattenSeq(ss) = g[Len(ss)]
    BY <1>2, FlattenIs
  <2>0. Len(ss) \in Nat /\ Len(ss) # 0 /\ DOMAIN ss = 1..Len(ss) /\ \A i \in 1..Len(ss) : ss[i] \in Seq(T)
    BY <1>2, LenProperties, EmptySeq
  <2> DEFINE Good(m) == g[m] \in Seq(T) /\ (g[m] = <<>> => \A i \in 1..m : ss[i] = <<>>)
             Fails == {m \in 1..Len(ss) : ~Good(m)}
  <2>2. ASSUME NEW m \in 1..Len(ss), m # 1 => Good(m - 1) PROVE Good(m)
    <3>1. g[m] = IF m = 1 THEN ss[m] ELSE g[m - 1] \o ss[m]
      BY <2>1 DEF Joins
    <3>2. CASE m = 1
      BY <2>0, <3>1, <3>2
    <3>3. CASE m # 1
      <4>1. g[m - 1] \in Seq(T) /\ ss[m] \in Seq(T) /\ g[m] = g[m - 1] \o ss[m]
        BY <2>0, <2>2, <3>1, <3>3
      <4>2. g[m] \in Seq(T) /\ (g[m] = <<>> => g[m - 1] = <<>> /\ ss[m] = <<>>)
        BY <4>1, ConcatProperties, EmptySeq, LenProperties
      <4> QED BY <2>2, <3>3, <4>2
    <3> QED BY <3>2, <3>3
  <2>3. Fails = {}
    <3> SUFFICES ASSUME Fails # {} PROVE FALSE
      OBVIOUS
    <3>1. Fails \subseteq Nat
      OBVIOUS
    <3> HIDE DEF Fails
    <3>2. Min(Fails) \in Fails /\ \A y \in Fails : Min(Fails) <= y
      BY <3>1, Least
    <3>3. PICK m \in 1..Len(ss) : ~Good(m) /\ \A y \in Fails : m <= y
      BY <3>2 DEF Fails
    <3>4. m # 1 => m - 1 \in 1..Len(ss) /\ ~(m <= m - 1)
      BY <2>0
    <3>5. m # 1 => Good(m - 1)
      BY <3>3, <3>4 DEF Fails
    <3> HIDE DEF Good
    <3> QED BY <2>2, <3>3, <3>5
  <2>4. Good(Len(ss))
    BY <2>0, <2>3
  <2> QED BY <2>0, <2>1, <2>4
<1> QED BY <1>1, <1>2

-----------------------------------------------------------------------------
(* What the services remember: the research.                               *)

(* A memory the services can be in: a candidate passed only if it was      *)
(* reviewed, a retry is of a PoC that ran, and no draft says failed.       *)
Knows(m) ==
  /\ m \in Memory
  /\ m.retry # NoRetry => m.results # <<>>
  /\ m.draft.status # "failed"
  /\ \A i \in DOMAIN m.results :
       m.results[i].status = "passed" => m.results[i].candidate \in Reviewed

(* A memory that has lost nothing the services have worked out.            *)
Ahead(m) ==
  /\ \A c \in Candidates : memory.acquired[c] # None => m.acquired[c] # None
  /\ memory.planned => m.planned
  /\ memory.results # <<>> => m.results # <<>>
  /\ memory.draft # NoDraft => m.draft # NoDraft

(* What the checkpoint of stage s is worth in the memory m.                *)
(* What a completed stage s has left in the memory.                        *)
Worth(s, m) ==
  /\ s = "research_candidates" /\ request.mode = "verified" =>
       \A c \in Range(Asked) : m.acquired[c] # None
  /\ s = "plan_poc" => m.planned
  /\ s = "execute_poc" => m.results # <<>>

LEMMA AskedTyped ==
  ASSUME request \in Requests
  PROVE  /\ Asked \in Seq(Candidates) /\ Asked # <<>>
         /\ Range(Asked) \subseteq Candidates
         /\ \A i \in DOMAIN Asked : Asked[i] \in Candidates
         /\ DOMAIN Asked = 1..Len(Asked) /\ Len(Asked) \in Nat /\ Len(Asked) # 0
<1>1. Asked \in Seq(Candidates) /\ Asked # <<>>
  BY CandidateAssumption DEF Asked, Request
<1>2. DOMAIN Asked = 1..Len(Asked) /\ Len(Asked) \in Nat /\ Len(Asked) # 0
  BY <1>1, LenProperties, EmptySeq
<1>3. \A i \in DOMAIN Asked : Asked[i] \in Candidates
  BY <1>1, <1>2, ElementOfSeq
<1> QED BY <1>1, <1>2, <1>3 DEF Range

(* The same memory.                                                        *)
LEMMA SameMemory ==
  ASSUME NEW m, m = memory
  PROVE  Ahead(m)
BY DEF Ahead

LEMMA ResearchedKnows ==
  ASSUME Knows(memory), request \in Requests,
         NEW D \in SUBSET Candidates, NEW acquired,
         DOMAIN acquired = D, \A c \in D : acquired[c] \in Acquisition,
         NEW evidence \in SUBSET Candidates
  PROVE  /\ Knows(Researched(acquired, evidence))
         /\ Ahead(Researched(acquired, evidence))
         /\ Researched(acquired, evidence).draft = memory.draft
         /\ \A c \in D : Researched(acquired, evidence).acquired[c] # None
<1> DEFINE a == [c \in Candidates |-> IF c \in DOMAIN acquired THEN acquired[c]
                                      ELSE memory.acquired[c]]
           m == [memory EXCEPT !.acquired = a, !.evidence = evidence]
<1>1. memory \in Memory
  BY DEF Knows
<1>2. memory.acquired \in [Candidates -> Acquisition \cup {None}]
  BY <1>1 DEF Memory
<1>3. a \in [Candidates -> Acquisition \cup {None}]
  BY <1>2
<1>4. /\ \A c \in Candidates : memory.acquired[c] # None => a[c] # None
      /\ \A c \in D : a[c] # None
  BY DEF Acquisition, None
<1>5. Researched(acquired, evidence) = m
  BY Zenon DEF Researched
<1> HIDE DEF a
<1>6. m \in Memory
  BY <1>1, <1>3 DEF Memory
<1>7. /\ m.acquired = a /\ m.planned = memory.planned
      /\ m.results = memory.results /\ m.draft = memory.draft
      /\ m.retry = memory.retry
  BY <1>1 DEF Memory
<1> HIDE DEF m
<1> QED BY <1>4, <1>5, <1>6, <1>7 DEF Knows, Ahead

LEMMA ResearchServes ==
  ASSUME Knows(memory), request \in Requests,
         NEW r \in ResearchFast \cup ResearchVerified
  PROVE  /\ Knows(r.memory) /\ Ahead(r.memory) /\ r.memory.draft = memory.draft
         /\ r \in ResearchVerified =>
              \A c \in Range(Asked) : r.memory.acquired[c] # None
<1>1. ASSUME NEW answer, NEW m PROVE Serves(answer, m).memory = m
  BY DEF Serves
<1>2. CASE r \in ResearchVerified
  <2>1. PICK acquired \in [Range(Asked) -> Acquisition], evidence \in SUBSET Range(Asked) :
          r = Serves(Metered(Len(Asked), 0), Researched(acquired, evidence))
    BY <1>2 DEF ResearchVerified
  <2>2. r.memory = Researched(acquired, evidence)
    BY <1>1, <2>1
  <2> DEFINE D == Range(Asked)
  <2>3. /\ D \in SUBSET Candidates /\ evidence \in SUBSET Candidates
        /\ DOMAIN acquired = D /\ \A c \in D : acquired[c] \in Acquisition
    BY AskedTyped
  <2> HIDE DEF D
  <2>4. /\ Knows(Researched(acquired, evidence)) /\ Ahead(Researched(acquired, evidence))
        /\ Researched(acquired, evidence).draft = memory.draft
        /\ \A c \in D : Researched(acquired, evidence).acquired[c] # None
    BY <2>3, ResearchedKnows
  <2> QED BY <2>2, <2>4 DEF D
<1>3. CASE r \in ResearchFast /\ r \notin ResearchVerified
  <2> DEFINE found(k)  == Researched(<<>>, {Asked[i] : i \in 1..k})
             failed(k) == [Metered(k, 0) EXCEPT !.failures =
                             <<[code |-> "tool_unavailable", stage |-> "research",
                                recoverable |-> FALSE, action |-> None]>>]
  <2>1. \/ r = Serves(Metered(Len(Asked), 160 * Len(Asked)), found(Len(Asked)))
        \/ \E k \in DOMAIN Asked : r = Serves(failed(k), found(k - 1))
    BY <1>3 DEF ResearchFast
  <2>2. ASSUME NEW k \in 0..Len(Asked)
        PROVE  Knows(found(k)) /\ Ahead(found(k)) /\ found(k).draft = memory.draft
    <3>1. {Asked[i] : i \in 1..k} \subseteq Candidates
      BY AskedTyped
    <3>2. DOMAIN (<<>>) = {}
      OBVIOUS
    <3> QED BY <3>1, <3>2, ResearchedKnows
  <2>3. Len(Asked) \in 0..Len(Asked) /\ \A k \in DOMAIN Asked : k - 1 \in 0..Len(Asked)
    BY AskedTyped
  <2> HIDE DEF found, failed
  <2>4. \E k \in 0..Len(Asked) : r.memory = found(k)
    BY <1>1, <2>1, <2>3
  <2> QED BY <1>3, <2>2, <2>4
<1> QED BY <1>2, <1>3

-----------------------------------------------------------------------------
(* What the services remember: the PoCs.                                   *)

LEMMA ExecutedKnows ==
  ASSUME Knows(memory), NEW results \in Seq(PocResult(Candidates)), results # <<>>,
         \A i \in DOMAIN results :
           results[i].status = "passed" => results[i].candidate \in Reviewed,
         NEW retry \in Retry \cup {NoRetry}
  PROVE  LET m == Executed(results, retry)
         IN Knows(m) /\ Ahead(m) /\ m.draft = memory.draft /\ m.results # <<>>
<1> DEFINE h == memory.history \cup Statuses(results)
           m == [memory EXCEPT !.results = results, !.history = h, !.retry = retry]
<1>1. memory \in Memory
  BY DEF Knows
<1>2. Statuses(results) \subseteq PocStatus
  <2>1. \A i \in DOMAIN results : results[i] \in PocResult(Candidates)
    BY ElementOfSeq, LenProperties
  <2> QED BY <2>1 DEF Statuses, PocResult
<1>3. h \subseteq PocStatus
  BY <1>1, <1>2 DEF Memory
<1>4. Executed(results, retry) = m
  BY DEF Executed
<1> HIDE DEF h
<1>5. m \in Memory
  BY <1>1, <1>3 DEF Memory
<1>6. /\ m.acquired = memory.acquired /\ m.planned = memory.planned
      /\ m.results = results /\ m.draft = memory.draft /\ m.retry = retry
  BY <1>1 DEF Memory
<1> HIDE DEF m
<1> QED BY <1>4, <1>5, <1>6 DEF Knows, Ahead

(* How a container run may end is a result of its candidate.               *)
LEMMA EndsTyped ==
  ASSUME NEW c \in Candidates, NEW e \in Ends(c)
  PROVE  /\ e \in PocResult(Candidates) /\ e.candidate = c
         /\ e.status = "passed" => c \in Reviewed
<1>1. \/ \E code \in BreakingCodes : e = Poc(c, "failed", code, "none", TRUE)
      \/ e = Poc(c, "failed", "poc_artifact_invalid", "none", FALSE)
      \/ e = Poc(c, "timed_out", "poc_timeout", "none", TRUE)
      \/ c \in Runnable /\ e = Poc(c, "passed", None, "requested", TRUE)
      \/ e = Poc(c, "research_only", "poc_recipe_unsupported", "none", TRUE)
  BY DEF Ends, Broken
<1>2. Runnable \subseteq Reviewed
  BY CandidateAssumption
<1>4. /\ BreakingCodes \subseteq FailureCode /\ None \notin BreakingCodes
  BY DEF BreakingCodes, FailureCode, None
<1>5. ASSUME NEW code \in BreakingCodes, e = Poc(c, "failed", code, "none", TRUE)
      PROVE  e \in PocResult(Candidates) /\ e.candidate = c /\ e.status # "passed"
  BY <1>4, <1>5 DEF Poc, PocResult, PocStatus, Version, FailureCode, None
<1>6. CASE e = Poc(c, "failed", "poc_artifact_invalid", "none", FALSE)
  BY <1>6 DEF Poc, PocResult, PocStatus, Version, FailureCode, None
<1>7. CASE e = Poc(c, "timed_out", "poc_timeout", "none", TRUE)
  BY <1>7 DEF Poc, PocResult, PocStatus, Version, FailureCode, None
<1>8. CASE c \in Runnable /\ e = Poc(c, "passed", None, "requested", TRUE)
  BY <1>2, <1>8 DEF Poc, PocResult, PocStatus, Version, FailureCode, None
<1>9. CASE e = Poc(c, "research_only", "poc_recipe_unsupported", "none", TRUE)
  BY <1>9 DEF Poc, PocResult, PocStatus, Version, FailureCode, None
<1> QED BY <1>1, <1>5, <1>6, <1>7, <1>8, <1>9

LEMMA FastKnows ==
  ASSUME Knows(memory), request \in Requests, NEW r \in ExecuteFast
  PROVE  Knows(r.memory) /\ Ahead(r.memory) /\ r.memory.draft = memory.draft
         /\ r.memory.results # <<>>
<1> DEFINE conflict == Poc(Asked[1], "failed", "dependency_conflict", "none", FALSE)
           result(i) == IF Asked[i] \in Reviewed
                        THEN Poc(Asked[i], "passed", None,
                                 IF Asked[i] \in request.unmet THEN "other"
                                 ELSE "requested", TRUE)
                        ELSE Poc(Asked[i], "research_only",
                                 "poc_recipe_unsupported", "none", FALSE)
           results   == [i \in DOMAIN Asked |-> result(i)]
<1>1. \/ \E answer : r = Serves(answer, Executed(<<conflict>>, NoRetry))
      \/ \E answer, b : r = [Serves(answer, Executed(results, NoRetry))
                          EXCEPT !.repeat = b]
  BY Zenon DEF ExecuteFast
<1>2. ASSUME NEW answer, NEW m, NEW b
      PROVE  /\ Serves(answer, m).memory = m
             /\ [Serves(answer, m) EXCEPT !.repeat = b].memory = m
  BY DEF Serves
<1>3. DOMAIN Asked = 1..Len(Asked) /\ Len(Asked) \in Nat /\ Len(Asked) # 0
      /\ \A i \in DOMAIN Asked : Asked[i] \in Candidates
  BY AskedTyped
<1>4. /\ <<conflict>> \in Seq(PocResult(Candidates)) /\ <<conflict>> # <<>>
      /\ \A i \in DOMAIN <<conflict>> : <<conflict>>[i].status # "passed"
  <2>1. conflict \in PocResult(Candidates) /\ conflict.status # "passed"
    BY <1>3 DEF Poc, PocResult, PocStatus, Version, FailureCode, None
  <2> HIDE DEF conflict
  <2> QED BY <2>1
<1>5. \A i \in DOMAIN Asked : /\ result(i) \in PocResult(Candidates)
                              /\ result(i).status = "passed" => result(i).candidate \in Reviewed
  BY <1>3 DEF Poc, PocResult, PocStatus, Version, FailureCode, None
<1> HIDE DEF conflict, result
<1>6. /\ results \in Seq(PocResult(Candidates)) /\ results # <<>>
      /\ \A i \in DOMAIN results :
           results[i].status = "passed" => results[i].candidate \in Reviewed
  <2>1. results \in [1..Len(Asked) -> PocResult(Candidates)]
    BY <1>3, <1>5
  <2>2. results \in Seq(PocResult(Candidates))
    BY <1>3, <2>1
  <2>3. results # <<>>
    <3>1. 1 \in DOMAIN results
      BY <1>3
    <3> QED BY <3>1
  <2> QED BY <1>5, <2>2, <2>3
<1> HIDE DEF results
<1>7. r.memory = Executed(<<conflict>>, NoRetry) \/ r.memory = Executed(results, NoRetry)
  <2>1. ASSUME NEW answer, r = Serves(answer, Executed(<<conflict>>, NoRetry))
        PROVE  r.memory = Executed(<<conflict>>, NoRetry)
    BY <1>2, <2>1
  <2>2. ASSUME NEW answer, NEW b,
               r = [Serves(answer, Executed(results, NoRetry)) EXCEPT !.repeat = b]
        PROVE  r.memory = Executed(results, NoRetry)
    BY <1>2, <2>2
  <2> QED BY <1>1, <2>1, <2>2
<1> QED BY <1>4, <1>6, <1>7, ExecutedKnows

LEMMA AttemptKnows ==
  ASSUME Knows(memory), request \in Requests, NEW r \in AttemptVerified
  PROVE  Knows(r.memory) /\ Ahead(r.memory) /\ r.memory.draft = memory.draft
         /\ r.memory.results # <<>>
<1>1. PICK results \in [DOMAIN Asked -> UNION {Ends(c) : c \in Range(Asked)}] :
        /\ \A i \in DOMAIN Asked : results[i] \in Ends(Asked[i])
        /\ \E stage \in FailedStages(results) : r = Attempted(results, stage)
  BY DEF AttemptVerified
<1>2. PICK stage \in {"install", "test"} : r = Attempted(results, stage)
  BY <1>1 DEF FailedStages
<1>3. DOMAIN Asked = 1..Len(Asked) /\ Len(Asked) \in Nat /\ Len(Asked) # 0
      /\ \A i \in DOMAIN Asked : Asked[i] \in Candidates
  BY AskedTyped
<1>4. \A i \in DOMAIN results : /\ results[i] \in PocResult(Candidates)
                                /\ results[i].candidate = Asked[i]
                                /\ results[i].status = "passed" => Asked[i] \in Reviewed
  BY <1>1, <1>3, EndsTyped
<1>5. results \in Seq(PocResult(Candidates)) /\ results # <<>>
  <2>1. results \in [1..Len(Asked) -> PocResult(Candidates)]
    BY <1>1, <1>3, <1>4
  <2>2. 1 \in DOMAIN results
    BY <1>1, <1>3
  <2> QED BY <1>3, <2>1, <2>2
<1> DEFINE marked == {i \in DOMAIN results : Diagnosable(results[i])}
<1>6. \E retry \in Retry \cup {NoRetry} : r.memory = Executed(results, retry)
  <2>1. CASE marked = {}
    <3>1. r.memory = Executed(results, NoRetry)
      BY <1>2, <2>1 DEF Attempted, Serves
    <3> QED BY <3>1
  <2>2. CASE marked # {}
    <3>1. r.memory = Executed(results, [candidate |-> results[Min(marked)].candidate,
                                        stage |-> stage])
      BY <1>2, <2>2 DEF Attempted, Serves
    <3>2. marked \subseteq DOMAIN results /\ marked \subseteq Nat
      BY <1>1, <1>3
    <3> HIDE DEF marked
    <3>3. Min(marked) \in DOMAIN results
      BY <2>2, <3>2, Least
    <3>4. results[Min(marked)].candidate \in Candidates
      BY <1>1, <1>3, <1>4, <3>3
    <3>5. [candidate |-> results[Min(marked)].candidate, stage |-> stage] \in Retry
      BY <3>4 DEF Retry
    <3> QED BY <3>1, <3>5
  <2> QED BY <2>1, <2>2
<1>7. \A i \in DOMAIN results :
        results[i].status = "passed" => results[i].candidate \in Reviewed
  BY <1>1, <1>4
<1> QED BY <1>5, <1>6, <1>7, ExecutedKnows

(* A rerun leaves a result of the same candidate.                          *)
LEMMA MergedTyped ==
  ASSUME NEW result \in PocResult(Candidates), NEW attempt \in PocResult(Candidates)
  PROVE  /\ Merged(result, attempt) \in PocResult(Candidates)
         /\ Merged(result, attempt).candidate = result.candidate
         /\ Merged(result, attempt).status = "passed" => attempt.status = "passed"
<1> DEFINE status == IF memory.retry.stage = "test" THEN attempt.status ELSE "failed"
           code   == IF status = "failed" /\ attempt.code = None
                     THEN "poc_nonzero_exit" ELSE attempt.code
           kept   == result.artifacts \/ attempt.artifacts
           m      == [result EXCEPT !.status = status, !.code = code, !.artifacts = kept]
<1>1. /\ status \in PocStatus /\ code \in FailureCode \cup {None} /\ kept \in BOOLEAN
      /\ status = "passed" => attempt.status = "passed" /\ code = None
      /\ status = "timed_out" => code = "poc_timeout"
      /\ status = "failed" => code # None
  <2>1. attempt.status \in PocStatus /\ attempt.code \in FailureCode \cup {None}
        /\ (attempt.status = "passed" => attempt.code = None)
        /\ (attempt.status = "timed_out" => attempt.code = "poc_timeout")
    BY DEF PocResult
  <2>2. "poc_nonzero_exit" \in FailureCode /\ "poc_nonzero_exit" # None /\ "failed" \in PocStatus
    BY DEF FailureCode, None, PocStatus
  <2>3. kept \in BOOLEAN
    OBVIOUS
  <2> QED BY <2>1, <2>2, <2>3
<1>2. Merged(result, attempt) = m
  BY Zenon DEF Merged
<1> HIDE DEF status, code, kept
<1>3. /\ m.candidate = result.candidate /\ m.status = status
      /\ m \in PocResult(Candidates)
  BY <1>1 DEF PocResult
<1> HIDE DEF m
<1> QED BY <1>1, <1>2, <1>3

LEMMA RerunKnows ==
  ASSUME Knows(memory), memory.retry # NoRetry, NEW r \in RecoverPoc
  PROVE  Knows(r.memory) /\ Ahead(r.memory) /\ r.memory.draft = memory.draft
         /\ r.memory.results # <<>>
<1> DEFINE marked == memory.retry.candidate
           rerun(attempt) ==
             [i \in DOMAIN memory.results |->
                IF memory.results[i].candidate = marked
                THEN Merged(memory.results[i], attempt) ELSE memory.results[i]]
<1>1. PICK attempt \in Ends(marked) :
        r = [Serves(Metered(1, 0), Executed(rerun(attempt), memory.retry))
               EXCEPT !.repeat = TRUE]
  BY DEF RecoverPoc
<1> DEFINE results == rerun(attempt)
<1>2. r.memory = Executed(results, memory.retry)
  BY <1>1 DEF Serves
<1>3. /\ memory.results \in Seq(PocResult(Candidates)) /\ memory.results # <<>>
      /\ memory.retry \in Retry
  BY DEF Knows, Memory
<1>4. DOMAIN memory.results = 1..Len(memory.results) /\ Len(memory.results) \in Nat
      /\ Len(memory.results) # 0
      /\ \A i \in DOMAIN memory.results : memory.results[i] \in PocResult(Candidates)
  BY <1>3, LenProperties, EmptySeq, ElementOfSeq
<1>5. /\ attempt \in PocResult(Candidates)
      /\ attempt.status = "passed" => marked \in Reviewed
  <2>1. marked \in Candidates
    BY <1>3 DEF Retry
  <2> QED BY <2>1, EndsTyped
<1>6. \A i \in DOMAIN memory.results :
        /\ results[i] \in PocResult(Candidates)
        /\ results[i].status = "passed" => results[i].candidate \in Reviewed
  <2> TAKE i \in DOMAIN memory.results
  <2>1. CASE memory.results[i].candidate = marked
    <3>1. results[i] = Merged(memory.results[i], attempt)
      BY <2>1
    <3> QED BY <1>4, <1>5, <2>1, <3>1, MergedTyped
  <2>2. CASE memory.results[i].candidate # marked
    <3>1. results[i] = memory.results[i]
      BY <2>2
    <3> QED BY <1>4, <3>1 DEF Knows
  <2> QED BY <2>1, <2>2
<1>7. DOMAIN results = DOMAIN memory.results
  OBVIOUS
<1>8. results = [i \in DOMAIN memory.results |-> results[i]]
  OBVIOUS
<1> HIDE DEF results
<1>9. results \in Seq(PocResult(Candidates)) /\ results # <<>>
  <2>1. results \in [1..Len(memory.results) -> PocResult(Candidates)]
    BY <1>4, <1>6, <1>8
  <2>2. 1 \in DOMAIN results
    BY <1>4, <1>7
  <2> QED BY <1>4, <2>1, <2>2
<1> QED BY <1>2, <1>3, <1>6, <1>7, <1>9, ExecutedKnows

-----------------------------------------------------------------------------
(* What the gate finds, and what it leaves of the draft.                   *)

(* A finding of the gate: a failure before it is given its stage.          *)
AnyFinding ==
  {f \in [code : FailureCode, recoverable : BOOLEAN,
          action : RecoveryAction \cup {None}] :
     IF f.recoverable
     THEN f.action # None
     ELSE f.action \in {None, "publish_limited_result", "fail_safely"}}

LEMMA BothEmpty ==
  ASSUME NEW S, NEW a \in Seq(S), NEW b \in Seq(S), a \o b = <<>>
  PROVE  a = <<>> /\ b = <<>>
BY ConcatProperties, EmptySeq, LenProperties

(* The findings of one PoC; there is none only beside a PoC that is sound. *)
LEMMA PocFindingsTyped ==
  ASSUME NEW r \in PocResult(Candidates), NEW n \in Nat
  PROVE  /\ PocFindings(r, n) \in Seq(AnyFinding)
         /\ PocFindings(r, n) = <<>> =>
              /\ ~Broke(r)
              /\ r.status = "passed" => r.version = "requested" /\ r.artifacts
<1>1. r.code \in FailureCode \cup {None} /\ r.artifacts \in BOOLEAN /\ r.status \in PocStatus
  BY DEF PocResult
<1>2. /\ VersionFindings(r) \in Seq(AnyFinding)
      /\ VersionFindings(r) = <<>> => (r.status = "passed" => r.version = "requested")
  <2>1. Plain("version_conflict") \in AnyFinding
    BY DEF Plain, Finding, AnyFinding, FailureCode
  <2> QED BY <2>1 DEF VersionFindings
<1>3. /\ ArtifactFindings(r) \in Seq(AnyFinding)
      /\ ArtifactFindings(r) = <<>> => (r.status = "passed" => r.artifacts)
  <2>1. Plain("poc_artifact_invalid") \in AnyFinding
    BY DEF Plain, Finding, AnyFinding, FailureCode
  <2> QED BY <2>1 DEF ArtifactFindings
<1>4. /\ StatusFindings(r, n) \in Seq(AnyFinding)
      /\ StatusFindings(r, n) = <<>> => ~Broke(r)
  <2>1. /\ Finding("poc_timeout", FALSE, "publish_limited_result") \in AnyFinding
        /\ r.status = "failed" =>
             /\ Finding(r.code, TRUE, "pin_version_and_rerun_poc") \in AnyFinding
             /\ Finding(r.code, FALSE, "publish_limited_result") \in AnyFinding
    <3>1. r.status = "failed" => r.code \in FailureCode
      BY DEF PocResult
    <3>2. "poc_timeout" \in FailureCode
      BY DEF FailureCode
    <3> QED BY <3>1, <3>2 DEF Finding, AnyFinding, RecoveryAction, None
  <2>2. ASSUME NEW f \in AnyFinding, StatusFindings(r, n) = <<f>>
        PROVE  StatusFindings(r, n) \in Seq(AnyFinding) /\ StatusFindings(r, n) # <<>>
    BY <2>2
  <2>3. CASE r.status = "timed_out"
    <3>1. StatusFindings(r, n) = <<Finding("poc_timeout", FALSE, "publish_limited_result")>>
      BY <2>3 DEF StatusFindings
    <3> QED BY <2>1, <2>2, <3>1
  <2>4. CASE r.status = "failed"
    <3>1. \/ StatusFindings(r, n) = <<Finding(r.code, TRUE, "pin_version_and_rerun_poc")>>
          \/ StatusFindings(r, n) = <<Finding(r.code, FALSE, "publish_limited_result")>>
      BY <2>4 DEF StatusFindings
    <3> QED BY <2>1, <2>2, <2>4, <3>1
  <2>5. CASE r.status \in {"passed", "research_only"}
    <3>1. StatusFindings(r, n) = <<>>
      BY <2>5 DEF StatusFindings
    <3> QED BY <2>5, <3>1 DEF Broke
  <2> QED BY <1>1, <2>3, <2>4, <2>5 DEF PocStatus
<1>5. VersionFindings(r) \o ArtifactFindings(r) \in Seq(AnyFinding)
  BY <1>2, <1>3, ConcatProperties
<1>6. PocFindings(r, n) = (VersionFindings(r) \o ArtifactFindings(r)) \o StatusFindings(r, n)
  BY DEF PocFindings
<1>7. PocFindings(r, n) \in Seq(AnyFinding)
  BY <1>4, <1>5, <1>6, ConcatProperties
<1>8. ASSUME PocFindings(r, n) = <<>>
      PROVE  /\ VersionFindings(r) = <<>> /\ ArtifactFindings(r) = <<>>
             /\ StatusFindings(r, n) = <<>>
  BY <1>2, <1>3, <1>4, <1>5, <1>6, <1>8, BothEmpty
<1> QED BY <1>2, <1>3, <1>4, <1>7, <1>8

LEMMA FindingsTyped ==
  ASSUME NEW results \in Seq(PocResult(Candidates)), NEW recommendation,
         NEW evidenced, NEW n \in Nat
  PROVE  LET findings == Findings(results, recommendation, evidenced, n)
         IN /\ findings \in Seq(AnyFinding)
            /\ findings = <<>> =>
                 \A i \in DOMAIN results :
                   /\ ~Broke(results[i])
                   /\ results[i].status = "passed" =>
                        results[i].version = "requested" /\ results[i].artifacts
<1> DEFINE each == [i \in DOMAIN results |-> PocFindings(results[i], n)]
           rest == ReportFindings(results, recommendation, evidenced, n)
<1>1. /\ DOMAIN results = 1..Len(results) /\ Len(results) \in Nat
      /\ \A i \in DOMAIN results : results[i] \in PocResult(Candidates)
  BY LenProperties, ElementOfSeq
<1>2. each \in Seq(Seq(AnyFinding))
  <2>1. \A i \in DOMAIN results : PocFindings(results[i], n) \in Seq(AnyFinding)
    BY <1>1, PocFindingsTyped
  <2>2. each \in [1..Len(results) -> Seq(AnyFinding)]
    BY <1>1, <2>1
  <2> HIDE DEF each
  <2> QED BY <1>1, <2>2
<1>3. rest \in Seq(AnyFinding)
  <2>1. Repairable(n) \in AnyFinding
    <3>1. "report_evidence_invalid" \in FailureCode
      BY DEF FailureCode
    <3> QED BY <3>1 DEF Repairable, Finding, AnyFinding, RecoveryAction, None
  <2>2. <<Repairable(n)>> \in Seq(AnyFinding) /\ <<>> \in Seq(AnyFinding)
    BY <2>1
  <2> QED BY <2>2, ConcatProperties DEF ReportFindings
<1>4. DOMAIN each = DOMAIN results /\ \A i \in DOMAIN results : each[i] = PocFindings(results[i], n)
  OBVIOUS
<1>5. Findings(results, recommendation, evidenced, n) = FlattenSeq(each) \o rest
  BY DEF Findings
<1> HIDE DEF each, rest
<1>6. /\ FlattenSeq(each) \in Seq(AnyFinding)
      /\ FlattenSeq(each) = <<>> => \A i \in DOMAIN each : each[i] = <<>>
  BY <1>2, Flattened
<1>7. FlattenSeq(each) \o rest \in Seq(AnyFinding)
  BY <1>3, <1>6, ConcatProperties
<1>8. FlattenSeq(each) \o rest = <<>> => FlattenSeq(each) = <<>>
  BY <1>3, <1>6, BothEmpty
<1>9. ASSUME FlattenSeq(each) = <<>>, NEW i \in DOMAIN results
      PROVE  /\ ~Broke(results[i])
             /\ results[i].status = "passed" =>
                  results[i].version = "requested" /\ results[i].artifacts
  BY <1>1, <1>4, <1>6, <1>9, PocFindingsTyped
<1> QED BY <1>5, <1>7, <1>8, <1>9

(* A candidate that is recommended has a passed PoC of its own.            *)
LEMMA CandidateIs ==
  ASSUME request \in Requests, Candidate # None
  PROVE  /\ Candidate \in Candidates
         /\ \E k \in DOMAIN memory.results : /\ memory.results[k].candidate = Candidate
                                             /\ memory.results[k].status = "passed"
<1> DEFINE passed == {i \in DOMAIN Asked :
                        \E k \in DOMAIN memory.results :
                          /\ memory.results[k].candidate = Asked[i]
                          /\ memory.results[k].status = "passed"}
<1>1. passed # {} /\ Candidate = Asked[Min(passed)]
  BY DEF Candidate
<1>2. passed \subseteq Nat /\ \A i \in DOMAIN Asked : Asked[i] \in Candidates
  BY AskedTyped
<1>3. Min(passed) \in passed
  <2> HIDE DEF passed
  <2> QED BY <1>1, <1>2, Least
<1> QED BY <1>1, <1>2, <1>3

(* What validation leaves behind: a memory that differs in its draft.      *)
(* The memory that the judgment of a run leaves behind.                    *)
DraftedMemory(draft) == [memory EXCEPT !.draft = draft]

LEMMA JudgedIs ==
  ASSUME NEW scenario, NEW recommendation
  PROVE  LET j == Judged(scenario, recommendation)
             gate == OutcomeOf(Findings(memory.results, recommendation,
                                        memory.evidence, state.recovery_count))
             status == IF recommendation = None THEN "completed_with_limitations"
                       ELSE "completed"
         IN /\ j.answer.report = NoReport /\ j.answer.manifest = NoManifest
            /\ j.answer.gate_outcome = "passed" =>
                 /\ gate = "passed" /\ scenario \notin Limited
                 /\ j.memory = DraftedMemory([recommendation |-> recommendation,
                                              status |-> status])
            /\ \/ j.memory = memory
               \/ j.memory = DraftedMemory([recommendation |-> recommendation,
                                            status |-> status])
<1> DEFINE findings == Findings(memory.results, recommendation, memory.evidence,
                           state.recovery_count)
      failures == FailuresOf(findings)
      all      == state.failures \o failures
      gate     == OutcomeOf(findings)
      outcome  ==
        IF /\ scenario = "verification_failed"
           /\ \/ state.recovery_count >= 1
              \/ \A i \in DOMAIN all : ~all[i].recoverable
        THEN "failed"
        ELSE IF scenario \in Limited /\ gate = "passed" THEN "limited"
        ELSE gate
      told == IF outcome = "limited" /\ gate = "passed"
                            THEN Append(failures, Limitation(scenario))
                            ELSE failures
      answer == [Blank EXCEPT !.gate_outcome = outcome, !.tokens = 120,
               !.failures = told]
      draft == [recommendation |-> recommendation,
                     status |-> IF recommendation = None
                                THEN "completed_with_limitations"
                                ELSE "completed"]
      m == IF outcome \in {"recover", "failed"} THEN memory
            ELSE DraftedMemory(draft)
<1>1. Judged(scenario, recommendation) = Serves(answer, m)
  BY Zenon DEF Judged, DraftedMemory
<1>2. outcome = "passed" => gate = "passed" /\ scenario \notin Limited
  OBVIOUS
<1> HIDE DEF outcome, told
<1>3. answer.gate_outcome = outcome /\ answer.report = NoReport /\ answer.manifest = NoManifest
  BY DEF Blank
<1> HIDE DEF answer, draft, findings
<1>4. Serves(answer, m).answer = answer /\ Serves(answer, m).memory = m
  BY DEF Serves
<1>5. m = memory \/ m = DraftedMemory(draft)
  OBVIOUS
<1>6. outcome = "passed" => m = DraftedMemory(draft)
  OBVIOUS
<1> HIDE DEF m, gate
<1> QED BY <1>1, <1>2, <1>3, <1>4, <1>5, <1>6 DEF draft, gate, findings

-----------------------------------------------------------------------------
(* What the validation vouches for.                                        *)

(* A completed draft is the verified recommendation it says it is.         *)
Vouches(m) ==
  m.draft.status = "completed" =>
    /\ \E i \in DOMAIN m.results :
         LET r == m.results[i]
         IN /\ r.candidate = m.draft.recommendation
            /\ r.status = "passed" /\ r.version = "requested" /\ r.artifacts
    /\ m.draft.recommendation \in Reviewed
    /\ Range(Asked) \cap Reviewed \subseteq m.evidence
    /\ \A i \in DOMAIN m.results : ~Broke(m.results[i])
    /\ request.mode = "verified" =>
         \A c \in Range(Asked) : m.acquired[c] = "live"

LEMMA DraftedKnows ==
  ASSUME Knows(memory), NEW recommendation \in Candidates \cup {None},
         NEW status \in {"completed", "completed_with_limitations"}
  PROVE  LET draft == [recommendation |-> recommendation, status |-> status]
             m     == DraftedMemory(draft)
         IN /\ Knows(m) /\ Ahead(m) /\ m.draft = draft
            /\ m.results = memory.results /\ m.evidence = memory.evidence
            /\ m.acquired = memory.acquired
<1> DEFINE draft == [recommendation |-> recommendation, status |-> status]
           m == DraftedMemory(draft)
<1>1. memory \in Memory
  BY DEF Knows
<1>2. draft \in Draft /\ draft # NoDraft /\ draft.status # "failed"
  BY DEF Draft, NoDraft, TerminalStatus, None
<1> HIDE DEF draft
<1>3. m \in Memory
  BY <1>1, <1>2 DEF DraftedMemory, Memory
<1>4. /\ m.draft = draft /\ m.results = memory.results /\ m.evidence = memory.evidence
      /\ m.acquired = memory.acquired /\ m.planned = memory.planned
      /\ m.retry = memory.retry
  BY <1>1 DEF DraftedMemory, Memory
<1> HIDE DEF m
<1>5. Knows(m) /\ Ahead(m)
  BY <1>2, <1>3, <1>4 DEF Knows, Ahead
<1> QED BY <1>4, <1>5 DEF m, draft

(* A run that was to be verified is verified on live sources only.         *)
LEMMA VerifiedIsLive ==
  ASSUME Knows(memory), request \in Requests, request.mode = "verified",
         \A c \in Range(Asked) : memory.acquired[c] # None,
         Scenario(memory) \notin Limited, Scenario(memory) # "verification_failed"
  PROVE  \A c \in Range(Asked) : memory.acquired[c] = "live"
<1> DEFINE acquired == {memory.acquired[c] : c \in Candidates}
<1>1. Scenario(memory) = VerifiedScenario(memory)
  BY DEF Scenario
<1>2. "unavailable" \notin acquired /\ "cache" \notin acquired
  BY <1>1 DEF VerifiedScenario, Limited
<1>3. Range(Asked) \subseteq Candidates
  BY AskedTyped
<1>4. memory.acquired \in [Candidates -> Acquisition \cup {None}]
  BY DEF Knows, Memory
<1> QED BY <1>2, <1>3, <1>4 DEF Acquisition

LEMMA ValidateServes ==
  ASSUME Knows(memory), request \in Requests, state.recovery_count \in Nat,
         NEW r \in Validate
  PROVE  /\ Knows(r.memory) /\ Ahead(r.memory)
         /\ r.answer.report = NoReport /\ r.answer.manifest = NoManifest
         /\ /\ r.answer.gate_outcome = "passed"
            /\ request.mode = "verified" =>
                 \A c \in Range(Asked) : memory.acquired[c] # None
            => Vouches(r.memory)
<1> DEFINE scenario == Scenario(memory)
           recommendation == IF scenario \in Limited THEN None ELSE Candidate
           evidenced == Range(Asked) \cap Reviewed \subseteq memory.evidence
           status == IF recommendation = None THEN "completed_with_limitations"
                     ELSE "completed"
           draft == [recommendation |-> recommendation, status |-> status]
           findings == Findings(memory.results, recommendation, memory.evidence,
                                state.recovery_count)
<1>1. ASSUME NEW kind \in {"error", "malformed"}, r = Serves(Escaping(kind), memory)
      PROVE  /\ r.memory = memory /\ r.answer.report = NoReport
             /\ r.answer.manifest = NoManifest /\ r.answer.gate_outcome = None
  BY <1>1 DEF Serves, Escaping, Blank
<1>2. \/ \E kind \in {"error", "malformed"} : r = Serves(Escaping(kind), memory)
      \/ /\ r = Judged(scenario, recommendation)
         /\ recommendation # None => evidenced /\ scenario # "verification_failed"
  BY DEF Validate
<1>3. recommendation \in Candidates \cup {None}
  BY CandidateIs
<1>4. /\ Knows(DraftedMemory(draft)) /\ Ahead(DraftedMemory(draft))
      /\ DraftedMemory(draft).draft = draft
      /\ DraftedMemory(draft).results = memory.results
      /\ DraftedMemory(draft).evidence = memory.evidence
      /\ DraftedMemory(draft).acquired = memory.acquired
  <2>1. status \in {"completed", "completed_with_limitations"}
    OBVIOUS
  <2> HIDE DEF status, recommendation
  <2> QED BY <1>3, <2>1, DraftedKnows
<1>5. CASE \E kind \in {"error", "malformed"} : r = Serves(Escaping(kind), memory)
  BY <1>1, <1>5, SameMemory DEF None
<1>6. ASSUME r = Judged(scenario, recommendation),
             recommendation # None => evidenced /\ scenario # "verification_failed"
      PROVE  /\ Knows(r.memory) /\ Ahead(r.memory)
             /\ r.answer.report = NoReport /\ r.answer.manifest = NoManifest
             /\ /\ r.answer.gate_outcome = "passed"
                /\ request.mode = "verified" =>
                     \A c \in Range(Asked) : memory.acquired[c] # None
                => Vouches(r.memory)
  <2>1. /\ r.answer.report = NoReport /\ r.answer.manifest = NoManifest
        /\ r.answer.gate_outcome = "passed" =>
             /\ OutcomeOf(findings) = "passed" /\ scenario \notin Limited
             /\ r.memory = DraftedMemory(draft)
        /\ r.memory = memory \/ r.memory = DraftedMemory(draft)
    <3> HIDE DEF scenario, recommendation
    <3> QED BY <1>6, JudgedIs
  <2>2. Knows(r.memory) /\ Ahead(r.memory)
    BY <1>4, <2>1, SameMemory
  <2>3. ASSUME r.answer.gate_outcome = "passed", draft.status = "completed",
               request.mode = "verified" =>
                 \A c \in Range(Asked) : memory.acquired[c] # None
        PROVE  Vouches(r.memory)
    <3>1. r.memory = DraftedMemory(draft) /\ findings = <<>> /\ scenario \notin Limited
      BY <2>1, <2>3 DEF OutcomeOf
    <3>2. recommendation # None /\ draft.recommendation = recommendation
      BY <2>3
    <3>3. recommendation = Candidate
      BY <3>1
    <3>4. evidenced /\ scenario # "verification_failed"
      BY <1>6, <3>2
    <3>5. \A i \in DOMAIN memory.results :
            /\ ~Broke(memory.results[i])
            /\ memory.results[i].status = "passed" =>
                 memory.results[i].version = "requested" /\ memory.results[i].artifacts
      <4>1. memory.results \in Seq(PocResult(Candidates))
        BY DEF Knows, Memory
      <4> HIDE DEF recommendation
      <4> QED BY <3>1, <4>1, FindingsTyped
    <3>6. PICK k \in DOMAIN memory.results :
            memory.results[k].candidate = recommendation /\ memory.results[k].status = "passed"
      BY <3>2, <3>3, CandidateIs
    <3>7. recommendation \in Reviewed
      BY <3>6 DEF Knows
    <3>8. request.mode = "verified" => \A c \in Range(Asked) : memory.acquired[c] = "live"
      BY <2>3, <3>1, <3>4, VerifiedIsLive
    <3> HIDE DEF recommendation, draft, scenario, evidenced
    <3> QED BY <1>4, <3>1, <3>2, <3>4, <3>5, <3>6, <3>7, <3>8 DEF Vouches, evidenced
  <2>4. ASSUME r.answer.gate_outcome = "passed", draft.status # "completed"
        PROVE  Vouches(r.memory)
    <3> HIDE DEF draft
    <3> QED BY <1>4, <2>1, <2>4 DEF Vouches
  <2> QED BY <2>1, <2>2, <2>3, <2>4
<1> QED BY <1>2, <1>5, <1>6

-----------------------------------------------------------------------------
(* What the services answer.                                               *)

(* An answer that settles no gate and hands out nothing.                   *)
Tacit(answer) ==
  /\ answer.report = NoReport /\ answer.manifest = NoManifest
  /\ answer.gate_outcome = None

LEMMA TacitAnswers ==
  /\ \A tool_calls, tokens :
       /\ Tacit(Metered(tool_calls, tokens))
       /\ \A failures : Tacit([Metered(tool_calls, tokens) EXCEPT !.failures = failures])
  /\ \A kind : Tacit(Escaping(kind))
  /\ \A tokens : Tacit([Blank EXCEPT !.tokens = tokens])
BY DEF Tacit, Metered, Escaping, Blank

LEMMA ServesGives ==
  ASSUME NEW answer, NEW m, NEW b
  PROVE  /\ Serves(answer, m).answer = answer /\ Serves(answer, m).memory = m
         /\ [Serves(answer, m) EXCEPT !.repeat = b].answer = answer
BY DEF Serves

LEMMA OutgoingTacit ==
  ASSUME NEW r \in ResearchFast \cup ResearchVerified \cup ExecutePoc
  PROVE  Tacit(r.answer)
<1>1. CASE r \in ResearchVerified
  BY <1>1, TacitAnswers, ServesGives DEF ResearchVerified
<1>2. CASE r \in ResearchFast
  <2>1. \/ \E m : r = Serves(Metered(Len(Asked), 160 * Len(Asked)), m)
        \/ \E k, failures, m :
             r = Serves([Metered(k, 0) EXCEPT !.failures = failures], m)
    BY <1>2, Zenon DEF ResearchFast
  <2>2. ASSUME NEW n, NEW k, NEW m, r = Serves(Metered(n, k), m) PROVE Tacit(r.answer)
    BY <2>2, TacitAnswers, ServesGives
  <2>3. ASSUME NEW k, NEW failures, NEW m,
               r = Serves([Metered(k, 0) EXCEPT !.failures = failures], m)
        PROVE  Tacit(r.answer)
    BY <2>3, TacitAnswers, ServesGives
  <2> QED BY <2>1, <2>2, <2>3
<1>3. CASE r \in ExecuteFast
  <2> DEFINE failures == <<[code |-> "dependency_conflict",
                            stage |-> "poc_execution", recoverable |-> TRUE,
                            action |-> "pin_version_and_rerun_poc"]>>
  <2> DEFINE conflict == Poc(Asked[1], "failed", "dependency_conflict", "none", FALSE)
             results  == [i \in DOMAIN Asked |->
                            IF Asked[i] \in Reviewed
                            THEN Poc(Asked[i], "passed", None,
                                     IF Asked[i] \in request.unmet THEN "other"
                                     ELSE "requested", TRUE)
                            ELSE Poc(Asked[i], "research_only",
                                     "poc_recipe_unsupported", "none", FALSE)]
             made  == Cardinality({i \in DOMAIN Asked : Asked[i] \in Reviewed})
             again == FastScenario = "single_recovery" /\ "failed" \in memory.history
  <2>1. \/ r = Serves([Metered(1, 100) EXCEPT !.failures = failures],
                       Executed(<<conflict>>, NoRetry))
        \/ r = [Serves(Metered(made, 100 * Max({1, made})), Executed(results, NoRetry))
                   EXCEPT !.repeat = again]
    BY <1>3, Zenon DEF ExecuteFast
  <2>2. ASSUME NEW n, NEW k, NEW m, NEW b,
               r = [Serves(Metered(n, k), m) EXCEPT !.repeat = b]
        PROVE  Tacit(r.answer)
    BY <2>2, TacitAnswers, ServesGives
  <2> HIDE DEF failures, conflict, results, made, again
  <2>3. ASSUME NEW m, r = Serves([Metered(1, 100) EXCEPT !.failures = failures], m)
        PROVE  Tacit(r.answer)
    BY <2>3, TacitAnswers, ServesGives
  <2> QED BY <2>1, <2>2, <2>3
<1>4. CASE r \in AttemptVerified
  <2>1. PICK results, stage : r = Attempted(results, stage)
    BY <1>4 DEF AttemptVerified
  <2>2. \E n, failures, m : r = Serves([Metered(n, 0) EXCEPT !.failures = failures], m)
    BY <2>1, Zenon DEF Attempted
  <2> QED BY <2>2, TacitAnswers, ServesGives
<1>5. CASE r \in RecoverPoc
  <2>1. \E m : r = [Serves(Metered(1, 0), m) EXCEPT !.repeat = TRUE]
    BY <1>5, Zenon DEF RecoverPoc
  <2> QED BY <2>1, TacitAnswers, ServesGives
<1> QED BY <1>1, <1>2, <1>3, <1>4, <1>5 DEF ExecutePoc

(* What a call of the services leaves: a memory the checkpoint of its      *)
(* stage can rely on, and an answer that says no more than the memory.     *)
Sound(s, r) ==
  /\ Knows(r.memory) /\ Ahead(r.memory)
  /\ r.answer.kind = "result" => Worth(s, r.memory)
  /\ s \in {"review_report", "publish"} => r.memory = memory
  /\ r.answer.report # NoReport => memory.draft # NoDraft
  /\ r.answer.manifest # NoManifest =>
       s = "publish" /\ r.answer.manifest.terminal_status = memory.draft.status
  /\ s # "validate" => r.answer.gate_outcome = None
  /\ /\ r.answer.gate_outcome = "passed"
     /\ request.mode = "verified" =>
          \A c \in Range(Asked) : memory.acquired[c] # None
     => Vouches(r.memory)

LEMMA TacitIsSound ==
  ASSUME NEW s \in StageNodes, NEW r, Knows(r.memory), Ahead(r.memory), Tacit(r.answer),
         r.answer.kind = "result" => Worth(s, r.memory),
         s \in {"review_report", "publish"} => r.memory = memory
  PROVE  Sound(s, r)
BY DEF Sound, Tacit, None

LEMMA ServedIsSound ==
  ASSUME Knows(memory), request \in Requests, state.recovery_count \in Nat,
         NEW s \in StageNodes, NEW r \in Served(s)
  PROVE  Sound(s, r)
<1>1. CASE r \notin Answered(s)
  <2>1. PICK kind \in {"deadline", "malformed"} : r = Serves(Escaping(kind), memory)
    BY <1>1 DEF Served
  <2>2. r.memory = memory /\ Tacit(r.answer) /\ r.answer.kind # "result"
    BY <2>1, TacitAnswers DEF Serves, Escaping, Blank
  <2> QED BY <2>2, SameMemory, TacitIsSound
<1>2. ASSUME NEW answer, Tacit(answer), r = Serves(answer, memory),
             s \notin {"research_candidates", "plan_poc", "execute_poc"}
      PROVE  Sound(s, r)
  <2>1. r.memory = memory /\ r.answer = answer
    BY <1>2, ServesGives
  <2> QED BY <1>2, <2>1, SameMemory, TacitIsSound DEF Worth
<1>3. CASE r \in Answered(s) /\ s = "research_candidates"
  <2>1. r \in ResearchFast \cup ResearchVerified
        /\ (request.mode = "verified" => r \in ResearchVerified)
    <3>1. request.mode = "verified" => request.mode # "fast"
      OBVIOUS
    <3> QED BY <1>3, <3>1 DEF Answered
  <2>2. /\ Knows(r.memory) /\ Ahead(r.memory)
        /\ r \in ResearchVerified => \A c \in Range(Asked) : r.memory.acquired[c] # None
    BY <2>1, ResearchServes
  <2>3. Tacit(r.answer)
    BY <2>1, OutgoingTacit
  <2> QED BY <1>3, <2>1, <2>2, <2>3, TacitIsSound DEF Worth
<1>4. CASE r \in Answered(s) /\ s = "plan_poc"
  <2>1. r = Serves(Metered(0, 60), [memory EXCEPT !.planned = TRUE])
    BY <1>4 DEF Answered, PlanPoc
  <2> DEFINE m == [memory EXCEPT !.planned = TRUE]
  <2>2. memory \in Memory
    BY DEF Knows
  <2>3. m \in Memory /\ m.acquired = memory.acquired /\ m.planned
        /\ m.results = memory.results /\ m.draft = memory.draft
        /\ m.retry = memory.retry
    BY <2>2 DEF Memory
  <2>4. r.memory = m /\ Tacit(r.answer)
    BY <2>1, TacitAnswers, ServesGives
  <2> HIDE DEF m
  <2>5. Knows(r.memory) /\ Ahead(r.memory) /\ Worth(s, r.memory)
    BY <1>4, <2>3, <2>4 DEF Knows, Ahead, Worth
  <2> QED BY <1>4, <2>4, <2>5, TacitIsSound
<1>5. CASE r \in Answered(s) /\ s = "execute_poc"
  <2>1. r \in ExecutePoc
    BY <1>5 DEF Answered
  <2>2. \/ r \in ExecuteFast \/ r \in AttemptVerified
        \/ r \in RecoverPoc /\ memory.retry # NoRetry
    BY <2>1 DEF ExecutePoc
  <2>3. Knows(r.memory) /\ Ahead(r.memory) /\ r.memory.results # <<>>
    BY <2>2, FastKnows, AttemptKnows, RerunKnows
  <2>4. Tacit(r.answer)
    BY <2>1, OutgoingTacit
  <2> QED BY <1>5, <2>3, <2>4, TacitIsSound DEF Worth
<1>6. CASE r \in Answered(s) /\ s = "validate"
  <2>1. r \in Validate
    BY <1>6 DEF Answered
  <2> QED BY <1>6, <2>1, ValidateServes DEF Sound, Worth
<1>7. CASE r \in Answered(s) /\ s = "review_report"
  <2>1. r = Serves(IF memory.draft = NoDraft THEN Escaping("malformed")
                   ELSE [Metered(0, 80) EXCEPT !.report = Drafted], memory)
    BY <1>7 DEF Answered, ReviewReport, HandOut
  <2>2. CASE memory.draft = NoDraft
    BY <1>2, <1>7, <2>1, <2>2, TacitAnswers
  <2>3. CASE memory.draft # NoDraft
    <3> DEFINE answer == [Metered(0, 80) EXCEPT !.report = Drafted]
    <3>1. r.memory = memory /\ r.answer = answer
      BY <2>1, <2>3, ServesGives
    <3>2. answer.manifest = NoManifest /\ answer.gate_outcome = None
      BY DEF Metered, Blank
    <3> HIDE DEF answer
    <3> QED BY <1>7, <2>3, <3>1, <3>2, SameMemory DEF Sound, Worth, None
  <2> QED BY <2>2, <2>3
<1>8. CASE r \in Answered(s) /\ s = "publish"
  <2> DEFINE manifest == [run_id |-> RunId, report_id |-> TheReport,
                          terminal_status |-> memory.draft.status]
             answer == [Metered(0, 40) EXCEPT !.manifest = manifest]
  <2>1. r = Serves(IF memory.draft = NoDraft THEN Escaping("malformed") ELSE answer,
                   memory)
    BY <1>8 DEF Answered, PublishManifest, HandOut
  <2>2. CASE memory.draft = NoDraft
    BY <1>2, <1>8, <2>1, <2>2, TacitAnswers
  <2>3. CASE memory.draft # NoDraft
    <3>1. r.memory = memory /\ r.answer = answer
      BY <2>1, <2>3, ServesGives
    <3>2. answer.manifest = manifest /\ answer.gate_outcome = None /\ answer.report = NoReport
      BY DEF Metered, Blank
    <3>3. manifest.terminal_status = memory.draft.status
      OBVIOUS
    <3> HIDE DEF answer, manifest
    <3> QED BY <1>8, <2>3, <3>1, <3>2, <3>3, SameMemory DEF Sound, Worth, None
  <2> QED BY <2>2, <2>3
<1>9. CASE /\ r \in Answered(s)
           /\ s \in {"normalize_request", "plan_research", "select_context"}
  <2>1. \/ r = Serves([Blank EXCEPT !.tokens = 80], memory)
        \/ r = Serves(Metered(0, 20), memory)
    BY <1>9 DEF Answered
  <2> QED BY <1>2, <1>9, <2>1, TacitAnswers
<1> QED BY <1>1, <1>3, <1>4, <1>5, <1>6, <1>7, <1>8, <1>9 DEF StageNodes

-----------------------------------------------------------------------------
(* The memory fits the checkpoint.                                         *)

(* The stages of the checkpoint.                                           *)
Done == Range(state.checkpoint.completed)

(* The memory holds what the completed stages worked out and what the      *)
(* artifacts were made from.                                               *)
Fits ==
  /\ \A s \in Done : Worth(s, memory)
  /\ artifacts.report # NoReport => memory.draft # NoDraft
  /\ artifacts.manifest # NoManifest =>
       /\ next \in {"terminal"} \cup Outside
       /\ artifacts.manifest.terminal_status = memory.draft.status

(* Whatever runs after the research runs on a completed research.          *)
PastResearch ==
  next \in {"select_context", "plan_poc", "execute_poc", "validate", "recover_once",
            "review_report", "publish", "terminal"} =>
    "research_candidates" \in Done

(* A gate that passed is not reopened, and vouches for the draft.          *)
PassedIsVouched ==
  state.gate_outcome = "passed" =>
    /\ next \in {"review_report", "publish", "terminal"} \cup Outside
    /\ Vouches(memory)

(* The inductive invariant about the memory and its checkpoint.            *)
MemInv ==
  /\ request \in Requests /\ workspace = memory /\ Knows(memory)
  /\ Fits /\ PastResearch /\ PassedIsVouched

(* What an answer hands out is all that the artifacts gain.                *)
Gains(o) ==
  /\ artifacts'.report # NoReport =>
       artifacts.report # NoReport \/ o.report # NoReport
  /\ artifacts'.manifest # NoManifest =>
       artifacts'.manifest \in {artifacts.manifest, o.manifest}

LEMMA MergeGains ==
  ASSUME NEW a \in StageArtifacts, NEW o
  PROVE  /\ Merge(a, o).report \in {a.report, o.report}
         /\ Merge(a, o).manifest \in {a.manifest, o.manifest}
BY DEF Merge, StageArtifacts

LEMMA StageGains ==
  ASSUME TypeOK, NEW s \in StageNodes, NEW o \in Outcome, StageAnswered(s, o)
  PROVE  Gains(o)
<1>1. artifacts' \in {artifacts, Merge(artifacts, o)}
  BY DEF StageAnswered, StageResult, StageMalformed, StageDeadline, StageRaises, Commit
<1>2. artifacts \in StageArtifacts
  BY DEF TypeOK
<1> QED BY <1>1, <1>2, MergeGains DEF Gains

LEMMA LinkedGains ==
  ASSUME TypeOK, NEW decision \in Decision
  PROVE  /\ Linked(decision) \in StageArtifacts
         /\ Linked(decision).report = artifacts.report
         /\ Linked(decision).manifest = artifacts.manifest
BY DEF TypeOK, Linked, StageArtifacts

LEMMA RecoveryGains ==
  ASSUME TypeOK, NEW decision \in Decision, NEW o \in Outcome,
         RecoveryAnswered(o, decision)
  PROVE  Gains(o)
<1>1. artifacts' \in {artifacts, Linked(decision), Merge(Linked(decision), o)}
  BY DEF RecoveryAnswered, RecoveryResult, RecoveryMalformed, RecoveryDeadline,
         StageRaises, Commit
<1>2. artifacts \in StageArtifacts
  BY DEF TypeOK
<1>3. /\ artifacts'.report \in {artifacts.report, o.report}
      /\ artifacts'.manifest \in {artifacts.manifest, o.manifest}
  BY <1>1, <1>2, LinkedGains, MergeGains
<1> QED BY <1>3 DEF Gains

LEMMA AppendRange ==
  ASSUME NEW S, NEW q \in Seq(S), NEW e \in S
  PROVE  Range(Append(q, e)) = Range(q) \cup {e}
<1>1. /\ DOMAIN q = 1..Len(q) /\ DOMAIN Append(q, e) = 1..(Len(q) + 1)
      /\ Len(q) \in Nat
      /\ \A i \in 1..Len(q) : Append(q, e)[i] = q[i]
      /\ Append(q, e)[Len(q) + 1] = e
  BY AppendProperties, LenProperties
<1>2. Range(Append(q, e)) \subseteq Range(q) \cup {e}
  BY <1>1 DEF Range
<1>3. \A i \in 1..Len(q) : q[i] \in Range(Append(q, e))
  <2> TAKE i \in 1..Len(q)
  <2>1. i \in DOMAIN Append(q, e) /\ Append(q, e)[i] = q[i]
    BY <1>1
  <2> QED BY <2>1 DEF Range
<1>4. e \in Range(Append(q, e))
  <2>1. Len(q) + 1 \in DOMAIN Append(q, e)
    BY <1>1
  <2> QED BY <1>1, <2>1 DEF Range
<1> QED BY <1>1, <1>2, <1>3, <1>4 DEF Range

(* The checkpoint's stages, before and after.                              *)
LEMMA DoneGrows ==
  ASSUME TypeOK, NEW s \in ResearchStage
  PROVE  (Keeps => Done' = Done) /\ (GrowsBy(s) => Done' = Done \cup {s})
<1>1. state.checkpoint.completed \in Seq(ResearchStage)
  BY DEF TypeOK, ResearchState, Checkpoint
<1>2. Range(Append(state.checkpoint.completed, s)) = Done \cup {s}
  BY <1>1, AppendRange DEF Done
<1>3. Done' = Range(state'.checkpoint.completed)
  BY DEF Done
<1> QED BY <1>2, <1>3 DEF Keeps, GrowsBy, Done

LEMMA WorthLasts ==
  ASSUME request \in Requests, NEW m, Ahead(m), NEW s, Worth(s, memory)
  PROVE  Worth(s, m)
BY AskedTyped DEF Worth, Ahead

(* A call whose answer is sound leaves a memory that fits the checkpoint.  *)
LEMMA FitsStep ==
  ASSUME TypeOK, request \in Requests, Fits, NEW s \in ResearchStage, NEW o,
         request' = request, Ahead(memory'),
         Keeps \/ (GrowsBy(s) /\ Worth(s, memory')),
         Gains(o), o.report # NoReport => memory.draft # NoDraft,
         artifacts.manifest = NoManifest,
         o.manifest # NoManifest =>
           /\ next' \in {"terminal"} \cup Outside
           /\ o.manifest.terminal_status = memory'.draft.status
  PROVE  Fits'
<1>1. \A d \in Done' : Worth(d, memory')
  <2> TAKE d \in Done'
  <2>1. d \in Done \/ (d = s /\ Worth(s, memory'))
    BY DoneGrows
  <2>2. d \in Done => Worth(d, memory')
    BY WorthLasts DEF Fits
  <2> QED BY <2>1, <2>2
<1>2. \A d \in Done' : Worth(d, memory)'
  BY <1>1 DEF Worth, Asked
<1>3. artifacts'.report # NoReport => memory'.draft # NoDraft
  BY DEF Gains, Fits, Ahead
<1>4. artifacts'.manifest # NoManifest =>
        /\ next' \in {"terminal"} \cup Outside
        /\ artifacts'.manifest.terminal_status = memory'.draft.status
  BY DEF Gains
<1> QED BY <1>2, <1>3, <1>4 DEF Fits

(* What is left of a memory by a call that is remembered or not.           *)
LEMMA Remembered ==
  ASSUME MemInv, NEW s \in StageNodes, NEW r, Sound(s, r), Remember(r)
  PROVE  /\ workspace' = memory' /\ Knows(memory') /\ Ahead(memory')
         /\ r.answer.kind = "result" => memory' = r.memory /\ Worth(s, memory')
         /\ s \in {"review_report", "publish"} => memory' = memory
<1>1. CASE r.answer.kind = "result"
  BY <1>1 DEF Remember, Saved, Sound
<1>2. CASE r.answer.kind # "result"
  BY <1>2, SameMemory DEF Remember, MemInv
<1> QED BY <1>1, <1>2

LEMMA StageRemembers ==
  ASSUME TypeOK, Running, MemInv, NEW s \in StageNodes, Stage(s)
  PROVE  MemInv'
<1>1. PICK r \in Served(s) : StageAnswered(s, r.answer) /\ Remember(r)
  BY DEF Stage
<1> DEFINE o == r.answer
<1>2. o \in Outcome /\ s \in ResearchStage
  BY DEF Served, StageNodes, ResearchStage
<1>3. next = s /\ request' = request
  BY DEF Stage, MayStart
<1>4. Sound(s, r)
  BY ServedIsSound DEF MemInv, TypeOK, ResearchState
<1>5. /\ workspace' = memory' /\ Knows(memory') /\ Ahead(memory')
      /\ o.kind = "result" => memory' = r.memory /\ Worth(s, memory')
      /\ s \in {"review_report", "publish"} => memory' = memory
  BY <1>1, <1>4, Remembered
<1>6. Leaves \/ StaysOpen(s, o)
  <2>1. PICK late \in Later :
          \/ StageResult(s, o, late) \/ StageMalformed(s, o)
          \/ StageDeadline(s, o) \/ StageRaises(o)
    BY <1>1 DEF StageAnswered
  <2>2. late \in BOOLEAN
    BY LaterTyped
  <2> HIDE DEF o
  <2> QED BY <1>2, <2>1, <2>2, StageMoves
<1>7. Keeps \/ (GrowsBy(s) /\ o.kind = "result")
  BY <1>1, <1>2, StageGrows
<1>8. Gains(o)
  BY <1>1, <1>2, StageGains
<1>9. artifacts.manifest = NoManifest
  BY <1>3 DEF MemInv, Fits, Outside, StageNodes
<1> HIDE DEF o
<1>10. s = "publish" => next' \in {"terminal"} \cup Outside
  <2>1. ASSUME StaysOpen(s, o), s = "publish" PROVE next' = "terminal"
    <3>1. state'.stage = "publish" /\ next' = Route("publish", state')
      BY <2>1 DEF StaysOpen, Accepted
    <3> QED BY <3>1 DEF Route, Following
  <2> QED BY <1>6, <2>1 DEF Leaves
<1>11. Fits'
  <2>1. o.manifest # NoManifest =>
          /\ next' \in {"terminal"} \cup Outside
          /\ o.manifest.terminal_status = memory'.draft.status
    BY <1>4, <1>5, <1>10 DEF Sound, o
  <2>2. o.report # NoReport => memory.draft # NoDraft
    BY <1>4 DEF Sound, o
  <2>3. Keeps \/ (GrowsBy(s) /\ Worth(s, memory'))
    BY <1>5, <1>7
  <2> QED BY <1>2, <1>3, <1>5, <1>8, <1>9, <2>1, <2>2, <2>3, FitsStep DEF MemInv
<1>12. PastResearch'
  <2>1. CASE Leaves
    BY <2>1 DEF Leaves, Outside, PastResearch
  <2>2. CASE StaysOpen(s, o)
    <3>1. GrowsBy(s)
      BY <2>2 DEF StaysOpen, Accepted, GrowsBy
    <3>2. Done' = Done \cup {s}
      BY <1>2, <3>1, DoneGrows
    <3>3. s \in {"normalize_request", "plan_research"} =>
            next' \in {"plan_research", "research_candidates", "end"}
      BY <2>2 DEF StaysOpen, Route, Following
    <3> QED BY <1>3, <3>2, <3>3 DEF MemInv, PastResearch, StageNodes
  <2> QED BY <1>6, <2>1, <2>2
<1>13. PassedIsVouched'
  <2> SUFFICES ASSUME state'.gate_outcome = "passed"
               PROVE  /\ next' \in {"review_report", "publish", "terminal"} \cup Outside
                      /\ Vouches(memory)'
    BY DEF PassedIsVouched
  <2>1. Vouches(memory)' <=> Vouches(memory')
    BY <1>3 DEF Vouches, Asked
  <2>2. state.gate_outcome = "passed" =>
          s \in {"review_report", "publish"} /\ Vouches(memory')
    BY <1>3, <1>5 DEF MemInv, PassedIsVouched, Outside, StageNodes
  <2>3. CASE Leaves
    BY <2>1, <2>2, <2>3 DEF Leaves
  <2>4. CASE StaysOpen(s, o)
    <3>1. state'.gate_outcome = IF o.gate_outcome = None THEN state.gate_outcome
                                ELSE o.gate_outcome
      BY <2>4 DEF StaysOpen, Accepted
    <3>2. state'.stage = s /\ s # "terminal" /\ o.kind = "result"
      BY <2>4 DEF StaysOpen, Accepted, Acceptable, StageNodes
    <3>3. CASE o.gate_outcome = None
      <4>1. s \in {"review_report", "publish"} /\ Vouches(memory')
        BY <2>2, <3>1, <3>3
      <4>2. next' \in {"publish", "terminal"}
        BY <2>4, <3>2, <4>1 DEF StaysOpen, Route, Following
      <4> QED BY <2>1, <4>1, <4>2
    <3>4. CASE o.gate_outcome # None
      <4>1. s = "validate" /\ o.gate_outcome = "passed"
        BY <1>4, <3>1, <3>4 DEF Sound, o
      <4>2. next' = "review_report"
        BY <2>4, <3>2, <4>1 DEF StaysOpen, Route, RouteAfterValidation
      <4>3. "research_candidates" \in Done
        BY <1>3, <4>1 DEF MemInv, PastResearch
      <4>4. request.mode = "verified" => \A c \in Range(Asked) : memory.acquired[c] # None
        BY <4>3 DEF MemInv, Fits, Worth
      <4>5. Vouches(r.memory)
        BY <1>4, <4>1, <4>4 DEF Sound, o
      <4> QED BY <1>5, <2>1, <3>2, <4>2, <4>5
    <3> QED BY <3>3, <3>4
  <2> QED BY <1>6, <2>3, <2>4
<1> QED BY <1>3, <1>5, <1>11, <1>12, <1>13 DEF MemInv

-----------------------------------------------------------------------------
(* The memory fits the checkpoint after recoveries, deaths and restarts.   *)

(* The table of what may be retried never names validation or publishing.  *)
LEMMA RepeatedStage ==
  ASSUME NEW s \in ResearchState, RecoveryDecision(s).should_recover
  PROVE  RecoveryDecision(s).repeated_stage
           \in {"research_candidates", "execute_poc", "review_report"}
<1> DEFINE f == s.failures[Len(s.failures)]
<1>1. s.failures # <<>>
  BY DEF RecoveryDecision, NoDecision
<1>2. Permitted(f, s.recovery_count, s.checkpoint.sequence)
  BY <1>1 DEF RecoveryDecision, Decide
<1>3. RecoveryDecision(s).repeated_stage = StageOfFailure[f.stage]
  BY <1>1, <1>2 DEF RecoveryDecision, Decide
<1>4. f.stage \in {"research", "poc_execution", "reporting"}
  BY <1>2 DEF Permitted, Allowed
<1> HIDE DEF f
<1> QED BY <1>3, <1>4 DEF StageOfFailure, FailureStage

LEMMA RecoverRemembers ==
  ASSUME TypeOK, MemInv, Recover
  PROVE  MemInv'
<1> DEFINE decision == RecoveryDecision(state)
           s == decision.repeated_stage
<1>1. /\ decision \in Decision /\ s \in StageNodes
      /\ s \in {"research_candidates", "execute_poc", "review_report"}
  BY DecisionTyped, RepeatedStage DEF Recover, TypeOK
<1>2. PICK r \in Served(s) : RecoveryAnswered(r.answer, decision) /\ Remember(r)
  BY DEF Recover
<1>3. next = "recover_once" /\ request' = request
  BY DEF Recover
<1> DEFINE o == r.answer
<1>4. o \in Outcome /\ "recover_once" \in ResearchStage
  BY DEF Served, ResearchStage
<1> HIDE DEF decision, s
<1>5. Sound(s, r)
  BY <1>1, ServedIsSound DEF MemInv, TypeOK, ResearchState
<1>6. workspace' = memory' /\ Knows(memory') /\ Ahead(memory')
  BY <1>1, <1>2, <1>5, Remembered
<1>7. \/ Leaves
      \/ next' = "validate" /\ state' = Counted(Accepted(state, "recover_once", o))
  <2>1. PICK late \in Later :
          \/ RecoveryResult(o, late, decision) \/ RecoveryMalformed(o, decision)
          \/ RecoveryDeadline(o, decision) \/ StageRaises(o)
    BY <1>2 DEF RecoveryAnswered
  <2>2. late \in BOOLEAN
    BY LaterTyped
  <2> HIDE DEF o
  <2> QED BY <1>1, <1>4, <2>1, <2>2, RecoveryMoves DEF s
<1>8. Keeps \/ GrowsBy("recover_once")
  BY <1>1, <1>2, <1>4, RecoveryGrows DEF s
<1>9. Gains(o)
  BY <1>1, <1>2, <1>4, RecoveryGains
<1>10. artifacts.manifest = NoManifest /\ state.gate_outcome # "passed"
  BY <1>3 DEF MemInv, Fits, PassedIsVouched, Outside
<1>11. /\ o.manifest = NoManifest /\ o.gate_outcome = None
       /\ o.report # NoReport => memory.draft # NoDraft
  BY <1>1, <1>5 DEF Sound, o
<1> HIDE DEF o
<1>12. Fits'
  <2>1. Worth("recover_once", memory')
    BY DEF Worth
  <2> QED BY <1>3, <1>4, <1>6, <1>8, <1>9, <1>10, <1>11, <2>1, FitsStep DEF MemInv
<1>13. PastResearch'
  <2>1. Done \subseteq Done'
    BY <1>4, <1>8, DoneGrows
  <2>2. "research_candidates" \in Done
    BY <1>3 DEF MemInv, PastResearch
  <2> QED BY <2>1, <2>2 DEF PastResearch
<1>14. state'.gate_outcome # "passed"
  <2>1. CASE Leaves
    BY <1>10, <2>1 DEF Leaves
  <2>2. CASE state' = Counted(Accepted(state, "recover_once", o))
    <3> DEFINE t == Accepted(state, "recover_once", o)
    <3>1. t \in ResearchState
      BY <1>4, AcceptedKeeps DEF TypeOK, o
    <3>2. t.gate_outcome = state.gate_outcome
      BY <1>11 DEF Accepted
    <3> HIDE DEF t
    <3>3. Counted(t).gate_outcome = t.gate_outcome
      BY <3>1, CountedKeeps
    <3> QED BY <1>10, <2>2, <3>2, <3>3 DEF t
  <2> QED BY <1>7, <2>1, <2>2
<1> QED BY <1>3, <1>6, <1>12, <1>13, <1>14 DEF MemInv, PassedIsVouched

(* A step that leaves the memory and what the graph has stored alone.      *)
LEMMA Untouched ==
  ASSUME MemInv, UNCHANGED <<state, artifacts, memory, workspace, request>>,
         next' = next \/ next' \in Outside
  PROVE  MemInv'
<1>1. Done' = Done /\ (Vouches(memory)' <=> Vouches(memory))
  BY DEF Done, Vouches, Asked
<1>2. Fits'
  BY <1>1 DEF MemInv, Fits, Worth, Asked
<1>3. PastResearch' /\ PassedIsVouched'
  BY <1>1 DEF MemInv, PastResearch, PassedIsVouched, Outside
<1>4. Knows(memory')
  BY DEF MemInv
<1> QED BY <1>2, <1>3, <1>4 DEF MemInv

LEMMA QuietRemembers ==
  ASSUME TypeOK, MemInv, Quiet
  PROVE  MemInv'
<1>0. UNCHANGED <<memory, workspace, request>>
  BY DEF Quiet, runVars
<1>1. next' \in Outside
  BY RefuseLeaves, LateRecoveryLeaves, TerminalNodeEnds DEF Quiet, Leaves, Outside
<1>2. Keeps
  BY QuietKeeps
<1>3. artifacts'.report = artifacts.report /\ artifacts'.manifest = artifacts.manifest
  <2>1. \/ artifacts' = artifacts
        \/ RecoveryDecision(state).should_recover /\ artifacts' = Linked(RecoveryDecision(state))
    BY DEF Quiet, RefuseStage, StageStartsLate, RecoveryStartsLate, TerminalNode, Commit
  <2>2. RecoveryDecision(state).should_recover => RecoveryDecision(state) \in Decision
    BY DecisionTyped DEF TypeOK
  <2> QED BY <2>1, <2>2, LinkedGains
<1>4. state'.gate_outcome = "passed" => state.gate_outcome = "passed"
  <2>1. ASSUME NEW s \in StageNodes, RefuseStage(s) \/ StageStartsLate(s)
        PROVE  state'.gate_outcome = "passed" => state.gate_outcome = "passed"
    BY <2>1, RefuseLeaves DEF Leaves
  <2>2. CASE RecoveryStartsLate
    BY <2>2, LateRecoveryLeaves DEF Leaves
  <2>3. CASE TerminalNode
    <3> DEFINE final == [state EXCEPT !.stage = "terminal",
                                      !.gate_outcome = IF @ = None THEN "failed"
                                                       ELSE @,
                                      !.terminal_status = StatusOf(state.gate_outcome)]
    <3>1. \/ state' = state \/ state' = TerminalizeInvalidArtifacts(state)
          \/ state' = final
      BY <2>3, Zenon DEF TerminalNode, Commit
    <3>2. TerminalizeInvalidArtifacts(state).gate_outcome = "failed"
      BY FailedWithEnds DEF TypeOK, TerminalizeInvalidArtifacts
    <3>3. final.gate_outcome = IF state.gate_outcome = None THEN "failed"
                               ELSE state.gate_outcome
      BY DEF TypeOK, ResearchState
    <3> HIDE DEF final
    <3> QED BY <3>1, <3>2, <3>3
  <2> QED BY <2>1, <2>2, <2>3 DEF Quiet
<1>5. Done' = Done /\ (Vouches(memory)' <=> Vouches(memory))
  BY <1>0, <1>2 DEF Keeps, Done, Vouches, Asked
<1>6. Fits'
  BY <1>0, <1>1, <1>3, <1>5 DEF MemInv, Fits, Worth, Asked
<1>7. PastResearch' /\ PassedIsVouched'
  BY <1>0, <1>1, <1>4, <1>5 DEF MemInv, PastResearch, PassedIsVouched, Outside
<1>8. Knows(memory')
  BY <1>0 DEF MemInv
<1> QED BY <1>0, <1>6, <1>7, <1>8 DEF MemInv

(* A restart takes up the memory of the workspace.                         *)
LEMMA RestartRemembers ==
  ASSUME TypeOK, MemInv, request' = request,
         Resumes(TRUE) \/ Resumes(FALSE),
         \/ UNCHANGED <<saved, workspace>>
         \/ /\ Calling
            /\ \E r \in Served(Called) : saved' = TRUE /\ workspace' = r.memory
  PROVE  MemInv'
<1>1. memory' = workspace'
  BY DEF Resumes
<1>2. Calling => Called \in StageNodes
  BY DecisionTyped DEF Calling, Called, TypeOK, StageNodes
<1>3. \/ memory' = memory
      \/ /\ Calling
         /\ \E r \in Served(Called) : Sound(Called, r) /\ memory' = r.memory
  BY <1>1, <1>2, ServedIsSound DEF MemInv, TypeOK, ResearchState
<1>4. Knows(memory') /\ Ahead(memory')
  BY <1>3, SameMemory DEF Sound, MemInv
<1>5. CASE saved'
  <2>1. UNCHANGED <<next, state, artifacts>>
    BY <1>5 DEF Resumes, Replay, vars
  <2>2. CASE memory' = memory
    BY <1>1, <2>1, <2>2, Untouched DEF MemInv
  <2>3. ASSUME Calling, NEW r \in Served(Called), Sound(Called, r), memory' = r.memory
        PROVE  MemInv'
    <3>1. next \in StageNodes \cup {"recover_once"}
      BY <2>3 DEF Calling
    <3>2. artifacts.manifest = NoManifest
      BY <3>1 DEF MemInv, Fits, Outside, StageNodes
    <3>3. Done' = Done
      BY <2>1 DEF Done
    <3>4. Fits'
      <4>1. \A d \in Done' : Worth(d, memory')
        BY <1>4, <3>3, WorthLasts DEF MemInv, Fits
      <4>2. \A d \in Done' : Worth(d, memory)'
        BY <4>1 DEF Worth, Asked
      <4> QED BY <1>4, <2>1, <3>2, <4>2 DEF MemInv, Fits, Ahead
    <3>5. state.gate_outcome = "passed" => memory' = memory
      <4>1. state.gate_outcome = "passed" => next \in {"review_report", "publish"}
        BY <3>1 DEF MemInv, PassedIsVouched, Outside, StageNodes
      <4> QED BY <2>3, <4>1 DEF Called, Sound
    <3>6. PassedIsVouched'
      BY <2>1, <3>5 DEF MemInv, PassedIsVouched, Vouches, Asked
    <3>7. PastResearch'
      BY <2>1, <3>3 DEF MemInv, PastResearch
    <3> QED BY <1>1, <1>4, <3>4, <3>6, <3>7 DEF MemInv
  <2> QED BY <1>3, <2>2, <2>3
<1>6. CASE ~saved'
  <2>1. Afresh
    BY <1>6 DEF Resumes
  <2>2. /\ next' = "normalize_request" /\ state'.gate_outcome = None
        /\ state'.checkpoint.completed = <<>>
        /\ artifacts'.report = NoReport /\ artifacts'.manifest = NoManifest
    BY <2>1 DEF Afresh, FirstCheckpoint
  <2>3. Done' = {}
    BY <2>2 DEF Done, Range
  <2>4. Fits' /\ PastResearch' /\ PassedIsVouched'
    BY <2>2, <2>3 DEF Fits, PastResearch, PassedIsVouched, None
  <2> QED BY <1>1, <1>4, <2>4 DEF MemInv
<1> QED BY <1>5, <1>6

LEMMA MemStep ==
  TypeOK /\ Running /\ MemInv /\ [RunNext]_allVars => MemInv'
<1> SUFFICES ASSUME TypeOK, Running, MemInv, [RunNext]_allVars PROVE MemInv'
  OBVIOUS
<1>1. ASSUME NEW s \in StageNodes, Stage(s) PROVE MemInv'
  BY <1>1, StageRemembers
<1>2. CASE Recover
  BY <1>2, RecoverRemembers
<1>3. CASE Quiet
  BY <1>3, QuietRemembers
<1>4. CASE FailRun \/ Release
  <2>1. UNCHANGED <<memory, workspace, request>>
    BY <1>4 DEF FailRun, Release
  <2>2. \/ UNCHANGED vars
        \/ next' = "raised" /\ UNCHANGED <<state, artifacts>>
    BY <1>4 DEF FailRun, Release, NodeIsOver, StageAnswered, RecoveryAnswered,
                StageResult, StageMalformed, StageDeadline, StageRaises,
                RecoveryResult, RecoveryMalformed, RecoveryDeadline, Acceptable,
                Escaping, Blank
  <2> QED BY <2>1, <2>2, Untouched DEF vars, Outside
<1>5. CASE TimePasses \/ Publish \/ Terminate \/ NodeRaises \/ PublishRaises
           \/ TerminateRaises \/ Over \/ UNCHANGED allVars
  BY <1>5, Untouched
     DEF TimePasses, DeadlinePasses, Publish, Terminate, NodeRaises,
         PublishRaises, TerminateRaises, Over, allVars, runVars, vars
<1>6. CASE DieInNode
  BY <1>6, RestartRemembers DEF DieInNode, Dies
<1>7. CASE DieBetween
  <2>1. Resumes(TRUE) \/ Resumes(FALSE)
    BY <1>7 DEF DieBetween
  <2> QED BY <1>7, <2>1, RestartRemembers DEF DieBetween, Dies
<1> QED BY <1>1, <1>2, <1>3, <1>4, <1>5, <1>6, <1>7 DEF RunNext, Work

LEMMA MemInvAlways == RunSpec => []MemInv
<1>1. RunInit => MemInv
  <2> SUFFICES ASSUME RunInit PROVE MemInv
    OBVIOUS
  <2>1. /\ next = "normalize_request" /\ state.gate_outcome = None
        /\ state.checkpoint.completed = <<>>
        /\ artifacts.report = NoReport /\ artifacts.manifest = NoManifest
    BY DEF RunInit, Init, FirstCheckpoint
  <2>2. EmptyMemory \in Memory
    BY DEF EmptyMemory, Memory
  <2>3. Knows(memory) /\ workspace = memory /\ request \in Requests
    BY <2>2 DEF RunInit, Knows, EmptyMemory, NoDraft, None
  <2>4. Done = {}
    BY <2>1 DEF Done, Range
  <2> QED BY <2>1, <2>3, <2>4 DEF MemInv, Fits, PastResearch, PassedIsVouched, None
<1>2. GraphInv => TypeOK /\ Running
  BY DEF GraphInv
<1> QED BY <1>1, <1>2, GraphInvAlways, MemStep, PTL DEF RunSpec

(* Wherever the process died, the services that continue from a checkpoint *)
(* remember what its completed stages produced: a stage's memory is saved  *)
(* before its checkpoint and loses nothing afterwards                      *)
(* (web/techscout_execution.py, _save_workspace and _load_workspace).      *)
THEOREM CheckpointIsRemembered == RunSpec => []MemoryFitsCheckpoint
<1>1. MemInv => MemoryFitsCheckpoint
  BY DEF MemInv, Fits, Done, Worth, MemoryFitsCheckpoint
<1> QED BY <1>1, MemInvAlways, PTL

LEMMA VerifiedStep ==
  /\ GraphInv /\ MemInv /\ EndedIsOver /\ RecommendationIsVerified
  /\ [RunNext]_allVars
  => RecommendationIsVerified'
<1> SUFFICES ASSUME GraphInv, MemInv, EndedIsOver, RecommendationIsVerified,
                    [RunNext]_allVars, row' = "completed"
             PROVE  RecommendationIsVerified'
  BY DEF RecommendationIsVerified
<1>1. CASE Terminate
  <2>1. state.terminal_status = "completed" /\ UNCHANGED <<request, memory>>
    BY <1>1 DEF Terminate
  <2>2. /\ state.gate_outcome = "passed"
        /\ artifacts.manifest.terminal_status = "completed"
    BY <2>1 DEF GraphInv, CompletedIsEarned
  <2>3. artifacts.manifest # NoManifest
    BY <2>2 DEF NoManifest, None
  <2>4. memory.draft.status = "completed" /\ Vouches(memory)
    BY <2>2, <2>3 DEF MemInv, Fits, PassedIsVouched
  <2> QED BY <2>1, <2>4 DEF Vouches, RecommendationIsVerified, Asked
<1>2. CASE row = "completed" /\ UNCHANGED <<request, memory>>
  BY <1>2 DEF RecommendationIsVerified, Asked
<1>3. row = "running" \/ phase = "over"
  BY DEF EndedIsOver
<1> QED
  BY <1>1, <1>2, <1>3
     DEF RunNext, Work, Stage, Recover, Quiet, Publish, FailRun, TimePasses,
         NodeRaises, PublishRaises, TerminateRaises, Release, Released, Excepted,
         DieInNode, DieBetween, Dies, Over, InGraph, allVars, runVars

(* A run that completes without limitations recommends a candidate whose   *)
(* own PoC passed with the version asked for and kept its artifact, with   *)
(* evidence for every reviewed candidate, beside no broken PoC and, where  *)
(* it was to be verified, on live sources: nothing between the gate and    *)
(* the row, a crash or a resumed stage included, changes what was judged   *)
(* (web/techscout_execution.py, _validate; techscout/validation/gate.py).  *)
THEOREM CompletionIsVerified == RunSpec => []RecommendationIsVerified
<1>1. RunInit => EndedIsOver /\ RecommendationIsVerified /\ FilesNamed
                 /\ PublishedAsEnded /\ EndAgrees
  BY DEF RunInit, NoFiles, FilesNamed, PublishedAsEnded, EndedIsOver, EndAgrees,
         RecommendationIsVerified, TerminalStatus
<1> QED BY <1>1, GraphInvAlways, MemInvAlways, FilesNamedStep, PublishedAsEndedStep,
           EndAgreesStep, VerifiedStep, PTL
        DEF RunSpec

-----------------------------------------------------------------------------
(* The services' answers are of the type the harness expects.              *)

(* The services' answers are of the type the harness expects, so their own *)
(* validators refuse none.                                                 *)
LEMMA MeteredTyped ==
  ASSUME NEW n \in Nat, NEW k \in Nat, NEW failures \in Seq(Failure)
  PROVE  /\ Metered(n, k) \in Outcome
         /\ [Metered(n, k) EXCEPT !.failures = failures] \in Outcome
<1>1. Blank \in Outcome
  BY IdAssumption DEF Blank, Outcome
<1> DEFINE tokens == IF request.mode = "fast" THEN k ELSE 0
<1>2. tokens \in Nat
  OBVIOUS
<1>3. Metered(n, k) = [Blank EXCEPT !.tool_calls = n, !.tokens = tokens]
  BY DEF Metered
<1> HIDE DEF tokens
<1>4. Metered(n, k) \in Outcome
  BY <1>1, <1>2, <1>3 DEF Outcome
<1> QED BY <1>4 DEF Outcome

LEMMA ServesTyped ==
  ASSUME NEW answer \in Outcome, NEW m, NEW b
  PROVE  /\ Serves(answer, m).answer \in Outcome
         /\ [Serves(answer, m) EXCEPT !.repeat = b].answer \in Outcome
BY ServesGives

LEMMA CountTyped ==
  ASSUME NEW n \in Nat, NEW S \in SUBSET (1..n)
  PROVE  Cardinality(S) \in Nat
<1>1. IsFiniteSet(1..n)
  BY FS_Interval
<1>2. IsFiniteSet(S)
  BY <1>1, FS_Subset
<1> QED BY <1>2, FS_CardinalityType

LEMMA ResearchTyped ==
  ASSUME request \in Requests, NEW r \in ResearchFast \cup ResearchVerified
  PROVE  r.answer \in Outcome
<1>1. Len(Asked) \in Nat /\ DOMAIN Asked = 1..Len(Asked)
  BY AskedTyped
<1> DEFINE failure == [code |-> "tool_unavailable", stage |-> "research",
                       recoverable |-> FALSE, action |-> None]
<1>2. <<failure>> \in Seq(Failure) /\ <<>> \in Seq(Failure)
  <2>1. failure \in Failure
    BY DEF Failure, FailureCode, FailureStage
  <2> HIDE DEF failure
  <2> QED BY <2>1
<1>3. CASE r \in ResearchVerified
  <2>1. PICK acquired, evidence :
          r = Serves(Metered(Len(Asked), 0), Researched(acquired, evidence))
    BY <1>3 DEF ResearchVerified
  <2> QED BY <1>1, <1>2, <2>1, MeteredTyped, ServesTyped
<1>4. CASE r \in ResearchFast
  <2>1. \/ \E m : r = Serves(Metered(Len(Asked), 160 * Len(Asked)), m)
        \/ \E k \in DOMAIN Asked : \E m :
             r = Serves([Metered(k, 0) EXCEPT !.failures = <<failure>>], m)
    BY <1>4, Zenon DEF ResearchFast
  <2> HIDE DEF failure
  <2>2. 160 * Len(Asked) \in Nat
    BY <1>1
  <2>3. ASSUME NEW m, r = Serves(Metered(Len(Asked), 160 * Len(Asked)), m)
        PROVE  r.answer \in Outcome
    BY <1>1, <1>2, <2>2, <2>3, MeteredTyped, ServesTyped
  <2>4. ASSUME NEW k \in DOMAIN Asked, NEW m,
               r = Serves([Metered(k, 0) EXCEPT !.failures = <<failure>>], m)
        PROVE  r.answer \in Outcome
    <3>1. k \in Nat
      BY <1>1
    <3> QED BY <1>2, <2>4, <3>1, MeteredTyped, ServesTyped
  <2> QED BY <2>1, <2>3, <2>4
<1> QED BY <1>3, <1>4

LEMMA FastTyped ==
  ASSUME request \in Requests, NEW r \in ExecuteFast
  PROVE  r.answer \in Outcome
<1> DEFINE failures == <<[code |-> "dependency_conflict",
                          stage |-> "poc_execution", recoverable |-> TRUE,
                          action |-> "pin_version_and_rerun_poc"]>>
           conflict == Poc(Asked[1], "failed", "dependency_conflict", "none", FALSE)
           results  == [i \in DOMAIN Asked |->
                          IF Asked[i] \in Reviewed
                          THEN Poc(Asked[i], "passed", None,
                                   IF Asked[i] \in request.unmet THEN "other"
                                   ELSE "requested", TRUE)
                          ELSE Poc(Asked[i], "research_only",
                                   "poc_recipe_unsupported", "none", FALSE)]
           made  == Cardinality({i \in DOMAIN Asked : Asked[i] \in Reviewed})
           again == FastScenario = "single_recovery" /\ "failed" \in memory.history
<1>1. \/ r = Serves([Metered(1, 100) EXCEPT !.failures = failures],
                    Executed(<<conflict>>, NoRetry))
      \/ r = [Serves(Metered(made, 100 * Max({1, made})), Executed(results, NoRetry))
                EXCEPT !.repeat = again]
  BY Zenon DEF ExecuteFast
<1>2. failures \in Seq(Failure) /\ <<>> \in Seq(Failure)
  <2> DEFINE failure == [code |-> "dependency_conflict",
                         stage |-> "poc_execution", recoverable |-> TRUE,
                         action |-> "pin_version_and_rerun_poc"]
  <2>1. failure \in Failure
    BY DEF Failure, FailureCode, FailureStage, RecoveryAction, None
  <2> HIDE DEF failure
  <2>2. <<failure>> \in Seq(Failure) /\ <<>> \in Seq(Failure)
    BY <2>1
  <2> QED BY <2>2 DEF failure
<1>3. made \in Nat
  <2>1. Len(Asked) \in Nat /\ {i \in DOMAIN Asked : Asked[i] \in Reviewed} \subseteq 1..Len(Asked)
    BY AskedTyped
  <2> QED BY <2>1, CountTyped
<1> HIDE DEF failures, conflict, results, made, again
<1>4. Max({1, made}) \in Nat
  <2>1. \E x \in {1, made} : \A y \in {1, made} : x >= y
    <3>1. CASE made >= 1
      BY <1>3, <3>1
    <3>2. CASE ~(made >= 1)
      BY <1>3, <3>2
    <3> QED BY <3>1, <3>2
  <2>2. Max({1, made}) \in {1, made}
    BY <2>1 DEF Max
  <2> QED BY <1>3, <2>2
<1>5. 100 * Max({1, made}) \in Nat
  BY <1>4
<1>6. /\ [Metered(1, 100) EXCEPT !.failures = failures] \in Outcome
      /\ Metered(made, 100 * Max({1, made})) \in Outcome
  BY <1>2, <1>3, <1>5, MeteredTyped
<1> QED BY <1>1, <1>6, ServesTyped

LEMMA AttemptTyped ==
  ASSUME request \in Requests, NEW r \in AttemptVerified
  PROVE  r.answer \in Outcome
<1>0. PICK results \in [DOMAIN Asked -> UNION {Ends(c) : c \in Range(Asked)}] :
        /\ \A i \in DOMAIN Asked : results[i] \in Ends(Asked[i])
        /\ \E stage : r = Attempted(results, stage)
  BY DEF AttemptVerified
<1>1. PICK stage : r = Attempted(results, stage)
  BY <1>0
<1>2. /\ DOMAIN results = 1..Len(Asked) /\ Len(Asked) \in Nat
      /\ \A i \in DOMAIN results : results[i] \in PocResult(Candidates)
  BY <1>0, AskedTyped, EndsTyped
<1> DEFINE told(i) == [code |-> results[i].code, stage |-> "poc_execution",
                       recoverable |-> FALSE, action |-> "publish_limited_result"]
           marked == {i \in DOMAIN results : Diagnosable(results[i])}
           first  == Min(marked)
           one(i) == IF Broke(results[i]) /\ (marked = {} \/ i # first)
                     THEN <<told(i)>> ELSE <<>>
           each   == [i \in DOMAIN results |-> one(i)]
           others == FlattenSeq(each)
           last   == [told(first) EXCEPT !.recoverable = TRUE,
                                         !.action = "diagnose_and_rerun_poc"]
           run    == {i \in DOMAIN results : results[i].status # "research_only"}
           answer(failures) == [Metered(Cardinality(run), 0) EXCEPT !.failures = failures]
<1>3. \E m : \/ r = Serves(answer(others), m)
             \/ r = Serves(answer(Append(others, last)), m) /\ marked # {}
  BY <1>1, Zenon DEF Attempted
<1>4. ASSUME NEW i \in DOMAIN results, Broke(results[i])
      PROVE  told(i) \in Failure
  <2>1. results[i].code \in FailureCode
    BY <1>2, <1>4 DEF Broke, PocResult, FailureCode, None
  <2> QED BY <2>1 DEF Failure, FailureStage, RecoveryAction
<1>5. others \in Seq(Failure)
  <2>1. \A i \in DOMAIN results : one(i) \in Seq(Failure)
    <3> TAKE i \in DOMAIN results
    <3> HIDE DEF told, first, marked
    <3>1. Broke(results[i]) => <<told(i)>> \in Seq(Failure)
      BY <1>4
    <3> QED BY <3>1
  <2> HIDE DEF one
  <2>2. each \in [1..Len(Asked) -> Seq(Failure)]
    BY <1>2, <2>1
  <2> HIDE DEF each
  <2>3. each \in Seq(Seq(Failure))
    BY <1>2, <2>2
  <2> QED BY <2>3, Flattened
<1>6. marked # {} => last \in Failure
  <2>1. marked \subseteq Nat
    BY <1>2
  <2>2. marked # {} => first \in marked
    <3> HIDE DEF marked
    <3> QED BY <2>1, Least
  <2>3. marked # {} => first \in DOMAIN results /\ Broke(results[first])
    BY <2>2 DEF Diagnosable
  <2>4. marked # {} => results[first].code \in FailureCode
    BY <1>2, <2>3 DEF Broke, PocResult, FailureCode, None
  <2> HIDE DEF marked, first
  <2> DEFINE c == results[first].code
             f == [code |-> c, stage |-> "poc_execution", recoverable |-> FALSE,
                   action |-> "publish_limited_result"]
  <2>5. told(first) = f
    OBVIOUS
  <2> HIDE DEF c, told
  <2>6. c \in FailureCode =>
          [f EXCEPT !.recoverable = TRUE, !.action = "diagnose_and_rerun_poc"] \in Failure
    BY DEF Failure, FailureStage, RecoveryAction, None
  <2> HIDE DEF f
  <2> QED BY <2>4, <2>5, <2>6 DEF c
<1>7. Cardinality(run) \in Nat
  <2>1. run \subseteq 1..Len(Asked)
    BY <1>2
  <2> HIDE DEF run
  <2> QED BY <1>2, <2>1, CountTyped
<1> HIDE DEF others, last, run, marked
<1>8. /\ answer(others) \in Outcome
      /\ marked # {} => answer(Append(others, last)) \in Outcome
  <2>1. marked # {} => Append(others, last) \in Seq(Failure)
    BY <1>5, <1>6
  <2>2. 0 \in Nat
    OBVIOUS
  <2> QED BY <1>5, <1>7, <2>1, <2>2, MeteredTyped
<1> HIDE DEF answer
<1> QED BY <1>3, <1>8, ServesTyped

LEMMA RerunTyped ==
  ASSUME NEW r \in RecoverPoc
  PROVE  r.answer \in Outcome
<1>1. \E m : r = [Serves(Metered(1, 0), m) EXCEPT !.repeat = TRUE]
  BY Zenon DEF RecoverPoc
<1>2. Metered(1, 0) \in Outcome
  <2>1. <<>> \in Seq(Failure) /\ 1 \in Nat /\ 0 \in Nat
    OBVIOUS
  <2> QED BY <2>1, MeteredTyped
<1> QED BY <1>1, <1>2, ServesTyped

LEMMA FailuresTyped ==
  ASSUME NEW findings \in Seq(AnyFinding)
  PROVE  FailuresOf(findings) \in Seq(Failure)
<1>1. DOMAIN findings = 1..Len(findings) /\ Len(findings) \in Nat
      /\ \A i \in DOMAIN findings : findings[i] \in AnyFinding
  BY LenProperties, ElementOfSeq
<1> DEFINE failure(i) == [code        |-> findings[i].code,
                          stage       |-> StageOfCode(findings[i].code),
                          recoverable |-> findings[i].recoverable,
                          action      |-> findings[i].action]
<1>2. \A code : StageOfCode(code) \in FailureStage
  BY DEF StageOfCode, FailureStage
<1>3. \A i \in DOMAIN findings : failure(i) \in Failure
  BY <1>1, <1>2 DEF AnyFinding, Failure
<1> HIDE DEF failure
<1>4. [i \in DOMAIN findings |-> failure(i)] \in [1..Len(findings) -> Failure]
  BY <1>1, <1>3
<1>5. FailuresOf(findings) = [i \in DOMAIN findings |-> failure(i)]
  BY DEF FailuresOf, failure
<1> QED BY <1>1, <1>4, <1>5

LEMMA JudgedTyped ==
  ASSUME Knows(memory), state.recovery_count \in Nat,
         NEW scenario, NEW recommendation
  PROVE  Judged(scenario, recommendation).answer \in Outcome
<1> DEFINE findings == Findings(memory.results, recommendation, memory.evidence,
                           state.recovery_count)
      failures == FailuresOf(findings)
      all      == state.failures \o failures
      gate     == OutcomeOf(findings)
      outcome  ==
        IF /\ scenario = "verification_failed"
           /\ \/ state.recovery_count >= 1
              \/ \A i \in DOMAIN all : ~all[i].recoverable
        THEN "failed"
        ELSE IF scenario \in Limited /\ gate = "passed" THEN "limited"
        ELSE gate
      told == IF outcome = "limited" /\ gate = "passed"
                            THEN Append(failures, Limitation(scenario))
                            ELSE failures
      answer == [Blank EXCEPT !.gate_outcome = outcome, !.tokens = 120,
               !.failures = told]
<1>1. \E m : Judged(scenario, recommendation) = Serves(answer, m)
  BY Zenon DEF Judged
<1>2. findings \in Seq(AnyFinding)
  <2>1. memory.results \in Seq(PocResult(Candidates))
    BY DEF Knows, Memory
  <2> QED BY <2>1, FindingsTyped
<1> HIDE DEF findings
<1>3. failures \in Seq(Failure)
  BY <1>2, FailuresTyped
<1>4. gate \in GateOutcome
  BY DEF OutcomeOf, GateOutcome
<1> HIDE DEF failures, gate
<1>5. outcome \in GateOutcome
  BY <1>4 DEF GateOutcome
<1> HIDE DEF outcome
<1>6. told \in Seq(Failure)
  <2>1. Limitation(scenario) \in Failure
    <3>1. CASE scenario = "research_only"
      BY <3>1 DEF Limitation, Failure, FailureCode, FailureStage, RecoveryAction
    <3>2. CASE scenario # "research_only"
      BY <3>2 DEF Limitation, Failure, FailureCode, FailureStage, RecoveryAction
    <3> QED BY <3>1, <3>2
  <2> QED BY <1>3, <2>1
<1> HIDE DEF told
<1>7. answer \in Outcome
  <2>1. Blank \in Outcome
    BY IdAssumption DEF Blank, Outcome
  <2> QED BY <1>5, <1>6, <2>1 DEF Outcome
<1> HIDE DEF answer
<1> QED BY <1>1, <1>7, ServesTyped

LEMMA HandOutTyped ==
  ASSUME NEW answer \in Outcome, NEW r \in HandOut(answer)
  PROVE  r.answer \in Outcome
BY EscapingTyped, ServesTyped DEF HandOut

LEMMA AnswersTyped ==
  ASSUME Knows(memory), request \in Requests, state.recovery_count \in Nat,
         NEW s \in StageNodes, NEW r \in Answered(s)
  PROVE  r.answer \in Outcome
<1>0. <<>> \in Seq(Failure)
  OBVIOUS
<1>1. CASE s = "research_candidates"
  BY <1>1, ResearchTyped DEF Answered
<1>2. CASE s = "plan_poc"
  <2>1. Metered(0, 60) \in Outcome
    BY <1>0, MeteredTyped
  <2> QED BY <1>2, <2>1, ServesTyped DEF Answered, PlanPoc
<1>3. CASE s = "execute_poc"
  BY <1>3, FastTyped, AttemptTyped, RerunTyped DEF Answered, ExecutePoc
<1>4. CASE s = "validate"
  <2>1. \/ \E kind \in {"error", "malformed"} : r = Serves(Escaping(kind), memory)
        \/ \E scenario, recommendation : r = Judged(scenario, recommendation)
    BY <1>4 DEF Answered, Validate
  <2> QED BY <2>1, EscapingTyped, ServesTyped, JudgedTyped
<1>5. CASE s = "review_report"
  <2> DEFINE answer == [Metered(0, 80) EXCEPT !.report = Drafted]
  <2>1. Metered(0, 80) \in Outcome
    BY <1>0, MeteredTyped
  <2>2. Drafted \in Report
    BY IdAssumption, CandidateAssumption DEF Drafted, Report
  <2>3. answer \in Outcome
    BY <2>1, <2>2 DEF Outcome
  <2> HIDE DEF answer
  <2>4. r \in HandOut(answer)
    BY <1>5 DEF Answered, ReviewReport, answer
  <2> QED BY <2>3, <2>4, HandOutTyped
<1>6. CASE s = "publish"
  <2> DEFINE manifest == [run_id |-> RunId, report_id |-> TheReport,
                          terminal_status |-> memory.draft.status]
             answer == [Metered(0, 40) EXCEPT !.manifest = manifest]
  <2>1. Metered(0, 40) \in Outcome
    BY <1>0, MeteredTyped
  <2>2. r \in HandOut(answer)
    BY <1>6 DEF Answered, PublishManifest
  <2>3. CASE memory.draft = NoDraft
    BY <2>2, <2>3, EscapingTyped, ServesTyped DEF HandOut
  <2>4. CASE memory.draft # NoDraft
    <3>1. memory.draft.status \in TerminalStatus \ {"failed"}
      BY <2>4 DEF Knows, Memory, Draft
    <3>2. manifest \in Manifest
      BY <3>1, IdAssumption, CandidateAssumption DEF Manifest
    <3> HIDE DEF manifest
    <3>3. answer \in Outcome
      BY <2>1, <3>2 DEF Outcome
    <3> HIDE DEF answer
    <3> QED BY <2>2, <3>3, HandOutTyped
  <2> QED BY <2>3, <2>4
<1>7. CASE s \in {"normalize_request", "plan_research", "select_context"}
  <2>1. \/ r = Serves([Blank EXCEPT !.tokens = 80], memory)
        \/ r = Serves(Metered(0, 20), memory)
    BY <1>7 DEF Answered
  <2>2. Metered(0, 20) \in Outcome
    BY <1>0, MeteredTyped
  <2>3. Blank \in Outcome
    BY IdAssumption DEF Blank, Outcome
  <2>4. [Blank EXCEPT !.tokens = 80] \in Outcome
    BY <2>3 DEF Outcome
  <2> QED BY <2>1, <2>2, <2>4, ServesTyped
<1> QED BY <1>1, <1>2, <1>3, <1>4, <1>5, <1>6, <1>7 DEF StageNodes

-----------------------------------------------------------------------------
(* Type correctness of the run around the graph.                           *)

(* The graph ends only in a state that says how it ended.                  *)
Ended == next = "end" => state.terminal_status # None

(* A row is ended by what the graph ended with.                            *)
PublishedAtEnd == phase = "published" => next = "end"

LEMMA CommitEnds ==
  ASSUME NEW node \in StageNodes \cup {"recover_once", "terminal"}, NEW updated,
         NEW merged, Commit(node, updated, merged),
         node = "terminal" => updated.stage = "terminal"
  PROVE  Ended'
<1> SUFFICES ASSUME next' = "end" PROVE state'.terminal_status # None
  BY DEF Ended
<1>1. /\ Readable(updated) /\ state' = updated
      /\ Route(node, updated) = "end"
  BY DEF Commit
<1>2. updated.stage = "terminal"
  BY <1>1 DEF Route, RouteAfterValidation, Following, StageNodes
<1> QED BY <1>1, <1>2 DEF Readable

LEMMA StageEnds ==
  ASSUME NEW s \in StageNodes, NEW o, StageAnswered(s, o)
  PROVE  Ended'
<1>1. next' = "raised" \/ \E updated, merged : Commit(s, updated, merged)
  BY Zenon DEF StageAnswered, StageResult, StageMalformed, StageDeadline, StageRaises
<1>2. s # "terminal"
  BY DEF StageNodes
<1> QED BY <1>1, <1>2, CommitEnds DEF Ended

LEMMA RecoveryEnds ==
  ASSUME NEW decision, NEW o, RecoveryAnswered(o, decision)
  PROVE  Ended'
<1>1. next' = "raised" \/ \E updated, merged : Commit("recover_once", updated, merged)
  BY DEF RecoveryAnswered, RecoveryResult, RecoveryMalformed, RecoveryDeadline,
         StageRaises
<1> QED BY <1>1, CommitEnds DEF Ended

LEMMA QuietEnds ==
  ASSUME TypeOK, Quiet
  PROVE  Ended'
<1>1. ASSUME NEW s \in StageNodes, RefuseStage(s) \/ StageStartsLate(s) PROVE Ended'
  <2>1. s # "terminal"
    BY DEF StageNodes
  <2>2. \E updated, merged : Commit(s, updated, merged)
    BY <1>1, Zenon DEF RefuseStage, StageStartsLate
  <2> QED BY <2>1, <2>2, CommitEnds
<1>2. CASE RecoveryStartsLate
  BY <1>2, CommitEnds DEF RecoveryStartsLate
<1>3. CASE TerminalNode
  <2>1. PICK updated, merged :
          Commit("terminal", updated, merged) /\ updated.stage = "terminal"
    <3> DEFINE ended(status) == [state EXCEPT !.stage = "terminal",
                                   !.gate_outcome = IF @ = None THEN "failed" ELSE @,
                                   !.terminal_status = status]
    <3>1. \A status : ended(status).stage = "terminal"
      BY DEF TypeOK, ResearchState
    <3>2. TerminalizeInvalidArtifacts(state).stage = "terminal"
      BY FailedWithEnds DEF TypeOK, TerminalizeInvalidArtifacts
    <3>3. \/ Commit("terminal", TerminalizeInvalidArtifacts(state), artifacts)
          \/ \E status : Commit("terminal", ended(status), artifacts)
      BY <1>3 DEF TerminalNode
    <3> HIDE DEF ended
    <3> QED BY <3>1, <3>2, <3>3
  <2> QED BY <2>1, CommitEnds
<1> QED BY <1>1, <1>2, <1>3 DEF Quiet

LEMMA EndedStep ==
  TypeOK /\ Ended /\ PublishedAtEnd /\ [RunNext]_allVars => Ended' /\ PublishedAtEnd'
<1> SUFFICES ASSUME TypeOK, Ended, PublishedAtEnd, [RunNext]_allVars
             PROVE  Ended' /\ PublishedAtEnd'
  OBVIOUS
<1>1. Ended'
  <2>1. ASSUME NEW s \in StageNodes, Stage(s) PROVE Ended'
    BY <2>1, StageEnds DEF Stage
  <2>2. CASE Recover
    BY <2>2, RecoveryEnds DEF Recover
  <2>3. CASE Quiet
    BY <2>3, QuietEnds
  <2>4. CASE FailRun \/ Release
    <3>1. UNCHANGED vars \/ next' = "raised"
      BY <2>4 DEF FailRun, Release, NodeIsOver, StageAnswered, RecoveryAnswered,
                  StageResult, StageMalformed, StageDeadline, StageRaises,
                  RecoveryResult, RecoveryMalformed, RecoveryDeadline, Acceptable,
                  Escaping, Blank
    <3> QED BY <3>1 DEF vars, Ended
  <2>5. CASE TimePasses
    BY <2>5 DEF TimePasses, DeadlinePasses, Ended
  <2>6. CASE DieInNode \/ DieBetween
    <3>1. Afresh \/ UNCHANGED <<next, state>>
      BY <2>6 DEF DieInNode, DieBetween, Resumes, Replay, vars
    <3>2. Afresh => next' = "normalize_request"
      BY DEF Afresh
    <3> QED BY <3>1, <3>2 DEF Ended
  <2>7. CASE UNCHANGED vars
    BY <2>7 DEF vars, Ended
  <2> QED
    BY <2>1, <2>2, <2>3, <2>4, <2>5, <2>6, <2>7
       DEF RunNext, Work, Publish, Terminate, NodeRaises, PublishRaises,
           TerminateRaises, Over, allVars
<1>2. PublishedAtEnd'
  <2> SUFFICES ASSUME phase' = "published" PROVE next' = "end"
    BY DEF PublishedAtEnd
  <2>1. CASE Publish
    BY <2>1 DEF Publish, vars
  <2>2. CASE UNCHANGED allVars
    BY <2>2 DEF allVars, runVars, vars, PublishedAtEnd
  <2> QED
    BY <2>1, <2>2
       DEF RunNext, Work, Stage, Recover, Quiet, Terminate, FailRun, TimePasses,
           NodeRaises, PublishRaises, TerminateRaises, Release, DieInNode,
           DieBetween, Dies, Over, InGraph, runVars
<1> QED BY <1>1, <1>2

(* The terminal files, each absent or written.                             *)
RunFiles ==
  [report : BOOLEAN, manifest : TerminalStatus \cup {None},
   projection : TerminalStatus \cup {None}, trace : TerminalStatus \cup {None}]

(* What the run around the graph keeps, without the memory.                *)
AroundTyped ==
  /\ saved \in BOOLEAN
  /\ phase \in {"graph", "published", "raised", "node raised", "over"}
  /\ row \in TerminalStatus \cup {"running", "released"}
  /\ files \in RunFiles
  /\ repeats \in Nat /\ crashes \in 0..MaxCrashes /\ faults \in 0..MaxFaults

LEMMA FilesStep ==
  ASSUME TypeOK, files \in RunFiles, [RunNext]_allVars
  PROVE  files' \in RunFiles
<1>1. FailedFiles \in RunFiles
  BY DEF FailedFiles, RunFiles, TerminalStatus
<1>2. PublishedFiles \in RunFiles
  <2>1. artifacts.manifest.terminal_status \in TerminalStatus \cup {None}
    BY DEF TypeOK, StageArtifacts, Manifest, NoManifest
  <2>2. state.terminal_status \in TerminalStatus \cup {None}
    BY DEF TypeOK, ResearchState
  <2> QED BY <2>1, <2>2 DEF PublishedFiles, RunFiles
<1>3. \A f \in RunFiles : \A status \in TerminalStatus \cup {None} :
        [f EXCEPT !.trace = status] \in RunFiles
  BY DEF RunFiles
<1>4. CASE Publish
  BY <1>2, <1>4 DEF Publish
<1>5. CASE PublishRaises
  <2>1. PICK rewritten \in {{}, {"report"}, {"report", "manifest"}} :
          files' = [f \in DOMAIN files |-> IF f \in rewritten THEN PublishedFiles[f]
                                           ELSE files[f]]
    BY <1>5 DEF PublishRaises
  <2> HIDE DEF PublishedFiles
  <2> QED BY <1>2, <2>1 DEF RunFiles
<1>6. CASE Terminate \/ TerminateRaises
  <2>1. state.terminal_status \in TerminalStatus \cup {None}
    BY DEF TypeOK, ResearchState
  <2> QED BY <1>3, <1>6, <2>1 DEF Terminate, TerminateRaises
<1>7. CASE FailRun \/ Release
  BY <1>1, <1>7 DEF FailRun, Release
<1>8. CASE DieInNode
  BY <1>3, <1>8 DEF DieInNode
<1>9. CASE DieBetween
  <2>1. PICK f \in {files, FailedFiles} : files' = [f EXCEPT !.trace = None]
    BY <1>9 DEF DieBetween
  <2> QED BY <1>1, <1>3, <2>1
<1> QED
  BY <1>4, <1>5, <1>6, <1>7, <1>8, <1>9
     DEF RunNext, Work, Stage, Recover, Quiet, TimePasses, NodeRaises, Over,
         allVars, runVars

LEMMA AroundStep ==
  ASSUME TypeOK, Ended, PublishedAtEnd, AroundTyped, [RunNext]_allVars
  PROVE  AroundTyped'
<1>1. files' \in RunFiles
  BY FilesStep DEF AroundTyped
<1>2. saved' \in BOOLEAN /\ repeats' \in Nat
  <2>1. \/ UNCHANGED <<saved, repeats>>
        \/ saved' \in {saved, TRUE} /\ repeats' \in {repeats, repeats + 1}
    <3>1. ASSUME NEW r, Remember(r)
          PROVE  saved' \in {saved, TRUE} /\ repeats' \in {repeats, repeats + 1}
      BY <3>1 DEF Remember
    <3>2. ASSUME NEW s \in StageNodes, Stage(s) PROVE \E r : Remember(r)
      BY <3>2 DEF Stage
    <3>3. Recover => \E r : Remember(r)
      BY DEF Recover
    <3> QED
      BY <3>1, <3>2, <3>3
         DEF RunNext, Work, Quiet, Publish, Terminate, FailRun, TimePasses,
             NodeRaises, PublishRaises, TerminateRaises, Release, DieInNode,
             DieBetween, Dies, Over, allVars, runVars
  <2>2. saved \in BOOLEAN /\ repeats \in Nat
    BY DEF AroundTyped
  <2>3. saved' \in BOOLEAN
    BY <2>1, <2>2, Zenon
  <2>4. repeats' \in Nat
    <3>1. repeats' = repeats \/ repeats' = repeats + 1
      BY <2>1, Zenon
    <3>2. repeats \in Nat
      BY <2>2
    <3> QED BY <3>1, <3>2
  <2> QED BY <2>3, <2>4
<1>3. phase' \in {"graph", "published", "raised", "node raised", "over"}
  BY DEF AroundTyped, RunNext, Work, Stage, Recover, Quiet, Publish,
         Terminate, FailRun, TimePasses, NodeRaises, PublishRaises, TerminateRaises,
         Release, DieInNode, DieBetween, Dies, Over, allVars, runVars
<1>4. crashes' \in 0..MaxCrashes /\ faults' \in 0..MaxFaults
  <2>1. crashes' = crashes \/ (crashes < MaxCrashes /\ crashes' = crashes + 1)
    BY DEF RunNext, Work, Stage, Recover, Quiet, Publish, Terminate, FailRun,
           TimePasses, NodeRaises, PublishRaises, TerminateRaises, Release,
           DieInNode, DieBetween, Dies, Over, allVars, runVars
  <2>2. faults' = faults \/ (faults < MaxFaults /\ faults' = faults + 1)
    BY DEF RunNext, Work, Stage, Recover, Quiet, Publish, Terminate, FailRun,
           TimePasses, NodeRaises, PublishRaises, TerminateRaises, Release, Fault,
           DieInNode, DieBetween, Dies, Over, allVars, runVars
  <2>3. crashes \in 0..MaxCrashes /\ faults \in 0..MaxFaults
    BY DEF AroundTyped
  <2> QED BY <2>1, <2>2, <2>3, FaultAssumption
<1>5. row' \in TerminalStatus \cup {"running", "released"}
  <2>1. CASE Terminate
    <3>1. state.terminal_status # None
      BY <2>1 DEF Terminate, Ended, PublishedAtEnd
    <3>2. state.terminal_status \in TerminalStatus
      BY <3>1 DEF TypeOK, ResearchState
    <3> QED BY <2>1, <3>2 DEF Terminate
  <2>2. CASE FailRun \/ Release
    BY <2>2 DEF FailRun, Release, Released, TerminalStatus
  <2> QED
    BY <2>1, <2>2
       DEF AroundTyped, RunNext, Work, Stage, Recover, Quiet, Publish,
           TimePasses, NodeRaises, PublishRaises, TerminateRaises,
           DieInNode, DieBetween, Dies, Over, allVars, runVars
<1> QED BY <1>1, <1>2, <1>3, <1>4, <1>5 DEF AroundTyped

LEMMA ServedHoldsAll ==
  ASSUME TypeOK, MemInv, InGraph, Calling
  PROVE  Answered(Called) \subseteq Served(Called)
<1>1. Called \in StageNodes
  <2>1. CASE next = "recover_once"
    <3>1. RecoveryDecision(state).should_recover
      BY <2>1 DEF Calling, StageNodes
    <3> QED BY <2>1, <3>1, DecisionTyped DEF Called, TypeOK
  <2>2. CASE next # "recover_once"
    BY <2>2 DEF Calling, Called
  <2> QED BY <2>1, <2>2
<1>2. state.recovery_count \in Nat /\ Knows(memory) /\ request \in Requests
  BY DEF TypeOK, ResearchState, MemInv
<1>3. \A r \in Answered(Called) : r.answer \in Outcome
  BY <1>1, <1>2, AnswersTyped
<1> QED BY <1>3, Zenon DEF Served

(* Type correctness of the run around the graph, and the services' answers *)
(* are of the type the harness expects: StageResult's validators refuse    *)
(* nothing the services themselves return, whatever was remembered         *)
(* (web/techscout_execution.py, execute; techscout/harness/models.py).     *)
THEOREM RunTypeCorrect == RunSpec => []RunTypeOK
<1>1. RunInit => Ended /\ PublishedAtEnd /\ AroundTyped
  <2> SUFFICES ASSUME RunInit PROVE Ended /\ PublishedAtEnd /\ AroundTyped
    OBVIOUS
  <2>1. next = "normalize_request"
    BY DEF RunInit, Init
  <2>2. NoFiles \in RunFiles
    BY DEF NoFiles, RunFiles
  <2>3. Ended /\ PublishedAtEnd
    BY <2>1 DEF RunInit, Ended, PublishedAtEnd
  <2>4. 0 \in 0..MaxCrashes /\ 0 \in 0..MaxFaults
    BY FaultAssumption
  <2>5. AroundTyped
    BY <2>2, <2>4 DEF RunInit, AroundTyped
  <2> QED BY <2>3, <2>5
<1>2. GraphInv => TypeOK
  BY DEF GraphInv
<1>3. TypeOK /\ MemInv /\ AroundTyped => RunTypeOK
  BY ServedHoldsAll DEF MemInv, Knows, AroundTyped, RunFiles, RunTypeOK
<1>4. TypeOK /\ Ended /\ PublishedAtEnd /\ AroundTyped /\ [RunNext]_allVars
        => AroundTyped'
  BY AroundStep
<1> QED BY <1>1, <1>2, <1>3, <1>4, GraphInvAlways, MemInvAlways, EndedStep, PTL
        DEF RunSpec
=============================================================================
