# Verification of MOMO-Scholar

TLA+ models, TLC runs and TLAPS proofs for the paper survey agent (`paper_agent`),
its TechScout subsystem and its citation evaluation. Paths below are relative to
`src/paper_agent/`, tests and documents to the repository root.

## 1. The system

Two kinds of work share one web server and one SQLite registry; a third is a
family of commands that keep everything in files.

- A **survey** (API v1) searches papers, reads them and writes a checked report.
  `web/service.py` admits it, `web/execution.py` runs it on one worker thread by
  calling `pipeline.run_pipeline`, and the run's directory keeps the result: the
  manifest `run_manifest.json` is written atomically and is *authoritative* over
  the registry row. The survey takes its evidence from `evidence/hybrid.py` and has
  the references of every generated text checked by `evidence/citation_checker.py`.
- A **TechScout run** (API v2) evaluates candidate technologies.
  `web/techscout_execution.py` runs it on its own worker thread through the
  harness (`techscout/harness/graph.py`), a graph of stages over checkpointed
  state that may recover once from a failed stage. Its stages acquire evidence
  through a cache on disk (`techscout/research`, `techscout/tools`), select what a
  stage is shown (`techscout/context`) and run small proofs of concept in Docker
  (`techscout/sandbox`).
- The **citation evaluation** (`eval/citation_baseline`) pays a provider for drafts
  and verdicts, has people review citations, and seals what was found into packages.
  Each command is launched by an operator, may be killed and is resumed from files.

| Component | State it keeps | Operations | What is hard |
|---|---|---|---|
| Harness graph | graph state (stage, failures, counters, artifacts), checkpoints | a node per stage, `recover_once`, `terminal`; routes | budgets and deadline inside nodes, hostile service answers, one recovery, replay after a crash |
| Recovery policy, validation gate | none | `decide`, `evaluate` | tables and limit; findings in a fixed order, which of them limit and which fail |
| Stage services and run engine | the services' memory in `stage-workspace.json`, the terminal files, the sealed trace | the stages of both modes, save and load, `run`, `publish_failed_projection`, `_execute` | a crash between workspace and checkpoint, exceptions while files are rewritten, mixed PoC ends |
| Evidence acquisition | index records, blobs and temporary files of a shared cache; the attempts of one candidate | search, page and repository requests, fresh and stale answers | writers that share a temporary name, kills, exceptions that are not adapter errors |
| Context selection | none | `build`, `validate_packet` | limits against scope |
| Sandbox and PoC | containers, id files, saved results and the failed stage | execute, rerun, time out, remove | a client killed before its container is known, deadlines, merged reruns |
| TechScout queue | `techscout_runs`, `run_events`, projection files | admit, claim, progress, terminal, requeue, fail_stuck; engine, rescue, release | restart while the old worker lives, failing writes at each step, files against rows |
| Survey queue | `runs`, `run_events`, manifests | admit, claim, progress, set_artifact_id, terminal; startup and request reconciliation | several writers of one row, an authority outside the database |
| Web process | the server lock, the worker threads | start, close, crash | closing with a busy worker, two processes |
| Survey pipeline and recorder | the run's directory: artifacts, reports, sealed trace, manifest | stages, `publish_report`, `complete`, `fail`, `trace_event` | failures inside failure handling, order of reports, seal and manifest |
| Evidence retrieval, citation checker | none | `retrieve`, `check_*` | degradation that must be told; references that must not survive |
| Paid generation | nine files of an output, the campaign ledger and its lock file, the seal | launch, reserve, send, complete, save, seal, verify | kills between send and record, retries that are paid, shared campaign |
| Paid judge | four lists, two authority files, the prepared copy, the package | launch, reserve, judge, persist, score, verify | files written one after the other |
| Human review | prepared directories, judgments files, packages | prepare, import, score, verify | batches in any order, two freezes, dead commands |

`PROJECT.json` lists every component with its status, and under `hazards` what in
this code is hard to test, at its line, with the properties that watch it.

## 2. Modules

| Module | Models | State and actions |
|---|---|---|
| `RecoveryPolicy` | `techscout/recovery/policy.py`, `techscout/errors.py` | no state; `Decide` with the tables of failure stages and actions |
| `Harness` | `techscout/harness/graph.py` | `state`, `artifacts` and `next` are the checkpoint; `expired` the deadline; `retried` and `history` what the services have been asked. One action per node: `ExecuteStage`, `RecoverOnce`, `TerminalNode`, and `Replay` (the process dies inside a node and resumes), `DeadlinePasses` |
| `ValidationGate` | `techscout/validation/gate.py` | no state; `Findings`, `FailuresOf` and `OutcomeOf` over PoC results and a recommendation |
| `TechScoutRun` | `web/techscout_execution.py` with the fast and verified stage services, and what they take from research and sandbox | `memory` is the services' attributes, `saved` and `workspace` the file, `phase` the position in `run()` and `_execute`, `files` the terminal files and trace, `row` the registry row. `Stage` and `Recover` give the actions of `Harness` the answer the services compute (`Answered`); then `Publish`, `Terminate`, the exceptions and the crashes (`DieInNode`, `DieBetween`) |
| `EvidenceAcquisition` | `techscout/research/service.py`, `techscout/tools/adapters.py`, `techscout/tools/cache.py` | `index` maps a request to the inode its record is, `temp` the shared temporary, `content` the inodes, `work` each researcher's position and documents. One action per look at the cache, provider answer, open-and-write, and move; kills and clock |
| `PocExecution` | `techscout/sandbox/service.py`, `runner.py`, the PoC loops of `web/techscout_execution.py` | `containers` with the client that waits for each, `memory` and `saved` results, `now` and the deadline. Launch, time out, remove, conclude, and the client's and daemon's own steps |
| `ContextSelection` | `techscout/context/engine.py`, `models.py` | no state; `Packet` and `Accepts` |
| `ServerProcess` | `web/app.py`, the lock of `web/execution.py` | `phase`, `lock`; the steps of a process's life that both queues conjoin with their own |
| `RunLifecycle` | what `TechScoutRegistryRun` promises a client | `status` of each run; accept, start, give back, finish |
| `TechScoutQueue` | `web/registry.py` (v2), `web/techscout_execution.py`, the projections of `web/techscout_service.py` | `rows`, `log`, `files`, the processes and their workers; one action per registry operation and per step of `_work` and `_execute`, and one for its failure |
| `ScholarQueue` | `web/registry.py` (v1), `web/execution.py`, `web/service.py` | `rows`, `log`, `manifests`, workers, startup, and a request between its two reads |
| `SurveyRun` | `pipeline.py`, `observability/recorder.py`, `run_trace.py`, `trace_store.py`, `trace_validation.py` | `pc` and `run` are the pipeline's position and locals, `pending` the trace events it writes before its next step, `manifest`, `trace`, `files` the run's directory. One action per stage, per rename, per write of the terminal transition, and for each the way it raises; `Findings` is the validator |
| `RunDirectory` | what a survey's directory promises its readers and caller | `status`, `reported`, `call` |
| `CitationChecker` | `evidence/citation_checker.py` | no state; `Retained`, `SupportStatus`, `CheckPaperAnalysis`, `CheckSurveyDraft`, `Publishable` |
| `HybridRetrieval` | `evidence/hybrid.py`, `fusion.py`, `models.py`, `packs.py` | no state; `Event`, `Result`, `Delivered`, rank fusion as exact fractions |
| `CampaignLedger`, `LiveGeneration` | `eval/citation_baseline/live_generation.py`, `generation_authority.py`, `generation/dashscope.py` | `ledger` and `lock` of the campaign, `disk` the files of each output, `mem` and `pc` each launcher, `billed` what the provider charged. One action per reservation, send, completion, file and seal; `Kill` between any two |
| `AutomatedJudge` | `eval/citation_baseline/automated_judge.py`, `eval/evidence_package.py` | `disk`, `mem`, `pc`, `given` what the judge answered, `prepared` and `package` |
| `CitationReview` | `eval/citation_baseline/review.py`, `cli.py`, `metrics.py` | `prepared`, `files`, `package`, and the `command` that is running; each command is a start, a write and, for score, a seal |
| `GoldMatching` | `eval/citation_baseline/matching.py` | no state; validity, pair scores and the Hungarian assignment |
| `EvidenceProofs` | theorems about `EvidenceAcquisition`, `CitationChecker`, `HybridRetrieval` and `ContextSelection` | |
| `TechScoutRunProofs` | theorems about `Harness`, then about `TechScoutRun` | |
| `CitationBaselineProofs` | theorems about `CitationReview`, then about `CampaignLedger` and `LiveGeneration` | |
| other `*Proofs` | theorems about the module of the same name | |
| `MC*` | instances for TLC | |

How they are composed. `Harness` EXTENDS `RecoveryPolicy`; `TechScoutRun` EXTENDS
`Harness` and `ValidationGate`: the answers that `Harness` alone takes from the set
`Outcomes` are there computed from the services' memory, so that every behaviour
of the real services is one the harness was checked and proved for.
`EvidenceAcquisition` and `PocExecution` open up two steps of it: what they may
end with are the choices `TechScoutRun` makes there. Both queues EXTEND
`ServerProcess`; `TechScoutQueue` instantiates `RunLifecycle` and `SurveyRun`
instantiates `RunDirectory` with a refinement mapping. `ScholarQueue` takes the
pipeline as a step that leaves any manifest `SurveyRun` can leave.
`LiveGeneration` EXTENDS `CampaignLedger`.

Modules without state are instantiated by the MC module of the component that uses
them, and compared there by named ASSUMEs that TLC evaluates: `MCSurveyRun` with
`CitationChecker` (the code's loop against the definition by places; every end that
`SurveyRun` chooses does occur; the legacy check) and `HybridRetrieval` (counts,
which failures no event tells, what ranks of 60 mean), `MCTechScoutRun` with
`ContextSelection`, `MCCitationReview` with `GoldMatching` (the assignment against
every other one).

The environment is nondeterministic: services answer with any of a small set of
states (good, failing, malformed, over budget, of another run), any registry
operation may raise, a process may die between any two steps, a provider answers,
refuses, fails or charges without saying what. Each bound on these is a CONSTANT.
`TechScoutRun` takes two things on trust: the checkpoint of a node is on disk
before the next node starts (LangGraph's saver is a library), and an interrupted
run is claimed again by the next process.

The evaluation commands lock nothing but the ledger: no output directory is guarded
against a second launcher (`live_generation.py:1152`). `LiveGeneration` and
`AutomatedJudge` assume that one launcher at a time works on an output, and
`CitationReview` that the owner runs one command at a time. Launchers of different
outputs do run at once, over one ledger.

## 3. Runs

| Run | Asks |
|---|---|
| `harness` | Does the graph keep its promises on every path: stored states its own validators accept, only the failed stage repeated, a completed run with matching report and manifest? |
| `techscout_run` | One run from the first stage to the row, through the real services: does the resumed memory fit the checkpoint after a crash anywhere, is only a verified candidate recommended, do row, projection, trace and manifest agree at the end, and does every run leave `running`? |
| `techscout_queue` | With two web processes, a crash and two failing operations: do rows, events and files agree (including what a client is shown of them), though a close may give up on a busy worker: is what that worker still writes confined to the runs it had in hand, and does the queue implement `RunLifecycle` with its bounded queue? |
| `techscout_queue_live` | Does every accepted run end? |
| `scholar_queue` | The same for surveys, where the manifest rules and requests repair rows: agreement unless a manifest could not be read, status and phase that only advance, an end of every accepted survey. |
| `survey_run` | Whatever raises and wherever the process dies: is the trace one the validator accepts, is every degradation told, and does the directory implement `RunDirectory`? |
| `evidence_acquisition` | Two researchers over one cache: is a document what the provider returned for that request and as fresh as it is said to be, and is a torn record always one that a writer is about to complete? |
| `evidence_unresolved` | Does research record a state for a candidate when a page the search found is on a host that does not resolve? It does not (finding, section 5). |
| `poc_execution` | Container by container: is a pass earned by an install and a later test of the same candidate, is nothing waited for past the deadline, is no container left running that nobody attends? |
| `live_generation` | Does the ledger cover what the provider charges, is paid work never bought or undone again, and is a sealed output whole? |
| `automated_judge` | The same for the judge; and is every verdict of a sealed package one that the judge gave, with no request hidden? |
| `citation_review` | Is a sealed package completely reviewed, and is an imported judgment never lost or replaced? |

### Bounds

- `harness`: step budgets 7 and 11. The longest path has eleven nodes (seven stages,
  the recovery, a second validation, two reporting stages), so with eleven a
  recovered run finishes and with seven the budget ends inside the graph. Tool and
  token budgets of 2 are overrun by one answer of 3 or by two of 1. One replayed
  node; a second adds the same tolerance to the same property.
- `techscout_run`: shortlists of one and two candidates out of three kinds: one with
  a recipe that compiles and source policies (`lib`), one whose recipe's plan does
  not compile (`drop_in`), one nobody reviewed (`other`); with the version asked for
  met or not; in both modes. Two candidates are what a mix of a passed and a failed
  PoC needs. `lib` and `drop_in` are not asked for together: the two reach the same
  pairs of results as `lib` and `other`, at several times the states. One crash and
  one replay reach a crash at any step and a restart of everything after it; one
  raised exception, or a crash after it, reaches the failed projection.
- `techscout_queue`: three submissions to a queue of two reach the refusal, two waiting
  runs and the order between them; two processes are what a restart needs, one crash
  and two failing operations what a failure inside a failure handler needs. A close
  may give up on its worker at any point (`JoinTimesOut = TRUE`).
- `techscout_queue_live` and `scholar_queue` have two submissions, as symmetry cannot be
  used with fairness: two rows wait and are told apart by age, but none is refused.
  One crash, one failing operation and, for surveys, one failing read. `Reports`
  holds two phases, so that one can come after the other.
- `survey_run`: up to three selected papers, the smallest number at which one paper
  may be skipped and enough be analysed (`Enough` asks for two).
- `evidence_acquisition`: one search, one page and the repository that is asked for
  when the page cannot be had; three acquisitions between two researchers
  (`MaxBegun`), so that one may find what the other wrote and overtake it; one kill.
  The clock has three values with `TTL = 0` and `MaxStale = 1` ticks: an entry is
  fresh within its tick, a permitted fallback one tick later, and too old after two.
  Eight inodes are more than three acquisitions can open.
- `poc_execution`: time is scaled so that the relations of the code are kept: a run
  lasts at most `Limit` (40 s, 2 ticks), a removal `RemoveLimit` (5 s, 1 tick), and the
  budgets are those of two and of one such pair (90 and 45 s, 6 and 3 ticks). A
  deadline of 9 leaves room for a whole visit and a rerun but for no delay. Two
  visits are the first and the one recovery the policy permits; programs end with
  zero or an install conflict, and a refusal is an unreachable daemon: one failure of
  each kind the diagnosis tells apart.
- `live_generation`: two executions, one of two cases launched twice and one of one
  case launched once: a resume, two launchers that meet at the lock, and an
  execution that spends what another reserved. Three sends and five units at a
  ceiling of two make both the send limit and the unit limit the first to be met.
  Two versions of the prepared files for the execution that is resumed.
- `automated_judge`: three assertions, one of them decided by its Gold match, two
  attempts each, four sends and seven units (one less than four ceilings), four
  launches: as many as a lost pass, its second purchase and a rejected resume need.
- `citation_review`: one calibration item and one reported assertion, two reviewers
  and verdicts; six sources of two freezes that differ in what is assigned, known or
  reviewed; two directories, three judgments files (a first batch, and two that go on
  from it), one package.
- `CHECK_DEADLOCK FALSE`, where it is said: the users, launchers or researchers have
  done what the bounds allow them, and nothing is left to do. `Harness` and
  `SurveyRun` end in an explicit stuttering step instead.

### Fairness

Only `techscout_queue_live`, `techscout_run` and `scholar_queue` assume any. Threads
are scheduled, so the steps of a started process, of its worker and of its startup
are weakly fair. An engine or pipeline call returns: every client it uses has a
timeout and its loops are bounded (the harness by its steps and deadline, the
pipeline by its papers). Nothing makes a user submit, a process crash, an operation
fail or a process start, so these are not fair, and the liveness property asks for
an end only while a worker lives. `techscout_run` makes the worker's own steps
(`Work`) weakly fair. A crash and the restart that claims the run again are one step
there: that an interrupted run is claimed is what `techscout_queue_live` shows.
After two faults in a row, in the rescue and in the release, a TechScout row stays
running and the worker, alive, finds nothing it may claim: `techscout_queue_live`
therefore allows one. It also has a `close` that waits for its worker: a worker that
was given up may claim a run and die with its process, and nobody but a later start
gives that row back. The evaluation commands promise no
progress: an operator launches them, and every one of them may fail.

## 4. Proofs

For every value of the constants, from the modules' named assumptions alone.

- `Harness` (assumptions: budgets are positive, identifiers are not `None`, services
  answer with an `Outcome`). `TypeCorrect` comes first. Each node has two ends: it
  leaves the graph with a failure or keeps the run open with an accepted answer
  (`StageMoves`, `RecoveryMoves`); every later proof splits on these instead of on
  the code's eight outcomes. `OnlyTheFailedStageRepeats` needs a rank along the
  graph, as the count of calls alone is not inductive; `CompletionIsEarned` needs
  that the terminal node is reached with `publish` completed (`EarnsItsEnd`) and
  that only it stores a completed status (`TerminalLeavesGraph`). `DeadlineHolds`
  and `StepBudgetHolds` say that nothing is called after the deadline or on spent
  steps; the second needs `MayRecover`: the recovery node looks at no budget, and is
  right only because the node before it left a step to spare. `BudgetsHold` proves
  `NeverUnreadable` under `RecoveryLimit = 1`; with 0 it is false (section 5).
  All of it is proved of `AnyNext`, the harness under services that may answer any
  `Outcome` (`NextIsAny`), so that it holds for whatever services are put into it.
- `TechScoutRun` (assumptions: those of `Harness`, and that the sets of candidates are
  nested and every request names one). `RunStepIsAny`: every step of the run is, to
  the graph, a step of `AnyNext` or a fresh start, because a node that raised was in a
  call (`RaisedInACall`) and answers outside `Outcome` are refused; so the harness's
  type, and what a completed run has earned, hold in every run, crashes and restarts
  included (`GraphInvAlways`). `RunEndAgrees` adds that published files are those of
  the state the graph ended with; it excepts a row that `fail_stuck_techscout` ends,
  whose files are what two failing steps left. `RunContinues` needs `SavedFirst`: a stage is only
  checkpointed with its memory saved, so the graph is started afresh only where
  nothing has completed. `RepeatsBounded` needs to know where repeats can come from:
  only `execute_poc` and the recovery attempt a PoC (`OnlyPocAttempts`), the first
  attempt is no repeat while no process died (`FirstAttempt`), and the graph passes
  each of the two once (`AttemptsCounted`, which also gives two repeats as the limit
  for any number of deaths).
  Three theorems are about the services' memory. `CheckpointIsRemembered`: what a
  process that continues remembers fits the committed checkpoint. Its invariant
  `MemInv` says that the workspace on disk is the memory, what each completed stage
  is worth to a later one (`Worth`), and that a gate that passed vouches for the draft
  (`Vouches`); `ServedIsSound` shows of each stage's answer that it takes back none of
  this. `CompletionIsVerified` carries `Vouches` from the gate to the completed row.
  `RunTypeCorrect` needs that the graph ends only in a state that says how
  (`Ended`) and that a row is published only then (`PublishedAtEnd`); it also shows
  that the services answer with `Outcome`s, so that the harness refuses none as
  malformed but those a service made so. The joined lists of attempts are flattened
  with `FlattenSeq`; what it yields is shown by the least index at which it would be
  wrong.
- `TechScoutQueue` (assumptions: the runs are finitely many, the capacity and the
  bounds on faults are natural numbers), for any number of runs, processes, crashes
  and failing operations, and whether or not a `close` gives up on its worker.
  `TypeCorrect` needs that a process that is not up has no worker (`NoWorkerYet`).
  Ownership rests on `Held`: the lock belongs to whoever is locked, starting, up or
  closing, and a worker works in a process that is up or closing, or that gave it up;
  what it executes then is in the history variable `strayed`. From it
  `WorkersOwnTheirRows`: whoever executes a run that has not strayed is alone with it.
  Every step then does one of four things to the registry (`RowStep`): nothing, giving
  a run up, a progress report, or one of four moves of one row with its event.
  `RowsAgree` and the refinement `QueueImplementsLifecycle` split on these instead of
  on the code's twenty steps; `RowsAgree` also needs `Published`, that the files name
  the end a worker is about to record, and that a step writes the file of the run its
  worker executes (`FileSteps`). `NoRunStrays`: if `close` waited, none would stray.
- `SurveyRun` (assumption: `MaxPapers` is a natural number). `Counted` bounds the loop,
  which `TypeCorrect` needs. `Placed` says which manifest and intent go with which
  position: from it `EndsAreFinal` and `CallersAgree`. `SealedFirst` says what the
  trace holds between seal and manifest: `TerminalsAreSealed`. `Earned` carries the
  artifacts and counts from the stages to the manifest: `SuccessesAreComplete`.
  `RunsImplementDirectory` combines them into the refinement of `RunDirectory`.
  `DegradationsAreTold` and `TracesValidate` speak of the sequence of events. An event
  stays once it is told, so the invariant says of each position which event names have
  been told or are pending (`Covers`, `EventsFit`), which lines the writer may have
  in hand (`WriterFits`: open, ended or sealed), that a run with nothing degraded has
  told nothing degraded (`Told`), and what the end of each kind needs (`Needs`,
  `EndFits`). `TracesValidate` then takes the validator's findings one by one.
- `EvidenceAcquisition` (assumptions: what its constants are, and that the records'
  special values are none of them), for any number of researchers, requests, kills
  and acquisitions. `SourcesTold`: whatever writers overtake each other, a document is
  the provider's answer to its own request and as old as its label says. It needs that
  an inode is the temporary or the record of one request only, and that a value in
  hand, on its way to disk or on disk was retrieved no later than its writer's clock
  said. `NoTornRecord`: as long as nobody is killed, a record that is torn has a writer
  that is about to complete it, so writers alone never make a request unanswerable.
- `ScholarQueue` (assumptions: finitely many runs, natural bounds), for any number of
  runs, processes, crashes and failing operations. `TypeCorrect` holds without a
  condition; it needs where a process stands (`Stands`): no worker before it serves, a
  run exactly while one is executed or ended. `RowsAgree` and `ShownMovesForward`
  assume `JoinTimesOut = FALSE`, as a `close` that gives up on its worker lets two
  processes write. The invariant has a part for each writer of a row: whoever
  writes holds the lock (`LockHeld`); what a start has read is still so when it ends
  the row (`StartOK`); a worker's row is running until its pipeline has ended, and from
  then on a request may have repaired it to exactly what the worker is about to write
  (`ExecOK`). `RowOK` says what the row, the manifest and the log then share.
- `PocExecution` (assumptions: `Asked` is a list of candidates; the budgets cover one
  and two waits of a program and its removal), for any list of candidates, any limits,
  and any number of containers, visits, kills and faults. `PassIsEarned`: a result
  rests only on containers whose end is known (`Past`), which keep it (`PastKept`), so
  that results survive merges and reruns; a test repeated alone needs that the install
  it builds on passed (`RetryFits`). `ContainersAttended` needs `DockerOK`, that a
  container has an id before it runs. `WaitsAreInTime` needs `InTime`: what is left of
  the budget taken on entry covers each wait that can still follow.
- `CitationReview` (assumption: prepared sources are of their type, calibrated and
  reported items are disjoint), for every sample, any number of reviewers,
  directories, files and packages. `SealedAreReviewed` needs that a score output holds
  what passed the gates of the command that wrote it (`IsOutput`) and that what a
  command has read is there when it writes (`CommandFits`), as one command runs at a
  time. From the same invariant the action property `ReviewsKept`.
- `LiveGeneration` with `CampaignLedger` (assumptions: each launcher has an output of
  its own, a ceiling fits into the campaign, at most four sends are allowed per case,
  replies are of the provider's kinds), for any number of executions, cases, launches,
  sends and units. The executions meet in the ledger only, so `GenerationInv` speaks
  of one launcher at a time (`Own`) and of one output at a time (`Output`, `SealFits`).
  Of a launcher: which case and file it has come to (`AtCase`); that a retry of each
  content and one repair bound its attempts (`Counts`); the row of its open request
  (`Asks`); how far its directory is made, and for which version (`Place`); that its
  memory is ahead of its files by the case in hand only (`Remembers`); and that what it
  read of the ledger is old but as it was (`Knows`). `Asks` carries
  `LedgerNeverUndercounts`: an open request has a reserved row at the ceiling, so a
  kill leaves too much in the ledger and never too little. `PaidWorkKept` rests on
  `Place` and `Remembers`: a launcher only buys for a case whose draft it does not
  remember, and it remembers every draft on disk. `SealedStaysWhole` is the hardest:
  an output may be sealed while a launcher still runs on it, which then writes the
  manifest again from rows it read long before, though the manifest's campaign totals
  must stay those of the sealed ledger. Rows are only added and a total only falls
  when a row settles. So the launcher's rows lie between the manifest and the ledger
  (`Knows`): no fewer than the one, no more than the other, and with as many rows a
  total in between. As long as the ledger is the sealed one, manifest and ledger
  agree, and what is written is what was there.
- `AutomatedJudge` (assumptions: the inputs list no assertion twice, `None` is no
  version, attempts and ceiling are positive), for any inputs, versions, limits and
  launches. `persist` writes four files, so a launcher may die with any prefix of them
  written. `Behind` says how far the files may be behind the launcher at each of its
  writes, and that they never say anything it took back; `Aim` is what it does once
  they are written, and `AtHand` what is known of the assertion and of its open send by
  then. `Covers` (for `JudgeSendsCoverBill`), `Earned` and the injectivity of decisions
  (for `JudgeDecisionsAreFinal`) hold of memory and files alike. `Fits` carries them
  into the copies: a package may be scored from files that were combined while a launcher
  was dead, and is still earned, because once everything is decided nothing is sent
  any more (`SealedPackageIsEarned`).
- `CitationChecker`. Of one list: what is retained is known, of the run, of the paper,
  and listed once; `supported` is given exactly to lists that lost nothing; more
  evidence never removes a reference; the legacy check is weaker. Of a draft: every
  claim is kept or removed (`DraftIsPartitioned`), a publishable one is grounded, an
  unsanitized one is the draft that was given.
- `HybridRetrieval`. The event of every retrieval is accepted by its own model except
  for the two failures of section 5 (`EventsAreAccepted`, `OneEventIsDelivered`); a
  retrieval that fell back says so (`NoSilentFallback`); a forced hybrid one never
  falls back; a fused score needs no clamp; and
  being found by the second source too always raises an item (`SecondSourceRaises`).
- `ContextSelection`. What a stage is shown is in scope and within its limits;
  nothing in scope is withheld when there is room for everything. For limits the
  constructors let through and data `CandidateContextData` accepts, `ContextPacket`
  accepts what is built exactly when no two pieces of evidence in it share an
  identifier (`PacketIsAccepted`).

The theorems of `CitationChecker`, `HybridRetrieval` and `ContextSelection` are in
`EvidenceProofs`, beside those of `EvidenceAcquisition`. The totals of ledgers and
sends are folds over lists of any length, which the provers cannot unroll: two
totals are compared through the least length at which the sums would part, from one
step of the fold. Each inductive invariant was
first checked by TLC on an instance like that of the run: `TechScoutRun` in 621,552
states, `ScholarQueue` in 874,443, `PocExecution` in 4.10 million, `CitationReview` in
294,485, `SurveyRun` with three papers in 2.15 million, `LiveGeneration` (`GenerationInv`)
in 2.87 million, `AutomatedJudge` (`JudgeInv`) in 2.33 million.

Every invariant and every action property that a passing run checks is thereby
proved; where a condition is needed beyond the modules' assumptions
(`JoinTimesOut = FALSE` for `ScholarQueue`, `RecoveryLimit = 1`) it is named above and the run's
configuration meets it. What is beyond the prover and stays with TLC: liveness
(`UnfinishedRunsEnd`, `RunEnds` and what else holds under fairness only), ENABLED, and
`GoldMatching`, whose RECURSIVE definition the provers cannot use (only
`MCCitationReview` instantiates it). The comparisons of the pure modules with their
reference definitions are evaluated by TLC over bounded inputs, beside what is
proved of them above.

## 5. Where code and documents disagree

One is a run (`evidence_unresolved`, under `findings` in `PROJECT.json`):
`techscout/research/service.py:196` makes only adapter errors into failed attempts. The
search provider answers, and the host of a page it found does not resolve:
`HttpxFetchAdapter.fetch` asks the resolver (`tools/adapters.py:460`, `:87`), whose
`gaierror` ends the stage, though `docs/techscout/running.md:12` has unavailable
evidence recorded per candidate.

These have a definition in their module; adding its name to the configuration
named (an invariant, or a property where it is an action formula) makes TLC show
the trace.

| Definition, configuration | What the code does | What is said |
|---|---|---|
| `AtMostOneRecovery`, `MCTechScoutRun` | The workspace with a failed PoC is saved before the checkpoint of `execute_poc` (`web/techscout_execution.py:863`): after a death between the two the resumed stage is a rerun the harness does not count, and the counted recovery repeats once more. | `docs/decisions/0001…:40`: "at most one recovery attempt may repeat only the failed stage" |
| `ManifestIsAuthority`, `MCTechScoutRun` | A run that fails after its publish stage answered leaves a manifest that says completed beside a failed row (`:1425`). | `docs/techscout/architecture.md:64`: "A terminal manifest and its immutable artifact hashes are run authority." |
| `OneProcessWrites`, `MCTechScoutQueue` | `close` joins for five seconds and then releases the server lock whether or not the worker ended (`web/execution.py:61`, `web/techscout_execution.py:1464`). | the web MVP design, line 559: "No second Web process may point at the same V1 registry…" |
| `FailedHasNoReport`, `MCSurveyRun` | The reports are published before the run is completed; a failure between the two keeps them (`observability/recorder.py:352`). | full-text survey design, line 740: "A failed run must not contain a newly published `report.md`…" |
| `PersistenceFailureIsRecorded`, `MCSurveyRun` | The handler of a failure writes to the trace that just failed (`pipeline.py:607`), and the manifest is left running. | agent trace design, line 340: "the pipeline attempts to finalize the manifest…" |
| `CompletedManifestIsWhole`, `MCLiveGeneration` | `case-results` is replaced before `pipeline-outputs` (`live_generation.py:1391`), so a kill lets a resume complete a manifest of an output with a hole. | `run_live_generation`: "persisting every completed case immediately" |
| `CompletedPassNotPurchasedAgain`, `MCAutomatedJudge` (a property) | A kill between the files of sends and passes makes the pass be bought again, and what is left never validates (`automated_judge.py:517`). | "Completed passes and decisions are not purchased again" |
| `CalibrationIsOfTheJudgments`, `MCCitationReview` | Calibration records and calibration judgments reach `score` through different files, and nothing binds one to the other (`cli.py:411`). | `docs/citation-human-review.md:121`: "Compute raw agreement and Cohen's kappa from original reviewer verdicts." |
| `TimedOutIsCleanedUp`, `MCPocExecution` | `docker rm --force` may itself fail or time out; the container goes on. | `docs/techscout/support-and-safety.md:29`: "forced container cleanup on timeout" |

More were met on the way:

- Harness and policy: a budget with `recovery_limit` 0 does not prevent a recovery
  (`techscout/recovery/policy.py:83`), and the counted state then fails its own validator. A
  recovery whose answer overruns the budget is stored before it is counted
  (`graph.py:317`). The gate may ask for a recovery while the last failure is not
  recoverable: the graph then reviews a report that was never drafted. The services
  mark a failed PoC with an action the policy allows for no failure
  (`web/techscout_execution.py:862`); only the gate's own failure leads to a recovery.
- TechScout runs: a failed run keeps decision reports written before its failure
  (`:1188`; `tests/web/test_techscout_wave2_e2e.py:283` expects none). A PoC that passes
  when its failed stage is rerun keeps a result without a version, which the gate
  refuses: in verified mode no recovery leads to a recommendation. A mix of a passed
  and a failed PoC after the recovery drafts the limitation `verification_failed`,
  which the manifest's validator refuses. `_summary` says `synthetic` and names the
  demo fixture of verified runs too; a projection that is torn is answered as an error
  while the row is fine; `_bundle` lists all four stages as completed of a failed run
  (not modelled).
- Survey queue: any exception while a manifest is read counts as its absence
  (`web/execution.py:177`), and an end already published is recorded as interrupted. The
  worker dies on a registry exception while `available` stays true (`:118`).
- Retrieval: a validation or lexical failure of a planned hybrid retrieval makes an
  event its own model refuses, whose `ValidationError` replaces the exception
  (`evidence/hybrid.py:115`; the hybrid retrieval plan, lines 1723–1730, has every failure
  emit exactly once; `test_validation_error_emits_one_terminal_event` covers lexical
  mode). "hybrid" without a vector source is silently lexical; the factory always
  gives one. Context selection cuts evidence at its limit before it looks at the
  scope. `CandidateContextData` does not compare the identifiers of evidence, which
  `ContextPacket` refuses when equal (`techscout/context/models.py:137`): such data fail
  their stage only where evidence is shown. The research service derives them from
  those of the chunks.
- Cache: a killed writer leaves a torn record that makes its request unanswerable; an
  older call that ends later overwrites a newer entry; more than 200 chunks of a page
  raise a `ValidationError` out of the stage; a stale search answer is not disclosed.
- Sandbox: the result of an install is lost with its container, so the resolved
  version is always the recipe's pin. An artifact that cannot be read makes a broken
  install be rerun as a test (`PassedIsEarned` excepts it by `unread`). A full pass
  whose artifact cannot be written is rerun from its install and stays failed. A client
  killed at the limit whose output names an unreachable daemon makes a `PocResult` its
  own validator refuses (`sandbox/service.py:188`), and the exception ends the run;
  output that does not decode makes a good exit `unsafe_request`. With
  exactly 45 s left, a rerun that times out ends at the deadline and is discarded.
- Generation: a stale lock file makes every later launch fail its remaining cases;
  contention for the lock when a send completes loses a paid answer; a crash while a
  run is initialized leaves an output no launch accepts; the preflight asks for
  capacity for cases that are drafted; a seal stops verifying once the campaign goes
  on; sealing refuses failed or reserved sends, and failures, though retries are
  allowed; an unsound draft is never generated again.
- Judge: the list of failures is never cleared; a crash between the state and the
  authority file is final; an answer above its ceiling is charged at the ceiling.
- Review and matching: an open assertion without assignment passes `prepare` and
  blocks `score` for ever; a score that dies leaves a directory no command completes.
  With nothing cited, the matching is "matched". At exactly 4/5 the doubles decide:
  4 of 5 and 5 tokens match, 6 of 7 and 8 do not.

## 6. Not modelled, and what could follow

- Rendering, prompts, parsers, chunking and sanitizing (text); routing, middleware,
  cursors, downloads and generated types; vectors and embedding clients; the OTLP
  exporter, whose failures the recorder swallows; argument parsing.
- The records of the TechScout trace (`techscout/observability`, `sealed_jsonl.py`):
  `TechScoutRun` keeps whether the trace is open or sealed. Their numbering, the seal
  before the manifest and the renaming of an interrupted trace are hazards without a
  property.
- The tool runtime with its policy and discovery (`techscout/tools/runtime.py`,
  `mcp_server.py`), which stands between an agent and the adapters modelled here.
- The full-text ladder (`fulltext/`): its ends are the choices of `SurveyRun`.
- TechScout evaluation, the retrieval benchmark and validation packages: batches over
  runs that are modelled, and offline arithmetic.
- The browser's polling hook.
- Within modelled code: the legacy survey entry with a retrieval service (it writes no
  manifest); temporary names of blobs; check-then-act between two operators who run
  review commands at once; what changes between `score` reading a prepared directory
  and copying it.

A next step would be a module for the TechScout trace: its hazards are the ones
without a property that a model of this kind would reach.
