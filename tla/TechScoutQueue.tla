--------------------------- MODULE TechScoutQueue ---------------------------
(***************************************************************************)
(* The TechScout run queue: the techscout_runs rows and run_events of the  *)
(* registry (web/registry.py), the executor's single worker thread and the *)
(* files it publishes (web/techscout_execution.py), and the web processes  *)
(* that start, close and die around them (web/app.py, web/execution.py).   *)
(* Every registry operation is one SQLite transaction, hence one action.   *)
(* The graph of a run is Harness; here an execution ends with a status or  *)
(* an exception.                                                           *)
(***************************************************************************)
EXTENDS Integers, FiniteSets, Sequences, ServerProcess

CONSTANTS Runs,           \* run identifiers
          Capacity,       \* queue_capacity
          MaxCrashes,     \* bound on process crashes
          MaxFaults       \* bound on failing registry and file operations

(* completed stands for completed_with_limitations too, and plan for every *)
(* working stage of the API: the queue never tells them apart.             *)
Finals == {"completed", "failed"}
Status == {"absent", "queued", "running"} \cup Finals
ApiStage == {"plan"}

ASSUME QueueAssumption ==
  /\ IsFiniteSet(Runs) /\ None \notin Runs
  /\ Capacity \in Nat
  /\ MaxCrashes \in Nat /\ MaxFaults \in Nat

VARIABLES
  rows,     \* techscout_runs
  log,      \* run_events that change a status, per run
  files,    \* the projection file in each run's directory
  pending,  \* rows a starting process has yet to requeue
  pc, run,  \* the worker thread of each process, and the run it claimed
  ended,    \* the status and files of the execution to be recorded
  crashes, faults

(* A history variable, which no guard reads: the runs that a worker had in *)
(* hand when the close of its process gave up on it, or took up after.     *)
VARIABLE strayed

vars == <<rows, log, files, phase, pending, lock, pc, run, ended, crashes,
          faults, strayed>>
registry == <<rows, log>>
worker == <<pc, run, ended>>
process == <<phase, lock, pending>>
bounds == <<crashes, faults, strayed>>

(* projection: what the row's projection_path names, once it is set.       *)
Row == [status : Status, stage : ApiStage \cup {"terminal"},
        created : Nat, projection : BOOLEAN]

(* The projection file holds a status, or is cut off in the middle; the    *)
(* reports written beside it are read by nobody here.                      *)
Files == Finals \cup {None, "torn"}

(* The worker's program: it looks at _stop, claims, lets the engine run,   *)
(* records the end; or it publishes and records a failure, and at last     *)
(* releases the queue.                                                     *)
Busy == {"engine", "record", "rescue", "record_failure", "release"}
-----------------------------------------------------------------------------
(* Registry operations.                                                    *)

Active == {r \in Runs : rows[r].status \in {"queued", "running"}}

Recorded(r, row, event) ==
  /\ rows' = [rows EXCEPT ![r] = row]
  /\ log' = [log EXCEPT ![r] = Append(@, event)]

HasRoom == Cardinality(Active) < Capacity

(* TechScoutProjectionService: what a client is told of the status in the  *)
(* list of runs, and in the details, which come from the projection file   *)
(* as soon as the row points to one ("torn" is an error answer).           *)
Summary(r) == rows[r].status
Detail(r) == IF rows[r].projection THEN files[r] ELSE Summary(r)

(* created_at is drawn before the transaction begins, so a later admission *)
(* may carry an earlier stamp.                                             *)
AdmitTechscout(p, r) ==
  /\ phase[p] = "up"
  /\ rows[r].status = "absent"
  /\ HasRoom
  /\ \E stamp \in 1..Cardinality(Runs) :
       /\ \A q \in Runs : rows[q].created # stamp
       /\ Recorded(r, [status |-> "queued", stage |-> "plan",
                       created |-> stamp, projection |-> FALSE], "queued")
  /\ UNCHANGED <<files, process, worker, bounds>>

Oldest(S) == {r \in S : \A q \in S : rows[r].created <= rows[q].created}

ClaimableWhileBusy == Oldest({r \in Runs : rows[r].status = "queued"})
Claimable ==
  IF \E r \in Runs : rows[r].status = "running" THEN {}
  ELSE Oldest({r \in Runs : rows[r].status = "queued"})

(* The stage of a row that was requeued stays what it was.                 *)
Claimed(r) ==
  Recorded(r, [rows[r] EXCEPT !.status = "running"], "running")

Terminated(r, status, projection) ==
  Recorded(r, [rows[r] EXCEPT !.status = status, !.stage = "terminal",
                              !.projection = projection], status)

(* fail_stuck_techscout: the projection path is left as it is; its mutant  *)
(* looks for the status the run had before its claim.                      *)
ReleasedIfQueued(r) ==
  IF rows[r].status = "queued"
  THEN Recorded(r, [rows[r] EXCEPT !.status = "failed",
                                   !.stage = "terminal"], "failed")
  ELSE UNCHANGED registry
Released(r) ==
  IF rows[r].status = "running"
  THEN Recorded(r, [rows[r] EXCEPT !.status = "failed",
                                   !.stage = "terminal"], "failed")
  ELSE UNCHANGED registry

(* requeue_techscout; its mutant uses the other queue's status.            *)
RequeuedAsInterrupted(r) ==
  IF rows[r].status = "running"
  THEN Recorded(r, [rows[r] EXCEPT !.status = "interrupted"], "requeued")
  ELSE UNCHANGED registry
Requeued(r) ==
  IF rows[r].status = "running"
  THEN Recorded(r, [rows[r] EXCEPT !.status = "queued"], "requeued")
  ELSE UNCHANGED registry
-----------------------------------------------------------------------------
(* Processes.                                                              *)

Fault ==
  faults < MaxFaults /\ faults' = faults + 1 /\ UNCHANGED <<crashes, strayed>>

AcquireLock(p) ==
  AcquiresLock(p) /\ UNCHANGED <<registry, files, pending, worker, bounds>>

ReadActive(p) ==
  /\ ReadsUnfinished(p)
  /\ pending' = [pending EXCEPT ![p] = Active]
  /\ UNCHANGED <<registry, files, worker, bounds>>

Requeue(p, r) ==
  /\ phase[p] = "starting"
  /\ r \in Oldest(pending[p])
  /\ Requeued(r)
  /\ pending' = [pending EXCEPT ![p] = @ \ {r}]
  /\ UNCHANGED <<files, phase, lock, worker, bounds>>

Serve(p) ==
  /\ Opens(p) /\ pending[p] = {}
  /\ pc' = [pc EXCEPT ![p] = "look"]
  /\ UNCHANGED <<registry, files, pending, run, ended, bounds>>

Close(p) ==
  Closes(p) /\ UNCHANGED <<registry, files, pending, worker, bounds>>

ReleaseLock(p) ==
  /\ ReleasesLock(p, pc[p] \in {"stopped", "dead"})
  /\ strayed' = strayed \cup (IF pc[p] \in Busy THEN {run[p]} ELSE {})
  /\ UNCHANGED <<registry, files, pending, worker, crashes, faults>>

(* The file a dying or failing writer leaves.                              *)
Torn(f) == {f, "torn"}

(* The worker is a daemon thread: it dies with the process.                *)
Killed(p) ==
  /\ pending' = [pending EXCEPT ![p] = {}]
  /\ pc' = [pc EXCEPT ![p] = IF @ = "none" THEN @ ELSE "dead"]
  /\ run' = [run EXCEPT ![p] = None]
  /\ ended' = [ended EXCEPT ![p] = None]
  /\ IF pc[p] \in {"engine", "rescue"}
     THEN \E f \in Torn(files[run[p]]) : files' = [files EXCEPT ![run[p]] = f]
     ELSE UNCHANGED files
  /\ UNCHANGED registry

Exit(p) == Exits(p) /\ Killed(p) /\ UNCHANGED bounds

Crash(p) ==
  /\ Crashes(p) /\ crashes < MaxCrashes
  /\ Killed(p)
  /\ crashes' = crashes + 1 /\ UNCHANGED <<faults, strayed>>

StartFails(p) ==
  /\ FailsToStart(p) /\ Fault
  /\ pending' = [pending EXCEPT ![p] = {}]
  /\ UNCHANGED <<registry, files, worker>>
-----------------------------------------------------------------------------
(* The worker.                                                             *)

Goto(p, l) == pc' = [pc EXCEPT ![p] = l]

Look(p) ==
  /\ pc[p] = "look"
  /\ Goto(p, IF phase[p] = "up" THEN "claim" ELSE "stopped")
  /\ UNCHANGED <<process, registry, files, run, ended, bounds>>

Claim(p) ==
  /\ pc[p] = "claim"
  /\ \/ /\ Claimable = {}
        /\ Goto(p, "look")
        /\ UNCHANGED <<registry, run, strayed>>
     \/ \E r \in Claimable :
          /\ Claimed(r)
          /\ run' = [run EXCEPT ![p] = r]
          /\ Goto(p, "engine")
          /\ strayed' = strayed \cup (IF phase[p] = "released" THEN {r} ELSE {})
  /\ UNCHANGED <<process, files, ended, crashes, faults>>

(* claim_oldest_techscout is called outside the worker's try: an exception *)
(* ends the thread, before the claim or, when the row is read back, after. *)
ClaimRaises(p) ==
  /\ pc[p] = "claim" /\ Fault
  /\ UNCHANGED registry \/ \E r \in Claimable : Claimed(r)
  /\ Goto(p, "dead")
  /\ UNCHANGED <<process, files, run, ended>>

(* A stage reports progress; the row's status is not looked at.            *)
Progress(p) ==
  /\ pc[p] = "engine"
  /\ \E s \in ApiStage : rows' = [rows EXCEPT ![run[p]].stage = s]
  /\ UNCHANGED <<process, log, files, worker, bounds>>

(* The engine publishes the files and seals the trace.                     *)
EngineEnds(p) ==
  /\ pc[p] = "engine"
  /\ \E s \in Finals :
       /\ files' = [files EXCEPT ![run[p]] = s]
       /\ ended' = [ended EXCEPT ![p] = s]
  /\ Goto(p, "record")
  /\ UNCHANGED <<process, registry, run, bounds>>

(* It may raise before it publishes, in the middle of it, or after.        *)
EngineRaises(p) ==
  /\ pc[p] = "engine"
  /\ \E f \in Torn(files[run[p]]) \cup Finals :
       files' = [files EXCEPT ![run[p]] = f]
  /\ Goto(p, "rescue")
  /\ UNCHANGED <<process, registry, run, ended, bounds>>

Done(p) ==
  /\ Goto(p, "look")
  /\ run' = [run EXCEPT ![p] = None]
  /\ ended' = [ended EXCEPT ![p] = None]
  /\ UNCHANGED <<process, files>>

RecordEnd(p) ==
  /\ pc[p] = "record"
  /\ Terminated(run[p], ended[p], TRUE)
  /\ Done(p) /\ UNCHANGED bounds

RecordEndRaises(p) ==
  /\ pc[p] = "record" /\ Fault
  /\ Goto(p, "rescue")
  /\ ended' = [ended EXCEPT ![p] = None]
  /\ UNCHANGED <<process, registry, files, run>>

(* publish_failed_projection overwrites the projection; its mutant keeps a *)
(* projection that is there.                                               *)
FailedFilesKeeping(f) == IF f \in Finals THEN f ELSE "failed"
FailedFiles(f) == "failed"

Rescue(p) ==
  /\ pc[p] = "rescue"
  /\ files' = [files EXCEPT ![run[p]] = FailedFiles(@)]
  /\ Goto(p, "record_failure")
  /\ UNCHANGED <<process, registry, run, ended, bounds>>

RescueRaises(p) ==
  /\ pc[p] = "rescue" /\ Fault
  /\ \E f \in Torn(files[run[p]]) \cup {FailedFiles(files[run[p]])} :
       files' = [files EXCEPT ![run[p]] = f]
  /\ Goto(p, "release")
  /\ UNCHANGED <<process, registry, run, ended>>

RecordFailure(p) ==
  /\ pc[p] = "record_failure"
  /\ Terminated(run[p], "failed", TRUE)
  /\ Done(p) /\ UNCHANGED bounds

RecordFailureRaises(p) ==
  /\ pc[p] = "record_failure" /\ Fault
  /\ Goto(p, "release")
  /\ UNCHANGED <<process, registry, files, run, ended>>

Release(p) ==
  /\ pc[p] = "release"
  /\ Released(run[p])
  /\ Done(p) /\ UNCHANGED bounds

(* The row stays running: nothing is claimed until a process restarts.     *)
ReleaseRaises(p) ==
  /\ pc[p] = "release" /\ Fault
  /\ Done(p) /\ UNCHANGED registry
-----------------------------------------------------------------------------
Init ==
  /\ rows = [r \in Runs |-> [status |-> "absent", stage |-> "plan",
                             created |-> 0, projection |-> FALSE]]
  /\ log = [r \in Runs |-> <<>>]
  /\ files = [r \in Runs |-> None]
  /\ phase = [p \in Processes |-> "new"]
  /\ pending = [p \in Processes |-> {}]
  /\ lock = None
  /\ pc = [p \in Processes |-> "none"]
  /\ run = [p \in Processes |-> None]
  /\ ended = [p \in Processes |-> None]
  /\ crashes = 0 /\ faults = 0 /\ strayed = {}

StartStep(p) ==
  ReadActive(p) \/ (\E r \in Runs : Requeue(p, r)) \/ Serve(p)

EngineStops(p) == EngineEnds(p) \/ EngineRaises(p)

WorkerStep(p) ==
  Look(p) \/ Claim(p) \/ RecordEnd(p) \/ Rescue(p) \/ RecordFailure(p)
  \/ Release(p)

WorkerFault(p) ==
  ClaimRaises(p) \/ RecordEndRaises(p) \/ RescueRaises(p)
  \/ RecordFailureRaises(p) \/ ReleaseRaises(p)

Next ==
  \E p \in Processes :
    \/ \E r \in Runs : AdmitTechscout(p, r)
    \/ AcquireLock(p) \/ StartStep(p) \/ StartFails(p)
    \/ Close(p) \/ ReleaseLock(p) \/ Exit(p) \/ Crash(p)
    \/ Progress(p) \/ EngineStops(p) \/ WorkerStep(p) \/ WorkerFault(p)

Spec == Init /\ [][Next]_vars

(* Threads are scheduled, and the graph's step budget and deadlines end    *)
(* every execution; progress reports alone are no progress.                *)
Fairness ==
  \A p \in Processes :
    /\ WF_vars(StartStep(p)) /\ WF_vars(EngineStops(p))
    /\ WF_vars(WorkerStep(p))

FairSpec == Spec /\ Fairness
-----------------------------------------------------------------------------
(* The registry, the files, the processes and their workers are well typed *)
(* and a worker knows a run exactly while it executes one.                 *)
TypeOK ==
  /\ rows \in [Runs -> Row]
  /\ log \in [Runs -> Seq(Status \cup {"requeued"})]
  /\ files \in [Runs -> Files]
  /\ phase \in [Processes -> Phase]
  /\ pending \in [Processes -> SUBSET Runs]
  /\ lock \in Processes \cup {None}
  /\ pc \in [Processes -> Busy \cup {"none", "look", "claim", "stopped", "dead"}]
  /\ run \in [Processes -> Runs \cup {None}]
  /\ ended \in [Processes -> Finals \cup {None}]
  /\ \A p \in Processes :
       (pc[p] \in Busy <=> run[p] # None) /\ (pc[p] = "record" <=> ended[p] # None)
  /\ crashes \in 0..MaxCrashes /\ faults \in 0..MaxFaults
  /\ strayed \in SUBSET Runs

(* A worker that executes a run is the worker of the process that holds    *)
(* the lock, or its process gave it up when it closed.  What the latter    *)
(* does is confined to the runs it had in hand: whoever executes any other *)
(* run holds the lock and writes to the row that is running, never over    *)
(* what a restarted process has made of the run since.                     *)
WorkerOwnsItsRow ==
  \A p \in Processes :
    pc[p] \in Busy =>
      /\ lock = p \/ phase[p] = "released"
      /\ run[p] \notin strayed => lock = p /\ rows[run[p]].status = "running"

(* The events tell the run's whole story: accepted, started, given back    *)
(* and started again for each restart, finished once; and the last one is  *)
(* the row's status.                                                       *)
HistoryMatchesRow ==
  \A r \in Runs \ strayed :
    LET h == log[r]
        follows(e) == CASE e = "queued"   -> {"running"}
                        [] e = "running"  -> {"requeued"} \cup Finals
                        [] e = "requeued" -> {"running"}
                        [] OTHER          -> {}
    IN IF h = <<>> THEN rows[r].status = "absent"
       ELSE /\ h[1] = "queued"
            /\ \A i \in 1..Len(h) - 1 : h[i + 1] \in follows(h[i])
            /\ rows[r].status =
                 IF h[Len(h)] = "requeued" THEN "queued" ELSE h[Len(h)]

(* The details of a run, read from the projection its row points to, name  *)
(* the status that the list of runs names.                                 *)
ProjectionMatchesRow ==
  \A r \in Runs \ strayed :
    /\ Detail(r) = Summary(r)
    /\ rows[r].projection => rows[r].status \in Finals

(* The stage is terminal exactly when the run is finished.                 *)
TerminalStage ==
  \A r \in Runs \ strayed :
    rows[r].stage = "terminal" <=> rows[r].status \in Finals

(* What a client sees of a run in three places agrees after every step of  *)
(* workers, starts and rescues, whichever of them failed and where a       *)
(* process died: the events it pages through, the row's status and stage,  *)
(* and the projection the row points to.  Excepted are the runs that two   *)
(* workers may have executed at once, after a close that gave up on one.   *)
RowAgrees == HistoryMatchesRow /\ ProjectionMatchesRow /\ TerminalStage

(* The queue implements the life cycle its users are promised, in which a  *)
(* run that was given up in execution may be finished out of turn.         *)
Lifecycle ==
  INSTANCE RunLifecycle WITH status <- [r \in Runs |-> rows[r].status]
ImplementsLifecycle == Lifecycle!Spec

(* An accepted run finishes, unless the server stops or its worker has     *)
(* died: no failure of an execution or of its recording blocks the queue.  *)
Working(p) == pc[p] \in Busy \cup {"look", "claim"}
UnfinishedRunsEnd ==
  \A r \in Runs :
    rows[r].status \in {"queued", "running"} ~>
      (rows[r].status \in Finals \/ \A p \in Processes : ~Working(p))

(* What the code is expected to do but does not in every case.             *)

(* No second process works on the registry: it fails to start while        *)
(* another instance's worker executes.                                     *)
OneProcessWrites == \A p \in Processes : pc[p] \in Busy => lock = p

=============================================================================
