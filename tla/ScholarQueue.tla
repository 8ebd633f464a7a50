---------------------------- MODULE ScholarQueue ----------------------------
(***************************************************************************)
(* The run queue of the paper survey (API v1): the runs rows and events of *)
(* the registry (web/registry.py), the executor's worker thread            *)
(* (web/execution.py), the manifest the pipeline leaves in the run's       *)
(* directory, and the requests that repair a row from it (web/service.py). *)
(* A manifest is written atomically and is authoritative over its row.     *)
(***************************************************************************)
EXTENDS Integers, FiniteSets, Sequences, ServerProcess

CONSTANTS Runs, Capacity,
          Reports,        \* phases the pipeline reports, in any order
          MaxCrashes,     \* bound on process crashes
          MaxFaults,      \* bound on failing registry operations
          MaxReadFaults   \* bound on failing reads of a manifest

Published == {"completed", "completed_with_degradation", "failed"}
Finals == Published \cup {"interrupted"}
Status == {"absent", "queued", "running"} \cup Finals

RunPhases ==
  <<"queued", "initializing", "search", "acquisition", "chunking", "retrieval",
    "analysis", "synthesis", "citation_check", "publishing", "terminal">>
RunPhase == {RunPhases[i] : i \in 1..Len(RunPhases)}
Index(ph) == CHOOSE i \in 1..Len(RunPhases) : RunPhases[i] = ph

ASSUME ScholarAssumption ==
  /\ IsFiniteSet(Runs) /\ None \notin Runs
  /\ Capacity \in Nat
  /\ Reports \subseteq RunPhase \ {"queued", "initializing", "terminal"}
  /\ MaxCrashes \in Nat /\ MaxFaults \in Nat /\ MaxReadFaults \in Nat

VARIABLES
  rows,       \* the runs table
  log,        \* run_events that change a status, per run
  manifests,  \* run_manifest.json of each run, once its directory exists
  pending,    \* rows a starting process has yet to reconcile
  pc, run,    \* the worker thread of each process, and the run it works on
  ended,      \* the status that is about to be written for it
  snap,       \* the row a request of each process has read
  crashes, faults, read_faults

vars == <<rows, log, manifests, phase, pending, lock, pc, run, ended, snap,
          crashes, faults, read_faults>>
registry == <<rows, log>>
worker == <<pc, run, ended>>
process == <<phase, lock, pending>>
bounds == <<crashes, faults, read_faults>>

Row == [status : Status, phase : RunPhase, artifact : BOOLEAN, created : Nat]
Manifest == Published \cup {None, "running"}

(* A worker has the settings and the directory made, registers it, lets    *)
(* the pipeline run, reads its row, reads the manifest, writes the end.    *)
Busy == {"prepare", "register", "pipeline", "fail_early", "read_row",
         "read_manifest", "write_end"}

NoRequest == [run |-> None, status |-> "absent", terminal |-> FALSE]
-----------------------------------------------------------------------------
(* Registry operations.                                                    *)

(* The mutant counts only those that wait.                                 *)
ActiveQueuedOnly == {r \in Runs : rows[r].status = "queued"}
Active == {r \in Runs : rows[r].status \in {"queued", "running"}}

Recorded(r, row, event) ==
  /\ rows' = [rows EXCEPT ![r] = row]
  /\ log' = [log EXCEPT ![r] = Append(@, event)]

HasRoom == Cardinality(Active) < Capacity

Admit(p, r) ==
  /\ phase[p] = "up"
  /\ rows[r].status = "absent"
  /\ HasRoom
  /\ \E stamp \in 1..Cardinality(Runs) :
       /\ \A q \in Runs : rows[q].created # stamp
       /\ Recorded(r, [status |-> "queued", phase |-> "queued",
                       artifact |-> FALSE, created |-> stamp], "queued")
  /\ UNCHANGED <<manifests, process, worker, snap, bounds>>

Oldest(S) == {r \in S : \A q \in S : rows[r].created <= rows[q].created}

Claimable ==
  IF \E r \in Runs : rows[r].status = "running" THEN {}
  ELSE Oldest({r \in Runs : rows[r].status = "queued"})

Claimed(r) ==
  Recorded(r, [rows[r] EXCEPT !.status = "running",
                              !.phase = "initializing"], "running")

(* The row's present status is not looked at.                              *)
Terminal(r, status) ==
  Recorded(r, [rows[r] EXCEPT !.status = status, !.phase = "terminal"], status)

(* A report of an earlier phase is dropped; the mutant writes it.          *)
AdvancedOrNot(row, ph) == [row EXCEPT !.phase = ph]
Advanced(row, ph) ==
  IF Index(ph) < Index(row.phase) THEN row ELSE [row EXCEPT !.phase = ph]
-----------------------------------------------------------------------------
(* Processes.                                                              *)

Fault == faults < MaxFaults /\ faults' = faults + 1
         /\ UNCHANGED <<crashes, read_faults>>

AcquireLock(p) ==
  AcquiresLock(p) /\ UNCHANGED <<registry, manifests, pending, worker, snap, bounds>>

ReadActive(p) ==
  /\ ReadsUnfinished(p)
  /\ pending' = [pending EXCEPT ![p] = {[run |-> r, artifact |-> rows[r].artifact] :
                                          r \in Active}]
  /\ UNCHANGED <<registry, manifests, worker, snap, bounds>>

(* What a row's end is by the manifest of a directory that is known.       *)
EndIgnoringManifest(r, known) == "interrupted"
EndUnchecked(r, known) == IF known THEN manifests[r] ELSE "interrupted"
EndOf(r, known) ==
  IF known /\ manifests[r] \in Published THEN manifests[r] ELSE "interrupted"

(* The manifest is read; any exception counts as no manifest.              *)
ReadsEnd(p, r, known) ==
  \/ /\ ended' = [ended EXCEPT ![p] = EndOf(r, known)]
     /\ UNCHANGED bounds
  \/ /\ known /\ read_faults < MaxReadFaults
     /\ ended' = [ended EXCEPT ![p] = "interrupted"]
     /\ read_faults' = read_faults + 1 /\ UNCHANGED <<crashes, faults>>

ReconcileStartup(p) ==
  /\ phase[p] = "starting" /\ run[p] = None
  /\ \E x \in pending[p] :
       /\ x.run \in Oldest({y.run : y \in pending[p]})
       /\ ReadsEnd(p, x.run, x.artifact)
       /\ run' = [run EXCEPT ![p] = x.run]
       /\ pending' = [pending EXCEPT ![p] = @ \ {x}]
  /\ UNCHANGED <<registry, manifests, phase, lock, pc, snap>>

WriteReconciled(p) ==
  /\ phase[p] = "starting" /\ run[p] # None
  /\ Terminal(run[p], ended[p])
  /\ run' = [run EXCEPT ![p] = None]
  /\ ended' = [ended EXCEPT ![p] = None]
  /\ UNCHANGED <<manifests, process, pc, snap, bounds>>

Serve(p) ==
  /\ Opens(p) /\ pending[p] = {} /\ run[p] = None
  /\ pc' = [pc EXCEPT ![p] = "look"]
  /\ UNCHANGED <<registry, manifests, pending, run, ended, snap, bounds>>

(* The server closes once its requests are answered.                       *)
Close(p) ==
  /\ Closes(p) /\ snap[p] = NoRequest
  /\ UNCHANGED <<registry, manifests, pending, worker, snap, bounds>>

ReleaseLock(p) ==
  /\ ReleasesLock(p, pc[p] \in {"stopped", "dead"})
  /\ UNCHANGED <<registry, manifests, pending, worker, snap, bounds>>

(* A daemon thread and the requests die with the process.                  *)
Killed(p) ==
  /\ pending' = [pending EXCEPT ![p] = {}]
  /\ pc' = [pc EXCEPT ![p] = IF @ = "none" THEN @ ELSE "dead"]
  /\ run' = [run EXCEPT ![p] = None]
  /\ ended' = [ended EXCEPT ![p] = None]
  /\ snap' = [snap EXCEPT ![p] = NoRequest]
  /\ UNCHANGED <<registry, manifests>>

Exit(p) == Exits(p) /\ Killed(p) /\ UNCHANGED bounds

Crash(p) ==
  /\ Crashes(p) /\ crashes < MaxCrashes
  /\ Killed(p)
  /\ crashes' = crashes + 1 /\ UNCHANGED <<faults, read_faults>>

StartFails(p) == FailsToStart(p) /\ Fault /\ Killed(p)
-----------------------------------------------------------------------------
(* The worker.  Only the pipeline call is inside a try: an exception of    *)
(* the registry anywhere else ends the thread.                             *)

Goto(p, l) == pc' = [pc EXCEPT ![p] = l]

Dies(p) ==
  /\ Goto(p, "dead")
  /\ run' = [run EXCEPT ![p] = None]
  /\ ended' = [ended EXCEPT ![p] = None]

Look(p) ==
  /\ pc[p] = "look"
  /\ Goto(p, IF phase[p] = "up" THEN "claim" ELSE "stopped")
  /\ UNCHANGED <<registry, manifests, process, run, ended, snap, bounds>>

ClaimOldest(p) ==
  /\ pc[p] = "claim"
  /\ \/ /\ Claimable = {}
        /\ Goto(p, "look")
        /\ UNCHANGED <<registry, run>>
     \/ \E r \in Claimable :
          /\ Claimed(r)
          /\ run' = [run EXCEPT ![p] = r]
          /\ Goto(p, "prepare")
  /\ UNCHANGED <<manifests, process, ended, snap, bounds>>

ClaimRaises(p) ==
  /\ pc[p] = "claim" /\ Fault
  /\ UNCHANGED registry \/ \E r \in Claimable : Claimed(r)
  /\ Dies(p)
  /\ UNCHANGED <<manifests, process, snap>>

Progress(p) ==
  /\ pc[p] = "pipeline"
  /\ \E ph \in Reports : rows' = [rows EXCEPT ![run[p]] = Advanced(@, ph)]
  /\ UNCHANGED <<log, manifests, process, worker, snap, bounds>>

(* Settings, credentials or clients are missing: no directory is made.     *)
PrepareRaises(p) ==
  /\ pc[p] = "prepare" /\ Goto(p, "fail_early")
  /\ UNCHANGED <<registry, manifests, process, run, ended, snap, bounds>>

CreateDirectory(p) ==
  /\ pc[p] = "prepare"
  /\ manifests' = [manifests EXCEPT ![run[p]] = "running"]
  /\ Goto(p, "register")
  /\ UNCHANGED <<registry, process, run, ended, snap, bounds>>

SetArtifactId(p) ==
  /\ pc[p] = "register"
  /\ rows' = [rows EXCEPT ![run[p]].artifact = TRUE]
  /\ Goto(p, "pipeline")
  /\ UNCHANGED <<log, manifests, process, run, ended, snap, bounds>>

SetArtifactIdRaises(p) ==
  /\ pc[p] = "register" /\ Fault
  /\ Goto(p, "fail_early")
  /\ UNCHANGED <<registry, manifests, process, run, ended, snap>>

(* The pipeline writes its terminal manifest, or raises without it.        *)
PipelineEnds(p) ==
  /\ pc[p] = "pipeline"
  /\ \E m \in Published \cup {"running"} :
       manifests' = [manifests EXCEPT ![run[p]] = m]
  /\ Goto(p, "read_row")
  /\ UNCHANGED <<registry, process, run, ended, snap, bounds>>

ReadRow(p) ==
  /\ pc[p] = "read_row"
  /\ IF rows[run[p]].artifact
     THEN Goto(p, "read_manifest") /\ UNCHANGED ended
     ELSE Goto(p, "write_end") /\ ended' = [ended EXCEPT ![p] = "interrupted"]
  /\ UNCHANGED <<registry, manifests, process, run, snap, bounds>>

ReadManifest(p) ==
  /\ pc[p] = "read_manifest"
  /\ ReadsEnd(p, run[p], TRUE)
  /\ Goto(p, "write_end")
  /\ UNCHANGED <<registry, manifests, process, run, snap>>

Done(p) ==
  /\ Goto(p, "look")
  /\ run' = [run EXCEPT ![p] = None]
  /\ ended' = [ended EXCEPT ![p] = None]
  /\ UNCHANGED <<manifests, process, snap, bounds>>

WriteEnd(p) ==
  pc[p] = "write_end" /\ Terminal(run[p], ended[p]) /\ Done(p)

FailEarly(p) ==
  pc[p] = "fail_early" /\ Terminal(run[p], "failed") /\ Done(p)

WorkerRaises(p) ==
  /\ pc[p] \in {"read_row", "write_end", "fail_early"} /\ Fault
  /\ Dies(p)
  /\ UNCHANGED <<registry, manifests, process, snap>>
-----------------------------------------------------------------------------
(* Requests: detail and list read the row, then the manifest, and write    *)
(* the row's end unless the row they have read says the same.  A row       *)
(* without a directory is only shown.                                      *)

ReadsRow(p, r) ==
  /\ phase[p] = "up" /\ snap[p] = NoRequest
  /\ rows[r].artifact
  /\ snap' = [snap EXCEPT ![p] = [run |-> r, status |-> rows[r].status,
                                 terminal |-> rows[r].phase = "terminal"]]
  /\ UNCHANGED <<registry, manifests, process, worker, bounds>>

ManifestAndReconcile(p) ==
  LET r == snap[p].run
  IN /\ snap[p] # NoRequest
     /\ IF /\ manifests[r] \in Published
           /\ snap[p].status # manifests[r] \/ ~snap[p].terminal
        THEN Terminal(r, manifests[r])
        ELSE UNCHANGED registry
     /\ snap' = [snap EXCEPT ![p] = NoRequest]
     /\ UNCHANGED <<manifests, process, worker, bounds>>
-----------------------------------------------------------------------------
Init ==
  /\ rows = [r \in Runs |-> [status |-> "absent", phase |-> "queued",
                             artifact |-> FALSE, created |-> 0]]
  /\ log = [r \in Runs |-> <<>>]
  /\ manifests = [r \in Runs |-> None]
  /\ phase = [p \in Processes |-> "new"]
  /\ pending = [p \in Processes |-> {}]
  /\ lock = None
  /\ pc = [p \in Processes |-> "none"]
  /\ run = [p \in Processes |-> None]
  /\ ended = [p \in Processes |-> None]
  /\ snap = [p \in Processes |-> NoRequest]
  /\ crashes = 0 /\ faults = 0 /\ read_faults = 0

StartStep(p) ==
  ReadActive(p) \/ ReconcileStartup(p) \/ WriteReconciled(p) \/ Serve(p)

ExecutionStep(p) ==
  PrepareRaises(p) \/ CreateDirectory(p) \/ SetArtifactId(p) \/ PipelineEnds(p)

WorkerStep(p) ==
  Look(p) \/ ClaimOldest(p) \/ ReadRow(p) \/ ReadManifest(p) \/ WriteEnd(p)
  \/ FailEarly(p)

Next ==
  \E p \in Processes :
    \/ \E r \in Runs : Admit(p, r) \/ ReadsRow(p, r)
    \/ AcquireLock(p) \/ StartStep(p) \/ StartFails(p)
    \/ Close(p) \/ ReleaseLock(p) \/ Exit(p) \/ Crash(p)
    \/ Progress(p) \/ ExecutionStep(p) \/ WorkerStep(p)
    \/ ClaimRaises(p) \/ SetArtifactIdRaises(p) \/ WorkerRaises(p)
    \/ ManifestAndReconcile(p)

Spec == Init /\ [][Next]_vars

(* Threads are scheduled, and every pipeline call returns or raises: its   *)
(* clients have timeouts.                                                  *)
Fairness ==
  \A p \in Processes :
    WF_vars(StartStep(p)) /\ WF_vars(ExecutionStep(p)) /\ WF_vars(WorkerStep(p))

FairSpec == Spec /\ Fairness
-----------------------------------------------------------------------------
(* Rows, manifests, processes, workers and requests are well typed, and a  *)
(* worker knows a run exactly while it executes one.                       *)
TypeOK ==
  /\ rows \in [Runs -> Row]
  /\ log \in [Runs -> Seq(Status)]
  /\ manifests \in [Runs -> Manifest]
  /\ phase \in [Processes -> Phase]
  /\ pending \in [Processes -> SUBSET [run : Runs, artifact : BOOLEAN]]
  /\ lock \in Processes \cup {None}
  /\ pc \in [Processes -> Busy \cup {"none", "look", "claim", "stopped", "dead"}]
  /\ run \in [Processes -> Runs \cup {None}]
  /\ ended \in [Processes -> Finals \cup {None}]
  /\ snap \in [Processes -> {NoRequest} \cup
                [run : Runs, status : Status, terminal : BOOLEAN]]
  /\ \A p \in Processes :
       run[p] # None <=> \/ pc[p] \in Busy
                         \/ phase[p] = "starting" /\ ended[p] # None
  /\ crashes \in 0..MaxCrashes /\ faults \in 0..MaxFaults
  /\ read_faults \in 0..MaxReadFaults

AllRead == read_faults = 0

(* A terminal manifest is authoritative: a row that shows a published end  *)
(* of a known directory shows the manifest's, and a row is not called      *)
(* interrupted while its directory holds one, whoever wrote last of the    *)
(* worker, the startup and the requests - unless reading it has failed.    *)
RowFollowsManifest ==
  AllRead => \A r \in Runs :
    LET row == rows[r]
    IN row.status \in Finals =>
         IF row.artifact /\ manifests[r] \in Published
         THEN row.status = manifests[r]
         ELSE row.status \in {"interrupted", "failed"}

(* The events of a run end with its status, and none follows a published   *)
(* end but its repetition, unless a manifest could not be read.            *)
HistoryMatchesRow ==
  \A r \in Runs :
    LET h == log[r]
    IN IF h = <<>> THEN rows[r].status = "absent"
       ELSE /\ rows[r].status = h[Len(h)]
            /\ AllRead =>
                 \A i, j \in 1..Len(h) :
                   i < j /\ h[i] \in Published => h[j] = h[i]

(* Whoever wrote last of worker, startup and requests, a run's row agrees  *)
(* with its manifest and with its events.                                  *)
RowAgrees == RowFollowsManifest /\ HistoryMatchesRow

(* The status of a run moves along the contract's transitions: a queued    *)
(* run starts, is cut off, or is never resumed; an interrupted one is      *)
(* repaired to what its manifest says; a published end stays, unless a     *)
(* manifest could not be read.                                             *)
StatusMovesForward ==
  [][AllRead' => \A r \in Runs :
       LET old == rows[r].status
           new == rows'[r].status
       IN old # new =>
            CASE old = "absent"      -> new = "queued"
              [] old = "queued"      -> new \in {"running", "interrupted"}
              [] old = "running"     -> new \in Finals
              [] old = "interrupted" -> new = manifests[r]
              [] OTHER               -> FALSE]_vars

(* The phase a client is shown never moves backward, though the pipeline   *)
(* revisits phases for every paper and several writers end the run.        *)
PhaseMovesForward ==
  [][\A r \in Runs : Index(rows'[r].phase) >= Index(rows[r].phase)]_vars

(* What a client is shown moves forward only, status and phase.            *)
MovesForward == StatusMovesForward /\ PhaseMovesForward

(* An accepted run ends unless the server stops or its worker has died.    *)
Working(p) == pc[p] \in Busy \cup {"look", "claim"}
UnfinishedRunsEnd ==
  \A r \in Runs :
    rows[r].status \in {"queued", "running"} ~>
      (rows[r].status \in Finals \/ \A p \in Processes : ~Working(p))
=============================================================================
