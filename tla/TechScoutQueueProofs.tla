------------------------ MODULE TechScoutQueueProofs ------------------------
(***************************************************************************)
(* Theorems about TechScoutQueue, for any number of runs, processes,       *)
(* crashes and failing operations and every capacity, and whether or not a *)
(* close gives up on a busy worker.                                        *)
(***************************************************************************)
EXTENDS TechScoutQueue, FiniteSetTheorems, SequenceTheorems, TLAPS

Events == Status \cup {"requeued"}
-----------------------------------------------------------------------------
(* Types.                                                                  *)

LEMMA ActiveType == Active \subseteq Runs
BY DEF Active

LEMMA OldestType == ASSUME NEW S PROVE Oldest(S) \subseteq S
BY DEF Oldest

(* Recording keeps the registry's types.                                   *)
LEMMA RecordedType ==
  ASSUME TypeOK, NEW r \in Runs, NEW row \in Row, NEW event \in Events,
         Recorded(r, row, event)
  PROVE  /\ rows' \in [Runs -> Row]
         /\ log' \in [Runs -> Seq(Status \cup {"requeued"})]
<1>1. rows \in [Runs -> Row] /\ log \in [Runs -> Seq(Status \cup {"requeued"})]
  BY DEF TypeOK
<1>2. Append(log[r], event) \in Seq(Status \cup {"requeued"})
  BY <1>1, AppendProperties DEF Events
<1> QED BY <1>1, <1>2 DEF Recorded

LEMMA RowChangeType ==
  ASSUME TypeOK, NEW r \in Runs
  PROVE  /\ \A s \in Status : [rows[r] EXCEPT !.status = s] \in Row
         /\ \A s \in Finals, b \in BOOLEAN :
              [rows[r] EXCEPT !.status = s, !.stage = "terminal",
                              !.projection = b] \in Row
         /\ [rows[r] EXCEPT !.status = "failed", !.stage = "terminal"] \in Row
<1>1. rows[r] \in Row
  BY DEF TypeOK
<1> QED BY <1>1 DEF Row, Status, Finals

LEMMA TornType ==
  ASSUME NEW f \in Files PROVE Torn(f) \subseteq Files /\ FailedFiles(f) \in Files
BY DEF Torn, FailedFiles, Files, Finals

(* A busy worker's run is one of the runs.                                 *)
LEMMA BusyType ==
  ASSUME TypeOK, NEW p \in Processes, pc[p] \in Busy
  PROVE  run[p] \in Runs /\ rows[run[p]] \in Row /\ files[run[p]] \in Files
<1>1. run \in [Processes -> Runs \cup {None}] /\ run[p] # None
  BY DEF TypeOK
<1>2. run[p] \in Runs
  BY <1>1
<1>3. rows \in [Runs -> Row] /\ files \in [Runs -> Files]
  BY DEF TypeOK
<1> QED BY <1>2, <1>3

(* The steps of a process that kill it leave its worker without a run.     *)
LEMMA KilledFiles ==
  ASSUME TypeOK, NEW p \in Processes, Killed(p)
  PROVE  files' \in [Runs -> Files]
<1>1. files \in [Runs -> Files]
  BY DEF TypeOK
<1>2. CASE pc[p] \in {"engine", "rescue"}
  <2>1. run[p] \in Runs /\ files[run[p]] \in Files
    BY <1>2, BusyType DEF Busy
  <2>2. PICK f \in Torn(files[run[p]]) : files' = [files EXCEPT ![run[p]] = f]
    BY <1>2 DEF Killed
  <2>3. f \in Files
    BY <2>1, <2>2, TornType
  <2> QED BY <1>1, <2>2, <2>3
<1>3. CASE pc[p] \notin {"engine", "rescue"}
  BY <1>1, <1>3 DEF Killed
<1> QED BY <1>2, <1>3

(* The state of the processes and their workers, and that of the registry. *)
ProcessesOK ==
  /\ phase \in [Processes -> Phase]
  /\ pending \in [Processes -> SUBSET Runs]
  /\ lock \in Processes \cup {None}
WorkersOK ==
  /\ pc \in [Processes -> Busy \cup {"none", "look", "claim", "stopped", "dead"}]
  /\ run \in [Processes -> Runs \cup {None}]
  /\ ended \in [Processes -> Finals \cup {None}]
  /\ \A p \in Processes :
       (pc[p] \in Busy <=> run[p] # None) /\ (pc[p] = "record" <=> ended[p] # None)
BoundsOK ==
  crashes \in 0..MaxCrashes /\ faults \in 0..MaxFaults /\ strayed \in SUBSET Runs
RowsOK ==
  rows \in [Runs -> Row] /\ log \in [Runs -> Seq(Status \cup {"requeued"})]
FilesOK == files \in [Runs -> Files]

LEMMA TypeParts ==
  TypeOK <=> RowsOK /\ FilesOK /\ ProcessesOK /\ WorkersOK /\ BoundsOK
BY DEF TypeOK, RowsOK, FilesOK, ProcessesOK, WorkersOK, BoundsOK

LEMMA TypePartsNext ==
  RowsOK' /\ FilesOK' /\ ProcessesOK' /\ WorkersOK' /\ BoundsOK' => TypeOK'
BY DEF TypeOK, RowsOK, FilesOK, ProcessesOK, WorkersOK, BoundsOK

(* A process that is not up yet has no worker.                             *)
NoWorkerYet ==
  \A p \in Processes : phase[p] \in {"new", "locked", "starting"} => pc[p] = "none"

LEMMA InitType == Init => TypeOK
<1> SUFFICES ASSUME Init PROVE TypeOK
  OBVIOUS
<1>1. RowsOK
  <2>1. <<>> \in Seq(Status \cup {"requeued"})
    OBVIOUS
  <2> QED BY <2>1 DEF Init, RowsOK, Row, Status, ApiStage
<1>2. FilesOK
  BY DEF Init, FilesOK, Files
<1>3. ProcessesOK
  BY DEF Init, ProcessesOK, Phase
<1>4. WorkersOK
  BY DEF Init, WorkersOK, Busy
<1>5. BoundsOK
  BY QueueAssumption DEF Init, BoundsOK
<1> QED BY <1>1, <1>2, <1>3, <1>4, <1>5, TypeParts

(* What each step leaves well typed: the rows and files it writes, the     *)
(* process's phase, the worker's position.                                 *)
LEMMA FaultType ==
  ASSUME BoundsOK, Fault PROVE BoundsOK'
BY QueueAssumption DEF BoundsOK, Fault

LEMMA PhaseType ==
  ASSUME ProcessesOK, NEW p \in Processes,
         AcquiresLock(p) \/ ReadsUnfinished(p) \/ Opens(p) \/ FailsToStart(p)
           \/ Closes(p) \/ ReleasesLock(p, pc[p] \in {"stopped", "dead"})
           \/ Exits(p) \/ Crashes(p)
  PROVE  phase' \in [Processes -> Phase] /\ lock' \in Processes \cup {None}
BY DEF ProcessesOK, AcquiresLock, ReadsUnfinished, Opens, FailsToStart, Closes,
       ReleasesLock, Exits, Crashes, Becomes, Phase

LEMMA KilledParts ==
  ASSUME TypeOK, NEW p \in Processes, Killed(p)
  PROVE  /\ RowsOK' /\ FilesOK' /\ WorkersOK'
         /\ pending' \in [Processes -> SUBSET Runs]
<1>1. RowsOK /\ WorkersOK /\ ProcessesOK
  BY TypeParts
<1>2. rows' = rows /\ log' = log
  BY DEF Killed, registry
<1>3. RowsOK'
  BY <1>1, <1>2 DEF RowsOK
<1>4. FilesOK'
  BY KilledFiles DEF FilesOK
<1>5. pending' \in [Processes -> SUBSET Runs]
  BY <1>1 DEF Killed, ProcessesOK
<1>6. WorkersOK'
  BY <1>1 DEF Killed, WorkersOK, Busy
<1> QED BY <1>3, <1>4, <1>5, <1>6

LEMMA DoneType ==
  ASSUME WorkersOK, ProcessesOK, FilesOK, NEW p \in Processes, Done(p)
  PROVE  WorkersOK' /\ ProcessesOK' /\ FilesOK'
<1>1. WorkersOK'
  BY DEF WorkersOK, Done, Goto, Busy
<1> QED BY <1>1 DEF Done, process, ProcessesOK, FilesOK

LEMMA FileType ==
  ASSUME FilesOK, NEW r \in Runs, NEW f \in Files, files' = [files EXCEPT ![r] = f]
  PROVE  FilesOK'
BY DEF FilesOK

LEMMA GotoType ==
  ASSUME WorkersOK, NEW p \in Processes, NEW l, Goto(p, l), UNCHANGED <<run, ended>>,
         \/ pc[p] \in Busy \ {"record"} /\ l \in Busy \ {"record"}
         \/ pc[p] \notin Busy /\ l \in {"look", "claim", "stopped", "dead"}
  PROVE  WorkersOK'
BY DEF WorkersOK, Goto, Busy

LEMMA StartType ==
  ASSUME TypeOK, NoWorkerYet, NEW p \in Processes,
         AcquireLock(p) \/ StartStep(p) \/ StartFails(p) \/ Close(p) \/ ReleaseLock(p)
  PROVE  TypeOK'
<1>0. RowsOK /\ FilesOK /\ ProcessesOK /\ WorkersOK /\ BoundsOK
  BY TypeParts
<1>1. CASE AcquireLock(p) \/ Close(p) \/ ReleaseLock(p)
  <2>1. ProcessesOK'
    BY <1>0, <1>1, PhaseType DEF ProcessesOK, AcquireLock, Close, ReleaseLock
  <2>2. UNCHANGED <<registry, files, worker>>
    BY <1>1 DEF AcquireLock, Close, ReleaseLock
  <2>3. RowsOK' /\ FilesOK' /\ WorkersOK'
    BY <1>0, <2>2 DEF registry, worker, RowsOK, FilesOK, WorkersOK
  <2>4. BoundsOK'
    <3>1. CASE ReleaseLock(p)
      <4>1. (IF pc[p] \in Busy THEN {run[p]} ELSE {}) \subseteq Runs
        BY BusyType
      <4> QED BY <1>0, <3>1, <4>1 DEF ReleaseLock, BoundsOK
    <3>2. CASE ~ReleaseLock(p)
      BY <1>0, <1>1, <3>2 DEF AcquireLock, Close, bounds, BoundsOK
    <3> QED BY <3>1, <3>2
  <2> QED BY <2>1, <2>3, <2>4, TypePartsNext
<1>2. CASE ReadActive(p)
  <2>1. ProcessesOK'
    BY <1>0, <1>2, PhaseType, ActiveType DEF ProcessesOK, ReadActive
  <2>2. RowsOK' /\ FilesOK' /\ WorkersOK' /\ BoundsOK'
    BY <1>0, <1>2 DEF ReadActive, registry, worker, bounds, RowsOK, FilesOK,
                      WorkersOK, BoundsOK
  <2> QED BY <2>1, <2>2, TypePartsNext
<1>3. ASSUME NEW r \in Runs, Requeue(p, r) PROVE TypeOK'
  <2>1. ProcessesOK' /\ FilesOK' /\ WorkersOK' /\ BoundsOK'
    BY <1>0, <1>3 DEF Requeue, worker, bounds, ProcessesOK, FilesOK, WorkersOK,
                      BoundsOK
  <2>2. CASE rows[r].status = "running"
    <3>1. Recorded(r, [rows[r] EXCEPT !.status = "queued"], "requeued")
      BY <1>3, <2>2 DEF Requeue, Requeued
    <3>2. [rows[r] EXCEPT !.status = "queued"] \in Row
      BY RowChangeType DEF Status
    <3>3. RowsOK'
      BY <3>1, <3>2, RecordedType DEF RowsOK, Events
    <3> QED BY <2>1, <3>3, TypePartsNext
  <2>3. CASE rows[r].status # "running"
    <3>1. RowsOK'
      BY <1>0, <1>3, <2>3 DEF Requeue, Requeued, registry, RowsOK
    <3> QED BY <2>1, <3>1, TypePartsNext
  <2> QED BY <2>2, <2>3
<1>4. CASE Serve(p)
  <2>1. ProcessesOK'
    BY <1>0, <1>4, PhaseType DEF ProcessesOK, Serve
  <2>2. WorkersOK'
    <3>1. pc[p] = "none"
      BY <1>4 DEF Serve, Opens, NoWorkerYet
    <3> QED BY <1>0, <1>4, <3>1 DEF Serve, WorkersOK, Busy
  <2>3. RowsOK' /\ FilesOK' /\ BoundsOK'
    BY <1>0, <1>4 DEF Serve, registry, bounds, RowsOK, FilesOK, BoundsOK
  <2> QED BY <2>1, <2>2, <2>3, TypePartsNext
<1>5. CASE StartFails(p)
  <2>1. ProcessesOK'
    BY <1>0, <1>5, PhaseType DEF ProcessesOK, StartFails
  <2>2. BoundsOK'
    BY <1>0, <1>5, FaultType DEF StartFails
  <2>3. RowsOK' /\ FilesOK' /\ WorkersOK'
    BY <1>0, <1>5 DEF StartFails, registry, worker, RowsOK, FilesOK, WorkersOK
  <2> QED BY <2>1, <2>2, <2>3, TypePartsNext
<1> QED BY <1>1, <1>2, <1>3, <1>4, <1>5 DEF StartStep

LEMMA AdmitType ==
  ASSUME TypeOK, NEW p \in Processes, NEW r \in Runs, AdmitTechscout(p, r)
  PROVE  TypeOK'
<1>0. FilesOK /\ ProcessesOK /\ WorkersOK /\ BoundsOK
  BY TypeParts
<1>1. PICK stamp \in 1..Cardinality(Runs) :
        Recorded(r, [status |-> "queued", stage |-> "plan",
                     created |-> stamp, projection |-> FALSE], "queued")
  BY DEF AdmitTechscout
<1>2. stamp \in Nat
  BY QueueAssumption, FS_CardinalityType
<1>3. [status |-> "queued", stage |-> "plan", created |-> stamp,
       projection |-> FALSE] \in Row
  BY <1>2 DEF Row, Status, ApiStage
<1>4. RowsOK'
  BY <1>1, <1>3, RecordedType DEF RowsOK, Events, Status
<1>5. FilesOK' /\ ProcessesOK' /\ WorkersOK' /\ BoundsOK'
  BY <1>0 DEF AdmitTechscout, process, worker, bounds, FilesOK, ProcessesOK,
              WorkersOK, BoundsOK
<1> QED BY <1>4, <1>5, TypePartsNext

LEMMA DeathType ==
  ASSUME TypeOK, NEW p \in Processes, Exit(p) \/ Crash(p)
  PROVE  TypeOK'
<1>0. ProcessesOK /\ BoundsOK
  BY TypeParts
<1>1. /\ RowsOK' /\ FilesOK' /\ WorkersOK'
      /\ pending' \in [Processes -> SUBSET Runs]
  BY KilledParts DEF Exit, Crash
<1>2. ProcessesOK'
  BY <1>0, <1>1, PhaseType DEF ProcessesOK, Exit, Crash
<1>3. BoundsOK'
  BY <1>0, QueueAssumption DEF Exit, Crash, bounds, BoundsOK
<1> QED BY <1>1, <1>2, <1>3, TypePartsNext

LEMMA ClaimedType ==
  ASSUME TypeOK, NEW r \in Runs, Claimed(r)
  PROVE  RowsOK'
<1>1. [rows[r] EXCEPT !.status = "running"] \in Row
  BY RowChangeType DEF Status
<1> QED BY <1>1, RecordedType DEF Claimed, RowsOK, Events, Status

LEMMA ClaimableType == Claimable \subseteq Runs
BY DEF Claimable, Oldest

LEMMA FinishedType ==
  ASSUME TypeOK, NEW r \in Runs, NEW s \in Finals, NEW b \in BOOLEAN,
         Terminated(r, s, b)
  PROVE  RowsOK'
<1>1. [rows[r] EXCEPT !.status = s, !.stage = "terminal", !.projection = b] \in Row
  BY RowChangeType
<1> QED BY <1>1, RecordedType DEF Terminated, RowsOK, Events, Status

LEMMA ReleasedType ==
  ASSUME TypeOK, NEW r \in Runs, Released(r)
  PROVE  RowsOK'
<1>1. CASE rows[r].status = "running"
  <2>1. [rows[r] EXCEPT !.status = "failed", !.stage = "terminal"] \in Row
    BY RowChangeType
  <2> QED BY <1>1, <2>1, RecordedType DEF Released, RowsOK, Events, Status, Finals
<1>2. CASE rows[r].status # "running"
  BY <1>2, TypeParts DEF Released, registry, RowsOK
<1> QED BY <1>1, <1>2

LEMMA WorkerType ==
  ASSUME TypeOK, NEW p \in Processes, WorkerStep(p) \/ WorkerFault(p)
  PROVE  TypeOK'
<1>0. RowsOK /\ FilesOK /\ ProcessesOK /\ WorkersOK /\ BoundsOK
  BY TypeParts
<1>1. CASE Look(p)
  <2>1. WorkersOK'
    BY <1>0, <1>1, GotoType DEF Look, Busy
  <2> QED BY <1>0, <1>1, <2>1, TypePartsNext
       DEF Look, registry, process, bounds, RowsOK, FilesOK, ProcessesOK, BoundsOK
<1>2. CASE Claim(p)
  <2>1. FilesOK' /\ ProcessesOK'
    BY <1>0, <1>2 DEF Claim, process, FilesOK, ProcessesOK
  <2>2. CASE /\ Claimable = {} /\ Goto(p, "look")
             /\ UNCHANGED <<registry, run, strayed>>
    <3>1. WorkersOK'
      BY <1>0, <1>2, <2>2, GotoType DEF Claim, Busy
    <3>2. BoundsOK'
      BY <1>0, <1>2, <2>2 DEF Claim, BoundsOK
    <3> QED BY <1>0, <2>1, <2>2, <3>1, <3>2, TypePartsNext DEF registry, RowsOK
  <2>3. ASSUME NEW r \in Claimable, Claimed(r), run' = [run EXCEPT ![p] = r],
               Goto(p, "engine"),
               strayed' = strayed \cup (IF phase[p] = "released" THEN {r} ELSE {})
        PROVE  TypeOK'
    <3>1. r \in Runs /\ r # None
      BY ClaimableType, QueueAssumption
    <3>2. RowsOK'
      BY <2>3, <3>1, ClaimedType
    <3>3. WorkersOK'
      BY <1>0, <1>2, <2>3, <3>1 DEF Claim, Goto, WorkersOK, Busy
    <3>4. BoundsOK'
      BY <1>0, <1>2, <2>3, <3>1 DEF Claim, BoundsOK
    <3> QED BY <2>1, <3>2, <3>3, <3>4, TypePartsNext
  <2> QED BY <1>2, <2>2, <2>3 DEF Claim
<1>3. CASE ClaimRaises(p)
  <2>1. FilesOK' /\ ProcessesOK' /\ BoundsOK'
    BY <1>0, <1>3, FaultType DEF ClaimRaises, process, FilesOK, ProcessesOK
  <2>2. WorkersOK'
    BY <1>0, <1>3, GotoType DEF ClaimRaises, Busy
  <2>3. RowsOK'
    <3>1. CASE UNCHANGED registry
      BY <1>0, <3>1 DEF registry, RowsOK
    <3>2. CASE \E r \in Claimable : Claimed(r)
      BY <3>2, ClaimableType, ClaimedType
    <3> QED BY <1>3, <3>1, <3>2 DEF ClaimRaises
  <2> QED BY <2>1, <2>2, <2>3, TypePartsNext
<1>4. CASE RecordEnd(p) \/ RecordFailure(p) \/ Release(p) \/ ReleaseRaises(p)
  <2>1. run[p] \in Runs
    BY <1>4, BusyType DEF RecordEnd, RecordFailure, Release, ReleaseRaises, Busy
  <2>2. WorkersOK' /\ ProcessesOK' /\ FilesOK'
    BY <1>0, <1>4, DoneType DEF RecordEnd, RecordFailure, Release, ReleaseRaises
  <2>3. BoundsOK'
    <3>1. CASE Fault
      BY <1>0, <3>1, FaultType
    <3>2. CASE UNCHANGED bounds
      BY <1>0, <3>2 DEF bounds, BoundsOK
    <3> QED BY <1>4, <3>1, <3>2 DEF RecordEnd, RecordFailure, Release, ReleaseRaises
  <2>4. RowsOK'
    <3>1. CASE RecordEnd(p)
      <4>1. ended[p] \in Finals
        BY <1>0, <3>1 DEF RecordEnd, WorkersOK
      <4> QED BY <2>1, <3>1, <4>1, FinishedType DEF RecordEnd
    <3>2. CASE RecordFailure(p)
      BY <2>1, <3>2, FinishedType DEF RecordFailure, Finals
    <3>3. CASE Release(p)
      BY <2>1, <3>3, ReleasedType DEF Release
    <3>4. CASE ReleaseRaises(p)
      BY <1>0, <3>4 DEF ReleaseRaises, registry, RowsOK
    <3> QED BY <1>4, <3>1, <3>2, <3>3, <3>4
  <2> QED BY <2>2, <2>3, <2>4, TypePartsNext
<1>5. CASE RecordEndRaises(p)
  <2>1. WorkersOK'
    BY <1>0, <1>5 DEF RecordEndRaises, Goto, WorkersOK, Busy, Finals, None
  <2>2. BoundsOK'
    BY <1>0, <1>5, FaultType DEF RecordEndRaises
  <2> QED BY <1>0, <1>5, <2>1, <2>2, TypePartsNext
       DEF RecordEndRaises, registry, process, RowsOK, FilesOK, ProcessesOK
<1>6. CASE Rescue(p) \/ RescueRaises(p)
  <2>1. run[p] \in Runs /\ files[run[p]] \in Files
    BY <1>6, BusyType DEF Rescue, RescueRaises, Busy
  <2>2. FilesOK'
    <3>1. CASE Rescue(p)
      BY <1>0, <2>1, <3>1, TornType, FileType DEF Rescue, FilesOK
    <3>2. CASE RescueRaises(p)
      <4>1. PICK f \in Torn(files[run[p]]) \cup {FailedFiles(files[run[p]])} :
              files' = [files EXCEPT ![run[p]] = f]
        BY <3>2 DEF RescueRaises
      <4> QED BY <1>0, <2>1, <4>1, TornType, FileType
    <3> QED BY <1>6, <3>1, <3>2
  <2>3. WorkersOK'
    BY <1>0, <1>6, GotoType DEF Rescue, RescueRaises, Busy
  <2>4. BoundsOK'
    BY <1>0, <1>6, FaultType DEF Rescue, RescueRaises, bounds, BoundsOK
  <2>5. RowsOK' /\ ProcessesOK'
    BY <1>0, <1>6 DEF Rescue, RescueRaises, registry, process, RowsOK, ProcessesOK
  <2> QED BY <2>2, <2>3, <2>4, <2>5, TypePartsNext
<1>7. CASE RecordFailureRaises(p)
  <2>1. WorkersOK'
    BY <1>0, <1>7, GotoType DEF RecordFailureRaises, Busy
  <2>2. BoundsOK'
    BY <1>0, <1>7, FaultType DEF RecordFailureRaises
  <2> QED BY <1>0, <1>7, <2>1, <2>2, TypePartsNext
       DEF RecordFailureRaises, registry, process, RowsOK, FilesOK, ProcessesOK
<1> QED BY <1>1, <1>2, <1>3, <1>4, <1>5, <1>6, <1>7 DEF WorkerStep, WorkerFault

LEMMA EngineType ==
  ASSUME TypeOK, NEW p \in Processes, Progress(p) \/ EngineStops(p)
  PROVE  TypeOK'
<1>0. RowsOK /\ FilesOK /\ ProcessesOK /\ WorkersOK /\ BoundsOK
  BY TypeParts
<1>1. pc[p] = "engine" /\ run[p] \in Runs /\ files[run[p]] \in Files
  BY BusyType DEF Progress, EngineStops, EngineEnds, EngineRaises, Busy
<1>2. CASE Progress(p)
  <2>1. PICK s \in ApiStage : rows' = [rows EXCEPT ![run[p]].stage = s]
    BY <1>2 DEF Progress
  <2>2. RowsOK'
    BY <1>0, <1>1, <1>2, <2>1 DEF Progress, RowsOK, Row
  <2> QED BY <1>0, <1>2, <2>2, TypePartsNext
       DEF Progress, process, worker, bounds, FilesOK, ProcessesOK, WorkersOK, BoundsOK
<1>3. CASE EngineEnds(p)
  <2>1. PICK s \in Finals :
          /\ files' = [files EXCEPT ![run[p]] = s]
          /\ ended' = [ended EXCEPT ![p] = s]
    BY <1>3 DEF EngineEnds
  <2>2. FilesOK'
    BY <1>0, <1>1, <2>1, FileType DEF Files
  <2>3. WorkersOK'
    BY <1>0, <1>1, <1>3, <2>1 DEF EngineEnds, Goto, WorkersOK, Busy, Finals, None
  <2> QED BY <1>0, <1>3, <2>2, <2>3, TypePartsNext
       DEF EngineEnds, registry, process, bounds, RowsOK, ProcessesOK, BoundsOK
<1>4. CASE EngineRaises(p)
  <2>1. PICK f \in Torn(files[run[p]]) \cup Finals :
          files' = [files EXCEPT ![run[p]] = f]
    BY <1>4 DEF EngineRaises
  <2>2. f \in Files
    BY <1>1, <2>1, TornType DEF Files
  <2>3. FilesOK'
    BY <1>0, <1>1, <2>1, <2>2, FileType
  <2>4. WorkersOK'
    BY <1>0, <1>4, GotoType DEF EngineRaises, Busy
  <2> QED BY <1>0, <1>4, <2>3, <2>4, TypePartsNext
       DEF EngineRaises, registry, process, bounds, RowsOK, ProcessesOK, BoundsOK
<1> QED BY <1>2, <1>3, <1>4 DEF EngineStops
-----------------------------------------------------------------------------
(* A process that is starting has no worker: a step of its worker or of a  *)
(* run leaves it so, and so does every step of a process.                  *)
LEMMA NoWorkerYetNext ==
  ASSUME TypeOK, NoWorkerYet, NEW p \in Processes,
         \/ \E r \in Runs : AdmitTechscout(p, r)
         \/ AcquireLock(p) \/ StartStep(p) \/ StartFails(p) \/ Close(p) \/ ReleaseLock(p) \/ Exit(p)
         \/ Crash(p) \/ Progress(p) \/ EngineStops(p) \/ WorkerStep(p)
         \/ WorkerFault(p)
  PROVE  NoWorkerYet'
<1>0. ProcessesOK /\ WorkersOK
  BY TypeParts
<1>1. CASE (\E r \in Runs : AdmitTechscout(p, r)) \/ Progress(p)
  BY <1>1 DEF AdmitTechscout, Progress, process, worker, NoWorkerYet
<1>2. CASE \/ AcquireLock(p) \/ ReadActive(p) \/ StartFails(p) \/ Close(p)
           \/ ReleaseLock(p) \/ \E r \in Runs : Requeue(p, r)
  BY <1>0, <1>2 DEF AcquireLock, ReadActive, Requeue, StartFails, Close, ReleaseLock,
       AcquiresLock, ReadsUnfinished, FailsToStart, Closes, ReleasesLock, Becomes,
       worker, NoWorkerYet, ProcessesOK, Phase
<1>3. CASE Serve(p)
  BY <1>0, <1>3 DEF Serve, Opens, Becomes, NoWorkerYet, ProcessesOK, WorkersOK
<1>4. CASE Exit(p) \/ Crash(p)
  BY <1>0, <1>4 DEF Exit, Crash, Exits, Crashes, Becomes, Killed, NoWorkerYet,
       ProcessesOK, WorkersOK
<1>5. CASE EngineStops(p) \/ WorkerStep(p) \/ WorkerFault(p)
  <2>1. UNCHANGED phase /\ \E l : Goto(p, l)
    BY <1>5 DEF EngineStops, EngineEnds, EngineRaises, WorkerStep, WorkerFault, Look,
         Claim, RecordEnd, Rescue, RecordFailure, Release, ClaimRaises,
         RecordEndRaises, RescueRaises, RecordFailureRaises, ReleaseRaises, Done,
         process
  <2>2. pc[p] # "none"
    BY <1>5 DEF EngineStops, EngineEnds, EngineRaises, WorkerStep, WorkerFault, Look,
         Claim, RecordEnd, Rescue, RecordFailure, Release, ClaimRaises,
         RecordEndRaises, RescueRaises, RecordFailureRaises, ReleaseRaises
  <2> QED BY <1>0, <2>1, <2>2 DEF Goto, NoWorkerYet, WorkersOK
<1> QED BY <1>1, <1>2, <1>3, <1>4, <1>5 DEF StartStep

LEMMA QueueStepType ==
  ASSUME TypeOK, NoWorkerYet, [Next]_vars
  PROVE  TypeOK' /\ NoWorkerYet'
<1>1. CASE UNCHANGED vars
  BY <1>1 DEF vars, TypeOK, NoWorkerYet
<1>2. ASSUME NEW p \in Processes,
             \/ \E r \in Runs : AdmitTechscout(p, r)
             \/ AcquireLock(p) \/ StartStep(p) \/ StartFails(p)
             \/ Close(p) \/ ReleaseLock(p) \/ Exit(p) \/ Crash(p)
             \/ Progress(p) \/ EngineStops(p) \/ WorkerStep(p) \/ WorkerFault(p)
      PROVE  TypeOK' /\ NoWorkerYet'
  <2>1. TypeOK'
    BY <1>2, AdmitType, StartType, DeathType, EngineType, WorkerType
  <2> QED BY <1>2, <2>1, NoWorkerYetNext
<1> QED BY <1>1, <1>2 DEF Next

(* Types hold for every capacity and number of faults, whether or not      *)
(* close() gives up on a busy worker.                                      *)
THEOREM TypeCorrect == Spec => []TypeOK
<1>1. Init => TypeOK /\ NoWorkerYet
  BY InitType DEF Init, NoWorkerYet
<1>2. TypeOK /\ NoWorkerYet /\ [Next]_vars => (TypeOK /\ NoWorkerYet)'
  BY QueueStepType
<1> QED BY <1>1, <1>2, PTL DEF Spec
-----------------------------------------------------------------------------
(* Ownership.  The lock is held by every process that is locked, starting, *)
(* up or closing; a worker works in a process that is up or closing, or    *)
(* that gave it up, and what it executes then is among the strayed runs.   *)

Keeping == {"locked", "starting", "up", "closing"}

Held ==
  \A p \in Processes :
    /\ phase[p] \in Keeping => lock = p
    /\ Working(p) => phase[p] \in {"up", "closing", "released"}
    /\ pc[p] \in Busy /\ phase[p] = "released" => run[p] \in strayed

(* Whoever keeps the lock and executes a run that has not strayed is alone. *)
LEMMA Alone ==
  ASSUME Held, NEW p \in Processes, NEW q \in Processes,
         phase[p] \in Keeping \/ (pc[p] \in Busy /\ run[p] \notin strayed),
         pc[q] \in Busy, run[q] \notin strayed
  PROVE  q = p /\ lock = p
BY DEF Held, Keeping, Working

LEMMA StrayedGrows ==
  ASSUME [Next]_vars PROVE strayed \subseteq strayed'
<1>1. CASE UNCHANGED vars
  BY <1>1 DEF vars
<1>2. ASSUME NEW p \in Processes,
             \/ \E r \in Runs : AdmitTechscout(p, r) \/ Requeue(p, r)
             \/ AcquireLock(p) \/ ReadActive(p) \/ Serve(p) \/ StartFails(p)
             \/ Close(p) \/ Exit(p) \/ Crash(p)
             \/ Progress(p) \/ EngineStops(p) \/ Look(p) \/ RecordEnd(p)
             \/ Rescue(p) \/ RecordFailure(p) \/ Release(p) \/ WorkerFault(p)
      PROVE  UNCHANGED strayed
  BY <1>2 DEF AdmitTechscout, Requeue, AcquireLock, ReadActive, Serve, StartFails,
       Close, Exit, Crash, Progress, EngineStops, EngineEnds, EngineRaises, Look,
       RecordEnd, Rescue, RecordFailure, Release, WorkerFault, ClaimRaises,
       RecordEndRaises, RescueRaises, RecordFailureRaises, ReleaseRaises, Fault,
       bounds
<1>3. ASSUME NEW p \in Processes, ReleaseLock(p) \/ Claim(p)
      PROVE  strayed \subseteq strayed'
  BY <1>3 DEF ReleaseLock, Claim
<1> QED BY <1>1, <1>2, <1>3 DEF Next, StartStep, WorkerStep

LEMMA HeldNext ==
  ASSUME TypeOK, NoWorkerYet, Held, [Next]_vars
  PROVE  Held'
<1>0. ProcessesOK /\ WorkersOK /\ strayed \subseteq strayed'
  BY TypeParts, StrayedGrows
<1>1. CASE UNCHANGED vars
  BY <1>1 DEF vars, Held, Working
<1>2. ASSUME NEW p \in Processes, (\E r \in Runs : AdmitTechscout(p, r)) \/ Progress(p)
      PROVE  Held'
  BY <1>0, <1>2 DEF AdmitTechscout, Progress, process, worker, Held, Working
<1>3. ASSUME NEW p \in Processes,
             \/ ReadActive(p) \/ Close(p) \/ \E r \in Runs : Requeue(p, r)
      PROVE  Held'
  <2>1. UNCHANGED <<lock, pc, run>>
    BY <1>3 DEF ReadActive, Close, Requeue, ReadsUnfinished, Closes, worker
  <2>2. \/ UNCHANGED phase
        \/ phase[p] \in Keeping /\ Becomes(p, "starting") /\ ~Working(p)
        \/ phase[p] \in Keeping /\ Becomes(p, "closing")
    BY <1>3 DEF ReadActive, Close, Requeue, ReadsUnfinished, Closes, Held, Keeping
  <2> QED BY <1>0, <2>1, <2>2 DEF Becomes, Held, Keeping, Working, ProcessesOK
<1>4. ASSUME NEW p \in Processes, AcquireLock(p) PROVE Held'
  <2>1. lock = None /\ UNCHANGED <<pc, run>> /\ phase[p] = "new"
    BY <1>4 DEF AcquireLock, AcquiresLock, worker
  <2>2. \A q \in Processes : phase[q] \notin Keeping
    BY <2>1, ProcessAssumption DEF Held
  <2>3. ~Working(p)
    BY <2>1 DEF Held
  <2> QED BY <1>0, <1>4, <2>1, <2>2, <2>3
       DEF AcquireLock, AcquiresLock, Becomes, Held, Keeping, Working, ProcessesOK
<1>5. ASSUME NEW p \in Processes, Serve(p) PROVE Held'
  BY <1>0, <1>5
     DEF Serve, Opens, Becomes, Held, Keeping, Working, Busy, ProcessesOK, WorkersOK
<1>6. ASSUME NEW p \in Processes, StartFails(p) \/ ReleaseLock(p) PROVE Held'
  <2>1. /\ lock = p /\ lock' = None /\ UNCHANGED <<pc, run>>
        /\ StartFails(p) => ~Working(p)
        /\ ReleaseLock(p) /\ pc[p] \in Busy => run[p] \in strayed'
    BY <1>0, <1>6 DEF StartFails, FailsToStart, ReleaseLock, ReleasesLock, worker, Held,
         Keeping
  <2>2. \A q \in Processes : q # p => phase[q] \notin Keeping
    BY <2>1 DEF Held
  <2>3. \/ StartFails(p) /\ Becomes(p, "gone")
        \/ ReleaseLock(p) /\ Becomes(p, "released")
    BY <1>6 DEF StartFails, FailsToStart, ReleaseLock, ReleasesLock
  <2> QED BY <1>0, <2>1, <2>2, <2>3 DEF Becomes, Held, Keeping, Working, ProcessesOK
<1>7. ASSUME NEW p \in Processes, Exit(p) \/ Crash(p) PROVE Held'
  <2>1. /\ Becomes(p, "gone")
        /\ pc' = [pc EXCEPT ![p] = IF @ = "none" THEN @ ELSE "dead"]
        /\ run' = [run EXCEPT ![p] = None]
        /\ lock' = lock \/ (lock = p /\ lock' = None)
    BY <1>7 DEF Exit, Crash, Exits, Crashes, Killed
  <2> QED BY <1>0, <2>1 DEF Becomes, Held, Keeping, Working, Busy, ProcessesOK, WorkersOK
<1>8. ASSUME NEW p \in Processes, EngineStops(p) \/ WorkerStep(p) \/ WorkerFault(p)
      PROVE  Held'
  <2>1. UNCHANGED <<phase, lock>> /\ \E l : Goto(p, l)
    BY <1>8 DEF EngineStops, EngineEnds, EngineRaises, WorkerStep, WorkerFault, Look,
         Claim, RecordEnd, Rescue, RecordFailure, Release, ClaimRaises,
         RecordEndRaises, RescueRaises, RecordFailureRaises, ReleaseRaises, Done,
         process
  <2>2. Working(p)
    BY <1>8 DEF EngineStops, EngineEnds, EngineRaises, WorkerStep, WorkerFault, Look,
         Claim, RecordEnd, Rescue, RecordFailure, Release, ClaimRaises,
         RecordEndRaises, RescueRaises, RecordFailureRaises, ReleaseRaises, Working,
         Busy
  <2>3. \A q \in Processes : q # p => pc'[q] = pc[q] /\ run'[q] = run[q]
    <3>1. \A q \in Processes : q # p => pc'[q] = pc[q]
      BY <1>0, <2>1 DEF Goto, WorkersOK
    <3>2. run' = run \/ \E r : run' = [run EXCEPT ![p] = r]
      BY <1>8 DEF EngineStops, EngineEnds, EngineRaises, WorkerStep, WorkerFault, Look,
           Claim, RecordEnd, Rescue, RecordFailure, Release, ClaimRaises,
           RecordEndRaises, RescueRaises, RecordFailureRaises, ReleaseRaises, Done
    <3> QED BY <1>0, <3>1, <3>2 DEF WorkersOK
  <2>4. pc'[p] \in Busy /\ phase[p] = "released" => run'[p] \in strayed'
    <3>1. CASE Claim(p)
      <4>1. CASE Goto(p, "look")
        BY <1>0, <4>1 DEF Goto, WorkersOK, Busy
      <4>2. ASSUME NEW r \in Claimable, run' = [run EXCEPT ![p] = r],
                   strayed' = strayed \cup (IF phase[p] = "released" THEN {r} ELSE {})
            PROVE  phase[p] = "released" => run'[p] \in strayed'
        BY <1>0, <4>2 DEF WorkersOK
      <4> QED BY <3>1, <4>1, <4>2 DEF Claim
    <3>2. CASE \/ EngineStops(p) \/ Rescue(p) \/ RecordEndRaises(p)
               \/ RescueRaises(p) \/ RecordFailureRaises(p)
      <4>1. pc[p] \in Busy /\ run' = run
        BY <3>2 DEF EngineStops, EngineEnds, EngineRaises, Rescue, RecordEndRaises,
             RescueRaises, RecordFailureRaises, Busy
      <4> QED BY <1>0, <4>1 DEF Held
    <3>3. CASE \/ Look(p) \/ ClaimRaises(p) \/ RecordEnd(p) \/ RecordFailure(p)
               \/ Release(p) \/ ReleaseRaises(p)
      <4>1. pc'[p] \notin Busy
        BY <1>0, <3>3 DEF Look, ClaimRaises, RecordEnd, RecordFailure, Release,
             ReleaseRaises, Done, Goto, WorkersOK, Busy
      <4> QED BY <4>1
    <3> QED BY <1>8, <3>1, <3>2, <3>3 DEF WorkerStep, WorkerFault
  <2> QED BY <1>0, <2>1, <2>2, <2>3, <2>4 DEF Held, Working
<1> QED BY <1>1, <1>2, <1>3, <1>4, <1>5, <1>6, <1>7, <1>8 DEF Next, StartStep

(* What a step may do with the registry and the history: nothing; give a   *)
(* run up; report progress; or move one row with its event.  Only a        *)
(* running row is ended, or one that strayed.                              *)
Endable(r) ==
  rows[r].status = "running" \/ (r \in strayed /\ rows[r].status # "absent")

Moves(r, row, event) ==
  \/ /\ rows[r].status = "absent" /\ HasRoom
     /\ row.status = "queued" /\ row.stage = "plan" /\ row.projection = FALSE
     /\ event = "queued" /\ UNCHANGED strayed
  \/ /\ rows[r].status = "queued" /\ \A q \in Runs : rows[q].status # "running"
     /\ row = [rows[r] EXCEPT !.status = "running"] /\ event = "running"
     /\ strayed' \in {strayed, strayed \cup {r}}
  \/ /\ rows[r].status = "running"
     /\ row = [rows[r] EXCEPT !.status = "queued"] /\ event = "requeued"
     /\ UNCHANGED strayed
  \/ /\ Endable(r) /\ event \in Finals
     /\ \E b \in BOOLEAN :
          row = [rows[r] EXCEPT !.status = event, !.stage = "terminal", !.projection = b]
     /\ UNCHANGED strayed

GivesUp ==
  /\ UNCHANGED registry
  /\ \/ UNCHANGED strayed
     \/ \E r \in Runs : rows[r].status = "running" /\ strayed' = strayed \cup {r}

Reports ==
  /\ \E r \in Runs, s \in ApiStage :
       (rows[r].status = "running" \/ r \in strayed) /\ rows' = [rows EXCEPT ![r].stage = s]
  /\ UNCHANGED <<log, strayed>>

RowStep ==
  \/ GivesUp
  \/ Reports
  \/ \E r \in Runs, row \in Row, event \in Events :
       Moves(r, row, event) /\ Recorded(r, row, event)

LEMMA ClaimMoves ==
  ASSUME TypeOK, NEW r \in Claimable, Claimed(r),
         strayed' \in {strayed, strayed \cup {r}}
  PROVE  RowStep
<1>1. /\ r \in Runs /\ rows[r].status = "queued"
      /\ \A q \in Runs : rows[q].status # "running"
  BY DEF Claimable, Oldest
<1>2. [rows[r] EXCEPT !.status = "running"] \in Row
  BY <1>1, RowChangeType DEF Status
<1>3. Moves(r, [rows[r] EXCEPT !.status = "running"], "running")
  BY <1>1 DEF Moves
<1> QED BY <1>1, <1>2, <1>3 DEF RowStep, Claimed, Events, Status

LEMMA EndMoves ==
  ASSUME TypeOK, NEW r \in Runs, Endable(r), NEW s \in Finals,
         NEW b \in BOOLEAN, UNCHANGED strayed,
         Recorded(r, [rows[r] EXCEPT !.status = s, !.stage = "terminal",
                                     !.projection = b], s)
  PROVE  RowStep
<1>1. [rows[r] EXCEPT !.status = s, !.stage = "terminal", !.projection = b] \in Row
  BY RowChangeType
<1>2. Moves(r, [rows[r] EXCEPT !.status = s, !.stage = "terminal", !.projection = b], s)
  BY DEF Moves
<1> QED BY <1>1, <1>2 DEF RowStep, Events, Status

(* A run that strayed was accepted.                                        *)
StrayedKnown == \A r \in strayed : rows[r].status # "absent"

LEMMA RowSteps ==
  ASSUME TypeOK, WorkerOwnsItsRow, StrayedKnown, [Next]_vars
  PROVE  RowStep
<1>1. CASE UNCHANGED vars
  BY <1>1 DEF vars, RowStep, GivesUp, registry
<1>2. ASSUME NEW p \in Processes, NEW r \in Runs, AdmitTechscout(p, r)
      PROVE  RowStep
  <2>1. PICK stamp \in 1..Cardinality(Runs) :
          Recorded(r, [status |-> "queued", stage |-> "plan",
                       created |-> stamp, projection |-> FALSE], "queued")
    BY <1>2 DEF AdmitTechscout
  <2> DEFINE row == [status |-> "queued", stage |-> "plan",
                     created |-> stamp, projection |-> FALSE]
  <2>2. stamp \in Nat
    BY QueueAssumption, FS_CardinalityType
  <2>3. row \in Row
    BY <2>2 DEF Row, Status, ApiStage
  <2>4. Moves(r, row, "queued")
    BY <1>2 DEF AdmitTechscout, Moves, bounds
  <2> HIDE DEF row
  <2>5. Recorded(r, row, "queued")
    BY <2>1 DEF row
  <2> QED BY <2>3, <2>4, <2>5 DEF RowStep, Events, Status
<1>3. ASSUME NEW p \in Processes, NEW r \in Runs, Requeue(p, r)
      PROVE  RowStep
  <2>1. CASE rows[r].status = "running"
    <3>1. [rows[r] EXCEPT !.status = "queued"] \in Row
      BY RowChangeType DEF Status
    <3>2. Moves(r, [rows[r] EXCEPT !.status = "queued"], "requeued")
      BY <1>3, <2>1 DEF Requeue, bounds, Moves
    <3> QED BY <1>3, <2>1, <3>1, <3>2 DEF Requeue, Requeued, RowStep, Events
  <2>2. CASE rows[r].status # "running"
    BY <1>3, <2>2 DEF Requeue, Requeued, bounds, RowStep, GivesUp
  <2> QED BY <2>1, <2>2
<1>4. ASSUME NEW p \in Processes,
             \/ AcquireLock(p) \/ ReadActive(p) \/ Serve(p) \/ StartFails(p)
             \/ Close(p) \/ Exit(p) \/ Crash(p) \/ EngineStops(p)
             \/ Look(p) \/ Rescue(p) \/ RecordEndRaises(p) \/ RescueRaises(p)
             \/ RecordFailureRaises(p) \/ ReleaseRaises(p)
      PROVE  RowStep
  <2>1. UNCHANGED <<registry, strayed>>
    BY <1>4 DEF AcquireLock, ReadActive, Serve, StartFails, Close, Exit,
         Crash, Killed, EngineStops, EngineEnds, EngineRaises, Look, Rescue,
         RecordEndRaises, RescueRaises, RecordFailureRaises, ReleaseRaises, registry,
         bounds, Fault
  <2> QED BY <2>1 DEF RowStep, GivesUp
<1>5. ASSUME NEW p \in Processes, Claim(p) \/ ClaimRaises(p) PROVE RowStep
  <2>1. \/ UNCHANGED <<registry, strayed>>
        \/ \E r \in Claimable : Claimed(r) /\ strayed' \in {strayed, strayed \cup {r}}
    BY <1>5 DEF Claim, ClaimRaises, Fault
  <2> QED BY <2>1, ClaimMoves DEF RowStep, GivesUp
<1>6. ASSUME NEW p \in Processes, pc[p] \in Busy
      PROVE  /\ run[p] \in Runs /\ rows[run[p]] \in Row /\ Endable(run[p])
             /\ rows[run[p]].status = "running" \/ run[p] \in strayed
  BY <1>6, BusyType DEF WorkerOwnsItsRow, StrayedKnown, Endable
<1>11. ASSUME NEW p \in Processes, ReleaseLock(p) PROVE RowStep
  <2>1. UNCHANGED registry
    BY <1>11 DEF ReleaseLock
  <2>2. CASE pc[p] \in Busy
    <3>1. strayed' = strayed \cup {run[p]}
      BY <1>11, <2>2 DEF ReleaseLock
    <3>2. run[p] \in strayed => strayed' = strayed
      BY <3>1
    <3> QED BY <1>6, <2>1, <2>2, <3>1, <3>2 DEF RowStep, GivesUp
  <2>3. CASE pc[p] \notin Busy
    BY <1>11, <2>1, <2>3 DEF ReleaseLock, RowStep, GivesUp
  <2> QED BY <2>2, <2>3
<1>7. ASSUME NEW p \in Processes, Progress(p) PROVE RowStep
  <2>1. pc[p] \in Busy /\ UNCHANGED <<log, strayed>>
    BY <1>7 DEF Progress, Busy, bounds
  <2>2. Reports
    BY <1>6, <1>7, <2>1 DEF Progress, Reports
  <2> QED BY <2>2 DEF RowStep
<1>8. ASSUME NEW p \in Processes, RecordEnd(p) PROVE RowStep
  <2>1. pc[p] \in Busy /\ ended[p] \in Finals /\ UNCHANGED strayed
    BY <1>8, TypeParts DEF RecordEnd, Busy, WorkersOK, bounds
  <2> QED BY <1>6, <1>8, <2>1, EndMoves DEF RecordEnd, Terminated
<1>9. ASSUME NEW p \in Processes, RecordFailure(p) PROVE RowStep
  <2>1. pc[p] \in Busy /\ UNCHANGED strayed
    BY <1>9 DEF RecordFailure, Busy, bounds
  <2> QED BY <1>6, <1>9, <2>1, EndMoves DEF RecordFailure, Terminated, Finals
<1>10. ASSUME NEW p \in Processes, Release(p) PROVE RowStep
  <2>1. pc[p] \in Busy /\ UNCHANGED strayed
    BY <1>10 DEF Release, Busy, bounds
  <2>2. CASE rows[run[p]].status # "running"
    BY <1>10, <2>1, <2>2 DEF Release, Released, RowStep, GivesUp
  <2>3. CASE rows[run[p]].status = "running"
    <3>1. Recorded(run[p], [rows[run[p]] EXCEPT !.status = "failed",
                                                !.stage = "terminal"], "failed")
      BY <1>10, <2>3 DEF Release, Released
    <3>2. [rows[run[p]] EXCEPT !.status = "failed", !.stage = "terminal"]
            = [rows[run[p]] EXCEPT !.status = "failed", !.stage = "terminal",
                                   !.projection = rows[run[p]].projection]
      BY <1>6, <2>1 DEF Row
    <3>3. rows[run[p]].projection \in BOOLEAN
      BY <1>6, <2>1 DEF Row
    <3> QED BY <1>6, <2>1, <3>1, <3>2, <3>3, EndMoves DEF Finals
  <2> QED BY <2>2, <2>3
<1> QED BY <1>1, <1>2, <1>3, <1>4, <1>5, <1>7, <1>8, <1>9, <1>10, <1>11
     DEF Next, StartStep, WorkerStep, WorkerFault

LEMMA KnownNext ==
  ASSUME TypeOK, StrayedKnown, RowStep
  PROVE  StrayedKnown'
<1>0. RowsOK /\ BoundsOK
  BY TypeParts
<1>1. CASE GivesUp
  BY <1>0, <1>1 DEF GivesUp, StrayedKnown, registry
<1>2. CASE Reports
  <2>1. strayed' = strayed /\ \A r \in Runs : rows'[r].status = rows[r].status
    BY <1>0, <1>2 DEF Reports, RowsOK, Row
  <2> QED BY <1>0, <2>1 DEF StrayedKnown, BoundsOK
<1>3. ASSUME NEW r \in Runs, NEW row \in Row, NEW event \in Events,
             Moves(r, row, event), Recorded(r, row, event)
      PROVE  StrayedKnown'
  <2>1. /\ rows' = [rows EXCEPT ![r] = row] /\ rows[r] \in Row
        /\ strayed' \subseteq strayed \cup {r}
    BY <1>0, <1>3 DEF Recorded, RowsOK, Moves
  <2>2. row.status # "absent"
    BY <1>3, <2>1 DEF Moves, Row, Finals
  <2> QED BY <1>0, <2>1, <2>2 DEF StrayedKnown, RowsOK, BoundsOK
<1> QED BY <1>1, <1>2, <1>3 DEF RowStep

(* A worker keeps its row running until it records the end itself: every   *)
(* step that takes a row out of running, or gives it to another worker, is *)
(* of a process that holds the lock, or of one that executes a strayed run.*)
LEMMA OwnsNext ==
  ASSUME TypeOK, NoWorkerYet, Held, Held', WorkerOwnsItsRow, [Next]_vars
  PROVE  WorkerOwnsItsRow'
<1>0. RowsOK /\ WorkersOK /\ strayed \subseteq strayed'
  BY TypeParts, StrayedGrows
<1>h. ASSUME NEW q \in Processes, (pc[q] \in Busy)'
      PROVE  (lock = q \/ phase[q] = "released")' /\ (run[q] \notin strayed => lock = q)'
  BY <1>h DEF Held, Keeping, Working
<1> SUFFICES ASSUME NEW q \in Processes, (pc[q] \in Busy)', (run[q] \notin strayed)'
             PROVE  (rows[run[q]].status)' = "running"
  BY <1>h DEF WorkerOwnsItsRow
<1>1. ASSUME pc[q] \in Busy, run'[q] = run[q]
      PROVE  /\ run[q] \in Runs /\ run[q] \notin strayed /\ lock = q
             /\ rows[run[q]] \in Row /\ rows[run[q]].status = "running"
             /\ Claimable = {}
  BY <1>0, <1>1, BusyType DEF WorkerOwnsItsRow, Claimable
<1>2. ASSUME pc[q] \in Busy, run'[q] = run[q],
             UNCHANGED registry \/ Reports \/ rows'[run[q]] = rows[run[q]]
      PROVE  (rows[run[q]].status)' = "running"
  <2>1. run[q] \in Runs /\ rows[run[q]] \in Row /\ rows[run[q]].status = "running"
    BY <1>1, <1>2
  <2>2. CASE Reports
    <3>1. PICK r \in Runs, s \in ApiStage : rows' = [rows EXCEPT ![r].stage = s]
      BY <2>2 DEF Reports
    <3> QED BY <1>0, <1>2, <2>1, <3>1 DEF RowsOK, Row
  <2> QED BY <1>2, <2>1, <2>2 DEF registry
<1>3. CASE UNCHANGED vars
  <2>1. UNCHANGED <<pc, run, registry>>
    BY <1>3 DEF vars, registry
  <2>2. pc[q] \in Busy /\ run'[q] = run[q] /\ UNCHANGED registry
    BY <2>1
  <2> QED BY <1>2, <2>2
<1>4. ASSUME NEW p \in Processes, NEW r \in Runs, AdmitTechscout(p, r)
      PROVE  (rows[run[q]].status)' = "running"
  <2>1. pc[q] \in Busy /\ UNCHANGED <<pc, run>>
    BY <1>4 DEF AdmitTechscout, worker
  <2>2. run[q] \in Runs /\ rows[run[q]].status = "running" /\ rows[r].status = "absent"
    BY <1>1, <1>4, <2>1 DEF AdmitTechscout
  <2>3. rows'[run[q]] = rows[run[q]]
    BY <1>0, <1>4, <2>2 DEF AdmitTechscout, Recorded, RowsOK
  <2> QED BY <1>2, <2>1, <2>3
<1>5. ASSUME NEW p \in Processes, NEW r \in Runs, Requeue(p, r)
      PROVE  FALSE
  <2>1. pc[q] \in Busy /\ run'[q] = run[q] /\ phase[p] = "starting"
    BY <1>5 DEF Requeue, worker
  <2>2. q = p
    BY <1>1, <2>1, Alone DEF Keeping
  <2> QED BY <2>1, <2>2 DEF NoWorkerYet, Busy
<1>6. ASSUME NEW p \in Processes,
             \/ AcquireLock(p) \/ ReadActive(p) \/ StartFails(p) \/ Close(p)
             \/ ReleaseLock(p)
      PROVE  (rows[run[q]].status)' = "running"
  <2>1. UNCHANGED <<registry, worker>>
    BY <1>6 DEF AcquireLock, ReadActive, StartFails, Close, ReleaseLock, worker,
         registry
  <2> QED BY <1>2, <2>1 DEF worker
<1>7. ASSUME NEW p \in Processes,
             \/ Serve(p) \/ Exit(p) \/ Crash(p) \/ Look(p) \/ RecordEnd(p)
             \/ RecordFailure(p) \/ Release(p) \/ ReleaseRaises(p) \/ ClaimRaises(p)
      PROVE  q # p
  BY <1>0, <1>7 DEF Serve, Exit, Crash, Killed, Look, RecordEnd, RecordFailure,
       Release, ReleaseRaises, ClaimRaises, Done, Goto, Busy, WorkersOK
<1>8. ASSUME NEW p \in Processes, Serve(p) \/ Exit(p) \/ Crash(p) \/ Look(p)
      PROVE  (rows[run[q]].status)' = "running"
  <2>1. q # p
    BY <1>7, <1>8
  <2>2. pc'[q] = pc[q] /\ run'[q] = run[q] /\ UNCHANGED registry
    BY <1>0, <1>8, <2>1 DEF Serve, Exit, Crash, Killed, Look, Goto, WorkersOK, registry
  <2> QED BY <1>2, <2>2
<1>9. ASSUME NEW p \in Processes,
             \/ RecordEnd(p) \/ RecordFailure(p) \/ Release(p) \/ ReleaseRaises(p)
             \/ ClaimRaises(p)
      PROVE  (rows[run[q]].status)' = "running"
  <2>1. q # p
    BY <1>7, <1>9
  <2>2. pc[q] \in Busy /\ run'[q] = run[q]
    BY <1>0, <1>9, <2>1 DEF RecordEnd, RecordFailure, Release, ReleaseRaises,
         ClaimRaises, Done, Goto, WorkersOK
  <2>3. CASE ClaimRaises(p) \/ ReleaseRaises(p)
    <3>1. UNCHANGED registry
      BY <1>1, <2>2, <2>3 DEF ClaimRaises, ReleaseRaises
    <3> QED BY <1>2, <2>2, <3>1
  <2>4. CASE RecordEnd(p) \/ RecordFailure(p) \/ Release(p)
    <3>1. pc[p] \in Busy
      BY <2>4 DEF RecordEnd, RecordFailure, Release, Busy
    <3>2. run[p] # run[q]
      BY <1>1, <2>1, <2>2, <3>1, Alone
    <3>3. UNCHANGED registry \/ \E row, e : Recorded(run[p], row, e)
      BY <2>4 DEF RecordEnd, RecordFailure, Release, Released, Terminated
    <3>4. rows'[run[q]] = rows[run[q]]
      BY <1>0, <1>1, <2>2, <3>2, <3>3 DEF Recorded, registry, RowsOK
    <3> QED BY <1>2, <2>2, <3>4
  <2> QED BY <1>9, <2>3, <2>4
<1>10. ASSUME NEW p \in Processes, Claim(p)
       PROVE  (rows[run[q]].status)' = "running"
  <2>1. CASE q # p
    <3>1. pc[q] \in Busy /\ run'[q] = run[q]
      BY <1>0, <1>10, <2>1 DEF Claim, Goto, WorkersOK
    <3>2. UNCHANGED registry
      BY <1>1, <1>10, <3>1 DEF Claim
    <3> QED BY <1>2, <3>1, <3>2
  <2>2. CASE q = p
    <3>1. ~Goto(p, "look")
      BY <1>0, <2>2 DEF Goto, WorkersOK, Busy
    <3>2. PICK r \in Claimable : Claimed(r) /\ run' = [run EXCEPT ![p] = r]
      BY <1>10, <3>1 DEF Claim
    <3>3. r \in Runs
      BY ClaimableType
    <3>4. run'[q] = r /\ rows[r] \in Row
      BY <1>0, <2>2, <3>2, <3>3 DEF WorkersOK, RowsOK
    <3> QED BY <1>0, <3>2, <3>3, <3>4 DEF Claimed, Recorded, RowsOK, Row
  <2> QED BY <2>1, <2>2
<1>11. ASSUME NEW p \in Processes,
              \/ Progress(p) \/ EngineStops(p) \/ Rescue(p) \/ RecordEndRaises(p)
              \/ RescueRaises(p) \/ RecordFailureRaises(p)
       PROVE  (rows[run[q]].status)' = "running"
  <2>1. pc[p] \in Busy /\ run' = run
    BY <1>11 DEF Progress, EngineStops, EngineEnds, EngineRaises, Rescue,
         RecordEndRaises, RescueRaises, RecordFailureRaises, worker, Busy
  <2>2. pc[q] \in Busy
    BY <1>0, <1>11, <2>1 DEF Progress, EngineStops, EngineEnds, EngineRaises, Rescue,
         RecordEndRaises, RescueRaises, RecordFailureRaises, worker, Goto, WorkersOK
  <2>3. CASE Progress(p)
    <3>1. /\ run[p] \in Runs
          /\ rows[run[p]].status = "running" \/ run[p] \in strayed
      BY <2>1, BusyType DEF WorkerOwnsItsRow
    <3>2. Reports
      BY <2>3, <3>1 DEF Progress, Reports, bounds
    <3> QED BY <1>2, <2>1, <2>2, <3>2
  <2>4. CASE ~Progress(p)
    <3>1. UNCHANGED registry
      BY <1>11, <2>4 DEF EngineStops, EngineEnds, EngineRaises, Rescue,
         RecordEndRaises, RescueRaises, RecordFailureRaises, registry
    <3> QED BY <1>2, <2>1, <2>2, <3>1
  <2> QED BY <2>3, <2>4
<1> QED BY <1>1, <1>3, <1>4, <1>5, <1>6, <1>8, <1>9, <1>10, <1>11
     DEF Next, StartStep, WorkerStep, WorkerFault

Owned == TypeOK /\ NoWorkerYet /\ Held /\ WorkerOwnsItsRow /\ StrayedKnown

LEMMA OwnedNext == Owned /\ [Next]_vars => Owned'
<1> SUFFICES ASSUME Owned, [Next]_vars PROVE Owned'
  OBVIOUS
<1>1. TypeOK' /\ NoWorkerYet'
  BY QueueStepType DEF Owned
<1>2. Held'
  BY HeldNext DEF Owned
<1>3. WorkerOwnsItsRow'
  BY <1>2, OwnsNext DEF Owned
<1>4. StrayedKnown'
  BY RowSteps, KnownNext DEF Owned
<1> QED BY <1>1, <1>2, <1>3, <1>4 DEF Owned

LEMMA OwnedInit == Init => Owned
<1> SUFFICES ASSUME Init PROVE Owned
  OBVIOUS
<1>1. TypeOK
  BY InitType
<1> QED BY <1>1 DEF Init, Owned, NoWorkerYet, Held, Keeping, Working, Busy,
                    WorkerOwnsItsRow, StrayedKnown

(* However processes start, close, die and fail, and though a close may    *)
(* give up on its worker: a worker that executes holds the lock or was     *)
(* given up, and the row it writes to is the running one unless its run    *)
(* strayed.  So a worker that was given up never disturbs a run that it    *)
(* had not in hand.                                                        *)
THEOREM WorkersOwnTheirRows == Spec => []WorkerOwnsItsRow
<1>1. Owned => WorkerOwnsItsRow
  BY DEF Owned
<1> QED BY <1>1, OwnedNext, OwnedInit, PTL DEF Spec

(* No worker outlives the close of its process.                            *)
Waited ==
  strayed = {} /\ \A p \in Processes : phase[p] = "released" => ~Working(p)

LEMMA WaitedNext ==
  ASSUME JoinTimesOut = FALSE, Owned, Waited, [Next]_vars
  PROVE  Waited'
<1>0. ProcessesOK /\ WorkersOK
  BY TypeParts DEF Owned
<1>1. CASE UNCHANGED vars
  BY <1>1 DEF vars, Waited, Working
<1>2. ASSUME NEW p \in Processes,
             \/ \E r \in Runs : AdmitTechscout(p, r) \/ Requeue(p, r)
             \/ AcquireLock(p) \/ ReadActive(p) \/ StartFails(p) \/ Close(p)
             \/ Progress(p)
      PROVE  Waited'
  <2>1. UNCHANGED <<pc, strayed>>
    BY <1>2 DEF AdmitTechscout, Requeue, AcquireLock, ReadActive, StartFails, Close,
         Progress, worker, bounds, Fault
  <2>2. UNCHANGED phase \/ \E l \in Phase \ {"released"} : Becomes(p, l)
    BY <1>2 DEF AdmitTechscout, Requeue, AcquireLock, ReadActive, StartFails, Close,
         Progress, AcquiresLock, ReadsUnfinished, FailsToStart, Closes, process, Phase
  <2> QED BY <1>0, <2>1, <2>2 DEF Becomes, Waited, Working, ProcessesOK
<1>3. ASSUME NEW p \in Processes, Serve(p) \/ Exit(p) \/ Crash(p) PROVE Waited'
  <2>1. /\ UNCHANGED strayed /\ \E l : pc' = [pc EXCEPT ![p] = l]
        /\ \E l \in Phase \ {"released"} : Becomes(p, l)
    BY <1>3 DEF Serve, Exit, Crash, Opens, Exits, Crashes, Killed, bounds, Phase
  <2> QED BY <1>0, <2>1 DEF Becomes, Waited, Working, ProcessesOK, WorkersOK
<1>4. ASSUME NEW p \in Processes, ReleaseLock(p) PROVE Waited'
  <2>1. /\ pc[p] \in {"stopped", "dead"} /\ Becomes(p, "released")
        /\ UNCHANGED pc
    BY <1>4 DEF ReleaseLock, ReleasesLock, JoinReturns, worker
  <2>2. UNCHANGED strayed
    BY <1>4, <2>1 DEF ReleaseLock, Busy
  <2> QED BY <1>0, <2>1, <2>2 DEF Becomes, Waited, Working, Busy, ProcessesOK
<1>5. ASSUME NEW p \in Processes, EngineStops(p) \/ WorkerStep(p) \/ WorkerFault(p)
      PROVE  Waited'
  <2>1. UNCHANGED phase /\ \E l : Goto(p, l)
    BY <1>5 DEF EngineStops, EngineEnds, EngineRaises, WorkerStep, WorkerFault, Look,
         Claim, RecordEnd, Rescue, RecordFailure, Release, ClaimRaises,
         RecordEndRaises, RescueRaises, RecordFailureRaises, ReleaseRaises, Done,
         process
  <2>2. Working(p)
    BY <1>5 DEF EngineStops, EngineEnds, EngineRaises, WorkerStep, WorkerFault, Look,
         Claim, RecordEnd, Rescue, RecordFailure, Release, ClaimRaises,
         RecordEndRaises, RescueRaises, RecordFailureRaises, ReleaseRaises, Working,
         Busy
  <2>3. UNCHANGED strayed
    <3>1. CASE Claim(p)
      BY <2>2, <3>1 DEF Claim, Waited
    <3>2. CASE ~Claim(p)
      BY <1>5, <3>2 DEF EngineStops, EngineEnds, EngineRaises, WorkerStep, WorkerFault,
           Look, RecordEnd, Rescue, RecordFailure, Release, ClaimRaises,
           RecordEndRaises, RescueRaises, RecordFailureRaises, ReleaseRaises, bounds,
           Fault
    <3> QED BY <3>1, <3>2
  <2> QED BY <1>0, <2>1, <2>2, <2>3 DEF Goto, Waited, Working, WorkersOK
<1> QED BY <1>1, <1>2, <1>3, <1>4, <1>5 DEF Next, StartStep

(* If close waited for its worker, however long, no run would stray: what  *)
(* is shown of the runs that did not would then be shown of all.           *)
THEOREM NoRunStrays ==
  ASSUME JoinTimesOut = FALSE
  PROVE  Spec => [](strayed = {})
<1>1. Init => Waited
  BY DEF Init, Waited
<1>2. Owned /\ Waited /\ [Next]_vars => (Owned /\ Waited)'
  BY OwnedNext, WaitedNext
<1>3. Waited => strayed = {}
  BY DEF Waited
<1> QED BY <1>1, <1>2, <1>3, OwnedInit, PTL DEF Spec
-----------------------------------------------------------------------------
(* What a client sees.                                                     *)

LEMMA TerminalNext ==
  ASSUME TypeOK, TerminalStage, RowStep
  PROVE  TerminalStage'
<1>0. RowsOK
  BY TypeParts
<1>1. CASE GivesUp
  BY <1>1 DEF GivesUp, registry, TerminalStage
<1>2. CASE Reports
  BY <1>0, <1>2 DEF Reports, TerminalStage, RowsOK, Row, ApiStage, Finals
<1>3. ASSUME NEW r \in Runs, NEW row \in Row, NEW event \in Events,
             Moves(r, row, event), Recorded(r, row, event)
      PROVE  TerminalStage'
  <2>1. rows' = [rows EXCEPT ![r] = row] /\ rows[r] \in Row
    BY <1>0, <1>3 DEF Recorded, RowsOK
  <2>2. strayed \subseteq strayed'
    BY <1>3 DEF Moves
  <2>3. r \notin strayed => (row.stage = "terminal" <=> row.status \in Finals)
    BY <1>3, <2>1 DEF Moves, TerminalStage, Row, Finals
  <2> QED BY <1>0, <2>1, <2>2, <2>3 DEF TerminalStage, RowsOK
<1> QED BY <1>1, <1>2, <1>3 DEF RowStep

(* HistoryMatchesRow, of one run.                                          *)
Follows(e) ==
  CASE e = "queued"   -> {"running"}
    [] e = "running"  -> {"requeued"} \cup Finals
    [] e = "requeued" -> {"running"}
    [] OTHER          -> {}
Story(h, status) ==
  IF h = <<>> THEN status = "absent"
  ELSE /\ h[1] = "queued"
       /\ \A i \in 1..Len(h) - 1 : h[i + 1] \in Follows(h[i])
       /\ status = IF h[Len(h)] = "requeued" THEN "queued" ELSE h[Len(h)]

LEMMA StoriesTell ==
  HistoryMatchesRow <=> \A r \in Runs \ strayed : Story(log[r], rows[r].status)
BY DEF HistoryMatchesRow, Story, Follows

LEMMA StoriesTellNext ==
  (\A r \in Runs \ strayed' : Story(log'[r], rows'[r].status)) => HistoryMatchesRow'
BY DEF HistoryMatchesRow, Story, Follows

LEMMA BeforeLast ==
  \A n \in Nat : n >= 1 /\ n # 1 => n - 1 \in 1..n - 1 /\ (n - 1) + 1 = n
OBVIOUS

LEMMA StoryGrows ==
  ASSUME NEW h \in Seq(Events), NEW s, NEW t, NEW e \in Events, Story(h, s),
         \/ s = "absent" /\ t = "queued" /\ e = "queued"
         \/ s = "queued" /\ t = "running" /\ e = "running"
         \/ s = "running" /\ t = "queued" /\ e = "requeued"
         \/ s = "running" /\ t = e /\ e \in Finals
  PROVE  Story(Append(h, e), t)
<1> DEFINE g == Append(h, e)
<1>1. /\ g \in Seq(Events) /\ Len(g) = Len(h) + 1
      /\ \A i \in 1..Len(h) : g[i] = h[i]
      /\ g[Len(h) + 1] = e /\ g # <<>>
  BY AppendProperties
<1>2. Len(h) \in Nat
  BY LenProperties
<1>3. t = IF e = "requeued" THEN "queued" ELSE e
  BY DEF Finals
<1> HIDE DEF g
<1>4. CASE h = <<>>
  <2>1. Len(h) = 0 /\ e = "queued"
    BY <1>4 DEF Story, Finals
  <2> QED BY <1>1, <1>3, <2>1 DEF Story, g
<1>5. CASE h # <<>>
  <2>1. Len(h) >= 1
    BY <1>2, <1>5, EmptySeq
  <2>2. h[Len(h)] # "absent"
    <3>1. CASE Len(h) = 1
      BY <1>5, <3>1 DEF Story
    <3>2. CASE Len(h) # 1
      <4>1. Len(h) - 1 \in 1..Len(h) - 1
        BY <1>2, <2>1, <3>2, BeforeLast, Zenon
      <4>2. h[(Len(h) - 1) + 1] \in Follows(h[Len(h) - 1])
        BY <1>5, <4>1 DEF Story
      <4>3. (Len(h) - 1) + 1 = Len(h)
        BY <1>2
      <4> QED BY <4>2, <4>3 DEF Follows, Finals
    <3> QED BY <3>1, <3>2
  <2>3. s = IF h[Len(h)] = "requeued" THEN "queued" ELSE h[Len(h)]
    BY <1>5 DEF Story
  <2>4. e \in Follows(h[Len(h)])
    BY <2>2, <2>3 DEF Follows, Finals
  <2>5. g[1] = "queued"
    BY <1>1, <1>2, <1>5, <2>1 DEF Story
  <2>6. ASSUME NEW i \in 1..Len(g) - 1 PROVE g[i + 1] \in Follows(g[i])
    <3>1. CASE i = Len(h)
      BY <1>1, <1>2, <2>1, <2>4, <3>1
    <3>2. CASE i # Len(h)
      <4>1. i \in 1..Len(h) - 1 /\ i \in 1..Len(h) /\ i + 1 \in 1..Len(h)
        BY <1>1, <1>2, <2>6, <3>2
      <4>2. h[i + 1] \in Follows(h[i])
        BY <1>5, <4>1 DEF Story
      <4> QED BY <1>1, <4>1, <4>2
    <3> QED BY <3>1, <3>2
  <2> QED BY <1>1, <1>2, <1>3, <2>5, <2>6 DEF Story, g
<1> QED BY <1>4, <1>5

LEMMA HistoryNext ==
  ASSUME TypeOK, HistoryMatchesRow, RowStep
  PROVE  HistoryMatchesRow'
<1>0. RowsOK
  BY TypeParts
<1>1. \A r \in Runs \ strayed : Story(log[r], rows[r].status)
  BY StoriesTell
<1>2. CASE GivesUp
  <2>1. rows' = rows /\ log' = log /\ strayed \subseteq strayed'
    BY <1>2 DEF GivesUp, registry
  <2> QED BY <1>1, <2>1, StoriesTellNext
<1>3. CASE Reports
  <2>1. log' = log /\ strayed' = strayed /\ \A r \in Runs : rows'[r].status = rows[r].status
    BY <1>0, <1>3 DEF Reports, RowsOK, Row
  <2> QED BY <1>1, <2>1, StoriesTellNext
<1>4. ASSUME NEW r \in Runs, NEW row \in Row, NEW event \in Events,
             Moves(r, row, event), Recorded(r, row, event)
      PROVE  HistoryMatchesRow'
  <2>1. /\ rows' = [rows EXCEPT ![r] = row]
        /\ log' = [log EXCEPT ![r] = Append(log[r], event)]
        /\ log[r] \in Seq(Events) /\ rows[r] \in Row
    BY <1>0, <1>4 DEF Recorded, RowsOK, Events
  <2>0. strayed \subseteq strayed'
    BY <1>4 DEF Moves
  <2>2. \/ r \in strayed
        \/ rows[r].status = "absent" /\ row.status = "queued" /\ event = "queued"
        \/ rows[r].status = "queued" /\ row.status = "running" /\ event = "running"
        \/ rows[r].status = "running" /\ row.status = "queued" /\ event = "requeued"
        \/ rows[r].status = "running" /\ row.status = event /\ event \in Finals
    BY <1>4, <2>1 DEF Moves, Endable, Row
  <2>3. r \notin strayed => Story(Append(log[r], event), row.status)
    BY <1>1, <2>1, <2>2, StoryGrows
  <2>4. \A q \in Runs \ strayed' : Story(log'[q], rows'[q].status)
    BY <1>0, <1>1, <2>0, <2>1, <2>3 DEF RowsOK
  <2> QED BY <2>4, StoriesTellNext
<1> QED BY <1>2, <1>3, <1>4 DEF RowStep

(* A published projection names the end that is about to be recorded.      *)
Published ==
  \A p \in Processes : run[p] \notin strayed =>
    /\ pc[p] = "record" => files[run[p]] = ended[p]
    /\ pc[p] = "record_failure" => files[run[p]] = "failed"

(* The file a step writes is that of the run its worker executes.          *)
Writes(p) ==
  /\ UNCHANGED registry /\ pc[p] \in Busy
  /\ \E f \in Files : files' = [files EXCEPT ![run[p]] = f]

LEMMA FilesOf ==
  ASSUME TypeOK, NEW p \in Processes,
         \/ Serve(p) \/ Exit(p) \/ Crash(p)
         \/ EngineStops(p) \/ WorkerStep(p) \/ WorkerFault(p)
  PROVE  UNCHANGED files \/ Writes(p)
<1>1. CASE \/ Serve(p) \/ Look(p) \/ Claim(p) \/ ClaimRaises(p) \/ RecordEnd(p)
           \/ RecordEndRaises(p) \/ RecordFailure(p) \/ RecordFailureRaises(p)
           \/ Release(p) \/ ReleaseRaises(p)
  BY <1>1 DEF Serve, Look, Claim, ClaimRaises, RecordEnd, RecordEndRaises,
       RecordFailure, RecordFailureRaises, Release, ReleaseRaises, Done
<1>2. ASSUME pc[p] \in Busy
      PROVE  /\ Torn(files[run[p]]) \subseteq Files
             /\ FailedFiles(files[run[p]]) \in Files
  BY <1>2, BusyType, TornType
<1>3. CASE EngineStops(p) \/ Rescue(p) \/ RescueRaises(p)
  <2>1. pc[p] \in Busy /\ UNCHANGED registry
    BY <1>3 DEF EngineStops, EngineEnds, EngineRaises, Rescue, RescueRaises, Busy
  <2>2. Finals \subseteq Files
    BY DEF Files
  <2>3. \E f \in Files : files' = [files EXCEPT ![run[p]] = f]
    <3>1. CASE EngineEnds(p)
      BY <2>2, <3>1 DEF EngineEnds
    <3>2. CASE EngineRaises(p)
      BY <1>2, <2>1, <2>2, <3>2 DEF EngineRaises
    <3>3. CASE Rescue(p)
      BY <1>2, <2>1, <3>3 DEF Rescue
    <3>4. CASE RescueRaises(p)
      BY <1>2, <2>1, <3>4 DEF RescueRaises
    <3> QED BY <1>3, <3>1, <3>2, <3>3, <3>4 DEF EngineStops
  <2> QED BY <2>1, <2>3 DEF Writes
<1>4. CASE Exit(p) \/ Crash(p)
  <2>1. CASE pc[p] \in {"engine", "rescue"}
    <3>1. pc[p] \in Busy
      BY <2>1 DEF Busy
    <3>2. PICK f \in Torn(files[run[p]]) : files' = [files EXCEPT ![run[p]] = f]
      BY <1>4, <2>1 DEF Exit, Crash, Killed
    <3> QED BY <1>2, <1>4, <3>1, <3>2 DEF Exit, Crash, Killed, Writes
  <2>2. CASE pc[p] \notin {"engine", "rescue"}
    BY <1>4, <2>2 DEF Exit, Crash, Killed
  <2> QED BY <1>4, <2>1, <2>2
<1> QED BY <1>1, <1>3, <1>4 DEF WorkerStep, WorkerFault

LEMMA FileSteps ==
  ASSUME TypeOK, [Next]_vars
  PROVE  UNCHANGED files \/ \E p \in Processes : Writes(p)
<1>1. CASE UNCHANGED vars
  BY <1>1 DEF vars
<1>2. ASSUME NEW p \in Processes,
             \/ \E r \in Runs : AdmitTechscout(p, r) \/ Requeue(p, r)
             \/ AcquireLock(p) \/ ReadActive(p) \/ StartFails(p)
             \/ Close(p) \/ ReleaseLock(p) \/ Progress(p)
      PROVE  UNCHANGED files
  BY <1>2 DEF AdmitTechscout, Requeue, AcquireLock, ReadActive, StartFails,
       Close, ReleaseLock, Progress
<1> QED BY <1>1, <1>2, FilesOf DEF Next, StartStep

(* A step of another worker leaves the file of a run that has not strayed. *)
LEMMA OthersKeep ==
  ASSUME Owned, NEW p \in Processes, NEW q \in Processes, q # p,
         UNCHANGED files \/ Writes(p), pc[q] \in Busy, run[q] \notin strayed
  PROVE  files'[run[q]] = files[run[q]]
<1>1. FilesOK /\ run[q] \in Runs
  BY TypeParts, BusyType DEF Owned
<1>2. CASE Writes(p)
  <2>1. run[p] # run[q]
    BY <1>2, Alone DEF Owned, Writes
  <2> QED BY <1>1, <1>2, <2>1 DEF Writes, FilesOK
<1> QED BY <1>2

LEMMA PublishedNext ==
  ASSUME Owned, Published, [Next]_vars
  PROVE  Published'
<1>0. TypeOK /\ WorkersOK /\ FilesOK /\ strayed \subseteq strayed'
  BY TypeParts, StrayedGrows DEF Owned
<1> SUFFICES ASSUME NEW q \in Processes, (pc[q] \in {"record", "record_failure"})',
                    (run[q] \notin strayed)'
             PROVE  /\ pc'[q] = "record" => (files[run[q]] = ended[q])'
                    /\ pc'[q] = "record_failure" => (files[run[q]] = "failed")'
  BY DEF Published
<1>1. CASE /\ pc'[q] = pc[q] /\ run'[q] = run[q] /\ ended'[q] = ended[q]
           /\ files'[run[q]] = files[run[q]]
  BY <1>0, <1>1 DEF Published
<1>2. CASE UNCHANGED vars
  BY <1>1, <1>2 DEF vars
<1>3. ASSUME NEW p \in Processes,
             \/ \E r \in Runs : AdmitTechscout(p, r) \/ Requeue(p, r)
             \/ AcquireLock(p) \/ ReadActive(p) \/ StartFails(p) \/ Close(p)
             \/ ReleaseLock(p) \/ Progress(p)
      PROVE  UNCHANGED <<worker, files>>
  BY <1>3 DEF AdmitTechscout, Requeue, AcquireLock, ReadActive, StartFails, Close,
       ReleaseLock, Progress
<1>4. ASSUME NEW p \in Processes,
             \/ Serve(p) \/ Exit(p) \/ Crash(p)
             \/ EngineStops(p) \/ WorkerStep(p) \/ WorkerFault(p),
             q # p
      PROVE  /\ pc'[q] = pc[q] /\ run'[q] = run[q] /\ ended'[q] = ended[q]
             /\ files'[run[q]] = files[run[q]]
  <2>1. /\ \E l : pc' = [pc EXCEPT ![p] = l]
        /\ run' = run \/ \E r : run' = [run EXCEPT ![p] = r]
        /\ ended' = ended \/ \E s : ended' = [ended EXCEPT ![p] = s]
    BY <1>4 DEF Serve, Exit, Crash, Killed, EngineStops, EngineEnds, EngineRaises,
         WorkerStep, WorkerFault, Look, Claim, RecordEnd, Rescue, RecordFailure,
         Release, ClaimRaises, RecordEndRaises, RescueRaises, RecordFailureRaises,
         ReleaseRaises, Done, Goto
  <2>2. pc'[q] = pc[q] /\ run'[q] = run[q] /\ ended'[q] = ended[q]
    BY <1>0, <1>4, <2>1 DEF WorkersOK
  <2>3. pc[q] \in Busy /\ run[q] \notin strayed
    BY <1>0, <2>2 DEF Busy
  <2>4. UNCHANGED files \/ Writes(p)
    BY <1>0, <1>4, FilesOf
  <2> QED BY <1>4, <2>2, <2>3, <2>4, OthersKeep
<1>5. ASSUME NEW p \in Processes, Serve(p) \/ Exit(p) \/ Crash(p) PROVE q # p
  BY <1>0, <1>5 DEF Serve, Exit, Crash, Killed, WorkersOK
<1>6. ASSUME EngineEnds(q)
      PROVE  pc'[q] = "record" /\ (files[run[q]] = ended[q])'
  <2>1. run[q] \in Runs
    BY <1>0, <1>6, BusyType DEF EngineEnds, Busy
  <2> QED BY <1>0, <1>6, <2>1 DEF EngineEnds, Goto, WorkersOK, FilesOK
<1>7. ASSUME Rescue(q)
      PROVE  pc'[q] = "record_failure" /\ (files[run[q]] = "failed")'
  <2>1. run[q] \in Runs
    BY <1>0, <1>7, BusyType DEF Rescue, Busy
  <2> QED BY <1>0, <1>7, <2>1 DEF Rescue, Goto, WorkersOK, FilesOK, FailedFiles
<1>8. ASSUME EngineStops(q) \/ WorkerStep(q) \/ WorkerFault(q)
      PROVE  EngineEnds(q) \/ Rescue(q)
  BY <1>0, <1>8 DEF EngineStops, EngineRaises, WorkerStep, WorkerFault,
         Look, Claim, RecordEnd, RecordFailure, Release, ClaimRaises, RecordEndRaises,
         RescueRaises, RecordFailureRaises, ReleaseRaises, Done, Goto, WorkersOK
<1> QED BY <1>1, <1>2, <1>3, <1>4, <1>5, <1>6, <1>7, <1>8 DEF Next, StartStep, worker

(* A row comes to point to its projection with the status it names.        *)
Points ==
  \A r \in Runs \ strayed' :
    rows'[r].projection =>
      \/ rows[r].projection
      \/ rows'[r].status \in Finals /\ files'[r] = rows'[r].status

LEMMA FinishPoints ==
  ASSUME TypeOK, NEW r \in Runs, NEW s \in Finals, Terminated(r, s, TRUE),
         UNCHANGED <<files, strayed>>, r \notin strayed => files[r] = s
  PROVE  Points
<1>1. /\ RowsOK /\ rows[r] \in Row
      /\ rows' = [rows EXCEPT ![r] = [rows[r] EXCEPT !.status = s, !.stage = "terminal",
                                                     !.projection = TRUE]]
  BY TypeParts DEF Terminated, Recorded, RowsOK
<1>2. rows'[r].status = s
  BY <1>1 DEF RowsOK, Row
<1>3. \A q \in Runs \ {r} : rows'[q] = rows[q]
  BY <1>1 DEF RowsOK
<1> QED BY <1>2, <1>3 DEF Points

LEMMA KeepsPoints ==
  ASSUME \A r \in Runs : rows'[r].projection => rows[r].projection
  PROVE  Points
BY DEF Points

LEMMA StepPoints ==
  ASSUME Owned, Published, [Next]_vars
  PROVE  Points
<1>0. TypeOK /\ RowsOK /\ WorkersOK
  BY TypeParts DEF Owned
<1>1. CASE UNCHANGED registry
  BY <1>1, KeepsPoints DEF registry
<1>2. ASSUME NEW r \in Runs, NEW row \in Row, NEW e, Recorded(r, row, e),
             row.projection => rows[r].projection
      PROVE  Points
  BY <1>0, <1>2, KeepsPoints DEF Recorded, RowsOK
<1>3. ASSUME NEW r \in Runs, Claimed(r) PROVE Points
  BY <1>0, <1>2, <1>3, RowChangeType DEF Claimed, RowsOK, Row, Status
<1>4. ASSUME NEW p \in Processes, NEW r \in Runs, AdmitTechscout(p, r)
      PROVE  Points
  <2>1. PICK stamp \in 1..Cardinality(Runs) :
          Recorded(r, [status |-> "queued", stage |-> "plan",
                       created |-> stamp, projection |-> FALSE], "queued")
    BY <1>4 DEF AdmitTechscout
  <2> QED BY <1>0, <2>1, KeepsPoints DEF Recorded, RowsOK
<1>5. ASSUME NEW p \in Processes, NEW r \in Runs, Requeue(p, r) PROVE Points
  BY <1>0, <1>1, <1>2, <1>5, RowChangeType DEF Requeue, Requeued, RowsOK, Row, Status
<1>6. ASSUME NEW p \in Processes, Claim(p) \/ ClaimRaises(p) PROVE Points
  <2>1. UNCHANGED registry \/ \E r \in Claimable : Claimed(r)
    BY <1>6 DEF Claim, ClaimRaises, registry
  <2> QED BY <1>1, <1>3, <2>1, ClaimableType
<1>7. ASSUME NEW p \in Processes, Progress(p) PROVE Points
  <2>1. run[p] \in Runs
    BY <1>0, <1>7, BusyType DEF Progress, Busy
  <2>2. PICK s \in ApiStage : rows' = [rows EXCEPT ![run[p]].stage = s]
    BY <1>7 DEF Progress
  <2> QED BY <1>0, <2>1, <2>2, KeepsPoints DEF RowsOK, Row
<1>8. ASSUME NEW p \in Processes, RecordEnd(p) PROVE Points
  <2>1. run[p] \in Runs /\ ended[p] \in Finals
    BY <1>0, <1>8, BusyType DEF RecordEnd, WorkersOK, Busy
  <2> QED BY <1>0, <1>8, <2>1, FinishPoints DEF RecordEnd, Done, Published, bounds
<1>9. ASSUME NEW p \in Processes, RecordFailure(p) PROVE Points
  <2>1. run[p] \in Runs
    BY <1>0, <1>9, BusyType DEF RecordFailure, Busy
  <2> QED BY <1>0, <1>9, <2>1, FinishPoints
       DEF RecordFailure, Done, Published, Finals, bounds
<1>10. ASSUME NEW p \in Processes, Release(p) PROVE Points
  <2>1. run[p] \in Runs /\ rows[run[p]] \in Row
    BY <1>0, <1>10, BusyType DEF Release, Busy
  <2>2. [rows[run[p]] EXCEPT !.status = "failed", !.stage = "terminal"] \in Row
    BY <1>0, <2>1, RowChangeType
  <2> QED BY <1>1, <1>2, <1>10, <2>1, <2>2 DEF Release, Released, Row
<1>11. ASSUME NEW p \in Processes,
              \/ AcquireLock(p) \/ ReadActive(p) \/ Serve(p) \/ StartFails(p)
              \/ Close(p) \/ ReleaseLock(p) \/ Exit(p) \/ Crash(p) \/ EngineStops(p)
              \/ Look(p) \/ Rescue(p) \/ RecordEndRaises(p) \/ RescueRaises(p)
              \/ RecordFailureRaises(p) \/ ReleaseRaises(p)
       PROVE  UNCHANGED registry
  BY <1>11 DEF AcquireLock, ReadActive, Serve, StartFails, Close, ReleaseLock, Exit,
       Crash, Killed, EngineStops, EngineEnds, EngineRaises, Look, Rescue,
       RecordEndRaises, RescueRaises, RecordFailureRaises, ReleaseRaises, registry
<1> QED BY <1>1, <1>4, <1>5, <1>6, <1>7, <1>8, <1>9, <1>10, <1>11
     DEF Next, StartStep, WorkerStep, WorkerFault, vars, registry

(* A row that is finished is left as it is.                                *)
LEMMA FinishedStays ==
  ASSUME TypeOK, RowStep, NEW r \in Runs \ strayed, rows[r].status \in Finals
  PROVE  rows'[r] = rows[r]
<1>0. RowsOK
  BY TypeParts
<1>1. CASE Reports
  <2>1. PICK q \in Runs, s \in ApiStage :
          /\ rows[q].status = "running" \/ q \in strayed
          /\ rows' = [rows EXCEPT ![q].stage = s]
    BY <1>1 DEF Reports
  <2>2. q # r
    BY <2>1 DEF Finals
  <2> QED BY <1>0, <2>1, <2>2 DEF RowsOK
<1>2. ASSUME NEW q \in Runs, NEW row \in Row, NEW event \in Events,
             Moves(q, row, event), Recorded(q, row, event)
      PROVE  rows'[r] = rows[r]
  <2>1. q # r
    BY <1>2 DEF Moves, Endable, Finals
  <2> QED BY <1>0, <1>2, <2>1 DEF Recorded, RowsOK
<1> QED BY <1>1, <1>2 DEF RowStep, GivesUp, registry

LEMMA ProjectionNext ==
  ASSUME Owned, Published, ProjectionMatchesRow, [Next]_vars
  PROVE  ProjectionMatchesRow'
<1>0. TypeOK /\ FilesOK /\ strayed \subseteq strayed'
  BY TypeParts, StrayedGrows DEF Owned
<1>1. RowStep /\ Points
  BY RowSteps, StepPoints DEF Owned
<1>2. ASSUME NEW r \in Runs \ strayed', rows'[r].projection
      PROVE  rows'[r].status \in Finals /\ files'[r] = rows'[r].status
  <2>1. CASE rows[r].projection
    <3>1. rows[r].status \in Finals /\ files[r] = rows[r].status
      BY <1>0, <2>1 DEF ProjectionMatchesRow, Detail, Summary
    <3>2. rows'[r] = rows[r]
      BY <1>0, <1>1, <3>1, FinishedStays
    <3>3. files'[r] = files[r]
      <4>1. \A p \in Processes : pc[p] \in Busy => run[p] # r
        BY <1>0, <3>1 DEF Owned, WorkerOwnsItsRow, Finals
      <4> QED BY <1>0, <4>1, FileSteps DEF Writes, FilesOK
    <3> QED BY <3>1, <3>2, <3>3
  <2>2. CASE ~rows[r].projection
    BY <1>1, <1>2, <2>2 DEF Points
  <2> QED BY <2>1, <2>2
<1> QED BY <1>2 DEF ProjectionMatchesRow, Detail, Summary

Told == Owned /\ Published /\ RowAgrees

LEMMA ToldInit == Init => Told
<1> SUFFICES ASSUME Init PROVE Told
  OBVIOUS
<1>1. Owned
  BY OwnedInit
<1>2. Published
  BY DEF Init, Published
<1>3. HistoryMatchesRow
  BY DEF Init, HistoryMatchesRow
<1>4. ProjectionMatchesRow /\ TerminalStage
  BY DEF Init, ProjectionMatchesRow, Detail, Summary, TerminalStage, Finals
<1> QED BY <1>1, <1>2, <1>3, <1>4 DEF Told, RowAgrees

LEMMA ToldNext == Told /\ [Next]_vars => Told'
<1> SUFFICES ASSUME Told, [Next]_vars PROVE Told'
  OBVIOUS
<1>1. Owned /\ Published /\ TypeOK /\ RowStep
  BY RowSteps DEF Told, Owned
<1>2. Owned'
  BY <1>1, OwnedNext
<1>3. Published'
  BY <1>1, PublishedNext
<1>4. RowAgrees'
  BY <1>1, HistoryNext, ProjectionNext, TerminalNext DEF Told, RowAgrees
<1> QED BY <1>2, <1>3, <1>4 DEF Told

(* The events a client pages through, the row's status and stage and the   *)
(* projection the row points to agree after every step, for every number   *)
(* of runs, processes, crashes and failing operations, in every run but    *)
(* those a close gave up on in execution.                                  *)
THEOREM RowsAgree == Spec => []RowAgrees
<1>1. Told => RowAgrees
  BY DEF Told
<1> QED BY <1>1, ToldNext, ToldInit, PTL DEF Spec
-----------------------------------------------------------------------------
(* The life cycle.                                                         *)

statuses == [r \in Runs |-> rows[r].status]

LEMMA LifecycleInit == Init => Lifecycle!Init
BY DEF Init, Lifecycle!Init

LEMMA UnfinishedIsActive == Lifecycle!Unfinished = Active
BY DEF Lifecycle!Unfinished, Active

LEMMA SameCardinality == Lifecycle!Cardinality(Active) = Cardinality(Active)
BY DEF Lifecycle!Cardinality, Cardinality

LEMMA StatusMoves ==
  ASSUME RowsOK, NEW r \in Runs, NEW row \in Row, rows' = [rows EXCEPT ![r] = row]
  PROVE  statuses' = [statuses EXCEPT ![r] = row.status]
BY DEF RowsOK, statuses

LEMMA LifecycleNext ==
  ASSUME TypeOK, RowStep
  PROVE  [Lifecycle!Next]_<<statuses, strayed>>
<1>0. RowsOK
  BY TypeParts
<1>1. CASE GivesUp
  <2>1. UNCHANGED statuses
    BY <1>1 DEF GivesUp, registry, statuses
  <2>2. ASSUME NEW r \in Runs, rows[r].status = "running",
               strayed' = strayed \cup {r}
        PROVE  Lifecycle!Next
    BY <2>1, <2>2 DEF Lifecycle!Next, Lifecycle!Stray, statuses
  <2> QED BY <1>1, <2>1, <2>2 DEF GivesUp
<1>2. CASE Reports
  <2>1. strayed' = strayed /\ \A r \in Runs : rows'[r].status = rows[r].status
    BY <1>0, <1>2 DEF Reports, RowsOK, Row
  <2> QED BY <2>1 DEF statuses
<1>3. ASSUME NEW r \in Runs, NEW row \in Row, NEW event \in Events,
             Moves(r, row, event), Recorded(r, row, event)
      PROVE  Lifecycle!Next
  <2>1. statuses' = [statuses EXCEPT ![r] = row.status] /\ rows[r] \in Row
    BY <1>0, <1>3, StatusMoves DEF Recorded, RowsOK
  <2>2. CASE /\ rows[r].status = "absent" /\ HasRoom /\ row.status = "queued"
             /\ UNCHANGED strayed
    BY <2>1, <2>2, UnfinishedIsActive, SameCardinality
       DEF Lifecycle!Next, Lifecycle!Accept, Lifecycle!Become, HasRoom, statuses
  <2>3. CASE /\ rows[r].status = "queued" /\ \A q \in Runs : rows[q].status # "running"
             /\ row.status = "running" /\ strayed' \in {strayed, strayed \cup {r}}
    BY <2>1, <2>3 DEF Lifecycle!Next, Lifecycle!Start, Lifecycle!Become, statuses
  <2>4. CASE rows[r].status = "running" /\ row.status = "queued" /\ UNCHANGED strayed
    BY <2>1, <2>4 DEF Lifecycle!Next, Lifecycle!GiveBack, Lifecycle!Become, statuses
  <2>5. CASE Endable(r) /\ row.status \in Finals /\ UNCHANGED strayed
    BY <2>1, <2>5
       DEF Lifecycle!Next, Lifecycle!Finish, Lifecycle!Become, Endable, statuses
  <2> QED BY <1>3, <2>1, <2>2, <2>3, <2>4, <2>5 DEF Moves, Row
<1> QED BY <1>1, <1>2, <1>3 DEF RowStep

(* For every capacity the queue implements the promised life cycle: it     *)
(* admits below its capacity, executes one run at a time, gives an         *)
(* interrupted run back and finishes each run once; only a run that a      *)
(* close gave up on in execution may be finished out of turn.              *)
THEOREM QueueImplementsLifecycle == Spec => ImplementsLifecycle
<1>1. Owned /\ [Next]_vars => [Lifecycle!Next]_<<statuses, strayed>>
  BY RowSteps, LifecycleNext DEF Owned
<1> QED BY <1>1, OwnedNext, OwnedInit, LifecycleInit, PTL
     DEF Spec, ImplementsLifecycle, Lifecycle!Spec, statuses
=============================================================================
