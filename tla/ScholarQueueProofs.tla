------------------------- MODULE ScholarQueueProofs -------------------------
(***************************************************************************)
(* Theorems about ScholarQueue, for any number of runs, processes, crashes *)
(* and failing operations and every capacity.  What is shown of rows and   *)
(* manifests needs that no close gives up on a busy worker (JoinTimesOut = *)
(* FALSE): two processes would write then.                                 *)
(***************************************************************************)
EXTENDS ScholarQueue, FiniteSetTheorems, SequenceTheorems, TLAPS
-----------------------------------------------------------------------------
(* Types.                                                                  *)

RegistryTypes ==
  /\ rows \in [Runs -> Row]
  /\ log \in [Runs -> Seq(Status)]
  /\ manifests \in [Runs -> Manifest]
ProcessTypes ==
  /\ phase \in [Processes -> Phase]
  /\ pending \in [Processes -> SUBSET [run : Runs, artifact : BOOLEAN]]
  /\ lock \in Processes \cup {None}
  /\ snap \in [Processes -> {NoRequest} \cup
                [run : Runs, status : Status, terminal : BOOLEAN]]
WorkerTypes ==
  /\ pc \in [Processes -> Busy \cup {"none", "look", "claim", "stopped", "dead"}]
  /\ run \in [Processes -> Runs \cup {None}]
  /\ ended \in [Processes -> Finals \cup {None}]
BoundTypes ==
  /\ crashes \in 0..MaxCrashes /\ faults \in 0..MaxFaults
  /\ read_faults \in 0..MaxReadFaults

(* Where a process stands: no worker before it serves, an end known when   *)
(* it is to be written, a run exactly while one is executed or ended.      *)
Stands(p) ==
  /\ phase[p] \in {"new", "locked", "starting"} => pc[p] = "none"
  /\ phase[p] \in {"new", "locked"} => run[p] = None /\ ended[p] = None
  /\ pc[p] = "write_end" => ended[p] # None
  /\ run[p] # None <=> pc[p] \in Busy \/ (phase[p] = "starting" /\ ended[p] # None)

TypeInv ==
  /\ RegistryTypes /\ ProcessTypes /\ WorkerTypes /\ BoundTypes
  /\ \A p \in Processes : Stands(p)

LEMMA TypeInvTypes == TypeInv => TypeOK
BY DEF TypeInv, TypeOK, RegistryTypes, ProcessTypes, WorkerTypes, BoundTypes, Stands

(* A step is one process's.                                                *)
Elsewhere(p) ==
  \A q \in Processes \ {p} :
    /\ phase'[q] = phase[q] /\ pending'[q] = pending[q] /\ snap'[q] = snap[q]
    /\ pc'[q] = pc[q] /\ run'[q] = run[q] /\ ended'[q] = ended[q]

LEMMA StandsElsewhere ==
  ASSUME TypeInv, NEW p \in Processes, Elsewhere(p), Stands(p)'
  PROVE  \A q \in Processes : Stands(q)'
BY DEF TypeInv, Elsewhere, Stands

LEMMA InitType == Init => TypeInv
<1> SUFFICES ASSUME Init PROVE TypeInv
  OBVIOUS
<1>1. RegistryTypes
  <2>1. <<>> \in Seq(Status)
    BY EmptySeq
  <2>2. "queued" \in RunPhase
    BY DEF RunPhase, RunPhases
  <2> QED BY <2>1, <2>2 DEF Init, RegistryTypes, Row, Status, Manifest
<1>2. ProcessTypes
  BY DEF Init, ProcessTypes, Phase
<1>3. WorkerTypes
  BY DEF Init, WorkerTypes
<1>4. BoundTypes
  BY ScholarAssumption DEF Init, BoundTypes
<1>5. \A p \in Processes : Stands(p)
  BY DEF Init, Stands, Busy
<1> QED BY <1>1, <1>2, <1>3, <1>4, <1>5 DEF TypeInv

(* What is written of a row is a row.                                      *)
LEMMA PhaseNames ==
  /\ {"queued", "initializing", "terminal"} \subseteq RunPhase
  /\ \A ph \in RunPhase : Index(ph) \in 1..Len(RunPhases) /\ RunPhases[Index(ph)] = ph
<1>1. RunPhase = {"queued", "initializing", "search", "acquisition", "chunking",
                  "retrieval", "analysis", "synthesis", "citation_check",
                  "publishing", "terminal"}
  BY DEF RunPhase, RunPhases
<1>2. \A ph \in RunPhase : \E i \in 1..Len(RunPhases) : RunPhases[i] = ph
  BY DEF RunPhase
<1> QED BY <1>1, <1>2 DEF Index

LEMMA TerminalType ==
  ASSUME RegistryTypes, NEW r \in Runs, NEW s \in Finals, Terminal(r, s),
         UNCHANGED manifests
  PROVE  RegistryTypes'
<1>1. [rows[r] EXCEPT !.status = s, !.phase = "terminal"] \in Row
  BY PhaseNames DEF RegistryTypes, Row, Status
<1>2. Append(log[r], s) \in Seq(Status)
  BY AppendProperties DEF RegistryTypes, Status
<1> QED BY <1>1, <1>2 DEF RegistryTypes, Terminal, Recorded

LEMMA ClaimedType ==
  ASSUME RegistryTypes, NEW r \in Claimable, Claimed(r), UNCHANGED manifests
  PROVE  RegistryTypes'
<1>1. r \in Runs
  BY DEF Claimable, Oldest
<1>2. [rows[r] EXCEPT !.status = "running", !.phase = "initializing"] \in Row
  BY <1>1, PhaseNames DEF RegistryTypes, Row, Status
<1>3. Append(log[r], "running") \in Seq(Status)
  BY <1>1, AppendProperties DEF RegistryTypes, Status
<1> QED BY <1>1, <1>2, <1>3 DEF RegistryTypes, Claimed, Recorded

LEMMA AdmitType ==
  ASSUME RegistryTypes, NEW r \in Runs, NEW stamp \in 1..Cardinality(Runs),
         Recorded(r, [status |-> "queued", phase |-> "queued",
                      artifact |-> FALSE, created |-> stamp], "queued"),
         UNCHANGED manifests
  PROVE  RegistryTypes'
<1>1. stamp \in Nat
  BY FS_CardinalityType, ScholarAssumption
<1>2. [status |-> "queued", phase |-> "queued", artifact |-> FALSE,
       created |-> stamp] \in Row
  BY <1>1, PhaseNames DEF Row, Status
<1>3. Append(log[r], "queued") \in Seq(Status)
  BY AppendProperties DEF RegistryTypes, Status
<1> QED BY <1>2, <1>3 DEF RegistryTypes, Recorded

LEMMA AdvancedType ==
  ASSUME NEW row \in Row, NEW ph \in Reports
  PROVE  Advanced(row, ph) \in Row
BY ScholarAssumption DEF Advanced, Row

LEMMA BusyType ==
  ASSUME TypeInv, NEW p \in Processes, pc[p] \in Busy
  PROVE  run[p] \in Runs /\ rows[run[p]] \in Row /\ manifests[run[p]] \in Manifest
<1>1. run[p] # None /\ run[p] \in Runs \cup {None}
  BY DEF TypeInv, Stands, WorkerTypes
<1> QED BY <1>1 DEF TypeInv, RegistryTypes

LEMMA EndType ==
  ASSUME TypeInv, NEW r \in Runs, NEW known
  PROVE  EndOf(r, known) \in Finals
BY DEF EndOf, Finals

LEMMA FaultType ==
  ASSUME BoundTypes, Fault \/ UNCHANGED bounds PROVE BoundTypes'
BY ScholarAssumption DEF BoundTypes, Fault, bounds

LEMMA RegistryUnchanged ==
  ASSUME RegistryTypes, UNCHANGED <<registry, manifests>> PROVE RegistryTypes'
BY DEF RegistryTypes, registry

(* Starting, closing and the end of a process.                             *)
LEMMA LifeType ==
  ASSUME TypeInv, NEW p \in Processes,
         \/ AcquireLock(p) \/ ReadActive(p) \/ Serve(p) \/ Close(p)
         \/ ReleaseLock(p) \/ StartFails(p) \/ Exit(p) \/ Crash(p)
  PROVE  TypeInv' /\ Elsewhere(p)
<1>0. ProcessTypes /\ WorkerTypes /\ BoundTypes /\ RegistryTypes /\ Stands(p)
  BY DEF TypeInv
<1>1. RegistryTypes'
  <2>1. UNCHANGED <<registry, manifests>>
    BY DEF AcquireLock, ReadActive, Serve, Close, ReleaseLock, StartFails, Exit, Crash,
         Killed
  <2> QED BY <1>0, <2>1, RegistryUnchanged
<1>2. CASE AcquireLock(p) \/ Close(p) \/ ReleaseLock(p)
  <2>1. UNCHANGED <<pending, worker, snap, bounds>>
    BY <1>2 DEF AcquireLock, Close, ReleaseLock
  <2>2. ProcessTypes' /\ WorkerTypes' /\ BoundTypes'
    BY <1>0, <1>2, <2>1 DEF AcquireLock, Close, ReleaseLock, AcquiresLock, Closes,
         ReleasesLock, Becomes, ProcessTypes, WorkerTypes, BoundTypes, Phase, worker,
         bounds
  <2>3. Stands(p)' /\ Elsewhere(p)
    BY <1>0, <1>2, <2>1 DEF AcquireLock, Close, ReleaseLock, AcquiresLock, Closes,
         ReleasesLock, Becomes, ProcessTypes, worker, Stands, Elsewhere
  <2> QED BY <1>1, <2>2, <2>3, StandsElsewhere DEF TypeInv
<1>3. CASE ReadActive(p)
  <2>1. {[run |-> r, artifact |-> rows[r].artifact] : r \in Active}
          \subseteq [run : Runs, artifact : BOOLEAN]
    BY <1>0 DEF Active, RegistryTypes, Row
  <2>2. ProcessTypes' /\ WorkerTypes' /\ BoundTypes'
    BY <1>0, <1>3, <2>1 DEF ReadActive, ReadsUnfinished, Becomes, ProcessTypes,
         WorkerTypes, BoundTypes, Phase, worker, bounds
  <2>3. Stands(p)' /\ Elsewhere(p)
    BY <1>0, <1>3 DEF ReadActive, ReadsUnfinished, Becomes, ProcessTypes, worker, Stands,
         Elsewhere, Busy
  <2> QED BY <1>1, <2>2, <2>3, StandsElsewhere DEF TypeInv
<1>4. CASE Serve(p)
  <2>1. ProcessTypes' /\ WorkerTypes' /\ BoundTypes'
    BY <1>0, <1>4 DEF Serve, Opens, Becomes, ProcessTypes, WorkerTypes, BoundTypes,
         Phase, bounds
  <2>2. Stands(p)' /\ Elsewhere(p)
    BY <1>0, <1>4 DEF Serve, Opens, Becomes, ProcessTypes, WorkerTypes, Stands,
         Elsewhere, Busy
  <2> QED BY <1>1, <2>1, <2>2, StandsElsewhere DEF TypeInv
<1>5. CASE StartFails(p) \/ Exit(p) \/ Crash(p)
  <2>1. Killed(p) /\ phase' = [phase EXCEPT ![p] = "gone"] /\ lock' \in {lock, None}
    BY <1>5 DEF StartFails, Exit, Crash, FailsToStart, Exits, Crashes, Becomes
  <2>2. BoundTypes'
    BY <1>0, <1>5, FaultType, ScholarAssumption DEF StartFails, Exit, Crash, BoundTypes
  <2>3. ProcessTypes' /\ WorkerTypes'
    BY <1>0, <2>1 DEF Killed, ProcessTypes, WorkerTypes, Phase
  <2>4. Stands(p)' /\ Elsewhere(p)
    BY <1>0, <2>1 DEF Killed, ProcessTypes, WorkerTypes, Stands, Elsewhere, Busy
  <2> QED BY <1>1, <2>2, <2>3, <2>4, StandsElsewhere DEF TypeInv
<1> QED BY <1>2, <1>3, <1>4, <1>5

LEMMA RequestType ==
  ASSUME TypeInv, NEW p \in Processes,
         \/ \E r \in Runs : Admit(p, r) \/ ReadsRow(p, r)
         \/ ManifestAndReconcile(p)
  PROVE  TypeInv' /\ Elsewhere(p)
<1>0. ProcessTypes /\ WorkerTypes /\ BoundTypes /\ RegistryTypes /\ Stands(p)
  BY DEF TypeInv
<1>1. ASSUME NEW r \in Runs, Admit(p, r) PROVE TypeInv' /\ Elsewhere(p)
  <2>1. RegistryTypes'
    BY <1>0, <1>1, AdmitType DEF Admit
  <2>2. UNCHANGED <<process, worker, snap, bounds>>
    BY <1>1 DEF Admit
  <2>3. ProcessTypes' /\ WorkerTypes' /\ BoundTypes' /\ Stands(p)' /\ Elsewhere(p)
    BY <1>0, <2>2 DEF process, worker, bounds, ProcessTypes, WorkerTypes, BoundTypes,
         Stands, Elsewhere
  <2> QED BY <2>1, <2>3, StandsElsewhere DEF TypeInv
<1>2. ASSUME NEW r \in Runs, ReadsRow(p, r) PROVE TypeInv' /\ Elsewhere(p)
  <2>1. RegistryTypes'
    BY <1>0, <1>2, RegistryUnchanged DEF ReadsRow
  <2>2. [run |-> r, status |-> rows[r].status, terminal |-> rows[r].phase = "terminal"]
          \in [run : Runs, status : Status, terminal : BOOLEAN]
    BY <1>0 DEF RegistryTypes, Row
  <2>3. ProcessTypes' /\ WorkerTypes' /\ BoundTypes' /\ Stands(p)' /\ Elsewhere(p)
    BY <1>0, <1>2, <2>2 DEF ReadsRow, process, worker, bounds, ProcessTypes, WorkerTypes,
         BoundTypes, Stands, Elsewhere
  <2> QED BY <2>1, <2>3, StandsElsewhere DEF TypeInv
<1>3. CASE ManifestAndReconcile(p)
  <2>1. snap[p].run \in Runs
    BY <1>0, <1>3 DEF ManifestAndReconcile, ProcessTypes
  <2>2. RegistryTypes'
    <3>1. CASE UNCHANGED registry
      BY <1>0, <1>3, <3>1, RegistryUnchanged DEF ManifestAndReconcile
    <3>2. CASE manifests[snap[p].run] \in Published
               /\ Terminal(snap[p].run, manifests[snap[p].run])
      BY <1>0, <1>3, <2>1, <3>2, TerminalType DEF ManifestAndReconcile, Finals
    <3> QED BY <1>3, <3>1, <3>2 DEF ManifestAndReconcile
  <2>3. ProcessTypes' /\ WorkerTypes' /\ BoundTypes' /\ Stands(p)' /\ Elsewhere(p)
    BY <1>0, <1>3 DEF ManifestAndReconcile, process, worker, bounds, ProcessTypes,
         WorkerTypes, BoundTypes, Stands, Elsewhere
  <2> QED BY <2>2, <2>3, StandsElsewhere DEF TypeInv
<1> QED BY <1>1, <1>2, <1>3

LEMMA ReadsEndType ==
  ASSUME TypeInv, NEW p \in Processes, NEW r \in Runs, NEW known, ReadsEnd(p, r, known)
  PROVE  /\ BoundTypes'
         /\ \E s \in Finals : ended' = [ended EXCEPT ![p] = s]
<1>1. BoundTypes'
  BY ScholarAssumption DEF ReadsEnd, bounds, TypeInv, BoundTypes
<1> QED BY <1>1, EndType DEF ReadsEnd, Finals

LEMMA ReconcileType ==
  ASSUME TypeInv, NEW p \in Processes, ReconcileStartup(p) \/ WriteReconciled(p)
  PROVE  TypeInv' /\ Elsewhere(p)
<1>0. ProcessTypes /\ WorkerTypes /\ BoundTypes /\ RegistryTypes /\ Stands(p)
      /\ phase[p] = "starting"
  BY DEF TypeInv, ReconcileStartup, WriteReconciled
<1>1. CASE ReconcileStartup(p)
  <2>1. PICK x \in pending[p] : /\ ReadsEnd(p, x.run, x.artifact)
                               /\ run' = [run EXCEPT ![p] = x.run]
                               /\ pending' = [pending EXCEPT ![p] = @ \ {x}]
    BY <1>1 DEF ReconcileStartup
  <2>2. x.run \in Runs /\ x.run # None
    BY <1>0, <2>1, ScholarAssumption DEF ProcessTypes
  <2>3. BoundTypes' /\ \E s \in Finals : ended' = [ended EXCEPT ![p] = s]
    BY <2>1, <2>2, ReadsEndType
  <2>4. RegistryTypes' /\ UNCHANGED <<phase, lock, pc, snap>>
    BY <1>0, <1>1, RegistryUnchanged DEF ReconcileStartup
  <2>5. ProcessTypes' /\ WorkerTypes'
    BY <1>0, <2>1, <2>2, <2>3, <2>4 DEF ProcessTypes, WorkerTypes
  <2>6. Stands(p)' /\ Elsewhere(p)
    BY <1>0, <2>1, <2>2, <2>3, <2>4 DEF ProcessTypes, WorkerTypes, Stands, Elsewhere,
         Busy, Finals, Published, None
  <2> QED BY <2>3, <2>4, <2>5, <2>6, StandsElsewhere DEF TypeInv
<1>2. CASE WriteReconciled(p)
  <2>1. run[p] \in Runs /\ ended[p] \in Finals
    BY <1>0, <1>2 DEF WriteReconciled, WorkerTypes, Stands, Busy
  <2>2. RegistryTypes'
    BY <1>0, <1>2, <2>1, TerminalType DEF WriteReconciled
  <2>3. ProcessTypes' /\ WorkerTypes' /\ BoundTypes'
    BY <1>0, <1>2 DEF WriteReconciled, process, bounds, ProcessTypes, WorkerTypes,
         BoundTypes
  <2>4. Stands(p)' /\ Elsewhere(p)
    BY <1>0, <1>2 DEF WriteReconciled, process, ProcessTypes, WorkerTypes, Stands,
         Elsewhere, Busy
  <2> QED BY <2>2, <2>3, <2>4, StandsElsewhere DEF TypeInv
<1> QED BY <1>1, <1>2

(* The worker goes to its next place, with its run or without.             *)
LEMMA WorkerMoves ==
  ASSUME TypeInv, NEW p \in Processes, pc[p] # "none", UNCHANGED <<process, snap>>,
         NEW l \in Busy \cup {"look", "claim", "stopped", "dead"}, Goto(p, l),
         NEW r \in Runs \cup {None}, run' = [run EXCEPT ![p] = r],
         NEW s \in Finals \cup {None}, ended' = [ended EXCEPT ![p] = s],
         l \in Busy <=> r # None, l = "write_end" => s # None
  PROVE  ProcessTypes' /\ WorkerTypes' /\ Stands(p)' /\ Elsewhere(p)
<1>0. ProcessTypes /\ WorkerTypes /\ Stands(p)
  BY DEF TypeInv
<1>1. ProcessTypes' /\ WorkerTypes'
  BY <1>0 DEF process, ProcessTypes, WorkerTypes, Goto
<1>2. phase[p] \notin {"new", "locked", "starting"} /\ phase' = phase
  BY <1>0 DEF Stands, process
<1>3. pc'[p] = l /\ run'[p] = r /\ ended'[p] = s
  BY <1>0 DEF WorkerTypes, Goto
<1>4. Stands(p)'
  BY <1>2, <1>3 DEF Stands
<1>5. Elsewhere(p)
  BY <1>0 DEF WorkerTypes, process, Elsewhere, Goto
<1> QED BY <1>1, <1>4, <1>5

LEMMA WorkerKeepsRun ==
  ASSUME TypeInv, NEW p \in Processes, UNCHANGED <<process, run, ended, snap>>,
         NEW l \in (Busy \ {"write_end"}) \cup {"look", "claim", "stopped", "dead"},
         Goto(p, l), pc[p] # "none", l \in Busy <=> pc[p] \in Busy
  PROVE  ProcessTypes' /\ WorkerTypes' /\ Stands(p)' /\ Elsewhere(p)
<1>0. ProcessTypes /\ WorkerTypes /\ Stands(p)
  BY DEF TypeInv
<1>1. phase[p] # "starting"
  BY <1>0 DEF Stands
<1>2. run' = [run EXCEPT ![p] = run[p]] /\ ended' = [ended EXCEPT ![p] = ended[p]]
  BY <1>0 DEF WorkerTypes
<1>3. l \in Busy <=> run[p] # None
  BY <1>0, <1>1 DEF Stands
<1>4. run[p] \in Runs \cup {None} /\ ended[p] \in Finals \cup {None}
  BY <1>0 DEF WorkerTypes
<1>5. l \in Busy \cup {"look", "claim", "stopped", "dead"} /\ l # "write_end"
  OBVIOUS
<1>6. UNCHANGED <<process, snap>>
  OBVIOUS
<1> QED
  <2>1. l = "write_end" => ended[p] # None
    BY <1>5
  <2> QED BY <1>2, <1>3, <1>4, <1>5, <1>6, <2>1, WorkerMoves

LEMMA WorkerDone ==
  ASSUME TypeInv, NEW p \in Processes, pc[p] # "none", UNCHANGED <<process, snap>>,
         NEW l \in {"look", "dead"}, Goto(p, l),
         run' = [run EXCEPT ![p] = None], ended' = [ended EXCEPT ![p] = None]
  PROVE  ProcessTypes' /\ WorkerTypes' /\ Stands(p)' /\ Elsewhere(p)
BY WorkerMoves DEF Busy

LEMMA ManifestType ==
  ASSUME TypeInv, NEW p \in Processes, pc[p] \in Busy, NEW m \in Manifest,
         manifests' = [manifests EXCEPT ![run[p]] = m], UNCHANGED registry
  PROVE  RegistryTypes'
BY BusyType DEF TypeInv, RegistryTypes, registry

LEMMA WorkerType ==
  ASSUME TypeInv, NEW p \in Processes,
         \/ Progress(p) \/ ExecutionStep(p) \/ WorkerStep(p)
         \/ ClaimRaises(p) \/ SetArtifactIdRaises(p) \/ WorkerRaises(p)
  PROVE  TypeInv' /\ Elsewhere(p)
<1>0. ProcessTypes /\ WorkerTypes /\ BoundTypes /\ RegistryTypes /\ Stands(p)
  BY DEF TypeInv
<1>a. ASSUME RegistryTypes', BoundTypes',
             ProcessTypes' /\ WorkerTypes' /\ Stands(p)' /\ Elsewhere(p)
      PROVE  TypeInv' /\ Elsewhere(p)
  BY <1>a, StandsElsewhere DEF TypeInv
<1>1. CASE Progress(p)
  <2>1. run[p] \in Runs /\ rows[run[p]] \in Row
    BY <1>1, BusyType DEF Progress, Busy
  <2>2. RegistryTypes'
    BY <1>0, <1>1, <2>1, AdvancedType DEF Progress, RegistryTypes
  <2>3. ProcessTypes' /\ WorkerTypes' /\ Stands(p)' /\ Elsewhere(p)
    BY <1>0, <1>1 DEF Progress, process, worker, ProcessTypes, WorkerTypes, Stands,
         Elsewhere
  <2> QED BY <1>0, <1>1, <1>a, <2>2, <2>3, FaultType DEF Progress
<1>2. CASE PrepareRaises(p) \/ Look(p) \/ SetArtifactIdRaises(p)
  <2>1. RegistryTypes' /\ BoundTypes'
    BY <1>0, <1>2, RegistryUnchanged, FaultType DEF PrepareRaises, Look,
         SetArtifactIdRaises
  <2>2. ProcessTypes' /\ WorkerTypes' /\ Stands(p)' /\ Elsewhere(p)
    BY <1>2, WorkerKeepsRun DEF PrepareRaises, Look, SetArtifactIdRaises, Busy
  <2> QED BY <1>a, <2>1, <2>2
<1>3. CASE CreateDirectory(p) \/ PipelineEnds(p)
  <2>1. PICK m \in Manifest : manifests' = [manifests EXCEPT ![run[p]] = m]
    BY <1>3 DEF CreateDirectory, PipelineEnds, Manifest
  <2>2. RegistryTypes' /\ BoundTypes'
    BY <1>0, <1>3, <2>1, ManifestType, FaultType DEF CreateDirectory, PipelineEnds, Busy
  <2>3. ProcessTypes' /\ WorkerTypes' /\ Stands(p)' /\ Elsewhere(p)
    BY <1>3, WorkerKeepsRun DEF CreateDirectory, PipelineEnds, Busy
  <2> QED BY <1>a, <2>2, <2>3
<1>4. CASE SetArtifactId(p)
  <2>1. run[p] \in Runs /\ rows[run[p]] \in Row
    BY <1>4, BusyType DEF SetArtifactId, Busy
  <2>2. [rows[run[p]] EXCEPT !.artifact = TRUE] \in Row
    BY <2>1 DEF Row
  <2>3. RegistryTypes' /\ BoundTypes'
    BY <1>0, <1>4, <2>1, <2>2, FaultType DEF SetArtifactId, RegistryTypes
  <2>4. ProcessTypes' /\ WorkerTypes' /\ Stands(p)' /\ Elsewhere(p)
    BY <1>4, WorkerKeepsRun DEF SetArtifactId, Busy
  <2> QED BY <1>a, <2>3, <2>4
<1>5. CASE ClaimOldest(p)
  <2>1. BoundTypes'
    BY <1>0, <1>5, FaultType DEF ClaimOldest
  <2>2. CASE Claimable = {} /\ Goto(p, "look") /\ UNCHANGED <<registry, run>>
    <3>1. RegistryTypes'
      BY <1>0, <1>5, <2>2, RegistryUnchanged DEF ClaimOldest
    <3>2. ProcessTypes' /\ WorkerTypes' /\ Stands(p)' /\ Elsewhere(p)
      BY <1>5, <2>2, WorkerKeepsRun DEF ClaimOldest, Busy
    <3> QED BY <1>a, <2>1, <3>1, <3>2
  <2>3. ASSUME NEW r \in Claimable, Claimed(r), run' = [run EXCEPT ![p] = r],
               Goto(p, "prepare")
        PROVE  TypeInv' /\ Elsewhere(p)
    <3>1. r \in Runs /\ r # None
      BY ScholarAssumption DEF Claimable, Oldest
    <3>2. RegistryTypes'
      BY <1>0, <1>5, <2>3, ClaimedType DEF ClaimOldest
    <3>3. ended' = [ended EXCEPT ![p] = ended[p]] /\ ended[p] \in Finals \cup {None}
      BY <1>0, <1>5 DEF ClaimOldest, WorkerTypes
    <3>4. ProcessTypes' /\ WorkerTypes' /\ Stands(p)' /\ Elsewhere(p)
      <4>1. /\ "prepare" \in Busy /\ "prepare" # "write_end" /\ pc[p] # "none"
            /\ UNCHANGED <<process, snap>>
        BY <1>5 DEF ClaimOldest, Busy
      <4>2. "prepare" \in Busy \cup {"look", "claim", "stopped", "dead"}
            /\ r \in Runs \cup {None} /\ ("prepare" \in Busy <=> r # None)
            /\ ("prepare" = "write_end" => ended[p] # None)
        BY <3>1, <4>1
      <4> HIDE DEF Busy
      <4> QED BY <2>3, <3>3, <4>1, <4>2, WorkerMoves
    <3> QED BY <1>a, <2>1, <3>2, <3>4
  <2> QED BY <1>5, <2>2, <2>3 DEF ClaimOldest
<1>6. CASE ClaimRaises(p)
  <2>1. RegistryTypes' /\ BoundTypes'
    BY <1>0, <1>6, RegistryUnchanged, ClaimedType, FaultType DEF ClaimRaises
  <2>2. ProcessTypes' /\ WorkerTypes' /\ Stands(p)' /\ Elsewhere(p)
    BY <1>6, WorkerDone DEF ClaimRaises, Dies
  <2> QED BY <1>a, <2>1, <2>2
<1>7. CASE WorkerRaises(p)
  <2>1. RegistryTypes' /\ BoundTypes'
    BY <1>0, <1>7, RegistryUnchanged, FaultType DEF WorkerRaises
  <2>2. ProcessTypes' /\ WorkerTypes' /\ Stands(p)' /\ Elsewhere(p)
    BY <1>7, WorkerDone DEF WorkerRaises, Dies
  <2> QED BY <1>a, <2>1, <2>2
<1>8. CASE ReadRow(p) \/ ReadManifest(p)
  <2>1. pc[p] \in Busy /\ run[p] \in Runs /\ run[p] # None
    BY <1>8, BusyType, ScholarAssumption DEF ReadRow, ReadManifest, Busy
  <2>2. CASE ReadRow(p) /\ Goto(p, "read_manifest") /\ UNCHANGED ended
    <3>1. ProcessTypes' /\ WorkerTypes' /\ Stands(p)' /\ Elsewhere(p)
      BY <2>2, WorkerKeepsRun DEF ReadRow, Busy
    <3> QED BY <1>0, <1>a, <2>2, <3>1, RegistryUnchanged, FaultType DEF ReadRow
  <2>3. ASSUME NEW s \in Finals, ended' = [ended EXCEPT ![p] = s], Goto(p, "write_end"),
               UNCHANGED <<registry, manifests, process, run, snap>>, BoundTypes'
        PROVE  TypeInv' /\ Elsewhere(p)
    <3>1. run' = [run EXCEPT ![p] = run[p]] /\ s # None /\ pc[p] # "none"
      BY <1>0, <2>1, <2>3 DEF WorkerTypes, Finals, Published, None, Busy
    <3>2. ProcessTypes' /\ WorkerTypes' /\ Stands(p)' /\ Elsewhere(p)
      BY <2>1, <2>3, <3>1, WorkerMoves DEF Busy
    <3> QED BY <1>0, <1>a, <2>3, <3>2, RegistryUnchanged
  <2>4. CASE ReadRow(p) /\ Goto(p, "write_end")
             /\ ended' = [ended EXCEPT ![p] = "interrupted"]
    BY <1>0, <2>3, <2>4, FaultType DEF ReadRow, Finals
  <2>5. CASE ReadManifest(p)
    <3>1. BoundTypes' /\ \E s \in Finals : ended' = [ended EXCEPT ![p] = s]
      BY <2>1, <2>5, ReadsEndType DEF ReadManifest
    <3> QED BY <2>3, <2>5, <3>1 DEF ReadManifest
  <2> QED BY <1>8, <2>2, <2>4, <2>5 DEF ReadRow
<1>9. CASE WriteEnd(p) \/ FailEarly(p)
  <2>1. pc[p] \in Busy /\ run[p] \in Runs /\ (WriteEnd(p) => ended[p] \in Finals)
    BY <1>0, <1>9, BusyType DEF WriteEnd, FailEarly, Busy, Stands, WorkerTypes
  <2>2. RegistryTypes'
    BY <1>0, <1>9, <2>1, TerminalType DEF WriteEnd, FailEarly, Done, Finals, Published
  <2>3. ProcessTypes' /\ WorkerTypes' /\ Stands(p)' /\ Elsewhere(p)
    BY <1>9, <2>1, WorkerDone DEF WriteEnd, FailEarly, Done, Busy
  <2> QED BY <1>0, <1>9, <1>a, <2>2, <2>3, FaultType DEF WriteEnd, FailEarly, Done
<1> QED BY <1>1, <1>2, <1>3, <1>4, <1>5, <1>6, <1>7, <1>8, <1>9
     DEF ExecutionStep, WorkerStep

LEMMA StepType ==
  TypeInv /\ Next => TypeInv' /\ \E p \in Processes : Elsewhere(p)
BY LifeType, RequestType, ReconcileType, WorkerType DEF Next, StartStep

(* Rows, manifests, processes, workers and requests are always well typed. *)
THEOREM TypeCorrect == Spec => []TypeOK
<1>1. TypeInv /\ UNCHANGED vars => TypeInv'
  BY DEF vars, TypeInv, RegistryTypes, ProcessTypes, WorkerTypes, BoundTypes, Stands
<1> QED BY <1>1, InitType, StepType, TypeInvTypes, PTL DEF Spec
-----------------------------------------------------------------------------
(* The inductive invariant.                                                *)

(* At most one process is between taking the lock and giving it back, and  *)
(* it alone has a worker that works, a row to reconcile or a request.      *)
Holding == {"locked", "starting", "up", "closing"}
LockHeld == \A p \in Processes : phase[p] \in Holding => lock = p

Quiet(p) == run[p] = None /\ pc[p] \notin {"look", "claim"}

SnapOK(p) ==
  snap[p] # NoRequest => phase[p] = "up" /\ rows[snap[p].run].artifact

(* What a start has read of the rows it has yet to end is still so.        *)
StartOK(p) ==
  phase[p] = "starting" =>
    /\ \A x \in pending[p] : /\ rows[x.run].status \in {"queued", "running"}
                             /\ x.artifact = rows[x.run].artifact /\ x.run # run[p]
    /\ run[p] # None =>
         /\ rows[run[p]].status \in {"queued", "running"}
         /\ AllRead => ended[p] = EndOf(run[p], rows[run[p]].artifact)

(* A row is running until its pipeline has ended; then a request may have  *)
(* repaired it to what the manifest says before the worker writes the same.*)
ExecOK(p) ==
  LET r == run[p] row == rows[r] IN
    /\ pc[p] = "prepare" => manifests[r] = None
    /\ pc[p] = "register" => manifests[r] = "running"
    /\ pc[p] \in {"prepare", "fail_early", "register"} =>
         row.status = "running" /\ ~row.artifact /\ manifests[r] \notin Published
    /\ pc[p] = "pipeline" =>
         row.status = "running" /\ row.artifact /\ manifests[r] = "running"
    /\ pc[p] \in {"read_row", "read_manifest", "write_end"} =>
         /\ row.artifact
         /\ row.status = "running" \/ (manifests[r] \in Published /\ row.status = manifests[r])
    /\ pc[p] = "write_end" /\ AllRead => ended[p] = EndOf(r, TRUE)

LocalOK(p) ==
  /\ phase[p] \in {"new", "released", "gone"} => Quiet(p)
  /\ SnapOK(p) /\ StartOK(p) /\ ExecOK(p)

(* A run that was not started has no directory.                            *)
Fresh(r) ==
  rows[r].status \in {"absent", "queued"} =>
    rows[r].phase = "queued" /\ ~rows[r].artifact /\ manifests[r] = None
Follows(r) ==
  AllRead /\ rows[r].status \in Finals =>
    IF rows[r].artifact /\ manifests[r] \in Published THEN rows[r].status = manifests[r]
    ELSE rows[r].status \in {"interrupted", "failed"}
History(r) ==
  IF log[r] = <<>> THEN rows[r].status = "absent"
  ELSE /\ rows[r].status = log[r][Len(log[r])]
       /\ AllRead => \A i, j \in 1..Len(log[r]) :
                       i < j /\ log[r][i] \in Published => log[r][j] = log[r][i]
RowOK(r) == Fresh(r) /\ Follows(r) /\ History(r)

IInv ==
  /\ TypeInv /\ LockHeld
  /\ \A p \in Processes : LocalOK(p)
  /\ \A r \in Runs : RowOK(r)

LEMMA InitIInv == Init => IInv
<1> SUFFICES ASSUME Init PROVE IInv
  OBVIOUS
<1>1. \A r \in Runs : RowOK(r)
  BY DEF Init, RowOK, Fresh, Follows, History, Finals, Published
<1>2. \A p \in Processes : LocalOK(p)
  BY DEF Init, LocalOK, Quiet, SnapOK, StartOK, ExecOK
<1> QED BY <1>1, <1>2, InitType DEF Init, LockHeld, Holding, IInv

(* Who may write rows holds the lock.                                      *)
LEMMA WritersHold ==
  ASSUME IInv, NEW p \in Processes,
         \/ phase[p] \in {"starting", "up"} \/ snap[p] # NoRequest
         \/ pc[p] \in Busy \cup {"look", "claim"}
  PROVE  phase[p] \in Holding
BY DEF IInv, TypeInv, ProcessTypes, Stands, LocalOK, SnapOK, Quiet, Phase, Holding, Busy

LEMMA OthersStay ==
  ASSUME IInv, NEW p \in Processes, Elsewhere(p), AllRead' => AllRead,
         UNCHANGED <<rows, manifests>> \/ phase[p] \in Holding
  PROVE  \A q \in Processes \ {p} : LocalOK(q)'
<1> SUFFICES ASSUME NEW q \in Processes, q # p PROVE LocalOK(q)'
  OBVIOUS
<1>1. LocalOK(q) /\ Stands(q)
      /\ phase'[q] = phase[q] /\ pending'[q] = pending[q] /\ snap'[q] = snap[q]
      /\ pc'[q] = pc[q] /\ run'[q] = run[q] /\ ended'[q] = ended[q]
  BY DEF Elsewhere, IInv, TypeInv
<1>2. CASE UNCHANGED <<rows, manifests>>
  BY <1>1, <1>2 DEF LocalOK, Quiet, SnapOK, StartOK, ExecOK, EndOf
<1>3. CASE phase[p] \in Holding
  <2>1. phase[q] \notin Holding /\ phase[q] \in Phase
    BY <1>3 DEF IInv, LockHeld, TypeInv, ProcessTypes
  <2>2. phase[q] \in {"new", "released", "gone"}
    BY <2>1 DEF Holding, Phase
  <2>3. Quiet(q) /\ pc[q] \notin Busy /\ snap[q] = NoRequest
    BY <1>1, <2>2 DEF LocalOK, Quiet, Stands, SnapOK
  <2> QED BY <1>1, <2>2, <2>3 DEF LocalOK, Quiet, SnapOK, StartOK, ExecOK, Busy
<1> QED BY <1>2, <1>3

LEMMA RowStays ==
  ASSUME NEW r \in Runs, RowOK(r), AllRead' => AllRead,
         rows'[r] = rows[r], log'[r] = log[r], manifests'[r] = manifests[r]
  PROVE  RowOK(r)'
BY DEF RowOK, Fresh, Follows, History

LEMMA RowsStay ==
  ASSUME IInv, AllRead' => AllRead, UNCHANGED <<registry, manifests>>
  PROVE  \A r \in Runs : RowOK(r)'
BY RowStays DEF registry, IInv

(* One event more: a published end was followed by nothing but itself.     *)
LEMMA RecordedHistory ==
  ASSUME TypeInv, NEW r \in Runs, History(r), NEW row, NEW event \in Status,
         Recorded(r, row, event), row.status = event, AllRead' => AllRead,
         AllRead /\ rows[r].status \in Published => event = rows[r].status
  PROVE  /\ History(r)' /\ rows'[r] = row
         /\ \A x \in Runs \ {r} : rows'[x] = rows[x] /\ log'[x] = log[x]
<1>1. /\ rows \in [Runs -> Row] /\ log \in [Runs -> Seq(Status)]
      /\ rows' = [rows EXCEPT ![r] = row]
      /\ log' = [log EXCEPT ![r] = Append(log[r], event)]
  BY DEF TypeInv, RegistryTypes, Recorded
<1> DEFINE h == log[r]
           g == Append(h, event)
<1>2. h \in Seq(Status) /\ Len(h) \in Nat /\ log'[r] = g
  BY <1>1, LenProperties
<1>3. /\ Len(g) = Len(h) + 1 /\ g # <<>> /\ g[Len(h) + 1] = event
      /\ \A i \in 1..Len(h) : g[i] = h[i]
  BY <1>2, AppendProperties
<1>4. rows'[r] = row
      /\ \A x \in Runs \ {r} : rows'[x] = rows[x] /\ log'[x] = log[x]
  BY <1>1
<1> HIDE DEF g
<1>5. ASSUME AllRead', NEW i \in 1..Len(g), NEW j \in 1..Len(g), i < j, g[i] \in Published
      PROVE  g[j] = g[i]
  <2>1. i \in 1..Len(h) /\ g[i] = h[i] /\ h # <<>> /\ AllRead
    BY <1>2, <1>3, <1>5, EmptySeq
  <2>2. /\ rows[r].status = h[Len(h)]
        /\ \A m, n \in 1..Len(h) : m < n /\ h[m] \in Published => h[n] = h[m]
    BY <2>1 DEF History
  <2>3. CASE j \in 1..Len(h)
    BY <1>3, <1>5, <2>1, <2>2, <2>3
  <2>4. CASE j = Len(h) + 1
    <3>1. h[Len(h)] = h[i]
      BY <1>2, <1>5, <2>1, <2>2
    <3> QED BY <1>3, <1>5, <2>1, <2>2, <2>4, <3>1
  <2> QED BY <1>2, <1>3, <1>5, <2>3, <2>4
<1>6. History(r)'
  BY <1>2, <1>3, <1>4, <1>5 DEF History
<1> QED BY <1>4, <1>6

LEMMA TerminalRows ==
  ASSUME IInv, NEW r \in Runs, NEW s \in Finals, Terminal(r, s), UNCHANGED manifests,
         AllRead' => AllRead,
         AllRead => IF rows[r].artifact /\ manifests[r] \in Published
                    THEN s = manifests[r] ELSE s \in {"interrupted", "failed"},
         AllRead /\ rows[r].status \in Published => s = rows[r].status
  PROVE  /\ \A x \in Runs : RowOK(x)'
         /\ rows'[r].status = s /\ rows'[r].artifact = rows[r].artifact
         /\ \A x \in Runs \ {r} : rows'[x] = rows[x]
<1> DEFINE row == [rows[r] EXCEPT !.status = s, !.phase = "terminal"]
<1>1. rows[r] \in Row /\ RowOK(r) /\ TypeInv
  BY DEF IInv, TypeInv, RegistryTypes
<1>2. row.status = s /\ row.artifact = rows[r].artifact
  BY <1>1 DEF Row
<1>3. Recorded(r, row, s)
  BY DEF Terminal
<1>4. s \notin {"absent", "queued"} /\ s \in Status
  BY DEF Finals, Published, Status
<1> HIDE DEF row
<1>5. /\ History(r)' /\ rows'[r] = row
      /\ \A x \in Runs \ {r} : rows'[x] = rows[x] /\ log'[x] = log[x]
  BY <1>1, <1>2, <1>3, <1>4, RecordedHistory DEF RowOK
<1>6. RowOK(r)'
  BY <1>2, <1>4, <1>5 DEF RowOK, Fresh, Follows
<1>7. \A x \in Runs \ {r} : RowOK(x)'
  BY <1>5, RowStays DEF IInv
<1> QED BY <1>2, <1>5, <1>6, <1>7

LEMMA Assembled ==
  ASSUME IInv, NEW p \in Processes, TypeInv', Elsewhere(p), AllRead' => AllRead,
         UNCHANGED <<rows, manifests>> \/ phase[p] \in Holding,
         LockHeld', LocalOK(p)', \A r \in Runs : RowOK(r)'
  PROVE  IInv'
BY OthersStay DEF IInv

LEMMA LifeStep ==
  ASSUME JoinTimesOut = FALSE, IInv, NEW p \in Processes,
         \/ AcquireLock(p) \/ ReadActive(p) \/ Serve(p) \/ Close(p)
         \/ ReleaseLock(p) \/ StartFails(p) \/ Exit(p) \/ Crash(p)
  PROVE  IInv'
<1>0. TypeInv /\ ProcessTypes /\ WorkerTypes /\ Stands(p) /\ LocalOK(p) /\ LockHeld
  BY DEF IInv, TypeInv
<1>1. TypeInv' /\ Elsewhere(p)
  BY <1>0, LifeType
<1>2. UNCHANGED <<registry, manifests>> /\ (AllRead' => AllRead)
  BY DEF AcquireLock, ReadActive, Serve, Close, ReleaseLock, StartFails, Exit, Crash,
         Killed, Fault, bounds, AllRead
<1>3. \A r \in Runs : RowOK(r)'
  BY <1>2, RowsStay
<1>a. ASSUME LockHeld', LocalOK(p)' PROVE IInv'
  BY <1>1, <1>2, <1>3, <1>a, Assembled DEF registry
<1>4. CASE AcquireLock(p)
  <2>1. phase' = [phase EXCEPT ![p] = "locked"] /\ phase[p] = "new" /\ lock = None /\ lock' = p
        /\ UNCHANGED <<worker, snap, rows, manifests>>
    BY <1>4 DEF AcquireLock, AcquiresLock, Becomes, registry
  <2>2. LockHeld'
    BY <1>0, <2>1, ProcessAssumption DEF LockHeld, ProcessTypes, Holding
  <2>3. LocalOK(p)'
    BY <1>0, <2>1 DEF LocalOK, SnapOK, StartOK, ExecOK, Stands, ProcessTypes, worker
  <2> QED BY <1>a, <2>2, <2>3
<1>5. CASE ReadActive(p)
  <2>1. /\ phase' = [phase EXCEPT ![p] = "starting"] /\ phase[p] = "locked" /\ lock' = lock
        /\ pending' = [pending EXCEPT ![p] = {[run |-> r, artifact |-> rows[r].artifact] :
                                                r \in Active}]
        /\ UNCHANGED <<worker, snap, rows, manifests>>
    BY <1>5 DEF ReadActive, ReadsUnfinished, Becomes, registry
  <2>2. LockHeld'
    BY <1>0, <2>1 DEF LockHeld, ProcessTypes, Holding
  <2>3. run[p] = None /\ pc[p] = "none" /\ snap[p] = NoRequest /\ run' = run
        /\ phase'[p] = "starting"
    BY <1>0, <2>1 DEF LocalOK, SnapOK, Stands, worker, ProcessTypes
  <2>4. StartOK(p)'
    BY <1>0, <2>1, <2>3, ScholarAssumption DEF StartOK, ProcessTypes, Active
  <2>5. LocalOK(p)'
    BY <2>1, <2>3, <2>4 DEF LocalOK, SnapOK, ExecOK, worker
  <2> QED BY <1>a, <2>2, <2>5
<1>6. CASE Serve(p)
  <2>1. /\ phase' = [phase EXCEPT ![p] = "up"] /\ phase[p] = "starting" /\ lock' = lock
        /\ pc' = [pc EXCEPT ![p] = "look"]
        /\ UNCHANGED <<run, ended, snap, rows, manifests>>
    BY <1>6 DEF Serve, Opens, Becomes, registry
  <2>2. LockHeld'
    BY <1>0, <2>1 DEF LockHeld, ProcessTypes, Holding
  <2>3. LocalOK(p)'
    BY <1>0, <2>1 DEF LocalOK, SnapOK, StartOK, ExecOK, ProcessTypes, WorkerTypes
  <2> QED BY <1>a, <2>2, <2>3
<1>7. CASE Close(p) \/ ReleaseLock(p)
  <2>1. /\ UNCHANGED <<worker, snap, rows, manifests>> /\ snap[p] = NoRequest
        /\ \/ /\ phase[p] = "up" /\ phase' = [phase EXCEPT ![p] = "closing"]
              /\ lock' = lock
           \/ /\ phase[p] = "closing" /\ phase' = [phase EXCEPT ![p] = "released"]
              /\ lock' = None /\ pc[p] \in {"stopped", "dead"}
    BY <1>0, <1>7 DEF Close, ReleaseLock, Closes, ReleasesLock, JoinReturns, Becomes,
         registry, LocalOK, SnapOK
  <2>2. LockHeld'
    BY <1>0, <2>1 DEF LockHeld, ProcessTypes, Holding
  <2>3. (phase'[p] = "released" => Quiet(p)) /\ phase'[p] \in {"closing", "released"}
    BY <1>0, <2>1 DEF Quiet, Stands, ProcessTypes, Busy
  <2>4. LocalOK(p)'
    BY <1>0, <1>2, <2>1, <2>3 DEF LocalOK, Quiet, SnapOK, StartOK, ExecOK, EndOf, worker
  <2> QED BY <1>a, <2>2, <2>4
<1>8. CASE StartFails(p) \/ Exit(p) \/ Crash(p)
  <2>1. /\ Killed(p) /\ phase' = [phase EXCEPT ![p] = "gone"]
        /\ \/ phase[p] \in Holding /\ lock = p /\ lock' = None
           \/ phase[p] \notin Holding /\ lock' \in {lock, IF lock = p THEN None ELSE lock}
    <3>1. phase[p] \in Holding => lock = p
      BY <1>0 DEF LockHeld
    <3>2. CASE StartFails(p)
      BY <3>1, <3>2 DEF StartFails, FailsToStart, Becomes, Holding
    <3>3. CASE Exit(p)
      <4>1. phase[p] \notin Holding /\ lock' = lock
        BY <3>3 DEF Exit, Exits, Holding
      <4> QED BY <3>3, <4>1 DEF Exit, Exits, Becomes
    <3>4. CASE Crash(p)
      BY <3>1, <3>4 DEF Crash, Crashes, Becomes
    <3> QED BY <1>8, <3>2, <3>3, <3>4
  <2>2. LockHeld'
    BY <1>0, <2>1 DEF LockHeld, ProcessTypes, Holding
  <2>3. LocalOK(p)'
    BY <1>0, <2>1 DEF Killed, LocalOK, Quiet, SnapOK, StartOK, ExecOK, ProcessTypes,
         WorkerTypes
  <2> QED BY <1>a, <2>2, <2>3
<1> QED BY <1>4, <1>5, <1>6, <1>7, <1>8

LEMMA RequestStep ==
  ASSUME IInv, NEW p \in Processes,
         \/ \E r \in Runs : Admit(p, r) \/ ReadsRow(p, r)
         \/ ManifestAndReconcile(p)
  PROVE  IInv'
<1>0. TypeInv /\ ProcessTypes /\ RegistryTypes /\ WorkerTypes /\ Stands(p) /\ LocalOK(p)
      /\ LockHeld
  BY DEF IInv, TypeInv
<1>1. TypeInv' /\ Elsewhere(p)
  BY <1>0, RequestType
<1>2. UNCHANGED <<manifests, phase, lock, pending, worker, bounds>>
      /\ (AllRead' => AllRead)
  BY DEF Admit, ReadsRow, ManifestAndReconcile, process, bounds, AllRead
<1>3. LockHeld' /\ phase[p] = "up" /\ phase[p] \in Holding
  <2>1. phase[p] = "up"
    BY <1>0 DEF Admit, ReadsRow, ManifestAndReconcile, LocalOK, SnapOK
  <2> QED BY <1>0, <1>2, <2>1 DEF LockHeld, Holding
<1>a. ASSUME LocalOK(p)', \A r \in Runs : RowOK(r)' PROVE IInv'
  BY <1>1, <1>2, <1>3, <1>a, Assembled
<1>4. ASSUME NEW r \in Runs, Admit(p, r) PROVE IInv'
  <2>1. PICK stamp \in 1..Cardinality(Runs) :
          Recorded(r, [status |-> "queued", phase |-> "queued",
                       artifact |-> FALSE, created |-> stamp], "queued")
    BY <1>4 DEF Admit
  <2>2. rows[r].status = "absent" /\ snap' = snap /\ RowOK(r)
    BY <1>4 DEF Admit, IInv
  <2>3. /\ History(r)' /\ rows'[r] = [status |-> "queued", phase |-> "queued",
                                      artifact |-> FALSE, created |-> stamp]
        /\ \A x \in Runs \ {r} : rows'[x] = rows[x] /\ log'[x] = log[x]
    BY <1>0, <1>2, <2>1, <2>2, RecordedHistory DEF RowOK, Published, Status
  <2>4. ~rows[r].artifact /\ manifests[r] = None
    BY <2>2 DEF RowOK, Fresh
  <2>5. \A x \in Runs : RowOK(x)'
    <3>1. RowOK(r)'
      BY <1>2, <2>3, <2>4 DEF RowOK, Fresh, Follows, Finals, Published
    <3> QED BY <1>2, <2>3, <3>1, RowStays DEF IInv
  <2>6. snap[p] # NoRequest => snap[p].run \in Runs \ {r}
    BY <1>0, <2>4 DEF LocalOK, SnapOK, ProcessTypes
  <2>7. pc[p] \in Busy => run[p] \in Runs \ {r}
    BY <1>0, <2>2, BusyType DEF LocalOK, ExecOK, Busy, Published
  <2>8. LocalOK(p)'
    BY <1>0, <1>2, <1>3, <2>2, <2>3, <2>6, <2>7 DEF LocalOK, SnapOK, StartOK, ExecOK,
         EndOf, worker, Busy
  <2> QED BY <1>a, <2>5, <2>8
<1>5. ASSUME NEW r \in Runs, ReadsRow(p, r) PROVE IInv'
  <2>1. UNCHANGED <<registry, manifests>> /\ rows' = rows /\ rows[r].artifact
        /\ snap'[p].run = r
    BY <1>0, <1>5 DEF ReadsRow, registry, ProcessTypes
  <2>2. LocalOK(p)'
    BY <1>0, <1>2, <1>3, <2>1 DEF LocalOK, SnapOK, StartOK, ExecOK, EndOf, worker
  <2> QED BY <1>2, <1>a, <2>1, <2>2, RowsStay
<1>6. CASE ManifestAndReconcile(p)
  <2>1. /\ snap[p] # NoRequest /\ snap'[p] = NoRequest /\ snap[p].run \in Runs
        /\ rows[snap[p].run].artifact
    BY <1>0, <1>6 DEF ManifestAndReconcile, ProcessTypes, LocalOK, SnapOK
  <2>2. CASE UNCHANGED registry
    <3>1. LocalOK(p)'
      BY <1>0, <1>2, <1>3, <2>1, <2>2 DEF LocalOK, SnapOK, StartOK, ExecOK, EndOf,
           worker, registry
    <3> QED BY <1>2, <1>a, <2>2, <3>1, RowsStay
  <2>3. ASSUME NEW r \in Runs, r = snap[p].run, manifests[r] \in Published,
               Terminal(r, manifests[r])
        PROVE  IInv'
    <3>1. RowOK(r) /\ rows[r].artifact
      BY <2>1, <2>3 DEF IInv
    <3>2. AllRead /\ rows[r].status \in Published => manifests[r] = rows[r].status
      BY <2>3, <3>1 DEF RowOK, Follows, Finals
    <3>3. /\ \A x \in Runs : RowOK(x)'
          /\ rows'[r].status = manifests[r] /\ rows'[r].artifact = rows[r].artifact
          /\ \A x \in Runs \ {r} : rows'[x] = rows[x]
      BY <1>2, <2>3, <3>1, <3>2, TerminalRows DEF Finals
    <3>4. ExecOK(p)'
      <4>1. CASE run[p] = r /\ pc[p] \in Busy
        BY <1>0, <1>2, <2>3, <3>1, <3>3, <4>1 DEF LocalOK, ExecOK, EndOf, worker, Busy
      <4>2. CASE run[p] # r /\ pc[p] \in Busy
        BY <1>0, <1>2, <3>3, <4>2, BusyType DEF LocalOK, ExecOK, EndOf, worker
      <4>3. CASE pc[p] \notin Busy
        BY <1>2, <4>3 DEF ExecOK, Busy, worker
      <4> QED BY <4>1, <4>2, <4>3
    <3>5. LocalOK(p)'
      BY <1>2, <1>3, <2>1, <3>4 DEF LocalOK, SnapOK, StartOK
    <3> QED BY <1>a, <3>3, <3>5
  <2> QED BY <1>6, <2>1, <2>2, <2>3 DEF ManifestAndReconcile
<1> QED BY <1>4, <1>5, <1>6

LEMMA EndWithoutFault ==
  ASSUME TypeInv, NEW p \in Processes, NEW r, NEW known, ReadsEnd(p, r, known), AllRead'
  PROVE  ended'[p] = EndOf(r, known)
<1>1. read_faults \in Nat /\ ended \in [Processes -> Finals \cup {None}]
  BY ScholarAssumption DEF TypeInv, BoundTypes, WorkerTypes
<1>2. read_faults' # read_faults + 1
  BY <1>1 DEF AllRead
<1>3. ended' = [ended EXCEPT ![p] = EndOf(r, known)]
  BY <1>2 DEF ReadsEnd
<1> QED BY <1>1, <1>3

LEMMA ReconcileStep ==
  ASSUME IInv, NEW p \in Processes, ReconcileStartup(p) \/ WriteReconciled(p)
  PROVE  IInv'
<1>0. TypeInv /\ ProcessTypes /\ RegistryTypes /\ WorkerTypes /\ Stands(p) /\ LocalOK(p)
      /\ LockHeld /\ phase[p] = "starting" /\ pc[p] = "none"
  BY DEF IInv, TypeInv, ReconcileStartup, WriteReconciled, Stands
<1>1. TypeInv' /\ Elsewhere(p)
  BY <1>0, ReconcileType
<1>2. UNCHANGED <<manifests, phase, lock, pc, snap>> /\ (AllRead' => AllRead)
  <2>1. read_faults \in Nat
    BY ScholarAssumption DEF IInv, TypeInv, BoundTypes
  <2>2. read_faults' \in {read_faults, read_faults + 1}
    BY DEF ReconcileStartup, ReadsEnd, WriteReconciled, bounds
  <2>3. AllRead' => AllRead
    BY <2>1, <2>2 DEF AllRead
  <2>4. UNCHANGED <<manifests, phase, lock, pc, snap>>
    BY DEF ReconcileStartup, WriteReconciled, process
  <2> QED BY <2>3, <2>4
<1>3. LockHeld' /\ phase[p] \in Holding
  BY <1>0, <1>2 DEF LockHeld, Holding
<1>4. snap[p] = NoRequest
  BY <1>0 DEF LocalOK, SnapOK
<1>a. ASSUME StartOK(p)', \A r \in Runs : RowOK(r)' PROVE IInv'
  <2>1. LocalOK(p)'
    BY <1>0, <1>2, <1>4, <1>a DEF LocalOK, SnapOK, ExecOK
  <2> QED BY <1>1, <1>2, <1>3, <1>a, <2>1, Assembled
<1>5. CASE ReconcileStartup(p)
  <2>1. PICK x \in pending[p] : /\ ReadsEnd(p, x.run, x.artifact)
                               /\ run' = [run EXCEPT ![p] = x.run]
                               /\ pending' = [pending EXCEPT ![p] = @ \ {x}]
    BY <1>5 DEF ReconcileStartup
  <2>2. UNCHANGED <<registry, manifests>> /\ rows' = rows
    BY <1>5 DEF ReconcileStartup, registry
  <2>3. run'[p] = x.run /\ pending'[p] = pending[p] \ {x}
    BY <1>0, <2>1 DEF ProcessTypes, WorkerTypes
  <2>4. \A y \in pending[p] : /\ rows[y.run].status \in {"queued", "running"}
                              /\ y.artifact = rows[y.run].artifact
                              /\ y \in [run : Runs, artifact : BOOLEAN]
    BY <1>0 DEF LocalOK, StartOK, ProcessTypes
  <2>5. \A y \in pending[p] \ {x} : y.run # x.run
    BY <2>1, <2>4
  <2>6. AllRead' => ended'[p] = EndOf(x.run, x.artifact)
    BY <1>0, <2>1, EndWithoutFault
  <2>7. StartOK(p)'
    BY <1>0, <1>2, <2>2, <2>3, <2>4, <2>5, <2>6 DEF StartOK, EndOf
  <2> QED BY <1>2, <1>a, <2>2, <2>7, RowsStay
<1>6. CASE WriteReconciled(p)
  <2>1. /\ run[p] \in Runs /\ ended[p] \in Finals /\ Terminal(run[p], ended[p])
        /\ rows[run[p]].status \in {"queued", "running"}
        /\ AllRead => ended[p] = EndOf(run[p], rows[run[p]].artifact)
    BY <1>0, <1>6 DEF WriteReconciled, WorkerTypes, Stands, Busy, LocalOK, StartOK
  <2>2. /\ \A x \in Runs : RowOK(x)'
        /\ \A x \in Runs \ {run[p]} : rows'[x] = rows[x]
    <3>1. rows[run[p]].status \notin Published
      BY <2>1 DEF Published
    <3>2. AllRead => IF rows[run[p]].artifact /\ manifests[run[p]] \in Published
                     THEN ended[p] = manifests[run[p]]
                     ELSE ended[p] \in {"interrupted", "failed"}
      BY <2>1 DEF EndOf
    <3> QED BY <1>2, <2>1, <3>1, <3>2, TerminalRows
  <2>3. run'[p] = None /\ pending' = pending
    BY <1>0, <1>6 DEF WriteReconciled, WorkerTypes, process
  <2>4. \A x \in pending[p] : x.run \in Runs \ {run[p]} /\ x.run # None
    BY <1>0, ScholarAssumption DEF LocalOK, StartOK, ProcessTypes
  <2>5. StartOK(p)'
    BY <1>0, <1>2, <2>2, <2>3, <2>4 DEF StartOK, LocalOK
  <2> QED BY <1>a, <2>2, <2>5
<1> QED BY <1>5, <1>6

LEMMA WorkerStepOK ==
  ASSUME IInv, NEW p \in Processes,
         \/ Progress(p) \/ ExecutionStep(p) \/ WorkerStep(p)
         \/ ClaimRaises(p) \/ SetArtifactIdRaises(p) \/ WorkerRaises(p)
  PROVE  IInv'
<1>0. TypeInv /\ ProcessTypes /\ RegistryTypes /\ WorkerTypes /\ Stands(p) /\ LocalOK(p)
      /\ LockHeld /\ ExecOK(p) /\ read_faults \in Nat
  BY ScholarAssumption DEF IInv, TypeInv, LocalOK, BoundTypes
<1>1. TypeInv' /\ Elsewhere(p)
  BY <1>0, WorkerType
<1>2. UNCHANGED <<phase, lock, pending, snap>> /\ (AllRead' => AllRead)
      /\ pc[p] \in Busy \cup {"look", "claim"}
  <2>1. UNCHANGED <<process, snap>> /\ pc[p] \in Busy \cup {"look", "claim"}
    BY DEF Progress, ExecutionStep, PrepareRaises, CreateDirectory, SetArtifactId,
       PipelineEnds, WorkerStep, Look, ClaimOldest, ReadRow, ReadManifest, WriteEnd,
       FailEarly, Done, ClaimRaises, SetArtifactIdRaises, WorkerRaises, Busy
  <2>2. read_faults' \in {read_faults, read_faults + 1}
    BY DEF Progress, ExecutionStep, PrepareRaises, CreateDirectory, SetArtifactId,
       PipelineEnds, WorkerStep, Look, ClaimOldest, ReadRow, ReadManifest, ReadsEnd,
       WriteEnd, FailEarly, Done, ClaimRaises, SetArtifactIdRaises, WorkerRaises, Fault,
       bounds
  <2>3. AllRead' => AllRead
    BY <1>0, <2>2 DEF AllRead
  <2> QED BY <2>1, <2>3 DEF process
<1>3. LockHeld' /\ phase[p] \in Holding
  BY <1>0, <1>2, WritersHold DEF LockHeld
<1>4. phase[p] \in {"up", "closing"}
  BY <1>0, <1>2, <1>3 DEF Stands, Holding, Busy
<1>a. ASSUME ExecOK(p)', \A r \in Runs : RowOK(r)',
             snap[p] # NoRequest => rows'[snap[p].run].artifact
      PROVE  IInv'
  <2>1. LocalOK(p)'
    BY <1>0, <1>2, <1>4, <1>a DEF LocalOK, SnapOK, StartOK
  <2> QED BY <1>1, <1>2, <1>3, <1>a, <2>1, Assembled
<1>b. snap[p] # NoRequest => snap[p].run \in Runs /\ rows[snap[p].run].artifact
  BY <1>0 DEF LocalOK, SnapOK, ProcessTypes
<1>c. pc[p] \in Busy => /\ run[p] \in Runs /\ rows[run[p]] \in Row
                       /\ RowOK(run[p])
  BY <1>0, BusyType DEF IInv
<1>d. ASSUME UNCHANGED <<registry, manifests>>, ExecOK(p)' PROVE IInv'
  BY <1>2, <1>a, <1>b, <1>d, RowsStay DEF registry
<1>5. CASE PrepareRaises(p) \/ Look(p) \/ SetArtifactIdRaises(p)
           \/ WorkerRaises(p) \/ (ReadRow(p) /\ UNCHANGED ended)
  <2>1. UNCHANGED <<registry, manifests>> /\ rows' = rows
    BY <1>5 DEF PrepareRaises, Look, SetArtifactIdRaises, WorkerRaises, ReadRow, registry
  <2>2. ExecOK(p)'
    BY <1>0, <1>5, <2>1 DEF PrepareRaises, Look, SetArtifactIdRaises, WorkerRaises, Dies,
       ReadRow, Goto, ExecOK, WorkerTypes, Published
  <2> QED BY <1>d, <2>1, <2>2
<1>6. CASE ReadRow(p) /\ ~rows[run[p]].artifact
  BY <1>0, <1>6 DEF ReadRow, ExecOK
<1>7. CASE ReadManifest(p)
  <2>1. UNCHANGED <<registry, manifests, run>> /\ rows' = rows /\ pc[p] = "read_manifest"
        /\ pc'[p] = "write_end" /\ ReadsEnd(p, run[p], TRUE)
    BY <1>0, <1>7 DEF ReadManifest, registry, Goto, WorkerTypes
  <2>2. AllRead' => ended'[p] = EndOf(run[p], TRUE)
    BY <1>0, <2>1, EndWithoutFault
  <2>3. ExecOK(p)'
    BY <1>0, <2>1, <2>2 DEF ExecOK, EndOf
  <2> QED BY <1>d, <2>1, <2>3
<1>8. CASE CreateDirectory(p) \/ PipelineEnds(p)
  <2>1. PICK m \in Published \cup {"running"} :
          /\ manifests' = [manifests EXCEPT ![run[p]] = m]
          /\ pc[p] = "prepare" => m = "running"
    BY <1>8 DEF CreateDirectory, PipelineEnds
  <2>2. /\ pc[p] \in {"prepare", "pipeline"} /\ UNCHANGED <<registry, run, ended>>
        /\ rows' = rows /\ pc'[p] = (IF pc[p] = "prepare" THEN "register" ELSE "read_row")
    BY <1>0, <1>8 DEF CreateDirectory, PipelineEnds, registry, Goto, WorkerTypes
  <2>3. run[p] \in Runs /\ rows[run[p]].status = "running" /\ RowOK(run[p])
    BY <1>0, <1>c, <2>2 DEF ExecOK, Busy
  <2>4. /\ manifests'[run[p]] = m
        /\ \A x \in Runs \ {run[p]} : manifests'[x] = manifests[x]
    BY <1>0, <2>1, <2>3 DEF RegistryTypes
  <2>5. ExecOK(p)'
    BY <1>0, <2>1, <2>2, <2>3, <2>4 DEF ExecOK, Published
  <2>6. \A x \in Runs : RowOK(x)'
    <3>1. ASSUME NEW x \in Runs, x = run[p] PROVE RowOK(x)'
      BY <1>2, <2>2, <2>3, <3>1 DEF RowOK, Fresh, Follows, History, Finals, Published,
           registry
    <3>2. \A x \in Runs \ {run[p]} : RowOK(x)'
      BY <1>2, <2>2, <2>4, RowStays DEF IInv, registry
    <3> QED BY <3>1, <3>2
  <2> QED BY <1>a, <1>b, <2>2, <2>5, <2>6
<1>9. ASSUME NEW r \in Runs, r = run[p], rows[r].status = "running",
             rows'[r].status = "running", \A x \in Runs \ {r} : rows'[x] = rows[x],
             UNCHANGED <<log, manifests>>
      PROVE  \A x \in Runs : RowOK(x)'
  <2>1. RowOK(r)
    BY DEF IInv
  <2>2. RowOK(r)'
    BY <1>2, <1>9, <2>1 DEF RowOK, Fresh, Follows, History, Finals, Published
  <2>3. \A x \in Runs \ {r} : RowOK(x)'
    BY <1>2, <1>9, RowStays DEF IInv
  <2> QED BY <2>2, <2>3
<1>10. CASE Progress(p)
  <2>1. PICK ph \in Reports : rows' = [rows EXCEPT ![run[p]] = Advanced(rows[run[p]], ph)]
    BY <1>10 DEF Progress
  <2>2. pc[p] = "pipeline" /\ pc[p] \in Busy /\ UNCHANGED <<log, manifests, pc, run, ended>>
    BY <1>10 DEF Progress, worker, Busy
  <2>3. /\ rows'[run[p]].status = rows[run[p]].status
        /\ rows'[run[p]].artifact = rows[run[p]].artifact
        /\ \A x \in Runs \ {run[p]} : rows'[x] = rows[x]
    BY <1>0, <1>c, <2>1, <2>2 DEF RegistryTypes, Row, Advanced
  <2>4. rows[run[p]].status = "running" /\ rows[run[p]].artifact
    BY <1>0, <2>2 DEF ExecOK
  <2>5. ExecOK(p)'
    BY <1>0, <2>2, <2>3 DEF ExecOK
  <2> QED BY <1>9, <1>a, <1>b, <1>c, <2>2, <2>3, <2>4, <2>5
<1>11. CASE SetArtifactId(p)
  <2>1. /\ pc[p] = "register" /\ pc[p] \in Busy /\ pc'[p] = "pipeline"
        /\ rows' = [rows EXCEPT ![run[p]].artifact = TRUE]
        /\ UNCHANGED <<log, manifests, run, ended>>
    BY <1>0, <1>11 DEF SetArtifactId, Busy, Goto, WorkerTypes
  <2>2. rows[run[p]].status = "running" /\ manifests[run[p]] = "running"
    BY <1>0, <2>1 DEF ExecOK
  <2>3. /\ rows'[run[p]].status = "running" /\ rows'[run[p]].artifact
        /\ \A x \in Runs \ {run[p]} : rows'[x] = rows[x]
    BY <1>0, <1>c, <2>1, <2>2 DEF RegistryTypes, Row
  <2>4. ExecOK(p)'
    BY <2>1, <2>2, <2>3 DEF ExecOK
  <2>5. \A x \in Runs : RowOK(x)'
    BY <1>9, <1>c, <2>1, <2>2, <2>3
  <2>6. snap[p] # NoRequest => rows'[snap[p].run].artifact
    BY <1>b, <2>3
  <2> QED BY <1>a, <2>4, <2>5, <2>6
<1>12. CASE UNCHANGED registry
             /\ (ClaimRaises(p) \/ (ClaimOldest(p) /\ Goto(p, "look")))
  <2>1. UNCHANGED <<registry, manifests>> /\ pc'[p] \notin Busy
    BY <1>0, <1>12 DEF ClaimOldest, ClaimRaises, Dies, Goto, WorkerTypes, Busy
  <2>2. ExecOK(p)'
    BY <2>1 DEF ExecOK, Busy
  <2> QED BY <1>d, <2>1, <2>2
<1>13. ASSUME NEW r \in Claimable, Claimed(r), UNCHANGED manifests,
              pc'[p] \in Busy => pc'[p] = "prepare" /\ run'[p] = r
       PROVE  IInv'
  <2>1. r \in Runs /\ rows[r].status = "queued" /\ rows[r] \in Row /\ RowOK(r)
    BY <1>0 DEF Claimable, Oldest, RegistryTypes, IInv
  <2>2. ~rows[r].artifact /\ manifests[r] = None
    BY <2>1 DEF RowOK, Fresh
  <2> DEFINE row == [rows[r] EXCEPT !.status = "running", !.phase = "initializing"]
  <2>3. row.status = "running" /\ ~row.artifact /\ Recorded(r, row, "running")
    BY <1>13, <2>1, <2>2 DEF Claimed, Row
  <2> HIDE DEF row
  <2>4. /\ History(r)' /\ rows'[r] = row
        /\ \A x \in Runs \ {r} : rows'[x] = rows[x] /\ log'[x] = log[x]
    BY <1>0, <1>2, <2>1, <2>3, RecordedHistory DEF RowOK, Published, Status
  <2>5. \A x \in Runs : RowOK(x)'
    <3>1. RowOK(r)'
      BY <2>3, <2>4 DEF RowOK, Fresh, Follows, Finals, Published
    <3>2. \A x \in Runs \ {r} : RowOK(x)'
      BY <1>2, <1>13, <2>4, RowStays DEF IInv
    <3> QED BY <3>1, <3>2
  <2>6. snap[p] # NoRequest => rows'[snap[p].run].artifact
    BY <1>b, <2>2, <2>4
  <2>7. ExecOK(p)'
    BY <1>13, <2>1, <2>2, <2>3, <2>4 DEF ExecOK, Busy, Published, None
  <2> QED BY <1>a, <2>5, <2>6, <2>7
<1>14. CASE ClaimOldest(p)
  <2>1. CASE Goto(p, "look") /\ UNCHANGED registry
    BY <1>12, <1>14, <2>1
  <2>2. ASSUME NEW r \in Claimable, Claimed(r), run' = [run EXCEPT ![p] = r],
               Goto(p, "prepare")
        PROVE  IInv'
    <3>1. pc'[p] = "prepare" /\ run'[p] = r
      BY <1>0, <2>2 DEF Goto, WorkerTypes
    <3> QED BY <1>13, <1>14, <2>2, <3>1 DEF ClaimOldest
  <2> QED BY <1>14, <2>1, <2>2 DEF ClaimOldest
<1>15. CASE ClaimRaises(p)
  <2>1. pc'[p] \notin Busy
    BY <1>0, <1>15 DEF ClaimRaises, Dies, Goto, WorkerTypes, Busy
  <2> QED BY <1>12, <1>13, <1>15, <2>1 DEF ClaimRaises
<1>16. ASSUME NEW r \in Runs, r = run[p], NEW s \in Finals, Terminal(r, s), Done(p),
              pc[p] \in Busy,
              AllRead => IF rows[r].artifact /\ manifests[r] \in Published
                         THEN s = manifests[r] ELSE s \in {"interrupted", "failed"},
              AllRead /\ rows[r].status \in Published => s = rows[r].status
       PROVE  IInv'
  <2>1. UNCHANGED manifests /\ pc'[p] \notin Busy
    BY <1>0, <1>16 DEF Done, Goto, WorkerTypes, Busy
  <2>2. /\ \A x \in Runs : RowOK(x)'
        /\ rows'[r].status = s /\ rows'[r].artifact = rows[r].artifact
        /\ \A x \in Runs \ {r} : rows'[x] = rows[x]
    BY <1>2, <1>16, <2>1, TerminalRows
  <2>3. ExecOK(p)'
    BY <2>1 DEF ExecOK, Busy
  <2>4. snap[p] # NoRequest => rows'[snap[p].run].artifact
    BY <1>b, <2>2
  <2> QED BY <1>a, <2>2, <2>3, <2>4
<1>17. CASE WriteEnd(p)
  <2>1. /\ pc[p] = "write_end" /\ pc[p] \in Busy /\ Terminal(run[p], ended[p]) /\ Done(p)
        /\ run[p] \in Runs /\ ended[p] \in Finals
    BY <1>0, <1>17, BusyType DEF WriteEnd, Busy, Stands, WorkerTypes
  <2>2. /\ rows[run[p]].artifact
        /\ \/ rows[run[p]].status = "running"
           \/ manifests[run[p]] \in Published /\ rows[run[p]].status = manifests[run[p]]
        /\ AllRead => ended[p] = EndOf(run[p], TRUE)
    BY <1>0, <2>1 DEF ExecOK
  <2> QED BY <1>16, <2>1, <2>2 DEF EndOf, Published
<1>18. CASE FailEarly(p)
  <2>1. /\ pc[p] = "fail_early" /\ pc[p] \in Busy /\ Terminal(run[p], "failed") /\ Done(p)
        /\ run[p] \in Runs
    BY <1>0, <1>18, BusyType DEF FailEarly, Busy
  <2>2. rows[run[p]].status = "running" /\ ~rows[run[p]].artifact
    BY <1>0, <2>1 DEF ExecOK
  <2> QED BY <1>16, <2>1, <2>2 DEF Published, Finals
<1>19. ReadRow(p) => UNCHANGED ended \/ ~rows[run[p]].artifact
  BY DEF ReadRow
<1> QED BY <1>5, <1>6, <1>7, <1>8, <1>10, <1>11, <1>12, <1>14, <1>15, <1>17, <1>18, <1>19
     DEF ExecutionStep, WorkerStep

LEMMA NextIInv == JoinTimesOut = FALSE /\ IInv /\ [Next]_vars => IInv'
<1> SUFFICES ASSUME JoinTimesOut = FALSE, IInv, [Next]_vars PROVE IInv'
  OBVIOUS
<1>1. CASE Next
  BY <1>1, LifeStep, RequestStep, ReconcileStep, WorkerStepOK DEF Next, StartStep
<1>2. CASE UNCHANGED vars
  BY <1>2 DEF vars, IInv, TypeInv, RegistryTypes, ProcessTypes, WorkerTypes, BoundTypes,
     Stands, LockHeld, LocalOK, Quiet, SnapOK, StartOK, ExecOK, EndOf, RowOK, Fresh,
     Follows, History, AllRead
<1> QED BY <1>1, <1>2

LEMMA RowsSay == IInv => RowAgrees
BY DEF IInv, RowOK, Follows, History, RowAgrees, RowFollowsManifest, HistoryMatchesRow

LEMMA Invariance ==
  ASSUME JoinTimesOut = FALSE
  PROVE  Spec => []IInv
<1>1. IInv /\ [Next]_vars => IInv'
  BY NextIInv
<1> QED BY <1>1, InitIInv, PTL DEF Spec

(* Whoever wrote last of the worker, a start that cleans up and the        *)
(* requests that repair a row, a row agrees with the manifest on disk and  *)
(* with the events of its run, as long as no close gives up on a busy      *)
(* worker.                                                                 *)
THEOREM RowsAgree ==
  ASSUME JoinTimesOut = FALSE
  PROVE  Spec => []RowAgrees
BY Invariance, RowsSay, PTL
-----------------------------------------------------------------------------
(* What a step may do to a row.                                            *)

StatusMove(r) ==
  AllRead' =>
    LET old == rows[r].status
        new == rows'[r].status
    IN old # new =>
         CASE old = "absent"      -> new = "queued"
           [] old = "queued"      -> new \in {"running", "interrupted"}
           [] old = "running"     -> new \in Finals
           [] old = "interrupted" -> new = manifests[r]
           [] OTHER               -> FALSE
PhaseMove(r) == Index(rows'[r].phase) >= Index(rows[r].phase)
Moves == \A r \in Runs : StatusMove(r) /\ PhaseMove(r)

LEMMA PhaseOrder ==
  /\ Index("queued") = 1 /\ Index("terminal") = 11
  /\ \A ph \in RunPhase : Index(ph) \in 1..11
<1>1. Len(RunPhases) = 11
  BY DEF RunPhases
<1>2. \A ph \in {"queued", "terminal"} : Index(ph) \in 1..11 /\ RunPhases[Index(ph)] = ph
  BY <1>1, PhaseNames
<1>3. \A i \in 1..11 : /\ RunPhases[i] = "queued" => i = 1
                       /\ RunPhases[i] = "terminal" => i = 11
  BY DEF RunPhases
<1> QED BY <1>1, <1>2, <1>3, PhaseNames

LEMMA RowKept ==
  ASSUME RegistryTypes, NEW r \in Runs, rows'[r] = rows[r]
  PROVE  StatusMove(r) /\ PhaseMove(r)
<1>1. rows[r].phase \in RunPhase
  BY DEF RegistryTypes, Row
<1> QED BY <1>1, PhaseOrder DEF StatusMove, PhaseMove

LEMMA OneRowMoves ==
  ASSUME RegistryTypes, NEW r \in Runs, StatusMove(r), PhaseMove(r),
         \A x \in Runs \ {r} : rows'[x] = rows[x]
  PROVE  Moves
BY RowKept DEF Moves

LEMMA TerminalMoves ==
  ASSUME IInv, NEW r \in Runs, NEW s \in Finals, Terminal(r, s),
         AllRead' => \/ rows[r].status = s
                     \/ rows[r].status = "queued" /\ s = "interrupted"
                     \/ rows[r].status = "running"
                     \/ rows[r].status = "interrupted" /\ s = manifests[r]
  PROVE  Moves
<1>1. RegistryTypes /\ rows[r] \in Row
  BY DEF IInv, TypeInv, RegistryTypes
<1>2. /\ rows'[r].status = s /\ rows'[r].phase = "terminal"
      /\ \A x \in Runs \ {r} : rows'[x] = rows[x]
  BY <1>1 DEF Terminal, Recorded, RegistryTypes, Row
<1>3. StatusMove(r)
  BY <1>2 DEF StatusMove
<1>4. PhaseMove(r)
  <2>1. Index(rows[r].phase) \in 1..11
    BY <1>1, PhaseOrder DEF Row
  <2> QED BY <1>2, <2>1, PhaseOrder DEF PhaseMove
<1> QED BY <1>1, <1>2, <1>3, <1>4, OneRowMoves

LEMMA WritersMove ==
  ASSUME IInv, NEW p \in Processes,
         \/ WriteReconciled(p) \/ WriteEnd(p) \/ FailEarly(p) \/ ManifestAndReconcile(p)
  PROVE  Moves
<1>0. /\ ProcessTypes /\ WorkerTypes /\ RegistryTypes /\ Stands(p) /\ LocalOK(p)
      /\ read_faults' = read_faults
  BY DEF IInv, TypeInv, WriteReconciled, WriteEnd, FailEarly, Done,
     ManifestAndReconcile, bounds
<1>1. AllRead' => AllRead
  BY <1>0 DEF AllRead
<1>2. CASE WriteReconciled(p)
  <2>1. /\ run[p] \in Runs /\ ended[p] \in Finals /\ Terminal(run[p], ended[p])
        /\ rows[run[p]].status \in {"queued", "running"}
        /\ AllRead => ended[p] = EndOf(run[p], rows[run[p]].artifact)
    BY <1>0, <1>2 DEF WriteReconciled, WorkerTypes, Stands, Busy, LocalOK, StartOK
  <2>2. rows[run[p]].status = "queued" => ~rows[run[p]].artifact
    BY <2>1 DEF IInv, RowOK, Fresh
  <2> QED BY <1>1, <2>1, <2>2, TerminalMoves DEF EndOf
<1>3. CASE WriteEnd(p)
  <2>1. /\ run[p] \in Runs /\ ended[p] \in Finals /\ Terminal(run[p], ended[p])
        /\ pc[p] = "write_end"
    BY <1>0, <1>3, BusyType DEF WriteEnd, Busy, Stands, WorkerTypes, IInv
  <2>2. /\ \/ rows[run[p]].status = "running"
           \/ manifests[run[p]] \in Published /\ rows[run[p]].status = manifests[run[p]]
        /\ AllRead => ended[p] = EndOf(run[p], TRUE)
    BY <1>0, <2>1 DEF LocalOK, ExecOK
  <2> QED BY <1>1, <2>1, <2>2, TerminalMoves DEF EndOf
<1>4. CASE FailEarly(p)
  <2>1. run[p] \in Runs /\ Terminal(run[p], "failed") /\ pc[p] = "fail_early"
    BY <1>0, <1>4, BusyType DEF FailEarly, Busy, IInv
  <2>2. rows[run[p]].status = "running"
    BY <1>0, <2>1 DEF LocalOK, ExecOK
  <2> QED BY <2>1, <2>2, TerminalMoves DEF Finals, Published
<1>5. CASE ManifestAndReconcile(p) /\ ~UNCHANGED registry
  <2>1. PICK r \in Runs : /\ r = snap[p].run /\ manifests[r] \in Published
                          /\ Terminal(r, manifests[r]) /\ rows[r].artifact
    BY <1>0, <1>5 DEF ManifestAndReconcile, ProcessTypes, LocalOK, SnapOK
  <2>2. RowOK(r) /\ rows[r].status \in Status
    BY <1>0 DEF IInv, RegistryTypes, Row
  <2>3. rows[r].status \in {"running", "interrupted"} \cup Published
    BY <2>1, <2>2 DEF RowOK, Fresh, Status, Finals
  <2>4. AllRead /\ rows[r].status \in Published => rows[r].status = manifests[r]
    BY <2>1, <2>2 DEF RowOK, Follows, Finals
  <2> QED BY <1>1, <2>1, <2>3, <2>4, TerminalMoves DEF Finals
<1>6. CASE UNCHANGED registry
  BY <1>0, <1>6, RowKept DEF registry, Moves
<1> QED BY <1>2, <1>3, <1>4, <1>5, <1>6

LEMMA StarterMoves ==
  ASSUME IInv, NEW r \in Runs,
         \/ Claimed(r) /\ r \in Claimable
         \/ \E p \in Processes : Admit(p, r)
  PROVE  Moves
<1>1. RegistryTypes /\ rows[r] \in Row /\ RowOK(r)
  BY DEF IInv, TypeInv, RegistryTypes
<1>2. PICK row : /\ \E event \in Status : Recorded(r, row, event)
                 /\ \/ rows[r].status = "absent" /\ row.status = "queued"
                    \/ rows[r].status = "queued" /\ row.status = "running"
                 /\ row.phase \in {"queued", "initializing"}
  <2> DEFINE claimed == [rows[r] EXCEPT !.status = "running", !.phase = "initializing"]
             Queued(stamp) == [status |-> "queued", phase |-> "queued",
                               artifact |-> FALSE, created |-> stamp]
  <2>1. CASE Claimed(r) /\ r \in Claimable
    <3>1. rows[r].status = "queued" /\ Recorded(r, claimed, "running")
      BY <2>1 DEF Claimed, Claimable, Oldest
    <3>2. claimed.status = "running" /\ claimed.phase = "initializing"
      BY <1>1 DEF Row
    <3> HIDE DEF claimed
    <3> QED BY <3>1, <3>2 DEF Status
  <2>2. CASE \E p \in Processes : Admit(p, r)
    <3>1. rows[r].status = "absent" /\ \E stamp \in 1..Cardinality(Runs) :
                                         Recorded(r, Queued(stamp), "queued")
      BY <2>2 DEF Admit
    <3>2. \A stamp : Queued(stamp).status = "queued" /\ Queued(stamp).phase = "queued"
      OBVIOUS
    <3> HIDE DEF Queued
    <3> QED BY <3>1, <3>2 DEF Status
  <2> QED BY <2>1, <2>2
<1>3. rows'[r] = row /\ \A x \in Runs \ {r} : rows'[x] = rows[x]
  BY <1>1, <1>2 DEF Recorded, RegistryTypes
<1>4. rows[r].phase = "queued"
  BY <1>1, <1>2 DEF RowOK, Fresh
<1>5. StatusMove(r)
  BY <1>2, <1>3 DEF StatusMove
<1>6. PhaseMove(r)
  BY <1>2, <1>3, <1>4, PhaseOrder, PhaseNames DEF PhaseMove
<1> QED BY <1>1, <1>3, <1>5, <1>6, OneRowMoves

LEMMA WorkMoves ==
  ASSUME IInv, NEW p \in Processes, Progress(p) \/ SetArtifactId(p)
  PROVE  Moves
<1>0. pc[p] \in Busy /\ RegistryTypes
  BY DEF Progress, SetArtifactId, Busy, IInv, TypeInv
<1>1. run[p] \in Runs /\ rows[run[p]] \in Row
  BY <1>0, BusyType DEF IInv
<1>2. /\ rows'[run[p]].status = rows[run[p]].status
      /\ \A x \in Runs \ {run[p]} : rows'[x] = rows[x]
  BY <1>0, <1>1 DEF Progress, SetArtifactId, Advanced, RegistryTypes, Row
<1>3. PhaseMove(run[p])
  <2>1. CASE Progress(p)
    <3>1. PICK ph \in Reports : rows'[run[p]] = Advanced(rows[run[p]], ph)
      BY <1>0, <1>1, <2>1 DEF Progress, RegistryTypes
    <3>2. ph \in RunPhase /\ rows[run[p]].phase \in RunPhase
      BY <1>1, ScholarAssumption DEF Row
    <3>3. /\ Index(ph) \in 1..11 /\ Index(rows[run[p]].phase) \in 1..11
          /\ rows'[run[p]].phase = IF Index(ph) < Index(rows[run[p]].phase)
                                   THEN rows[run[p]].phase ELSE ph
      BY <1>1, <3>1, <3>2, PhaseOrder DEF Advanced, Row
    <3> QED BY <3>3 DEF PhaseMove
  <2>2. CASE SetArtifactId(p)
    <3>1. rows'[run[p]].phase = rows[run[p]].phase /\ rows[run[p]].phase \in RunPhase
      BY <1>0, <1>1, <2>2 DEF SetArtifactId, RegistryTypes, Row
    <3> QED BY <3>1, PhaseOrder DEF PhaseMove
  <2> QED BY <2>1, <2>2
<1> QED BY <1>0, <1>1, <1>2, <1>3, OneRowMoves DEF StatusMove

LEMMA StepMoves == IInv /\ [Next]_vars => Moves
<1> SUFFICES ASSUME IInv, [Next]_vars PROVE Moves
  OBVIOUS
<1>1. RegistryTypes
  BY DEF IInv, TypeInv
<1>a. ASSUME UNCHANGED rows PROVE Moves
  BY <1>1, <1>a, RowKept DEF Moves
<1>2. ASSUME NEW p \in Processes, NEW r \in Runs, Admit(p, r) \/ ReadsRow(p, r)
      PROVE  Moves
  BY <1>2, <1>a, StarterMoves DEF ReadsRow, registry
<1>3. ASSUME NEW p \in Processes,
             \/ AcquireLock(p) \/ ReadActive(p) \/ ReconcileStartup(p) \/ Serve(p)
             \/ StartFails(p) \/ Close(p) \/ ReleaseLock(p) \/ Exit(p) \/ Crash(p)
             \/ PrepareRaises(p) \/ CreateDirectory(p) \/ PipelineEnds(p) \/ Look(p)
             \/ ReadRow(p) \/ ReadManifest(p) \/ SetArtifactIdRaises(p) \/ WorkerRaises(p)
      PROVE  Moves
  BY <1>3, <1>a DEF AcquireLock, ReadActive, ReconcileStartup, Serve, StartFails, Close,
     ReleaseLock, Exit, Crash, Killed, PrepareRaises, CreateDirectory, PipelineEnds, Look,
     ReadRow, ReadManifest, SetArtifactIdRaises, WorkerRaises, registry
<1>4. ASSUME NEW p \in Processes, ClaimOldest(p) \/ ClaimRaises(p) PROVE Moves
  <2>1. UNCHANGED registry \/ \E r \in Claimable : Claimed(r)
    BY <1>4 DEF ClaimOldest, ClaimRaises
  <2>2. Claimable \subseteq Runs
    BY DEF Claimable, Oldest
  <2> QED BY <1>a, <2>1, <2>2, StarterMoves DEF registry
<1>5. CASE Next
  BY <1>2, <1>3, <1>4, <1>5, WritersMove, WorkMoves
     DEF Next, StartStep, ExecutionStep, WorkerStep
<1> QED BY <1>5, <1>a DEF vars

(* What a client is shown moves forward only: the status along the         *)
(* contract's transitions, the phase along the pipeline's order - as long  *)
(* as no close gives up on a busy worker.                                  *)
THEOREM ShownMovesForward ==
  ASSUME JoinTimesOut = FALSE
  PROVE  Spec => MovesForward
<1>1. IInv /\ [Next]_vars =>
        [AllRead' => \A r \in Runs :
           LET old == rows[r].status
               new == rows'[r].status
           IN old # new =>
                CASE old = "absent"      -> new = "queued"
                  [] old = "queued"      -> new \in {"running", "interrupted"}
                  [] old = "running"     -> new \in Finals
                  [] old = "interrupted" -> new = manifests[r]
                  [] OTHER               -> FALSE]_vars
  BY StepMoves DEF Moves, StatusMove
<1>2. IInv /\ [Next]_vars =>
        [\A r \in Runs : Index(rows'[r].phase) >= Index(rows[r].phase)]_vars
  BY StepMoves DEF Moves, PhaseMove
<1> QED BY <1>1, <1>2, Invariance, PTL
        DEF Spec, MovesForward, StatusMovesForward, PhaseMovesForward
=============================================================================
