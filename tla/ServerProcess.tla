---------------------------- MODULE ServerProcess ----------------------------
(***************************************************************************)
(* The life of the web processes around one registry: the lock file of     *)
(* web/execution.py and the start and close order of web/app.py.  The two  *)
(* run queues conjoin these steps with what each does to its own state.    *)
(***************************************************************************)

CONSTANTS Processes,      \* web processes, each started at most once
          JoinTimesOut    \* close() may give up on a worker that is busy

None == "none"

ASSUME ProcessAssumption == None \notin Processes /\ JoinTimesOut \in BOOLEAN

VARIABLES phase,  \* of each process
          lock    \* the process that holds server.lock

Phase == {"new", "locked", "starting", "up", "closing", "released", "gone"}

Becomes(p, next_phase) == phase' = [phase EXCEPT ![p] = next_phase]

AcquiresLock(p) ==
  phase[p] = "new" /\ lock = None /\ lock' = p /\ Becomes(p, "locked")

(* A start reads which runs were unfinished, then treats them one by one.  *)
ReadsUnfinished(p) ==
  phase[p] = "locked" /\ Becomes(p, "starting") /\ UNCHANGED lock

Opens(p) == phase[p] = "starting" /\ Becomes(p, "up") /\ UNCHANGED lock

(* A start that fails on a registry operation ends the process.            *)
FailsToStart(p) ==
  phase[p] \in {"locked", "starting"} /\ Becomes(p, "gone") /\ lock' = None

(* _stop is set, the worker is joined for five seconds, then the lock is   *)
(* given back; the process ends some time after.  The mutant of Closes     *)
(* gives it back first.                                                    *)
ClosesUnlocked(p) == phase[p] = "up" /\ Becomes(p, "closing") /\ lock' = None
Closes(p) == phase[p] = "up" /\ Becomes(p, "closing") /\ UNCHANGED lock

JoinReturns(worker_ended) == worker_ended \/ JoinTimesOut

ReleasesLock(p, worker_ended) ==
  /\ phase[p] = "closing" /\ JoinReturns(worker_ended)
  /\ lock' = None /\ Becomes(p, "released")

Exits(p) == phase[p] = "released" /\ Becomes(p, "gone") /\ UNCHANGED lock

(* A dead process holds no lock.                                           *)
Crashes(p) ==
  /\ phase[p] \notin {"new", "gone"}
  /\ Becomes(p, "gone")
  /\ lock' = IF lock = p THEN None ELSE lock
=============================================================================
