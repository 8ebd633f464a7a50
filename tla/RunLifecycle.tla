---------------------------- MODULE RunLifecycle ----------------------------
(***************************************************************************)
(* What the TechScout queue promises its users: a bounded number of        *)
(* unfinished runs, one of them executing, each run accepted once and      *)
(* finished once.  Only a run whose executing server was stopped without   *)
(* waiting for it may be finished out of turn, or again.  TechScoutQueue   *)
(* implements it.                                                          *)
(***************************************************************************)
EXTENDS Integers, FiniteSets

CONSTANTS Runs,      \* the runs that may be submitted
          Capacity,  \* queue_capacity
          Finals     \* the terminal statuses

VARIABLES status,    \* of each run, as the API shows it
          strayed    \* runs that a stopped server may still execute

Unfinished == {r \in Runs : status[r] \in {"queued", "running"}}

Become(r, s) == status' = [status EXCEPT ![r] = s]

Accept(r) ==
  /\ status[r] = "absent"
  /\ Cardinality(Unfinished) < Capacity
  /\ Become(r, "queued") /\ UNCHANGED strayed

(* The worker that starts a run may itself be given up already.            *)
Start(r) ==
  /\ status[r] = "queued"
  /\ \A q \in Runs : status[q] # "running"
  /\ Become(r, "running") /\ strayed' \in {strayed, strayed \cup {r}}

(* A restart gives an executing run back to the queue.                     *)
GiveBack(r) ==
  status[r] = "running" /\ Become(r, "queued") /\ UNCHANGED strayed

(* Its server stops without waiting for the end of an executing run.       *)
Stray(r) ==
  status[r] = "running" /\ strayed' = strayed \cup {r} /\ UNCHANGED status

Finish(r, s) ==
  /\ status[r] = "running" \/ (r \in strayed /\ status[r] # "absent")
  /\ Become(r, s) /\ UNCHANGED strayed

Init == status = [r \in Runs |-> "absent"] /\ strayed = {}

Next ==
  \E r \in Runs :
    \/ Accept(r) \/ Start(r) \/ GiveBack(r) \/ Stray(r)
    \/ \E s \in Finals : Finish(r, s)

Spec == Init /\ [][Next]_<<status, strayed>>
=============================================================================
