---------------------------- MODULE PocExecution ----------------------------
(***************************************************************************)
(* The PoC stage of a verified run, container by container: the loop of    *)
(* VerifiedStageServices._execute_poc and _recover_poc                     *)
(* (web/techscout_execution.py), RealPocService.execute and rerun_stage,   *)
(* the compiler and the Docker runner (techscout/sandbox), and the Docker  *)
(* client and daemon that they wait for.  Every run of a command is one    *)
(* container with an id file of its own.  The process that waits may be    *)
(* killed; the next one enters the stage again with what was saved.        *)
(*                                                                         *)
(* Taken from the environment: `docker run` creates a container, writes    *)
(* its id file, then starts it, and the daemon removes it when it exits    *)
(* (--rm); a killed client leaves the container as it is.  Time passes     *)
(* while a container runs or is being removed and between the visits of    *)
(* the stage, never in the steps between.                                  *)
(***************************************************************************)
EXTENDS Integers, Sequences, FiniteSets

CONSTANTS
  Asked,            \* the candidates of the request, in order
  Runnable,         \* those whose plan compiles to a reviewed recipe
  Networked,        \* an install network is configured
  Limit,            \* SandboxLimits.timeout_seconds (40 s)
  RemoveLimit,      \* timeout of `docker rm --force` (5 s)
  FullBudget,       \* what _execute_poc asks of the deadline (90 s)
  StageBudget,      \* what _recover_poc asks of it (45 s)
  Deadline,         \* the run's deadline_at
  MaxVisits,        \* the first visit and the recoveries the policy permits
  Exits,            \* how the programs may end, of Ends below
  MaxCalls, MaxKills, MaxFaults   \* bounds on the environment

None == "none"
Candidates == {Asked[i] : i \in DOMAIN Asked}
Calls == 1..MaxCalls
Stages == {"install", "test"}

(* How a container's program may end, and the failure code of each end:    *)
(* daemon stands for output that names an unreachable daemon, garbled for  *)
(* output that does not decode, a ValueError whatever the exit code was.   *)
Ends == {"zero", "conflict", "nonzero", "daemon", "garbled"}

ASSUME PocAssumption ==
  /\ Asked \in Seq(Candidates) /\ None \notin Candidates
  /\ Runnable \subseteq Candidates /\ Exits \subseteq Ends
  /\ Networked \in BOOLEAN
  /\ {Limit, RemoveLimit, FullBudget, StageBudget} \subseteq Nat \ {0}
  /\ FullBudget >= 2 * (Limit + RemoveLimit)
  /\ StageBudget >= Limit + RemoveLimit
  /\ {Deadline, MaxVisits, MaxCalls, MaxKills, MaxFaults} \subseteq Nat

ExitCode(e) ==
  CASE e = "zero"     -> None
    [] e = "conflict" -> "dependency_conflict"
    [] e = "nonzero"  -> "poc_nonzero_exit"
    [] e = "daemon"   -> "tool_unavailable"
    [] e = "garbled"  -> "unsafe_request"
Codes == {ExitCode(e) : e \in Ends} \cup
         {"poc_timeout", "poc_artifact_invalid", "poc_recipe_unsupported"}

(* A container as the daemon has it, the client that runs it and the file  *)
(* that holds its id.                                                      *)
Container ==
  [candidate : Candidates \cup {None}, stage : Stages \cup {None},
   client : {None, "on", "ended", "killed"},
   state : {None, "created", "running", "gone"},
   id : BOOLEAN, exit : Ends \cup {None}]
NoContainer ==
  [candidate |-> None, stage |-> None, client |-> None, state |-> None,
   id |-> FALSE, exit |-> None]

(* A PocResult; kept is the last stage its artifact records; install and   *)
(* test are the containers whose outcomes it rests on (history).           *)
Result ==
  [status : {"passed", "failed", "timed_out", "research_only"}, code : Codes,
   kept : Stages \cup {"no_stage", None}, install : 0..MaxCalls,
   test : 0..MaxCalls]

(* _failed_poc_stage: what a recovery repeats.  unread: the artifact that  *)
(* should have told the stage could not be read (history).                 *)
Retry == [at : 1..Len(Asked), stage : Stages, unread : BOOLEAN]
NoRetry == [at |-> 0, stage |-> None, unread |-> FALSE]
Memory == [results : Seq(Result), retry : Retry \cup {NoRetry}]

VARIABLES
  pc,          \* where the stage is
  mode,        \* whether it executes or recovers
  at,          \* the candidate in hand
  gathered,    \* the results of this visit so far
  call,        \* the container waited for, 0 if none
  since,       \* when the wait began
  installed,   \* the container that ran this PoC's install, 0 if none
  memory,      \* poc_results and _failed_poc_stage
  saved,       \* the same in stage-workspace.json
  visits,      \* visits of the stage that the graph committed
  containers, calls,
  abandoned,   \* containers that a kill or a failed removal left (history)
  now, kills, faults

stageVars == <<pc, mode, at, gathered, call, since, installed>>
kept == <<memory, saved, visits>>
docker == <<containers, calls, abandoned>>
bounds == <<now, kills, faults>>
vars == <<stageVars, kept, docker, bounds>>

Init ==
  /\ pc = "idle" /\ mode = "execute" /\ at = 1 /\ gathered = <<>>
  /\ call = 0 /\ since = 0 /\ installed = 0
  /\ memory = [results |-> <<>>, retry |-> NoRetry] /\ saved = memory
  /\ visits = 0
  /\ containers = [k \in Calls |-> NoContainer] /\ calls = 0
  /\ abandoned = {}
  /\ now = 0 /\ kills = 0 /\ faults = 0

Fault == faults < MaxFaults /\ faults' = faults + 1 /\ UNCHANGED <<now, kills>>
-----------------------------------------------------------------------------
(* The stage.                                                              *)

Broke(r) == r.status \in {"failed", "timed_out"}

(* The graph enters the stage first, and again to recover a broken PoC.    *)
Enter ==
  /\ pc = "idle" /\ visits < MaxVisits
  /\ visits = 0 \/ \E i \in DOMAIN memory.results : Broke(memory.results[i])
  /\ pc' = IF now < Deadline THEN "next" ELSE "over"
  /\ mode' = IF memory.retry = NoRetry THEN "execute" ELSE "recover"
  /\ UNCHANGED <<at, gathered, call, since, installed, kept, docker, bounds>>

HasTimeForOne(budget) == Deadline - now >= StageBudget
HasTime(budget) == Deadline - now >= budget

(* An exception leaves the stage, and the run's harness with it.           *)
Raise ==
  /\ pc' = "over" /\ call' = 0 /\ since' = 0
  /\ UNCHANGED <<mode, at, gathered, installed, kept, docker, bounds>>

(* _require_remaining_seconds raises: the run's deadline is too near.      *)
TooLate(budget) == ~HasTime(budget) /\ Raise

(* The next result; the first failure that a rerun may cure is marked for  *)
(* one, and its stage read from the artifact.                              *)
Diagnosable(r) ==
  Broke(r) /\ r.code \notin {"tool_unavailable", "poc_recipe_unsupported"}
FailedStage(r) ==
  IF r.kept \in Stages THEN r.kept
  ELSE IF r.kept = None THEN "install" ELSE "test"
Marked(r, unread) ==
  IF mode = "execute" /\ Diagnosable(r) /\ memory.retry = NoRetry
  THEN [at |-> at, unread |-> unread,
        stage |-> IF unread THEN "test" ELSE FailedStage(r)]
  ELSE memory.retry

NextResultInHand(r, unread) ==
  /\ gathered' = Append(gathered, r)
  /\ memory' = [memory EXCEPT !.retry = Marked(r, unread)]
  /\ pc' = "next" /\ at' = at + 1 /\ since' = 0 /\ installed' = 0
  /\ UNCHANGED <<mode, call, saved, visits, docker>>
NextResult(r, unread) ==
  /\ gathered' = Append(gathered, r)
  /\ memory' = [memory EXCEPT !.retry = Marked(r, unread)]
  /\ pc' = "next" /\ at' = at + 1 /\ call' = 0 /\ since' = 0
  /\ installed' = 0
  /\ UNCHANGED <<mode, saved, visits, docker>>

(* _finalize: what was found is written to an artifact first, and a PoC    *)
(* without one has failed, whatever it was.  The file may be unreadable    *)
(* when the stage is looked for in it.                                     *)
Finalize(r) ==
  \/ NextResult(r, FALSE) /\ UNCHANGED bounds
  \/ /\ Fault
     /\ \/ NextResult([r EXCEPT !.status = "failed", !.kept = None,
                             !.code = "poc_artifact_invalid"], FALSE)
        \/ r.kept # None /\ NextResult(r, TRUE)

Found(status, code, stage, test) ==
  [status |-> status, code |-> code, kept |-> stage, install |-> installed,
   test |-> test]

(* rerun_stage and its merge into the result of the first attempt: only a  *)
(* rerun of the test decides the PoC.                                      *)
MergedAsRerun(r, status, code) ==
  [r EXCEPT !.status = status,
            !.code = IF status = "failed" /\ code = None
                     THEN "poc_nonzero_exit" ELSE code]
Merged(r, status, code) ==
  [r EXCEPT !.status = IF memory.retry.stage = "test" THEN status ELSE "failed",
            !.code = IF memory.retry.stage # "test" /\ code = None
                     THEN "poc_nonzero_exit" ELSE code]
Reran(status, code, k) ==
  LET before == memory.results[at]
      merged == Merged(before, status, code)
  IN CASE k = 0 -> merged
       [] k # 0 /\ memory.retry.stage = "test" -> [merged EXCEPT !.test = k]
       [] OTHER -> [merged EXCEPT !.install = k]

Settled(status, code, stage, k) ==
  IF mode = "execute"
  THEN Finalize(Found(status, code, stage, IF stage = "test" THEN k ELSE 0))
  ELSE \/ NextResult(Reran(status, code, k), FALSE) /\ UNCHANGED bounds
       \/ Fault /\ NextResult(Reran("failed", "poc_artifact_invalid", k), FALSE)

(* The runner starts the client, which may not be there; a PoC that does   *)
(* not compile is research only, and an install needs its network.         *)
Launch(stage) ==
  /\ calls < MaxCalls
  /\ calls' = calls + 1 /\ call' = calls + 1
  /\ containers' = [containers EXCEPT ![calls + 1] =
       [NoContainer EXCEPT !.candidate = Asked[at], !.stage = stage,
                           !.client = "on"]]
  /\ pc' = "run" /\ since' = now
  /\ UNCHANGED <<mode, at, gathered, kept, abandoned, bounds>>
Unavailable(stage) == Settled("failed", "tool_unavailable", stage, 0)

Compiled(stage) ==
  IF Asked[at] \notin Runnable
  THEN Settled("research_only", "poc_recipe_unsupported", "no_stage", 0)
  ELSE \/ Unavailable(stage)
       \/ /\ stage = "install" => Networked
          /\ Launch(stage) /\ UNCHANGED installed

Execute ==
  /\ pc = "next" /\ mode = "execute" /\ at <= Len(Asked)
  /\ TooLate(FullBudget) \/ (HasTime(FullBudget) /\ Compiled("install"))

Recover ==
  /\ pc = "next" /\ mode = "recover" /\ at <= Len(memory.results)
  /\ IF at # memory.retry.at
     THEN NextResult(memory.results[at], FALSE) /\ UNCHANGED bounds
     ELSE \/ TooLate(StageBudget)
          \/ HasTime(StageBudget) /\ Compiled(memory.retry.stage)

(* The stage is left: its results are kept unless the deadline passed,     *)
(* saved to the workspace, and committed by the graph.                     *)
Outside ==
  /\ pc' = "idle" /\ mode' = "execute" /\ at' = 1 /\ gathered' = <<>>
  /\ call' = 0 /\ since' = 0 /\ installed' = 0

Leave ==
  /\ pc = "next"
  /\ at > IF mode = "execute" THEN Len(Asked) ELSE Len(memory.results)
  /\ memory' = [memory EXCEPT !.results = gathered]
  /\ IF now < Deadline THEN pc' = "commit" /\ saved' = memory'
     ELSE pc' = "over" /\ UNCHANGED saved
  /\ UNCHANGED <<mode, at, gathered, call, since, installed, visits, docker,
                 bounds>>

Commit ==
  /\ pc = "commit"
  /\ visits' = visits + 1 /\ Outside
  /\ UNCHANGED <<memory, saved, docker, bounds>>
-----------------------------------------------------------------------------
(* DockerCliRunner.run.                                                    *)

(* The client ended by itself; the id file is unlinked.                    *)
Return ==
  /\ pc = "run" /\ containers[call].client = "ended"
  /\ containers' = [containers EXCEPT ![call].id = FALSE]
  /\ pc' = "back" /\ since' = 0
  /\ UNCHANGED <<mode, at, gathered, call, installed, kept, calls,
                 abandoned, bounds>>

(* The client is killed when the time is up, and then the container is     *)
(* removed, if its id is known.                                            *)
TimeOutUnlinking ==
  /\ pc = "run" /\ containers[call].client = "on" /\ now - since >= Limit
  /\ containers' = [containers EXCEPT ![call].client = "killed",
                                      ![call].id = FALSE]
  /\ pc' = "remove" /\ since' = now
  /\ UNCHANGED <<mode, at, gathered, call, installed, kept, calls, abandoned,
                 bounds>>
TimeOut ==
  /\ pc = "run" /\ containers[call].client = "on" /\ now - since >= Limit
  /\ containers' = [containers EXCEPT ![call].client = "killed"]
  /\ pc' = "remove" /\ since' = now
  /\ UNCHANGED <<mode, at, gathered, call, installed, kept, calls, abandoned,
                 bounds>>

(* _force_remove_container, whose failure nobody learns of.                *)
Remove ==
  /\ pc = "remove"
  /\ \/ /\ containers' =
             [containers EXCEPT ![call].id = FALSE,
                ![call].state = IF containers[call].id THEN "gone" ELSE @]
        /\ UNCHANGED <<abandoned, bounds>>
     \/ /\ containers[call].id /\ Fault
        /\ containers' = [containers EXCEPT ![call].id = FALSE]
        /\ abandoned' = abandoned \cup {call}
  /\ pc' = "back" /\ since' = 0
  /\ UNCHANGED <<mode, at, gathered, call, installed, kept, calls>>

(* What came of a killed client's output may name an unreachable daemon.   *)
(* PocResult refuses that code for a timeout; a rerun has failed with it.  *)
Mistaken(stage) ==
  IF mode = "execute" THEN Raise
  ELSE Settled("failed", "tool_unavailable", stage, call)

(* What the service makes of the runner's result: a passed install is      *)
(* followed by the test, every other end is the PoC's or the rerun's.      *)
Conclude ==
  LET c == containers[call]
  IN /\ pc = "back"
     /\ CASE c.client = "killed" ->
               \/ Settled("timed_out", "poc_timeout", c.stage, call)
               \/ Mistaken(c.stage)
          [] c.client # "killed" /\ c.exit # "zero" ->
               Settled("failed", ExitCode(c.exit), c.stage, call)
          [] c.client # "killed" /\ c.exit = "zero" /\ mode = "execute"
               /\ c.stage = "install" ->
               (Launch("test") /\ installed' = call) \/ Unavailable("test")
          [] OTHER -> Settled("passed", None, c.stage, call)
-----------------------------------------------------------------------------
(* The Docker client and daemon, the clock, and the end of the process.    *)

Client(k) == containers[k].client = "on"

Create(k) ==
  /\ Client(k) /\ containers[k].state = None
  /\ containers' = [containers EXCEPT ![k].state = "created"]
WriteId(k) ==
  /\ Client(k) /\ containers[k].state = "created" /\ ~containers[k].id
  /\ containers' = [containers EXCEPT ![k].id = TRUE]
Start(k) ==
  /\ Client(k) /\ containers[k].state = "created" /\ containers[k].id
  /\ containers' = [containers EXCEPT ![k].state = "running"]
Exit(k, e) ==
  /\ containers[k].state = "running"
  /\ containers' = [containers EXCEPT
       ![k].state = "gone", ![k].exit = e,
       ![k].client = IF @ = "on" THEN "ended" ELSE @]
Refuse(k) ==
  /\ Client(k) /\ containers[k].state = None
  /\ containers' = [containers EXCEPT ![k].client = "ended",
                                      ![k].exit = "daemon"]

Docker ==
  /\ \E k \in Calls :
       \/ Create(k) \/ WriteId(k) \/ Start(k) \/ Refuse(k)
       \/ \E e \in Exits : Exit(k, e)
  /\ UNCHANGED <<stageVars, kept, calls, abandoned, bounds>>

Tick ==
  /\ now <= Deadline
  /\ \/ pc = "idle"
     \/ pc = "run" /\ Client(call) /\ now - since < Limit
     \/ pc = "remove" /\ now - since < RemoveLimit
  /\ now' = now + 1
  /\ UNCHANGED <<stageVars, kept, docker, kills, faults>>

(* The container outlives the process that waits for it, and so may its    *)
(* client.                                                                 *)
Kill ==
  /\ pc # "over" /\ kills < MaxKills
  /\ kills' = kills + 1
  /\ memory' = saved /\ Outside
  /\ IF call = 0 THEN UNCHANGED <<containers, abandoned>>
     ELSE /\ abandoned' = abandoned \cup {call}
          /\ \/ UNCHANGED containers
             \/ Client(call) /\ containers' = [containers EXCEPT
                                               ![call].client = "killed"]
  /\ UNCHANGED <<saved, visits, calls, now, faults>>

Next ==
  \/ Enter \/ Execute \/ Recover \/ Leave \/ Commit
  \/ Return \/ TimeOut \/ Remove \/ Conclude
  \/ Docker \/ Tick \/ Kill

Spec == Init /\ [][Next]_vars
-----------------------------------------------------------------------------
(* The stage, its memory and the containers are well typed, and exactly a  *)
(* stage that waits or just waited has a container in hand.                *)
TypeOK ==
  /\ pc \in {"idle", "next", "run", "remove", "back", "commit", "over"}
  /\ mode \in {"execute", "recover"}
  /\ at \in 1..(Len(Asked) + 1) /\ gathered \in Seq(Result)
  /\ call \in 0..calls /\ installed \in 0..calls /\ since \in 0..now
  /\ (call # 0) = (pc \in {"run", "remove", "back"})
  /\ memory \in Memory /\ saved \in Memory
  /\ visits \in 0..MaxVisits
  /\ containers \in [Calls -> Container]
  /\ calls \in 0..MaxCalls /\ abandoned \in SUBSET (1..calls)
  /\ now \in 0..(Deadline + 1) /\ kills \in 0..MaxKills
  /\ faults \in 0..MaxFaults

(* A candidate passes only if a container of its own installed it and one  *)
(* started later tested it, both to exit zero, however the attempts were   *)
(* merged, lost and repeated; unless the artifact that names the failed    *)
(* stage could not be read.                                                *)
Earned(i, r) ==
  r.status = "passed" =>
    /\ r.test # 0 /\ containers[r.test].candidate = Asked[i]
    /\ containers[r.test].stage = "test" /\ containers[r.test].exit = "zero"
    /\ memory.retry.unread \/
         /\ r.install \in 1..(r.test - 1)
         /\ containers[r.install].candidate = Asked[i]
         /\ containers[r.install].stage = "install"
         /\ containers[r.install].exit = "zero"
PassedIsEarned ==
  \A i \in DOMAIN memory.results : Earned(i, memory.results[i])

(* No container runs unattended: what runs is waited for or being removed, *)
(* or its removal failed, or the process that waited for it was killed.    *)
RunningIsAttended ==
  \A k \in Calls :
    containers[k].state = "running" =>
      (k = call /\ pc \in {"run", "remove"}) \/ k \in abandoned

(* The stage waits for a container only while the run's deadline has not   *)
(* passed: the budgets asked for cover every wait that follows.            *)
WaitsWithinDeadline == pc \in {"run", "remove"} => now <= Deadline

(* What the code is expected to do but does not in every case.             *)

(* "forced container cleanup on timeout": the container of a result that   *)
(* timed out is not running any more.                                      *)
TimedOutIsCleanedUp ==
  pc = "back" /\ containers[call].client = "killed" =>
    containers[call].state # "running"
=============================================================================
