--------------------------- MODULE LiveGeneration ---------------------------
(***************************************************************************)
(* Paid generation of the citation baseline: run_live_generation, resumed  *)
(* over and over into one output directory, the provider's retries and its *)
(* schema repair (generation/dashscope.py), the campaign ledger shared by  *)
(* all launchers through a lock file, and the sealing of a finished output *)
(* (generation_authority.py). A launcher may be killed between any two     *)
(* steps: the files stay, and so does a lock file it held.                 *)
(*                                                                         *)
(* Not told apart: logs.jsonl and traces.jsonl, which nothing reads; the   *)
(* wording of reason codes; and the four ways an answer is refused before  *)
(* its draft is stored, for its model or its missing usage.                *)
(***************************************************************************)
EXTENDS CampaignLedger

CONSTANTS Launchers,
          ExecutionOf,   \* the execution each launcher runs or resumes, its own
          Selected,      \* selected_case_ids of each execution, in order
          Authorities,   \* versions of each execution's prepared files
          Replies,       \* how the provider may behave
          MaxLaunches    \* bound on the launches of each launcher

None == "none"
Torn == "torn"           \* prepared files that contradict one another
Free == "free"           \* no lock file
Stale == "stale"         \* a lock file whose launcher is dead

(* The provider: an error worth a second try or not, content outside the   *)
(* schema, an answer the case refuses, or a draft. It may charge up to the *)
(* ceiling of a request whose usage it does not report.                    *)
Errors == {"transient", "fatal"}
Answers == {"invalid", "refused", "sound", "unsound"}
ProviderReplies ==
  [kind : Errors \cup {"invalid", "refused"}, units : {Unknown}]
  \cup [kind : Answers, units : 1..Ceiling]

ASSUME GenerationAssumption ==
  /\ ExecutionOf \in Injection(Launchers, Executions)
  /\ Selected \in [Executions -> Seq(Cases)]
  /\ DOMAIN Authorities = Executions
  /\ Launchers \cap {Free, Stale} = {}
  /\ Replies \subseteq ProviderReplies
  /\ MaxLaunches \in [Launchers -> Nat]

VARIABLES
  ledger, lock,      \* campaign-ledger.jsonl and its lock file
  disk,              \* the output directory of each execution
  sealed,            \* the sealed package of each execution, or NoPackage
  pc, seq, reply,    \* launcher: step, its reservation, the answer to it
  mem,               \* launcher: what it has read and not yet written
  billed,            \* units the provider may charge for each request
  launches

vars == <<ledger, lock, disk, sealed, pc, seq, reply, mem, billed, launches>>
control == <<seq, reply, mem>>
campaign == <<ledger, lock>>
outside == <<sealed, launches>>

Sends == 1..MaxSends

(* A draft: would check_survey_draft pass it, and the sends it took.       *)
NoDraft == [kind |-> "absent", attempts |-> 0]
Draft == {NoDraft} \cup [kind : {"sound", "unsound"}, attempts : 1..4]

(* case-results, generation-drafts, pipeline-outputs (with evidence, which *)
(* is written and read next to it), failures, provider-sends and           *)
(* generation-manifest of one output directory, and how much of it         *)
(* _initialize_run has made.                                               *)
NoManifest ==
  [completed |-> FALSE, outputs |-> {}, sends |-> 0, campaign |-> 0, units |-> 0]
EmptyOutput ==
  [stage |-> "absent", authority |-> None,
   results |-> [c \in Cases |-> "absent"], drafts |-> [c \in Cases |-> NoDraft],
   outputs |-> {}, failures |-> FALSE, sends |-> {},
   manifest |-> NoManifest]

Idle == [index |-> 1, authority |-> None,
         results |-> [c \in Cases |-> "absent"],
         drafts |-> [c \in Cases |-> NoDraft],
         outputs |-> {}, failures |-> FALSE, rows |-> <<>>,
         before |-> 0, attempts |-> 0, retried |-> FALSE, repairing |-> FALSE,
         file |-> 1]

NoPackage == [sealed |-> FALSE, ledger |-> <<>>]
NoReply == [kind |-> None, units |-> Unknown]

Init ==
  /\ ledger = <<>> /\ lock = Free
  /\ disk = [e \in Executions |-> EmptyOutput]
  /\ sealed = [e \in Executions |-> NoPackage]
  /\ pc = [l \in Launchers |-> "down"]
  /\ seq = [l \in Launchers |-> 0]
  /\ reply = [l \in Launchers |-> NoReply]
  /\ mem = [l \in Launchers |-> Idle]
  /\ billed = [s \in Sends |-> 0]
  /\ launches = [l \in Launchers |-> 0]
-----------------------------------------------------------------------------
(* Launching and resuming.                                                 *)

Chosen(e) == {Selected[e][i] : i \in DOMAIN Selected[e]}
CaseOf(l) == Selected[ExecutionOf[l]][mem[l].index]

(* The offline gates of preflight_live_generation, on the version of the   *)
(* prepared files it reads: the operator may edit them between launches.   *)
Remaining(e) == {c \in Chosen(e) : disk[e].results[c] # "completed"}

AuthorityAdmitted(authority) == authority # Torn
SameVersion(e, authority) == disk[e].authority = authority

Preflight(e, authority) ==
  /\ AuthorityAdmitted(authority)
  /\ \/ disk[e].stage = "absent" /\ SendsOf(ledger, e) = {}
     \/ disk[e].stage = "ready" /\ SameVersion(e, authority)
  /\ BatchCapacity(ledger, Cardinality(Remaining(e)))

(* Everything a resume knows it reads from the files, once.                *)
Loaded(e, authority) ==
  [Idle EXCEPT !.authority = authority, !.results = disk[e].results, !.drafts = disk[e].drafts,
               !.outputs = disk[e].outputs, !.failures = disk[e].failures,
               !.rows = ledger]

Launch(l) ==
  /\ pc[l] = "down" /\ launches[l] < MaxLaunches[l]
  /\ LET e == ExecutionOf[l] IN \E authority \in Authorities[e] \cup {Torn} :
     /\ Preflight(e, authority)
     /\ mem' = [mem EXCEPT ![l] = Loaded(e, authority)]
     /\ pc' = [pc EXCEPT ![l] =
          IF disk[e].stage = "absent" THEN "initialize" ELSE "case"]
  /\ launches' = [launches EXCEPT ![l] = @ + 1]
  /\ UNCHANGED <<campaign, disk, sealed, seq, reply, billed>>

(* _initialize_run makes the directory, then run-state.json and the empty  *)
(* files. A launcher killed in between leaves a directory every later      *)
(* launch refuses.                                                         *)
Initialize(l) ==
  /\ LET e == ExecutionOf[l] IN
     \/ /\ pc[l] = "initialize"
        /\ disk' = [disk EXCEPT ![e].stage = "made"]
        /\ pc' = [pc EXCEPT ![l] = "files"]
        /\ UNCHANGED mem
     \/ /\ pc[l] = "files"
        /\ disk' = [disk EXCEPT ![e].stage = "ready",
                                ![e].authority = mem[l].authority]
        /\ mem' = [mem EXCEPT ![l].rows = ledger]
        /\ pc' = [pc EXCEPT ![l] = "case"]
  /\ UNCHANGED <<campaign, seq, reply, billed, outside>>

(* The next selected case: completed, drafted, or still to be bought. The  *)
(* mutant looks for drafts of this launch only.                            *)
DraftedInLaunch(l) == FALSE
Drafted(l) == mem[l].drafts[CaseOf(l)] # NoDraft

NextCase(l) ==
  /\ pc[l] = "case" /\ mem[l].index <= Len(Selected[ExecutionOf[l]])
  /\ LET c == CaseOf(l) IN
     \/ /\ mem[l].results[c] = "completed"
        /\ mem' = [mem EXCEPT ![l].index = @ + 1]
        /\ UNCHANGED pc
     \/ /\ mem[l].results[c] # "completed" /\ Drafted(l)
        /\ pc' = [pc EXCEPT ![l] = "check"]
        /\ UNCHANGED mem
     \/ /\ mem[l].results[c] # "completed" /\ ~Drafted(l)
        /\ mem' = [mem EXCEPT ![l] = [@ EXCEPT
             !.before = Cardinality(SendsOf(mem[l].rows, ExecutionOf[l])), !.attempts = 0,
             !.retried = FALSE, !.repairing = FALSE]]
        /\ pc' = [pc EXCEPT ![l] = "reserve"]
  /\ UNCHANGED <<campaign, disk, seq, reply, billed, outside>>

BetweenCases(m) ==
  [m EXCEPT !.before = 0, !.attempts = 0, !.retried = FALSE, !.repairing = FALSE]

(* The handler of every exception while a case runs.                       *)
Failed(m, c) ==
  [BetweenCases(m) EXCEPT !.results[c] = "failed", !.failures = TRUE]
-----------------------------------------------------------------------------
(* One send: reserve under the lock, ask the provider, complete under the  *)
(* lock. A lock file in the way is an error of the case, not a wait.       *)

Acquire(l) ==
  /\ pc[l] \in {"reserve", "complete"}
  /\ \/ /\ lock = Free
        /\ lock' = l
        /\ pc' = [pc EXCEPT ![l] =
             IF pc[l] = "reserve" THEN "reserving" ELSE "completing"]
        /\ mem' = [mem EXCEPT ![l].attempts =
             IF pc[l] = "reserve" THEN @ + 1 ELSE @]
     \/ /\ lock # Free
        /\ mem' = [mem EXCEPT ![l] = Failed(@, CaseOf(l))]
        /\ pc' = [pc EXCEPT ![l] = "save"]
        /\ UNCHANGED lock
  /\ UNCHANGED <<ledger, disk, seq, reply, billed, outside>>

Reserve(l) ==
  /\ pc[l] = "reserving"
  /\ LET e == ExecutionOf[l]
         c == CaseOf(l) IN
     \/ /\ MayReserve(ledger, e, c)
        /\ ledger' = Append(ledger, Reserved(e, c))
        /\ seq' = [seq EXCEPT ![l] = Len(ledger) + 1]
        /\ mem' = [mem EXCEPT ![l].rows = ledger']
        /\ pc' = [pc EXCEPT ![l] = "reserved"]
        /\ UNCHANGED lock
     \/ /\ ~MayReserve(ledger, e, c)       \* GenerationBudgetExceededError
        /\ mem' = [mem EXCEPT ![l] = Failed([@ EXCEPT !.rows = ledger], c)]
        /\ pc' = [pc EXCEPT ![l] = "save"]
        /\ lock' = Free
        /\ UNCHANGED <<ledger, seq>>
  /\ UNCHANGED <<disk, reply, billed, outside>>

(* The reservation lets go of the lock, and the request goes out.          *)
Transport(l) ==
  /\ pc[l] = "reserved"
  /\ lock' = Free
  /\ \E r \in Replies :
       /\ reply' = [reply EXCEPT ![l] = r]
       /\ billed' = [billed EXCEPT ![seq[l]] =
            @ + (IF r.units = Unknown THEN Ceiling ELSE r.units)]
  /\ pc' = [pc EXCEPT ![l] = "complete"]
  /\ UNCHANGED <<ledger, disk, seq, mem, outside>>

Complete(l) ==
  /\ pc[l] = "completing"
  /\ ledger[seq[l]].status = "reserved"
  /\ ledger' = [ledger EXCEPT ![seq[l]] =
       IF reply[l].kind \in Errors THEN Terminal(@, "failed", Unknown)
       ELSE Terminal(@, "succeeded", reply[l].units)]
  /\ mem' = [mem EXCEPT ![l].rows = ledger']
  /\ pc' = [pc EXCEPT ![l] = "completed"]
  /\ UNCHANGED <<lock, disk, seq, reply, billed, outside>>

(* generate_structured on the answer, once the lock is let go: one retry   *)
(* of a send, one repair of its content; then the ledger must show as many *)
(* sends as were made, and the draft is stored before anything else.       *)
Settle(l) ==
  /\ pc[l] = "completed"
  /\ lock' = Free
  /\ LET m == mem[l]
         e == ExecutionOf[l]
         k == reply[l].kind
         counted == Cardinality(SendsOf(m.rows, e)) - m.before
         drafted == k \in {"sound", "unsound"} /\ m.attempts = counted
         retry == k = "transient" /\ ~m.retried
         repair == k = "invalid" /\ ~m.repairing
         draft == [kind |-> k, attempts |-> m.attempts] IN
     \/ /\ retry
        /\ mem' = [mem EXCEPT ![l].retried = TRUE]
        /\ pc' = [pc EXCEPT ![l] = "reserve"]
        /\ UNCHANGED disk
     \/ /\ repair
        /\ mem' = [mem EXCEPT ![l] = [@ EXCEPT !.repairing = TRUE, !.retried = FALSE]]
        /\ pc' = [pc EXCEPT ![l] = "reserve"]
        /\ UNCHANGED disk
     \/ /\ drafted
        /\ mem' = [mem EXCEPT ![l] =
             [BetweenCases(@) EXCEPT !.drafts[CaseOf(l)] = draft]]
        /\ disk' = [disk EXCEPT ![e].drafts = mem'[l].drafts]
        /\ pc' = [pc EXCEPT ![l] = "check"]
     \/ /\ ~retry /\ ~repair /\ ~drafted
        /\ mem' = [mem EXCEPT ![l] = Failed(@, CaseOf(l))]
        /\ pc' = [pc EXCEPT ![l] = "save"]
        /\ UNCHANGED disk
  /\ seq' = [seq EXCEPT ![l] = 0]
  /\ reply' = [reply EXCEPT ![l] = NoReply]
  /\ UNCHANGED <<ledger, billed, outside>>
-----------------------------------------------------------------------------
(* Keeping what a case gave.                                               *)

Completed(m, c) ==
  [m EXCEPT !.results[c] = "completed", !.outputs = @ \cup {c}]

Check(l) ==
  /\ pc[l] = "check"
  /\ LET c == CaseOf(l) IN
     mem' = [mem EXCEPT ![l] =
       IF @.drafts[c].kind = "sound"
       THEN Completed(@, c)
       ELSE Failed(@, c)]
  /\ pc' = [pc EXCEPT ![l] = "save"]
  /\ UNCHANGED <<campaign, disk, seq, reply, billed, outside>>

(* The manifest speaks of the outputs in the file and of everything else   *)
(* as the launcher remembers it.                                           *)
Manifest(l) ==
  LET e == ExecutionOf[l]
      m == mem[l]
      all == \A c \in Chosen(e) : m.results[c] = "completed" IN
  [completed |-> all, outputs |-> IF all THEN disk[e].outputs ELSE {},
   sends |-> Cardinality(SendsOf(m.rows, e)),
   campaign |-> Len(m.rows), units |-> Total(m.rows)]

(* After each case its files are replaced whole, one after the other.      *)
Files == <<"results", "outputs", "failures", "sends", "manifest">>

Written(l) ==
  LET e == ExecutionOf[l]
      m == mem[l]
      d == disk[e] IN
  CASE Files[m.file] = "results" -> [d EXCEPT !.results = m.results]
    [] Files[m.file] = "outputs" -> [d EXCEPT !.outputs = m.outputs]
    [] Files[m.file] = "failures" -> [d EXCEPT !.failures = m.failures]
    [] Files[m.file] = "sends" -> [d EXCEPT !.sends = RowsOf(m.rows, e)]
    [] Files[m.file] = "manifest" -> [d EXCEPT !.manifest = Manifest(l)]

Save(l) ==
  /\ pc[l] = "save"
  /\ disk' = [disk EXCEPT ![ExecutionOf[l]] = Written(l)]
  /\ IF mem[l].file < Len(Files)
     THEN /\ mem' = [mem EXCEPT ![l].file = @ + 1]
          /\ UNCHANGED pc
     ELSE /\ mem' = [mem EXCEPT ![l].file = 1, ![l].index = @ + 1]
          /\ pc' = [pc EXCEPT ![l] = "case"]
  /\ UNCHANGED <<campaign, seq, reply, billed, outside>>

Finish(l) ==
  /\ pc[l] = "case" /\ mem[l].index > Len(Selected[ExecutionOf[l]])
  /\ disk' = [disk EXCEPT ![ExecutionOf[l]].manifest = Manifest(l)]
  /\ pc' = [pc EXCEPT ![l] = "down"]
  /\ mem' = [mem EXCEPT ![l] = Idle]
  /\ UNCHANGED <<campaign, seq, reply, billed, outside>>

Kill(l) ==
  /\ pc[l] # "down"
  /\ pc' = [pc EXCEPT ![l] = "down"]
  /\ mem' = [mem EXCEPT ![l] = Idle]
  /\ seq' = [seq EXCEPT ![l] = 0]
  /\ reply' = [reply EXCEPT ![l] = NoReply]
  /\ lock' = IF lock = l THEN Stale ELSE lock
  /\ UNCHANGED <<ledger, disk, billed, outside>>
-----------------------------------------------------------------------------
(* Sealing.                                                                *)

(* build_generation_authority's gates on the output and the ledger. The    *)
(* mutant believes the manifest about the outputs.                         *)
Attempts(drafts, cases) ==
  MapThenFoldSet(+, 0, LAMBDA c : drafts[c].attempts,
                 LAMBDA S : CHOOSE c \in S : TRUE, cases)

OutputsByManifest(e) == disk[e].outputs = disk[e].manifest.outputs
OutputsWhole(e) ==
  disk[e].outputs = Chosen(e) /\ disk[e].manifest.outputs = Chosen(e)

Sealable(e) ==
  LET d == disk[e]
      sends == SendsOf(ledger, e) IN
  /\ d.stage = "ready" /\ d.manifest.completed
  /\ \A c \in Chosen(e) : d.results[c] = "completed" /\ d.drafts[c] # NoDraft
  /\ OutputsWhole(e)
  /\ ~d.failures
  /\ d.sends = RowsOf(ledger, e) /\ Cardinality(sends) = d.manifest.sends
  /\ Len(ledger) = d.manifest.campaign /\ Total(ledger) = d.manifest.units
  /\ Attempts(d.drafts, Chosen(e)) = Cardinality(sends)
  /\ \A i \in sends : ledger[i].status = "succeeded" /\ ledger[i].units # Unknown

Seal(e) ==
  /\ ~sealed[e].sealed
  /\ Sealable(e)
  /\ sealed' = [sealed EXCEPT ![e] = [sealed |-> TRUE, ledger |-> ledger]]
  /\ UNCHANGED <<campaign, disk, pc, control, billed, launches>>

(* verify_generation_authority recomputes the package from its sources.    *)
Verifies(e) ==
  /\ sealed[e].sealed /\ Sealable(e)
  /\ sealed[e].ledger = ledger

Step(l) ==
  \/ Launch(l) \/ Initialize(l) \/ NextCase(l)
  \/ Acquire(l) \/ Reserve(l) \/ Transport(l) \/ Complete(l) \/ Settle(l)
  \/ Check(l) \/ Save(l) \/ Finish(l) \/ Kill(l)

Next == (\E l \in Launchers : Step(l)) \/ (\E e \in Executions : Seal(e))

Spec == Init /\ [][Next]_vars
-----------------------------------------------------------------------------
Pcs == {"down", "initialize", "files", "case", "reserve",
        "reserving", "reserved", "complete", "completing", "completed",
        "check", "save"}

(* Every variable has the type its declaration tells.                      *)
TypeOK ==
  /\ ledger \in Seq(Row) /\ lock \in Launchers \cup {Free, Stale}
  /\ disk \in [Executions ->
       [stage : {"absent", "made", "ready"},
        authority : (UNION Range(Authorities)) \cup {None},
        results : [Cases -> {"absent", "completed", "failed"}],
        drafts : [Cases -> Draft], outputs : SUBSET Cases,
        failures : BOOLEAN,
        sends : SUBSET [number : Sends, row : Row],
        manifest : [completed : BOOLEAN, outputs : SUBSET Cases,
                    sends : Nat, campaign : Nat, units : Nat]]]
  /\ pc \in [Launchers -> Pcs]
  /\ seq \in [Launchers -> 0..MaxSends]
  /\ reply \in [Launchers -> Replies \cup {NoReply}]
  /\ billed \in [Sends -> Nat]
  /\ \A l \in Launchers : launches[l] \in 0..MaxLaunches[l]

(* The ledger never undercounts: whatever launchers did, and wherever they *)
(* were killed, each request the provider may charge for has its own row,  *)
(* and the row accounts for at least as much; the rows stay within the     *)
(* campaign's caps. ("Unknown or interrupted usage remains charged at its  *)
(* authorized ceiling.")                                                   *)
LedgerCoversBill ==
  /\ \A s \in Sends : billed[s] > 0 =>
       s \in DOMAIN ledger /\ billed[s] <= Accounted(ledger[s])
  /\ Len(ledger) <= MaxSends /\ Total(ledger) <= MaxUnits

(* A case whose draft is stored is never bought again: resumes check the   *)
(* draft instead of sending.                                               *)
DraftNotBoughtAgain ==
  [][\A e \in Executions, c \in Cases :
       disk[e].drafts[c] # NoDraft =>
         /\ disk'[e].drafts[c] = disk[e].drafts[c]
         /\ CaseSends(ledger', e, c) = CaseSends(ledger, e, c)]_vars

(* No resume takes back a completed case, and one output directory never   *)
(* mixes the work of two versions of the prepared files.                   *)
CompletedIsKept ==
  [][\A e \in Executions :
       /\ \A c \in Cases : disk[e].results[c] = "completed" =>
            disk'[e].results[c] = "completed"
       /\ \A l \in Launchers :
            ExecutionOf[l] = e /\ disk'[e].drafts # disk[e].drafts =>
              mem[l].authority = disk[e].authority]_vars

(* What a launch has paid for and finished, no later launch undoes: a      *)
(* stored draft is not bought again, a completed case stays completed.     *)
PaidWorkIsKept == DraftNotBoughtAgain /\ CompletedIsKept

(* Once sealed, an output stays what its seal says, however often it is    *)
(* launched again: whole, each case drafted and each send answered; and    *)
(* verify_generation_authority finds it so until the campaign goes on.     *)
SealedIsWhole ==
  \A e \in Executions : sealed[e].sealed =>
    /\ disk[e].outputs = Chosen(e)
    /\ \A c \in Chosen(e) : disk[e].results[c] = "completed"
                            /\ disk[e].drafts[c].kind = "sound"
    /\ \A i \in SendsOf(ledger, e) : ledger[i].status = "succeeded"
    /\ Verifies(e) \/ sealed[e].ledger # ledger

(* A completed manifest is of a whole output: "persisting every completed  *)
(* case immediately" (run_live_generation).                                *)
CompletedManifestIsWhole ==
  \A e \in Executions : disk[e].manifest.completed =>
    Chosen(e) \subseteq disk[e].outputs
=============================================================================
