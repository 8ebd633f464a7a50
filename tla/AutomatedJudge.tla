--------------------------- MODULE AutomatedJudge ---------------------------
(***************************************************************************)
(* The paid judge of the citation baseline (eval/citation_baseline/        *)
(* automated_judge.py): run_automated_judge, launched again and again into *)
(* one output directory and killed between any two writes, the offline     *)
(* validation of what it leaves, and the scoring of a prepared copy into a *)
(* sealed package (eval/evidence_package.py).                              *)
(*                                                                         *)
(* Only pass 1 of an assertion is ever bought ("single-pass MVP"). Prompt  *)
(* tokens, completion tokens and cost are one total, in units. Hashes are  *)
(* the contents they stand for, so the statistics and the prose projected  *)
(* from a package are left out: they are functions of it.                  *)
(***************************************************************************)
EXTENDS Integers, Sequences, FiniteSets, SequencesExt

CONSTANTS Inputs,        \* sequence of the assertions to be judged
          Matched,       \* those with a deterministic Gold match
          Verdicts,      \* what the judge may answer
          Versions,      \* versions of authority and inputs an operator has
          MaxAttempts,   \* max_retries_per_pass + 1
          MaxSends, MaxUnits, Ceiling,
          MaxLaunches    \* bound on launches

Assertions == Range(Inputs)
None == "none"
Supported == "supported"

ASSUME JudgeAssumption ==
  /\ Inputs \in Seq(Assertions) /\ IsInjective(Inputs) /\ Matched \subseteq Assertions
  /\ Supported \in Verdicts /\ None \notin Versions
  /\ MaxAttempts \in Nat \ {0} /\ MaxSends \in Nat /\ Ceiling \in Nat \ {0}
  /\ MaxUnits \in Nat /\ MaxLaunches \in Nat

VARIABLES
  disk,       \* the files of the output directory
  mem,        \* the lists of the running launcher, written by persist
  pc, index,  \* the launcher: step, position in Inputs
  then,       \* where it goes on after persist
  reply,      \* the judge's answer to the last send
  version,    \* the version the running launcher was given
  given,      \* for each send, the judge's answers, and to which version
  prepared,   \* the operator's copy of the files
  package,    \* the package scored from it
  launches

vars == <<disk, mem, pc, index, then, reply, version, given, prepared, package,
          launches>>
offline == <<prepared, package>>
running == <<disk, mem, pc, index, then, reply, version, given, launches>>

Units == 0..Ceiling
Send == [assertion : Assertions, attempt : 1..MaxAttempts,
         status : {"reserved", "succeeded", "failed"}, units : Units]
Pass == [assertion : Assertions, verdict : Verdicts, units : Units,
         sends : SUBSET (1..MaxSends)]
NoPass == [assertion |-> None]
Decision == [assertion : Assertions, verdict : Verdicts, pass : Pass \cup {NoPass}]

Lists == {"sends", "passes", "decisions", "failures"}
Empty == [sends |-> <<>>, passes |-> <<>>, decisions |-> <<>>, failures |-> FALSE]

(* state is the version in automated-judge-state.json; authority tells     *)
(* that the authority and the inputs were written too.                     *)
NoFiles == [state |-> None, authority |-> FALSE, lists |-> Empty]
NoReply == [kind |-> None, verdict |-> None, units |-> 0]
NoPackage == [stage |-> "absent", files |-> NoFiles, manifest |-> NoFiles]

Init ==
  /\ disk = NoFiles /\ mem = Empty
  /\ pc = "down" /\ index = 1 /\ then = None /\ reply = NoReply
  /\ version = None /\ given = [i \in 1..MaxSends |-> <<>>]
  /\ prepared = NoFiles /\ package = NoPackage
  /\ launches = 0
-----------------------------------------------------------------------------
(* Launching and resuming.                                                 *)

(* inspect_frozen_generation and the match of authority and inputs with    *)
(* it: an operator's files that contradict one another start nothing.      *)
Torn == "torn"
Frozen(v) == v # Torn

Unresolved == Assertions \ Matched

(* _preflight_automated: the send budget can fund one pass of each.        *)
Funded == Cardinality(Unresolved) <= MaxSends

(* The mutant resumes with whatever authority and inputs it is given.      *)
ResumesAny(v) == TRUE
Resumes(v) == disk.state \in {None, v}

Launch ==
  /\ pc = "down" /\ launches < MaxLaunches /\ Funded
  /\ \E v \in Versions \cup {Torn} :
       /\ Frozen(v) /\ Resumes(v)
       /\ version' = v
       /\ IF disk.state = None
          THEN /\ disk' = [disk EXCEPT !.state = v]
               /\ pc' = "create"
          ELSE /\ pc' = "next"
               /\ UNCHANGED disk
  /\ mem' = disk.lists
  /\ index' = 1
  /\ launches' = launches + 1
  /\ UNCHANGED <<then, reply, given, offline>>

(* A launcher killed before this leaves a directory that is resumed, but   *)
(* never gets its authority.                                               *)
Create ==
  /\ pc = "create"
  /\ disk' = [disk EXCEPT !.authority = TRUE]
  /\ pc' = "next"
  /\ UNCHANGED <<mem, index, then, reply, version, given, offline, launches>>

Item == Inputs[index]
SendsOf(lists, a) == {i \in DOMAIN lists.sends : lists.sends[i].assertion = a}
(* The mutant takes only decisions made from a pass for decisions.         *)
DecidedByPass(lists, a) ==
  \E d \in Range(lists.decisions) : d.assertion = a /\ d.pass # NoPass
Decided(lists, a) == \E d \in Range(lists.decisions) : d.assertion = a
Passed(lists, a) == \E p \in Range(lists.passes) : p.assertion = a
PassOf(lists, a) == CHOOSE p \in Range(lists.passes) : p.assertion = a

Charged(sends) == FoldLeft(LAMBDA sum, send : sum + send.units, 0, sends)

(* persist writes the four lists, one file after the other.                *)
Persist(where) == pc' = "sends" /\ then' = where

AppendDecision(lists, verdict, pass) ==
  [lists EXCEPT !.decisions =
     Append(@, [assertion |-> Item, verdict |-> verdict, pass |-> pass])]

NextItem ==
  /\ pc = "next" /\ index <= Len(Inputs)
  /\ \/ /\ Decided(mem, Item)
        /\ index' = index + 1
        /\ UNCHANGED <<mem, pc, then>>
     \/ /\ ~Decided(mem, Item) /\ Item \in Matched
        /\ mem' = AppendDecision(mem, Supported, NoPass)
        /\ Persist("next")
        /\ UNCHANGED index
     \/ /\ ~Decided(mem, Item) /\ Item \notin Matched /\ Passed(mem, Item)
        /\ pc' = "decide"
        /\ UNCHANGED <<mem, index, then>>
     \/ /\ ~Decided(mem, Item) /\ Item \notin Matched /\ ~Passed(mem, Item)
        /\ pc' = "reserve"
        /\ UNCHANGED <<mem, index, then>>
  /\ UNCHANGED <<disk, reply, version, given, offline, launches>>

(* The decision is taken from the pass, bought now or earlier.             *)
Decide ==
  /\ pc = "decide"
  /\ mem' = AppendDecision(mem, PassOf(mem, Item).verdict, PassOf(mem, Item))
  /\ Persist("next")
  /\ UNCHANGED <<disk, index, reply, version, given, offline, launches>>

(* A send is charged at its ceiling until it succeeds; not by the mutant.  *)
ReservationFree(a, attempt) ==
  [assertion |-> a, attempt |-> attempt, status |-> "reserved", units |-> 0]
Reservation(a, attempt) ==
  [assertion |-> a, attempt |-> attempt, status |-> "reserved", units |-> Ceiling]

(* The retry and the cumulative budgets. The mutant forgets the attempts   *)
(* that were interrupted.                                                  *)
Attempts == Cardinality(SendsOf(mem, Item))
AttemptsAnswered == Cardinality(
  {i \in SendsOf(mem, Item) : mem.sends[i].status # "reserved"})
MayRetryAnswered == AttemptsAnswered < MaxAttempts
MayRetry == Attempts < MaxAttempts
MaySend == Len(mem.sends) < MaxSends /\ Charged(mem.sends) + Ceiling <= MaxUnits

Reserve ==
  /\ pc = "reserve"
  /\ \/ /\ MayRetry /\ MaySend
        /\ mem' = [mem EXCEPT !.sends = Append(@, Reservation(Item, Attempts + 1))]
        /\ Persist("judge")
     \/ /\ ~(MayRetry /\ MaySend)          \* AutomatedJudgeError
        /\ pc' = "raise"
        /\ UNCHANGED <<mem, then>>
  /\ UNCHANGED <<disk, index, reply, version, given, offline, launches>>

(* The answer, an error of the provider, or an answer out of contract: the *)
(* model, a reference or a token count the authority does not allow.       *)
Replies == [kind : {"answer"}, verdict : Verdicts, units : 1..Ceiling]
           \cup [kind : {"error"}, verdict : {None}, units : {Ceiling}]
           \cup [kind : {"contract"}, verdict : {None}, units : {Ceiling, Ceiling + 1}]

Judge ==
  /\ pc = "judge"
  /\ \E r \in Replies :
       /\ reply' = r
       /\ given' = [given EXCEPT ![Len(mem.sends)] =
            Append(@, [version |-> version, reply |-> r])]
  /\ pc' = "settle"
  /\ UNCHANGED <<disk, mem, index, then, version, offline, launches>>

Marked(lists, status, units) ==
  [lists EXCEPT !.sends[Len(lists.sends)].status = status,
                !.sends[Len(lists.sends)].units = units]

BoughtPass == [assertion |-> Item, verdict |-> reply.verdict,
               units |-> reply.units, sends |-> SendsOf(mem, Item)]

Settle ==
  /\ pc = "settle"
  /\ \/ /\ reply.kind = "answer"
        /\ mem' = [Marked(mem, "succeeded", reply.units) EXCEPT
                     !.passes = Append(@, BoughtPass)]
        /\ Persist("decide")
     \/ /\ reply.kind = "error" /\ MayRetry
        /\ mem' = Marked(mem, "failed", Ceiling)
        /\ Persist("reserve")
     \/ /\ reply.kind # "answer" /\ (reply.kind = "error" => ~MayRetry)
        /\ mem' = Marked(mem, "failed", Ceiling)
        /\ Persist("record")
  /\ reply' = NoReply
  /\ UNCHANGED <<disk, index, version, given, offline, launches>>

(* record_failure, and the exception that ends the run.                    *)
RecordFailure ==
  /\ pc = "record"
  /\ mem' = [mem EXCEPT !.failures = TRUE]
  /\ Persist("raise")
  /\ UNCHANGED <<disk, index, reply, version, given, offline, launches>>

Order == <<"sends", "passes", "decisions", "failures">>
After(file) ==
  IF file = "failures" THEN then
  ELSE Order[1 + CHOOSE i \in DOMAIN Order : Order[i] = file]

Write ==
  /\ pc \in Lists
  /\ disk' = [disk EXCEPT !.lists[pc] = mem[pc]]
  /\ pc' = After(pc)
  /\ then' = IF pc = "failures" THEN None ELSE then
  /\ UNCHANGED <<mem, index, reply, version, given, offline, launches>>

(* The run returns, raises, or is killed.                                  *)
Stop ==
  /\ \/ pc = "next" /\ index > Len(Inputs)
     \/ pc = "raise"
  /\ pc' = "down" /\ mem' = Empty /\ index' = 1 /\ version' = None
  /\ UNCHANGED <<disk, then, reply, given, offline, launches>>

Kill ==
  /\ pc # "down"
  /\ pc' = "down" /\ mem' = Empty /\ index' = 1
  /\ then' = None /\ reply' = NoReply /\ version' = None
  /\ UNCHANGED <<disk, given, offline, launches>>
-----------------------------------------------------------------------------
(* Validation, scoring and verification, without a provider.               *)

(* The sends a pass names, in the order of their numbers.                  *)
Earlier(p, i) == {j \in p.sends : j <= i}

Provenance(files, p) ==
  LET sends == files.lists.sends IN
  /\ p.sends # {} /\ p.sends \subseteq DOMAIN sends
  /\ \A i \in p.sends :
       /\ sends[i].assertion = p.assertion
       /\ sends[i].attempt = Cardinality(Earlier(p, i))
       /\ sends[i].status = "succeeded" <=> i = Max(p.sends)
  /\ sends[Max(p.sends)].units = p.units

ValidDecision(files, d) ==
  \/ d.pass = NoPass /\ d.assertion \in Matched /\ d.verdict = Supported
  \/ /\ d.pass \in Range(files.lists.passes)
     /\ d.pass.assertion = d.assertion /\ d.pass.verdict = d.verdict
     /\ Provenance(files, d.pass)

(* validate_automated_judge_authorities.                                   *)
Validates(files) ==
  LET lists == files.lists IN
  /\ files.authority
  /\ IsInjective([i \in DOMAIN lists.decisions |-> lists.decisions[i].assertion])
  /\ {d.assertion : d \in Range(lists.decisions)} = Assertions
  /\ IsInjective(lists.passes)
  /\ \A d \in Range(lists.decisions) : ValidDecision(files, d)
  /\ UNION {p.sends : p \in Range(lists.passes)} = DOMAIN lists.sends
  /\ ~lists.failures

(* The operator combines the files while no launcher runs, and may do so   *)
(* again at any point of a scoring.                                        *)
Prepare ==
  /\ pc = "down"
  /\ prepared' = disk /\ prepared' # prepared
  /\ UNCHANGED <<running, package>>

(* seal_automated_citation_package: the statistics of the prepared files   *)
(* first, then a copy of them into a new directory, then the projections   *)
(* of the copy and a manifest of its contents. A scoring that dies leaves  *)
(* a directory that no later one accepts.                                  *)
Score ==
  /\ package.stage = "absent" /\ Validates(prepared)
  /\ package' = [package EXCEPT !.stage = "scored"]
  /\ UNCHANGED <<running, prepared>>

CopyArtifacts ==
  /\ package.stage = "scored"
  /\ package' = [package EXCEPT !.stage = "copied", !.files = prepared]
  /\ UNCHANGED <<running, prepared>>

SealPackage ==
  /\ package.stage = "copied" /\ Validates(package.files)
  /\ package' = [package EXCEPT !.stage = "sealed", !.manifest = package.files]
  /\ UNCHANGED <<running, prepared>>

(* verify_automated_citation_package: the manifest, then the projections   *)
(* again from the files.                                                   *)
Verifies ==
  /\ package.stage = "sealed" /\ package.manifest = package.files
  /\ Validates(package.files)

Run == Launch \/ Create \/ NextItem \/ Decide \/ Reserve \/ Judge \/ Settle
       \/ RecordFailure \/ Write \/ Stop \/ Kill

Next == Run \/ Prepare \/ Score \/ CopyArtifacts \/ SealPackage

Spec == Init /\ [][Next]_vars
-----------------------------------------------------------------------------
Pcs == {"down", "create", "next", "decide", "reserve", "judge", "settle",
        "record", "raise"} \cup Lists
ListTypes == [sends : Seq(Send), passes : Seq(Pass), decisions : Seq(Decision),
              failures : BOOLEAN]
FileTypes ==
  [state : Versions \cup {None}, authority : BOOLEAN, lists : ListTypes]
Answers == [version : Versions, reply : Replies]

(* Every variable has the type its declaration tells.                      *)
TypeOK ==
  /\ disk \in FileTypes /\ mem \in ListTypes
  /\ pc \in Pcs /\ index \in 1..Len(Inputs) + 1
  /\ then \in Pcs \cup {None} /\ reply \in Replies \cup {NoReply}
  /\ version \in Versions \cup {None}
  /\ given \in [1..MaxSends -> Seq(Answers)]
  /\ prepared \in FileTypes
  /\ package \in [stage : {"absent", "scored", "copied", "sealed"},
                 files : FileTypes, manifest : FileTypes]
  /\ launches \in 0..MaxLaunches

(* The list of sends covers the bill: wherever launchers were killed, each *)
(* request is a send of its own, charged for at least as much as the judge *)
(* charges unless it broke its ceiling, within the caps on attempts, sends *)
(* and units ("reserved or unknown sends remain budgeted").                *)
SendsCoverBill ==
  LET sends == disk.lists.sends IN
  /\ \A i \in 1..MaxSends : given[i] # <<>> =>
       /\ i \in DOMAIN sends /\ Len(given[i]) = 1
       /\ given[i][1].reply.units <= Ceiling =>
            given[i][1].reply.units <= sends[i].units
  /\ Len(sends) <= MaxSends /\ Charged(sends) <= MaxUnits
  /\ \A a \in Assertions : Cardinality(SendsOf(disk.lists, a)) <= MaxAttempts

(* A sealed package verifies for good; each of its verdicts is a Gold      *)
(* match or what the judge answered to the last send of that assertion,    *)
(* asked under the authority in the package; and no request was ever made  *)
(* that it does not show.                                                  *)
SealedIsEarned ==
  package.stage = "sealed" =>
    LET lists == package.files.lists IN
    /\ Verifies
    /\ \A d \in Range(lists.decisions) : d.assertion \notin Matched =>
         \E answer \in Range(given[Max(d.pass.sends)]) :
           /\ answer.reply.verdict = d.verdict
           /\ answer.version = package.files.state
    /\ \A i \in 1..MaxSends : given[i] # <<>> => i \in DOMAIN lists.sends

(* Resumes add to what the files say and take nothing back: no decision or *)
(* pass is dropped or changed, no send leaves its final status, and no     *)
(* assertion is decided twice.                                             *)
DecisionsAreFinal ==
  [][LET before == disk.lists
         after == disk'.lists IN
     /\ IsPrefix(before.decisions, after.decisions)
     /\ IsPrefix(before.passes, after.passes)
     /\ \A i \in DOMAIN before.sends :
          before.sends[i].status # "reserved" => after.sends[i] = before.sends[i]
     /\ IsInjective([i \in DOMAIN after.decisions |->
                       after.decisions[i].assertion])]_vars

(* "Completed passes and decisions are not purchased again": once the      *)
(* answer to an assertion is on file, nothing more is sent for it.         *)
CompletedPassNotPurchasedAgain ==
  [][\A a \in Assertions :
       (\E send \in Range(disk.lists.sends) :
          send.assertion = a /\ send.status = "succeeded")
       => SendsOf(disk'.lists, a) = SendsOf(disk.lists, a)]_vars
=============================================================================
