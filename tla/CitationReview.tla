--------------------------- MODULE CitationReview ---------------------------
(***************************************************************************)
(* The human review of the citation baseline: eval/citation_baseline/      *)
(* review.py and the commands prepare, export-review, import-review,       *)
(* score, recompute and verify of eval/citation_baseline/cli.py.           *)
(*                                                                         *)
(* The study owner prepares a directory from frozen authorities, reviewers *)
(* answer the rows assigned to them, the answers are imported in batches,  *)
(* each batch into a new judgments file on top of an earlier one, and a    *)
(* complete file is scored into a sealed package.  Calibration records are *)
(* built by the owner from a judgments file (docs/citation-human-review.md)*)
(* and reach the program inside the next directory it prepares.            *)
(*                                                                         *)
(* The owner runs one command at a time; a command may die between any two *)
(* of its steps.  Contents of a directory are never edited after prepare.  *)
(***************************************************************************)
EXTENDS Naturals, FiniteSets

CONSTANTS
    Calibrated,   \* the assertions of the fixed calibration sample
    Reported,     \* the assertions the published metrics count
    Reviewers,    \* the stable pseudonyms
    Verdicts,     \* SemanticVerdict: "supported", "unsupported", "ambiguous"
    Sources,      \* the sources the owner may prepare, see SourceType
    Dirs,         \* names of prepared directories
    JudgmentFiles, \* names of judgments files
    Packages,     \* names of score outputs
    Nothing       \* no directory, no file, no decision

Items == Calibrated \cup Reported
Assignment == [item : Items, reviewer : Reviewers]

\* What the owner freezes.  kind[a] is what is known of a reported assertion without
\* review: "open", "matched" (a supporting evidence match), "unscorable", or "failed"
\* (its case has a failure_reason_code).  clean is git_dirty = False in environment.json.
SourceType(freezes) ==
    [freeze : freezes, assignments : SUBSET Assignment,
     kind : [Reported -> {"open", "matched", "unscorable", "failed"}], clean : BOOLEAN]

\* freeze is what an assignment hash binds: version is the rubric and calibration set
\* versions, content the hashes of the output, the evidence and the config.
Freezes == {s.freeze : s \in Sources}

\* A SupportJudgment.
Judgment == [item : Items, reviewer : Reviewers, freeze : Freezes, verdict : Verdicts]

ASSUME SourcesAssumption ==
    /\ Sources \subseteq SourceType(Freezes)
    /\ Calibrated \cap Reported = {}
    /\ Verdicts \subseteq {"supported", "unsupported", "ambiguous"}

VARIABLES
    prepared,     \* [Dirs -> Nothing or the source with its calibration records]
    files,        \* [JudgmentFiles -> Nothing or the set of judgments in the file]
    package,      \* [Packages -> Nothing, or the contents of the score output]
    command       \* the command that runs, with what it has read

reviewVars == <<prepared, files, package, command>>

NoCommand == [at |-> "idle"]

(***************************************************************************)
(* review.py                                                               *)
(***************************************************************************)

KeyOf(j) == [item |-> j.item, reviewer |-> j.reviewer]
Keys(js) == {KeyOf(j) : j \in js}

\* No two judgments of one (assertion, reviewer).
OnePerKey(js) == \A j, k \in js : KeyOf(j) = KeyOf(k) => j = k

\* _validate_authority_links: two reviewers of a calibration item, one of another.
\* An assertion may also have no assignment at all.
ReviewersComplete(s) ==
    \A a \in Items :
        LET n == Cardinality({x \in s.assignments : x.item = a})
        IN  n \in {0, IF a \in Calibrated THEN 2 ELSE 1}

\* import_review_jsonl: every row is for an assignment of this freeze, given once.
ImportAccepts(dir, rows) ==
    /\ OnePerKey(rows)
    /\ \A r \in rows : KeyOf(r) \in dir.assignments /\ r.freeze = dir.freeze

\* Mutant: only what is imported is compared with the frozen assignments.
MergeTrustsExisting(dir, existing, imported) ==
    /\ Keys(existing) \cap Keys(imported) = {}
    /\ OnePerKey(existing)
    /\ \A j \in imported : KeyOf(j) \in dir.assignments /\ j.freeze = dir.freeze

\* merge_review_judgments: nothing unassigned, nothing of another freeze, and no key
\* twice, whether the second row says the same or not.
MergeAccepts(dir, existing, imported) ==
    /\ Keys(existing) \cap Keys(imported) = {}
    /\ OnePerKey(existing)
    /\ \A j \in existing \cup imported :
          KeyOf(j) \in dir.assignments /\ j.freeze = dir.freeze

\* The two original verdicts of a calibration item, when both are there.
Disagree(js, a) ==
    \E j, k \in js : j.item = a /\ k.item = a /\ j.reviewer # k.reviewer
                     /\ j.verdict # k.verdict /\ j.freeze = k.freeze

\* Mutant: the judgments of reported assertions become calibration records too.
RecordsOfAll(js, decision) ==
    {[item |-> j.item, reviewer |-> j.reviewer, version |-> j.freeze.version,
      observed |-> j.verdict,
      adjudicated |-> IF j.item \in Calibrated THEN decision[j.item, j.reviewer]
                                                  ELSE Nothing] : j \in js}

\* The owner builds one CalibrationRecord per judgment of a calibration item, and
\* adjudicate() accepts a decision for an actual disagreement of two reviewers only.
\* The records that answer no disagreement keep adjudicated_verdict = None.  A record has
\* the versions of the judgment's freeze and none of its hashes.  The two records of an
\* item may be given different decisions, as each is an object of its own.  Both have the
\* expected verdict of the frozen answer key, which is left out: their equality is all
\* that is asked of it.
RecordsOf(js, decision) ==
    {[item |-> j.item, reviewer |-> j.reviewer, version |-> j.freeze.version,
      observed |-> j.verdict, adjudicated |-> decision[j.item, j.reviewer]] :
         j \in {k \in js : k.item \in Calibrated}}

Decisions(js) ==
    {d \in [Calibrated \X Reviewers -> Verdicts \cup {Nothing}] :
        \A a \in Calibrated, r \in Reviewers : d[a, r] # Nothing => Disagree(js, a)}

\* calibration_statistics: what it refuses.
CalibrationWellFormed(dir) ==
    LET expected == {x.item : x \in {y \in dir.assignments : y.item \in Calibrated}}
        records  == dir.calibration
        reviewers == {r.reviewer : r \in records}
    IN  /\ expected # {}
        /\ {r.item : r \in records} = expected
        /\ Cardinality({r.version : r \in records}) = 1
        /\ Cardinality(reviewers) = 2
        /\ \A a \in expected :
              /\ Cardinality({r \in records : r.item = a}) = 2
              /\ {r.reviewer : r \in {q \in records : q.item = a}} = reviewers

\* CalibrationStatistics.disagreement_assertion_ids and unresolved_assertion_ids.
Disagreements(records) ==
    {a \in Calibrated : \E r, q \in records : r.item = a /\ q.item = a
                                              /\ r.observed # q.observed}
Unresolved(records) ==
    {a \in Disagreements(records) :
        LET decisions == {r.adjudicated : r \in {q \in records : q.item = a}}
        IN  Nothing \in decisions \/ Cardinality(decisions) # 1}

\* What the report says of the calibration.
Statistics(records) ==
    [disagreements |-> Disagreements(records), unresolved |-> Unresolved(records)]

(***************************************************************************)
(* _scoring_judgments, judgments_for_scoring and _score_case               *)
(***************************************************************************)

\* Mutant: missing judgments do not block scoring.
ReadyIncomplete(dir, js) ==
    /\ CalibrationWellFormed(dir)
    /\ Unresolved(dir.calibration) = {}
    /\ OnePerKey(js)
    /\ Keys(js) \subseteq dir.assignments
    /\ \A r \in dir.calibration : r.version = dir.freeze.version
    /\ \A j \in js : j.freeze = dir.freeze

\* _scoring_judgments and judgments_for_scoring: calibration complete and of the frozen
\* assignment set, one judgment per assignment and none besides, all of this freeze.
ReadyToScore(dir, js) ==
    /\ CalibrationWellFormed(dir)
    /\ Unresolved(dir.calibration) = {}
    /\ OnePerKey(js)
    /\ Keys(js) = dir.assignments
    /\ \A r \in dir.calibration : r.version = dir.freeze.version
    /\ \A j \in js : j.freeze = dir.freeze

\* _score_case: the statuses an assertion has, in a case that did not fail.
StatusesOf(dir, js, a) ==
    {j.verdict : j \in {k \in js : k.item = a}}
    \cup (IF dir.kind[a] = "matched" THEN {"supported"} ELSE {})
    \cup (IF dir.kind[a] = "unscorable" THEN {"unscorable"} ELSE {})

Counted(dir) == {a \in Reported : dir.kind[a] # "failed"}

\* _citation_cases and score_citation_baseline: each assertion has exactly one status.
Scores(dir, js) ==
    [a \in Counted(dir) |-> CHOOSE x \in StatusesOf(dir, js, a) : TRUE]
Scorable(dir, js) ==
    \A a \in Counted(dir) : Cardinality(StatusesOf(dir, js, a)) = 1

\* The projections written beside the authorities (_projections).
Projection(dir, js) ==
    [scores |-> Scores(dir, js), calibration |-> Statistics(dir.calibration)]

(***************************************************************************)
(* The commands                                                            *)
(***************************************************************************)

ReviewInit ==
    /\ prepared = [d \in Dirs |-> Nothing]
    /\ files = [f \in JudgmentFiles |-> Nothing]
    /\ package = [p \in Packages |-> Nothing]
    /\ command = NoCommand

Exists(f) == f \in JudgmentFiles /\ files[f] # Nothing

\* prepare: a new directory from a source whose authorities link; the calibration
\* records are those the owner built from a judgments file, or none yet.
Prepare(d, s) ==
    /\ command = NoCommand
    /\ prepared[d] = Nothing
    /\ ReviewersComplete(s)
    /\ \E f \in JudgmentFiles \cup {Nothing} :
          LET js == IF Exists(f) THEN files[f] ELSE {} IN
          /\ f # Nothing => Exists(f)
          /\ \E decision \in Decisions(js) :
                prepared' = [prepared EXCEPT ![d] =
                    [freeze |-> s.freeze, assignments |-> s.assignments, kind |-> s.kind,
                     clean |-> s.clean, calibration |-> RecordsOf(js, decision)]]
    /\ UNCHANGED <<files, package, command>>

\* The rows one reviewer returns for one prepare's packet, in any number.  The packet
\* may be of an earlier prepare, a row may be given twice or be for another's item.
Batches ==
    UNION {SUBSET [item : Items, reviewer : {r}, freeze : {prepared[d].freeze},
                   verdict : Verdicts] :
               r \in Reviewers, d \in {e \in Dirs : prepared[e] # Nothing}}

\* import-review, up to the check that the output does not exist yet.
ImportStart(d, existing, output) ==
    /\ command = NoCommand
    /\ prepared[d] # Nothing
    /\ existing # Nothing => Exists(existing)
    /\ files[output] = Nothing
    /\ command' = [at |-> "import", dir |-> d, existing |-> existing, output |-> output]
    /\ UNCHANGED <<prepared, files, package>>

\* The batch is validated and merged, and the new file is written in one replace.
ImportWrite(rows) ==
    /\ command.at = "import"
    /\ LET dir   == prepared[command.dir]
           prior == IF command.existing = Nothing THEN {} ELSE files[command.existing]
       IN  files' = IF ImportAccepts(dir, rows) /\ MergeAccepts(dir, prior, rows)
                      THEN [files EXCEPT ![command.output] = prior \cup rows]
                      ELSE files
    /\ command' = NoCommand
    /\ UNCHANGED <<prepared, package>>

\* score: authorities and judgments are loaded, checked and scored, the output is made.
ScoreStart(d, f, p) ==
    /\ command = NoCommand
    /\ prepared[d] # Nothing
    /\ Exists(f)
    /\ ReadyToScore(prepared[d], files[f])
    /\ Scorable(prepared[d], files[f])
    /\ package[p] = Nothing
    /\ package' = [package EXCEPT ![p] = [step |-> "made"]]
    /\ command' = [at |-> "score", dir |-> d, file |-> f, output |-> p,
                   projection |-> Projection(prepared[d], files[f])]
    /\ UNCHANGED <<prepared, files>>

\* The authorities are copied, the judgments and the projections are written.
ScoreWrite ==
    /\ command.at = "score"
    /\ package[command.output].step = "made"
    /\ package' = [package EXCEPT ![command.output] =
          [step |-> "written", dir |-> prepared[command.dir],
           judgments |-> files[command.file], projection |-> command.projection]]
    /\ UNCHANGED <<prepared, files, command>>

\* EvidencePackageBuilder.seal: every artifact is there and the worktree was clean.
ScoreSeal ==
    /\ command.at = "score"
    /\ LET p == command.output IN
       /\ package[p].step = "written"
       /\ package' = IF package[p].dir.clean
                       THEN [package EXCEPT ![p].step = "sealed"] ELSE package
    /\ command' = NoCommand
    /\ UNCHANGED <<prepared, files>>

\* The process dies: what is on disk stays, and no later command completes it.
Die ==
    /\ command # NoCommand
    /\ command' = NoCommand
    /\ UNCHANGED <<prepared, files, package>>

ReviewNext ==
    \/ \E d \in Dirs, s \in Sources : Prepare(d, s)
    \/ \E d \in Dirs, e \in JudgmentFiles \cup {Nothing}, f \in JudgmentFiles : ImportStart(d, e, f)
    \/ \E rows \in Batches : ImportWrite(rows)
    \/ \E d \in Dirs, f \in JudgmentFiles, p \in Packages : ScoreStart(d, f, p)
    \/ ScoreWrite
    \/ ScoreSeal
    \/ Die

ReviewSpec == ReviewInit /\ [][ReviewNext]_reviewVars

(***************************************************************************)
(* Properties                                                              *)
(***************************************************************************)

Record == [item : Calibrated, reviewer : Reviewers, version : {f.version : f \in Freezes},
           observed : Verdicts, adjudicated : Verdicts \cup {Nothing}]

\* Types: a prepared directory is a source with calibration records, a judgments file a
\* set of judgments, a score output has one of three steps.
ReviewTypeOK ==
    /\ \A d \in Dirs : prepared[d] # Nothing =>
          /\ prepared[d].freeze \in Freezes
          /\ prepared[d].assignments \subseteq Assignment
          /\ prepared[d].calibration \subseteq Record
    /\ \A f \in JudgmentFiles : files[f] # Nothing => files[f] \subseteq Judgment
    /\ \A p \in Packages : package[p] # Nothing =>
          package[p].step \in {"made", "written", "sealed"}
    /\ command.at \in {"idle", "import", "score"}

Sealed == {package[p] : p \in {q \in Packages : package[q] # Nothing
                                                /\ package[q].step = "sealed"}}

\* What verify does with a package: everything is loaded, checked and projected again
\* from the package's own files, and compared with the projections in it.
PackageVerifies(g) ==
    /\ ReadyToScore(g.dir, g.judgments)
    /\ Scorable(g.dir, g.judgments)
    /\ g.projection = Projection(g.dir, g.judgments)

\* A sealed package has one judgment, of its own freeze, by each assigned reviewer of each
\* assignment; no calibration item is left in disagreement; every reported assertion of a
\* case that ran has exactly one status in the metrics; and the package verifies, whatever
\* batches, freezes and earlier files the judgments came through.
SealedIsReviewed ==
    \A g \in Sealed :
        /\ PackageVerifies(g)
        /\ \A x \in g.dir.assignments : \E j \in g.judgments :
              KeyOf(j) = x /\ \A k \in g.judgments : KeyOf(k) = x => k = j
        /\ \A j \in g.judgments : j.freeze = g.dir.freeze
        /\ g.projection.calibration.unresolved = {}
        /\ DOMAIN g.projection.scores \cap Calibrated = {}

\* A judgment, once in a file, is in every file made on top of that file and stays as it
\* was given: no later import, prepare or score changes a file that is there, and a new
\* file has neither two answers to one assignment nor answers to two freezes.
ReviewsAreKept ==
    [][\A f \in JudgmentFiles : files'[f] # files[f] =>
          /\ files[f] = Nothing
          /\ command.existing # Nothing => files[command.existing] \subseteq files'[f]
          /\ \A j, k \in files'[f] :
                j.freeze = k.freeze /\ (KeyOf(j) = KeyOf(k) => j = k)]_reviewVars

\* docs/citation-human-review.md: "Compute raw agreement and Cohen's kappa from original
\* reviewer verdicts. Any reviewer disagreement must be adjudicated before reported-case
\* review can be scored."  The calibration of a sealed package is that of the judgments
\* sealed with it.
CalibrationIsOfTheJudgments ==
    \A g \in Sealed :
        g.projection.calibration.disagreements
            = {a \in Calibrated : Disagree(g.judgments, a)}
=============================================================================
