----------------------- MODULE CitationBaselineProofs -----------------------
(***************************************************************************)
(* Theorems about two parts of the citation baseline.                      *)
(*                                                                         *)
(* The human review (CitationReview), for every sample and every number of *)
(* reviewers, directories, judgments files and packages: the types, that a *)
(* sealed package is reviewed by everyone who was asked, and that no       *)
(* review is lost.  The rows and files are any sets of judgments.          *)
(*                                                                         *)
(* The paid generation (LiveGeneration on CampaignLedger), for every       *)
(* number of executions, cases and launches, every cap and ceiling and     *)
(* every set of provider replies: the types, that the ledger never         *)
(* undercounts what was billed, that a sealed output stays whole, and that *)
(* what was paid for is neither lost nor bought again.                     *)
(***************************************************************************)
EXTENDS CitationReview, LiveGeneration, SequenceTheorems, FiniteSetTheorems,
        WellFoundedInduction, NaturalsInduction, TLAPS

-----------------------------------------------------------------------------
(* CitationReview.                                                         *)

(* What prepare leaves: a source and its calibration records.              *)
Frozen ==
    [freeze : Freezes, assignments : SUBSET Assignment,
     kind : [Reported -> {"open", "matched", "unscorable", "failed"}], clean : BOOLEAN,
     calibration : SUBSET Record]

(* A score output that holds what was scored.                              *)
Contents(step, dir, js, projection) ==
    [step |-> step, dir |-> dir, judgments |-> js, projection |-> projection]

Passes(dir, js) == ReadyToScore(dir, js) /\ Scorable(dir, js)

(* Score outputs, whichever run left them: once written, they verify.      *)
IsOutput(g) ==
    \/ g = [step |-> "made"]
    \/ /\ g.step \in {"written", "sealed"}
       /\ g = Contents(g.step, g.dir, g.judgments, Projection(g.dir, g.judgments))
       /\ Passes(g.dir, g.judgments)

Stored ==
    /\ prepared \in [Dirs -> Frozen \cup {Nothing}]
    /\ files \in [JudgmentFiles -> (SUBSET Judgment) \cup {Nothing}]
    /\ package = [p \in Packages |-> package[p]]
    /\ \A p \in Packages : package[p] # Nothing => IsOutput(package[p])

(* What an import or a score has read is still there when it writes: one   *)
(* command runs at a time, and only a command changes a file.              *)
CommandFits ==
    \/ command = NoCommand
    \/ /\ command.at = "import"
       /\ command.dir \in Dirs /\ prepared[command.dir] # Nothing
       /\ command.existing \in JudgmentFiles \cup {Nothing}
       /\ command.existing # Nothing => Exists(command.existing)
       /\ command.output \in JudgmentFiles /\ files[command.output] = Nothing
    \/ /\ command.at = "score"
       /\ command.dir \in Dirs /\ prepared[command.dir] # Nothing
       /\ Exists(command.file) /\ command.output \in Packages
       /\ Passes(prepared[command.dir], files[command.file])
       /\ command.projection = Projection(prepared[command.dir], files[command.file])
       /\ package[command.output] \in
             {[step |-> "made"],
              Contents("written", prepared[command.dir], files[command.file],
                       command.projection)}

IInv == Stored /\ CommandFits
-----------------------------------------------------------------------------
LEMMA SourceTyped ==
    ASSUME NEW s \in Sources
    PROVE  /\ s.freeze \in Freezes /\ s.assignments \subseteq Assignment
           /\ s.kind \in [Reported -> {"open", "matched", "unscorable", "failed"}]
           /\ s.clean \in BOOLEAN
BY SourcesAssumption DEF SourceType

LEMMA RecordsTyped ==
    ASSUME NEW js \in SUBSET Judgment,
           NEW decision \in [Calibrated \X Reviewers -> Verdicts \cup {Nothing}]
    PROVE  RecordsOf(js, decision) \subseteq Record
<1> SUFFICES ASSUME NEW j \in js, j.item \in Calibrated
             PROVE  [item |-> j.item, reviewer |-> j.reviewer,
                     version |-> j.freeze.version, observed |-> j.verdict,
                     adjudicated |-> decision[j.item, j.reviewer]] \in Record
    BY DEF RecordsOf
<1>1. /\ j.reviewer \in Reviewers /\ j.freeze \in Freezes /\ j.verdict \in Verdicts
      /\ decision[j.item, j.reviewer] \in Verdicts \cup {Nothing}
    BY DEF Judgment
<1> QED BY <1>1 DEF Record

LEMMA FileTyped ==
    ASSUME Stored, NEW f, Exists(f)
    PROVE  f \in JudgmentFiles /\ files[f] \in SUBSET Judgment
BY DEF Stored, Exists

LEMMA InitInv == ReviewInit => IInv
BY DEF ReviewInit, IInv, Stored, CommandFits

LEMMA PrepareInv ==
    ASSUME IInv, NEW d \in Dirs, NEW s \in Sources, Prepare(d, s)
    PROVE  IInv'
<1>1. PICK f \in JudgmentFiles \cup {Nothing} :
          LET js == IF Exists(f) THEN files[f] ELSE {} IN
          \E decision \in Decisions(js) :
                prepared' = [prepared EXCEPT ![d] =
                    [freeze |-> s.freeze, assignments |-> s.assignments, kind |-> s.kind,
                     clean |-> s.clean, calibration |-> RecordsOf(js, decision)]]
    BY DEF Prepare
<1> DEFINE js == IF Exists(f) THEN files[f] ELSE {}
<1>2. js \in SUBSET Judgment
    BY FileTyped DEF IInv
<1>3. PICK decision \in Decisions(js) :
          prepared' = [prepared EXCEPT ![d] =
              [freeze |-> s.freeze, assignments |-> s.assignments, kind |-> s.kind,
               clean |-> s.clean, calibration |-> RecordsOf(js, decision)]]
    BY <1>1
<1> HIDE DEF js
<1>4. RecordsOf(js, decision) \subseteq Record
    BY <1>2, RecordsTyped DEF Decisions
<1> DEFINE dir == [freeze |-> s.freeze, assignments |-> s.assignments, kind |-> s.kind,
                   clean |-> s.clean, calibration |-> RecordsOf(js, decision)]
<1>5. dir \in Frozen
    BY <1>4, SourceTyped DEF Frozen
<1> HIDE DEF dir
<1>6. prepared' = [prepared EXCEPT ![d] = dir]
    BY <1>3 DEF dir
<1>7. UNCHANGED <<files, package, command>> /\ command = NoCommand
    BY DEF Prepare
<1>8. Stored'
    BY <1>5, <1>6, <1>7 DEF IInv, Stored, IsOutput
<1>9. CommandFits'
    BY <1>7 DEF CommandFits
<1> QED BY <1>8, <1>9 DEF IInv

LEMMA ImportStartInv ==
    ASSUME IInv, NEW d \in Dirs, NEW e \in JudgmentFiles \cup {Nothing}, NEW f \in JudgmentFiles,
           ImportStart(d, e, f)
    PROVE  IInv'
<1>1. /\ UNCHANGED <<prepared, files, package>>
      /\ prepared[d] # Nothing /\ (e # Nothing => Exists(e)) /\ files[f] = Nothing
      /\ command' = [at |-> "import", dir |-> d, existing |-> e, output |-> f]
    BY DEF ImportStart
<1>2. Stored'
    BY <1>1 DEF IInv, Stored, IsOutput
<1>3. /\ command'.at = "import" /\ command'.dir = d /\ command'.existing = e
      /\ command'.output = f
    BY <1>1
<1>4. CommandFits'
    BY <1>1, <1>3 DEF CommandFits, Exists
<1> QED BY <1>2, <1>4 DEF IInv

(* One answer to each assignment, of one freeze.                           *)
SingleAnswers(js) ==
    \A j, k \in js : j.freeze = k.freeze /\ (KeyOf(j) = KeyOf(k) => j = k)

(* What an import adds is of the types of a file, and makes single answers.*)
LEMMA ImportAdds ==
    ASSUME IInv, NEW rows \in Batches, ImportWrite(rows),
           NEW prior, prior = IF command.existing = Nothing THEN {} ELSE files[command.existing]
    PROVE  /\ command.output \in JudgmentFiles /\ files[command.output] = Nothing
           /\ rows \in SUBSET Judgment /\ prior \in SUBSET Judgment
           /\ \/ files' = files
              \/ /\ files' = [files EXCEPT ![command.output] = prior \cup rows]
                 /\ SingleAnswers(prior \cup rows)
<1> DEFINE dir == prepared[command.dir]
<1>1. command.at = "import"
    BY DEF ImportWrite
<1>2. /\ command.output \in JudgmentFiles /\ files[command.output] = Nothing
      /\ command.existing \in JudgmentFiles \cup {Nothing}
      /\ command.existing # Nothing => Exists(command.existing)
    BY <1>1 DEF IInv, CommandFits, NoCommand
<1>3. prior \in SUBSET Judgment
    BY <1>2, FileTyped DEF IInv
<1>4. rows \in SUBSET Judgment
    <2>1. PICK r \in Reviewers, d \in {e \in Dirs : prepared[e] # Nothing} :
              rows \subseteq [item : Items, reviewer : {r}, freeze : {prepared[d].freeze},
                              verdict : Verdicts]
        BY DEF Batches
    <2>2. prepared[d].freeze \in Freezes
        BY DEF IInv, Stored, Frozen
    <2> QED BY <2>1, <2>2 DEF Judgment
<1>5. CASE ImportAccepts(dir, rows) /\ MergeAccepts(dir, prior, rows)
    <2>1. files' = [files EXCEPT ![command.output] = prior \cup rows]
        BY <1>5 DEF ImportWrite
    <2>2. \A j \in prior \cup rows : j.freeze = dir.freeze
        BY <1>5 DEF MergeAccepts
    <2>3. \A j \in prior, k \in rows : KeyOf(j) # KeyOf(k)
        BY <1>5 DEF MergeAccepts, Keys
    <2>4. OnePerKey(prior) /\ OnePerKey(rows)
        BY <1>5 DEF ImportAccepts, MergeAccepts
    <2>5. \A j, k \in prior \cup rows : KeyOf(j) = KeyOf(k) => j = k
        BY <2>3, <2>4 DEF OnePerKey
    <2> QED BY <1>2, <1>3, <1>4, <2>1, <2>2, <2>5 DEF SingleAnswers
<1>6. CASE ~(ImportAccepts(dir, rows) /\ MergeAccepts(dir, prior, rows))
    <2>1. files' = files
        BY <1>6 DEF ImportWrite
    <2> QED BY <1>2, <1>3, <1>4, <2>1
<1> QED BY <1>5, <1>6

LEMMA ImportWriteInv ==
    ASSUME IInv, NEW rows \in Batches, ImportWrite(rows)
    PROVE  IInv'
<1> DEFINE prior == IF command.existing = Nothing THEN {} ELSE files[command.existing]
<1>1. /\ command.output \in JudgmentFiles
      /\ rows \in SUBSET Judgment /\ prior \in SUBSET Judgment
      /\ \/ files' = files
         \/ files' = [files EXCEPT ![command.output] = prior \cup rows]
    BY ImportAdds
<1> HIDE DEF prior
<1>2. files' \in [JudgmentFiles -> (SUBSET Judgment) \cup {Nothing}]
    BY <1>1 DEF IInv, Stored
<1>3. UNCHANGED <<prepared, package>> /\ command' = NoCommand
    BY DEF ImportWrite
<1> QED BY <1>2, <1>3 DEF IInv, Stored, IsOutput, CommandFits

LEMMA ScoreStartInv ==
    ASSUME IInv, NEW d \in Dirs, NEW f \in JudgmentFiles, NEW p \in Packages, ScoreStart(d, f, p)
    PROVE  IInv'
<1> DEFINE projection == Projection(prepared[d], files[f])
<1>1. /\ UNCHANGED <<prepared, files>>
      /\ prepared[d] # Nothing /\ Exists(f) /\ Passes(prepared[d], files[f])
      /\ package' = [package EXCEPT ![p] = [step |-> "made"]]
      /\ command' = [at |-> "score", dir |-> d, file |-> f, output |-> p,
                     projection |-> projection]
    BY DEF ScoreStart, Passes
<1>2. package'[p] = [step |-> "made"]
    BY <1>1 DEF IInv, Stored
<1>3. Stored'
    BY <1>1, <1>2 DEF IInv, Stored, IsOutput
<1>4. projection = Projection(prepared[d], files[f])'
    BY <1>1
<1> HIDE DEF projection
<1>5. /\ command'.at = "score" /\ command'.dir = d /\ command'.file = f
      /\ command'.output = p /\ command'.projection = projection
    BY <1>1
<1>6. /\ Exists(f)' /\ prepared'[d] # Nothing
      /\ Passes(prepared'[d], files'[f])
    BY <1>1 DEF Exists
<1>7. CommandFits'
    BY <1>2, <1>4, <1>5, <1>6 DEF CommandFits
<1> QED BY <1>3, <1>7 DEF IInv

(* What a score has before it writes.                                      *)
LEMMA ScoreFits ==
    ASSUME IInv, command.at = "score"
    PROVE  /\ command.dir \in Dirs /\ prepared[command.dir] # Nothing
           /\ Exists(command.file) /\ command.output \in Packages
           /\ Passes(prepared[command.dir], files[command.file])
           /\ command.projection = Projection(prepared[command.dir], files[command.file])
           /\ package[command.output] \in
                 {[step |-> "made"],
                  Contents("written", prepared[command.dir], files[command.file],
                           command.projection)}
BY DEF IInv, CommandFits, NoCommand

LEMMA WrittenIsOutput ==
    ASSUME NEW step \in {"written", "sealed"}, NEW dir, NEW js, Passes(dir, js)
    PROVE  IsOutput(Contents(step, dir, js, Projection(dir, js)))
BY DEF IsOutput, Contents

LEMMA ScoreWriteInv ==
    ASSUME IInv, ScoreWrite
    PROVE  IInv'
<1> DEFINE p == command.output
           g == Contents("written", prepared[command.dir], files[command.file],
                         command.projection)
<1>1. /\ UNCHANGED <<prepared, files, command>>
      /\ package' = [package EXCEPT ![p] = g]
    BY DEF ScoreWrite, Contents
<1>2. p \in Packages /\ IsOutput(g)
    BY ScoreFits, WrittenIsOutput DEF ScoreWrite
<1>3. g = Contents("written", prepared[command.dir], files[command.file],
                   command.projection)'
    BY <1>1
<1> HIDE DEF g
<1>4. package'[p] = g
    BY <1>1, <1>2 DEF IInv, Stored
<1>5. Stored'
    BY <1>1, <1>2 DEF IInv, Stored
<1>6. CommandFits'
    BY <1>1, <1>3, <1>4, ScoreFits DEF ScoreWrite, CommandFits, Exists
<1> QED BY <1>5, <1>6 DEF IInv

LEMMA ScoreSealInv ==
    ASSUME IInv, ScoreSeal
    PROVE  IInv'
<1> DEFINE p == command.output
           dir == prepared[command.dir]
           js == files[command.file]
<1>1. /\ UNCHANGED <<prepared, files>> /\ command' = NoCommand
      /\ package[p].step = "written"
      /\ package' = package \/ package' = [package EXCEPT ![p].step = "sealed"]
    BY DEF ScoreSeal
<1>2. /\ p \in Packages /\ Passes(dir, js)
      /\ package[p] \in {[step |-> "made"], Contents("written", dir, js, Projection(dir, js))}
    BY ScoreFits DEF ScoreSeal
<1>3. package[p] = Contents("written", dir, js, Projection(dir, js))
    BY <1>1, <1>2
<1> HIDE DEF p, dir, js
<1>4. [package[p] EXCEPT !.step = "sealed"] = Contents("sealed", dir, js, Projection(dir, js))
    BY <1>3 DEF Contents
<1>5. IsOutput([package[p] EXCEPT !.step = "sealed"])
    BY <1>2, <1>4, WrittenIsOutput
<1>6. Stored'
    <2>1. CASE package' = package
        BY <1>1, <2>1 DEF IInv, Stored
    <2>2. CASE package' = [package EXCEPT ![p].step = "sealed"]
        <3> DEFINE g == [package[p] EXCEPT !.step = "sealed"]
        <3>1. package' = [package EXCEPT ![p] = g]
            BY <2>2
        <3> HIDE DEF g
        <3> QED BY <1>1, <1>2, <1>5, <3>1 DEF IInv, Stored, g
    <2> QED BY <1>1, <2>1, <2>2
<1> QED BY <1>1, <1>6 DEF IInv, CommandFits

LEMMA NextInv ==
    ASSUME IInv, [ReviewNext]_reviewVars
    PROVE  IInv'
<1>1. CASE Die
    BY <1>1 DEF Die, IInv, Stored, CommandFits
<1>2. CASE UNCHANGED reviewVars
    BY <1>2 DEF reviewVars, IInv, Stored, CommandFits, Exists
<1> QED
    BY <1>1, <1>2, PrepareInv, ImportStartInv, ImportWriteInv, ScoreStartInv,
       ScoreWriteInv, ScoreSealInv
    DEF ReviewNext

LEMMA Invariance == ReviewSpec => []IInv
<1> QED BY InitInv, NextInv, PTL DEF ReviewSpec
-----------------------------------------------------------------------------
(* Directories, judgments files and score outputs have their types.        *)
THEOREM ReviewTypes == ReviewSpec => []ReviewTypeOK
<1>1. IInv => ReviewTypeOK
    <2> SUFFICES ASSUME IInv PROVE ReviewTypeOK
        OBVIOUS
    <2>1. ASSUME NEW d \in Dirs, prepared[d] # Nothing
          PROVE  /\ prepared[d].freeze \in Freezes
                 /\ prepared[d].assignments \subseteq Assignment
                 /\ prepared[d].calibration \subseteq Record
        BY <2>1 DEF IInv, Stored, Frozen
    <2>2. \A f \in JudgmentFiles : files[f] # Nothing => files[f] \subseteq Judgment
        BY DEF IInv, Stored
    <2>3. \A p \in Packages : package[p] # Nothing =>
              package[p].step \in {"made", "written", "sealed"}
        BY DEF IInv, Stored, IsOutput
    <2>4. command.at \in {"idle", "import", "score"}
        BY DEF IInv, CommandFits, NoCommand
    <2> QED BY <2>1, <2>2, <2>3, <2>4 DEF ReviewTypeOK
<1> QED BY <1>1, Invariance, PTL

(* A sealed package has one judgment, of its own freeze, of each assigned  *)
(* reviewer of each assignment, no calibration item in disagreement, one   *)
(* status of each reported assertion that counts, and it verifies.         *)
THEOREM SealedAreReviewed == ReviewSpec => []SealedIsReviewed
<1>1. IInv => SealedIsReviewed
    <2> SUFFICES ASSUME IInv, NEW g \in Sealed
                 PROVE  /\ PackageVerifies(g)
                        /\ \A x \in g.dir.assignments : \E j \in g.judgments :
                              KeyOf(j) = x /\ \A k \in g.judgments : KeyOf(k) = x => k = j
                        /\ \A j \in g.judgments : j.freeze = g.dir.freeze
                        /\ g.projection.calibration.unresolved = {}
                        /\ DOMAIN g.projection.scores \cap Calibrated = {}
        BY DEF SealedIsReviewed
    <2>1. /\ g = Contents(g.step, g.dir, g.judgments, Projection(g.dir, g.judgments))
          /\ Passes(g.dir, g.judgments)
        BY DEF IInv, Stored, Sealed, IsOutput
    <2>2. g.projection = Projection(g.dir, g.judgments)
        <3> DEFINE projection == Projection(g.dir, g.judgments)
        <3>1. g = Contents(g.step, g.dir, g.judgments, projection)
            BY <2>1
        <3> HIDE DEF projection
        <3>2. Contents(g.step, g.dir, g.judgments, projection).projection = projection
            BY DEF Contents
        <3> QED BY <3>1, <3>2 DEF projection
    <2>3. PackageVerifies(g)
        BY <2>1, <2>2 DEF PackageVerifies, Passes
    <2>4. /\ OnePerKey(g.judgments) /\ Keys(g.judgments) = g.dir.assignments
          /\ \A j \in g.judgments : j.freeze = g.dir.freeze
          /\ Unresolved(g.dir.calibration) = {}
        BY <2>3 DEF PackageVerifies, ReadyToScore
    <2>5. ASSUME NEW x \in g.dir.assignments
          PROVE  \E j \in g.judgments :
                    KeyOf(j) = x /\ \A k \in g.judgments : KeyOf(k) = x => k = j
        BY <2>4 DEF Keys, OnePerKey
    <2>6. g.projection.calibration.unresolved = {}
        BY <2>2, <2>4 DEF Projection, Statistics
    <2>7. DOMAIN g.projection.scores \cap Calibrated = {}
        <3>1. DOMAIN g.projection.scores = Counted(g.dir)
            BY <2>2 DEF Projection, Scores
        <3> QED BY <3>1, SourcesAssumption DEF Counted
    <2> QED BY <2>3, <2>4, <2>5, <2>6, <2>7
<1> QED BY <1>1, Invariance, PTL

(* No review is lost: only an import changes a file, it makes a new one on *)
(* top of the file it was given, and what is in it are single answers to   *)
(* the assignments of one freeze.                                          *)
THEOREM ReviewsKept == ReviewSpec => ReviewsAreKept
<1> DEFINE Kept == \A f \in JudgmentFiles : files'[f] # files[f] =>
          /\ files[f] = Nothing
          /\ command.existing # Nothing => files[command.existing] \subseteq files'[f]
          /\ \A j, k \in files'[f] :
                j.freeze = k.freeze /\ (KeyOf(j) = KeyOf(k) => j = k)
<1>1. ASSUME IInv, [ReviewNext]_reviewVars
      PROVE  Kept
    <2>1. ASSUME NEW rows \in Batches, ImportWrite(rows)
          PROVE  Kept
        <3>0. PICK prior :
                 prior = IF command.existing = Nothing THEN {} ELSE files[command.existing]
            OBVIOUS
        <3>1. /\ command.output \in JudgmentFiles /\ files[command.output] = Nothing
              /\ \/ files' = files
                 \/ /\ files' = [files EXCEPT ![command.output] = prior \cup rows]
                    /\ SingleAnswers(prior \cup rows)
            BY <1>1, <2>1, <3>0, ImportAdds
        <3>2. command.existing # Nothing => files[command.existing] \subseteq prior \cup rows
            BY <3>0
        <3>3. files \in [JudgmentFiles -> (SUBSET Judgment) \cup {Nothing}]
            BY <1>1 DEF IInv, Stored
        <3>4. \A f \in JudgmentFiles : files'[f] # files[f] =>
                 /\ f = command.output /\ files'[f] = prior \cup rows
                 /\ SingleAnswers(prior \cup rows)
            BY <3>1, <3>3
        <3> QED BY <3>1, <3>2, <3>4 DEF SingleAnswers
    <2>2. CASE files' = files
        BY <2>2
    <2>3. files' = files \/ \E rows \in Batches : ImportWrite(rows)
        BY <1>1 DEF ReviewNext, Prepare, ImportStart, ScoreStart, ScoreWrite, ScoreSeal, Die, reviewVars
    <2> QED BY <2>1, <2>2, <2>3
<1>2. IInv /\ [ReviewNext]_reviewVars => [Kept]_reviewVars
    BY <1>1
<1> QED BY <1>2, Invariance, PTL DEF ReviewSpec, ReviewsAreKept
-----------------------------------------------------------------------------
(* Totals. The total of a ledger is a fold, which no step of a proof can   *)
(* unroll: it is the last of its partial sums, and what those are is shown *)
(* by the least index at which it would be otherwise.                      *)

LEMMA Least ==
  ASSUME NEW S, S \subseteq Nat, S # {}
  PROVE  Min(S) \in S /\ \A y \in S : Min(S) <= y
<1> DEFINE Less == OpToRel(<, Nat)
<1>1. IsWellFoundedOn(Less, Nat)
  BY NatLessThanWellFounded
<1> HIDE DEF Less
<1>2. PICK k \in S : \A j \in S : ~(<<j, k>> \in Less)
  BY <1>1, WFMin
<1>3. \A j \in S : ~(j < k)
  BY <1>2 DEF Less, OpToRel
<1>4. \A j \in S : k <= j
  BY <1>2, <1>3
<1> QED BY <1>2, <1>4 DEF Min

(* Induction up to n, of a set instead of a predicate.                     *)
LEMMA UpTo ==
  ASSUME NEW n \in Nat, NEW S, 0 \in S,
         \A k \in 1..n : k - 1 \in S => k \in S
  PROVE  \A k \in 0..n : k \in S
<1> DEFINE Misses == {k \in 0..n : k \notin S}
<1>1. Misses \subseteq Nat
  OBVIOUS
<1> SUFFICES ASSUME Misses # {} PROVE FALSE
  OBVIOUS
<1> HIDE DEF Misses
<1>2. Min(Misses) \in Misses /\ \A y \in Misses : Min(Misses) <= y
  BY <1>1, Least
<1>3. PICK m \in 0..n : m \notin S /\ \A y \in Misses : m <= y
  BY <1>2 DEF Misses
<1>4. m # 0 /\ m \in 1..n /\ m - 1 \in 0..n /\ ~(m <= m - 1)
  BY <1>3
<1>5. m - 1 \in S
  BY <1>3, <1>4 DEF Misses
<1> QED BY <1>3, <1>4, <1>5

LEMMA MaxIn ==
  ASSUME NEW n \in Nat, NEW s \in SUBSET (1..n), s # {}
  PROVE  Max(s) \in s /\ \A j \in s : j <= Max(s)
<1> DEFINE Above == {k \in Nat : \A j \in s : j <= k}
<1>1. Above \subseteq Nat /\ n \in Above
  OBVIOUS
<1>2. PICK m \in Above : \A y \in Above : m <= y
  <2> HIDE DEF Above
  <2> QED BY <1>1, Least
<1>3. m \in s
  <2> SUFFICES ASSUME m \notin s PROVE FALSE
    OBVIOUS
  <2>1. \A j \in s : j \in 1..n /\ j <= m /\ j # m
    BY <1>2
  <2>2. m \in Nat /\ \A j \in s : j <= m - 1
    BY <1>2, <2>1
  <2>3. m - 1 \in Nat
    <3>1. PICK j \in s : TRUE
      OBVIOUS
    <3> QED BY <2>1, <2>2, <3>1
  <2>4. m - 1 \in Above
    BY <2>2, <2>3
  <2> QED BY <1>2, <2>2, <2>4
<1>4. \A j \in s : m >= j
  BY <1>2
<1> QED BY <1>3, <1>4 DEF Max

(* What FoldLeft builds for the first n rows, of all their subsets.        *)
Folds(f, rows, n) ==
  f = [s \in SUBSET (1..n) |->
         IF s = {} THEN 0 ELSE f[s \ {Max(s)}] + Accounted(rows[Max(s)])]

LEMMA FoldExists ==
  ASSUME NEW rows, NEW n \in Nat
  PROVE  \E f : Folds(f, rows, n)
<1> DEFINE S == {k \in Nat : \E f : Folds(f, rows, k)}
           V(k) == Accounted(rows[k])
<1>1. 0 \in S
  <2> DEFINE f == [s \in SUBSET (1..0) |-> 0]
  <2>1. \A s \in SUBSET (1..0) : s = {}
    OBVIOUS
  <2>2. f = [s \in SUBSET (1..0) |->
               IF s = {} THEN 0 ELSE f[s \ {Max(s)}] + V(Max(s))]
    BY <2>1
  <2>3. Folds(f, rows, 0)
    BY <2>2 DEF Folds
  <2> QED BY <2>3
<1>2. ASSUME NEW k \in 1..n, k - 1 \in S PROVE k \in S
  <2>1. PICK f : Folds(f, rows, k - 1)
    BY <1>2
  <2> DEFINE Sum(g, s) == IF s = {} THEN 0 ELSE g[s \ {Max(s)}] + V(Max(s))
             h == [s \in SUBSET (1..k) |->
                     IF k \in s THEN f[s \ {k}] + V(k) ELSE f[s]]
  <2>2. \A s \in SUBSET (1..(k - 1)) : f[s] = Sum(f, s)
    BY <2>1, Zenon DEF Folds
  <2>3. \A s \in SUBSET (1..k) : h[s] = Sum(h, s)
    <3> TAKE s \in SUBSET (1..k)
    <3>1. s # {} => Max(s) \in s /\ \A j \in s : j <= Max(s)
      BY MaxIn
    <3>2. CASE k \in s
      <4>1. Max(s) \in 1..k /\ k <= Max(s) /\ Max(s) <= k /\ k \in Int
        <5>1. Max(s) \in s /\ s \subseteq 1..k
          BY <3>1, <3>2
        <5>2. k <= Max(s)
          BY <3>1, <3>2
        <5>3. Max(s) \in 1..k
          BY <5>1
        <5> HIDE DEF V, Sum, h
        <5> QED BY <5>2, <5>3
      <4>0. Max(s) = k
        BY <4>1
      <4>2. s \ {k} \in SUBSET (1..k) /\ k \notin s \ {k}
        OBVIOUS
      <4>3. h[s \ {k}] = f[s \ {k}]
        BY <4>2
      <4>4. h[s] = f[s \ {k}] + V(k)
        BY <3>2
      <4> HIDE DEF h, V
      <4> QED BY <3>2, <4>0, <4>3, <4>4
    <3>3. CASE k \notin s
      <4>1. s \in SUBSET (1..(k - 1))
        BY <3>3
      <4>2. h[s] = f[s]
        BY <3>3
      <4>3. s # {} => s \ {Max(s)} \in SUBSET (1..k) /\ k \notin s \ {Max(s)}
        BY <3>3
      <4>4. s # {} => h[s \ {Max(s)}] = f[s \ {Max(s)}]
        BY <4>3
      <4>5. f[s] = Sum(f, s)
        BY <2>2, <4>1
      <4> HIDE DEF h, V
      <4> QED BY <4>2, <4>4, <4>5
    <3> QED BY <3>2, <3>3
  <2>4. h = [s \in SUBSET (1..k) |-> h[s]]
    OBVIOUS
  <2>5. Folds(h, rows, k)
    <3> HIDE DEF h
    <3> QED BY <2>3, <2>4 DEF Folds
  <2> QED BY <2>5
<1>3. \A k \in 0..n : k \in S
  <2> HIDE DEF S
  <2> QED BY <1>1, <1>2, UpTo
<1> QED BY <1>3

(* The sums of the first 0, 1, ..., n rows.                                *)
Sums(g, rows, n) ==
  g[0] = 0 /\ \A k \in 1..n : g[k] = g[k - 1] + Accounted(rows[k])

LEMMA TotalIs ==
  ASSUME NEW T, NEW rows \in Seq(T)
  PROVE  \E g : Sums(g, rows, Len(rows)) /\ Total(rows) = g[Len(rows)]
<1> DEFINE n == Len(rows)
           f == CHOOSE f : f = [s \in SUBSET (1..n) |->
                  IF s = {} THEN 0 ELSE f[s \ {Max(s)}] + Accounted(rows[Max(s)])]
           g == [k \in 0..n |-> f[1..k]]
<1>1. n \in Nat /\ DOMAIN rows = 1..n
  OBVIOUS
<1>2. Total(rows) = f[1..n]
  BY <1>1 DEF Total, FoldLeft, MapThenFoldSet
<1>3. Folds(f, rows, n)
  BY <1>1, FoldExists DEF Folds
<1> HIDE DEF f, n
<1>4. \A s \in SUBSET (1..n) : f[s] =
        IF s = {} THEN 0 ELSE f[s \ {Max(s)}] + Accounted(rows[Max(s)])
  BY <1>3, Zenon DEF Folds
<1>5. g[0] = 0
  <2>1. 1..0 = {} /\ {} \in SUBSET (1..n)
    OBVIOUS
  <2>2. g[0] = f[{}]
    BY <1>1, <2>1
  <2> QED BY <1>4, <2>1, <2>2
<1>6. ASSUME NEW k \in 1..n PROVE g[k] = g[k - 1] + Accounted(rows[k])
  <2>1. 1..k \in SUBSET (1..n) /\ 1..k # {}
    BY <1>1
  <2>2. Max(1..k) \in 1..k /\ \A j \in 1..k : j <= Max(1..k)
    BY <1>1, <2>1, MaxIn
  <2>3. Max(1..k) = k
    BY <2>2
  <2>4. (1..k) \ {k} = 1..(k - 1)
    BY <1>1
  <2>5. f[1..k] = f[1..(k - 1)] + Accounted(rows[k])
    BY <1>4, <2>1, <2>3, <2>4
  <2>6. g[k] = f[1..k] /\ g[k - 1] = f[1..(k - 1)]
    BY <1>1
  <2> QED BY <2>5, <2>6
<1>7. g[n] = f[1..n]
  BY <1>1
<1> HIDE DEF g
<1>8. Sums(g, rows, n)
  BY <1>5, <1>6 DEF Sums
<1> QED BY <1>2, <1>7, <1>8 DEF n

(* Two sequences of sums that differ in one summand, or in none.           *)
AlikeBut(i, a, b, n) ==
  \A k \in 1..n : /\ Accounted(a[k]) \in Nat /\ Accounted(b[k]) \in Nat
                  /\ k # i => Accounted(a[k]) = Accounted(b[k])

LEMMA SumsDiffer ==
  ASSUME NEW n \in Nat, NEW a, NEW b, NEW g, NEW h, NEW i \in 1..(n + 1),
         Sums(g, a, n), Sums(h, b, n), AlikeBut(i, a, b, n)
  PROVE  /\ g[n] \in Nat
         /\ h[n] = IF i \in 1..n THEN g[n] - Accounted(a[i]) + Accounted(b[i]) ELSE g[n]
<1> DEFINE A(k) == Accounted(a[k])
           B(k) == Accounted(b[k])
           S == {k \in 0..n : /\ g[k] \in Nat /\ h[k] \in Nat
                              /\ h[k] = IF i <= k THEN g[k] - A(i) + B(i) ELSE g[k]}
<1>1. g[0] = 0 /\ h[0] = 0 /\ \A k \in 1..n : g[k] = g[k - 1] + A(k) /\ h[k] = h[k - 1] + B(k)
  BY DEF Sums
<1>2. \A k \in 1..n : A(k) \in Nat /\ B(k) \in Nat /\ (k # i => A(k) = B(k))
  BY DEF AlikeBut
<1> HIDE DEF A, B
<1>3. 0 \in S
  BY <1>1
<1>4. ASSUME NEW k \in 1..n, k - 1 \in S PROVE k \in S
  BY <1>1, <1>2, <1>4
<1>5. n \in S
  <2> HIDE DEF S
  <2>1. \A k \in 0..n : k \in S
    BY <1>3, <1>4, UpTo
  <2> QED BY <2>1
<1> QED BY <1>5 DEF A, B

LEMMA AccountedTyped ==
  ASSUME NEW row \in Row
  PROVE  Accounted(row) \in 0..Ceiling
BY LedgerAssumption DEF Row, Accounted, Unknown

LEMMA TotalTyped ==
  ASSUME NEW rows \in Seq(Row)
  PROVE  Total(rows) \in Nat
<1> DEFINE n == Len(rows)
<1>1. n \in Nat /\ \A k \in 1..n : rows[k] \in Row
  OBVIOUS
<1>2. PICK g : Sums(g, rows, n) /\ Total(rows) = g[n]
  BY TotalIs
<1> HIDE DEF n
<1>3. \A k \in 1..n : Accounted(rows[k]) \in Nat
  BY <1>1, AccountedTyped, LedgerAssumption
<1>4. n + 1 \in 1..(n + 1)
  BY <1>1
<1>5. AlikeBut(n + 1, rows, rows, n)
  BY <1>3 DEF AlikeBut
<1>6. g[n] \in Nat
  BY <1>1, <1>2, <1>4, <1>5, SumsDiffer
<1> QED BY <1>2, <1>6

(* A row more, and a row in place of another.                              *)
LEMMA TotalAppend ==
  ASSUME NEW rows \in Seq(Row), NEW row \in Row
  PROVE  Total(Append(rows, row)) = Total(rows) + Accounted(row)
<1> DEFINE n == Len(rows)
           more == Append(rows, row)
<1>1. /\ n \in Nat /\ Len(more) = n + 1 /\ more \in Seq(Row) /\ more[n + 1] = row
      /\ \A k \in 1..n : rows[k] \in Row /\ more[k] = rows[k]
  BY AppendProperties
<1>2. PICK g : Sums(g, rows, n) /\ Total(rows) = g[n]
  BY TotalIs
<1>3. PICK h : Sums(h, more, n + 1) /\ Total(more) = h[n + 1]
  BY <1>1, TotalIs
<1> HIDE DEF n, more
<1>4. Sums(h, more, n)
  BY <1>1, <1>3 DEF Sums
<1>5. n + 1 \in 1..(n + 1) /\ n + 1 \notin 1..n
  BY <1>1
<1>6. \A k \in 1..n : /\ Accounted(rows[k]) \in Nat /\ Accounted(more[k]) \in Nat
                      /\ Accounted(rows[k]) = Accounted(more[k])
  BY <1>1, AccountedTyped, LedgerAssumption
<1>7. h[n] = g[n]
  <2> DEFINE i == n + 1
  <2>1. i \in 1..(n + 1) /\ i \notin 1..n
    BY <1>5
  <2> HIDE DEF i
  <2>2. h[n] = IF i \in 1..n THEN g[n] - Accounted(rows[i]) + Accounted(more[i]) ELSE g[n]
    <3>1. AlikeBut(i, rows, more, n)
      BY <1>6 DEF AlikeBut
    <3>2. Sums(g, rows, n) /\ n \in Nat
      BY <1>1, <1>2
    <3> QED BY <1>4, <2>1, <3>1, <3>2, SumsDiffer
  <2> QED BY <2>1, <2>2
<1>8. h[n + 1] = h[n] + Accounted(more[n + 1])
  <2> DEFINE p == n + 1
  <2>1. p \in 1..p /\ p - 1 = n
    BY <1>1
  <2>2. Sums(h, more, p)
    BY <1>3
  <2> HIDE DEF p
  <2>3. h[p] = h[p - 1] + Accounted(more[p])
    BY <2>1, <2>2 DEF Sums
  <2> QED BY <2>1, <2>3 DEF p
<1> QED BY <1>1, <1>2, <1>3, <1>7, <1>8 DEF more

LEMMA TotalExcept ==
  ASSUME NEW rows \in Seq(Row), NEW row \in Row, NEW i \in 1..Len(rows)
  PROVE  Total([rows EXCEPT ![i] = row]) = Total(rows) - Accounted(rows[i]) + Accounted(row)
<1> DEFINE n == Len(rows)
           other == [rows EXCEPT ![i] = row]
<1>1. /\ n \in Nat /\ Len(other) = n /\ other \in Seq(Row) /\ other[i] = row
      /\ i \in 1..n /\ i \in 1..(n + 1)
      /\ \A k \in 1..n : rows[k] \in Row /\ other[k] \in Row /\ (k # i => other[k] = rows[k])
  OBVIOUS
<1>2. PICK g : Sums(g, rows, n) /\ Total(rows) = g[n]
  BY TotalIs
<1>3. PICK h : Sums(h, other, n) /\ Total(other) = h[n]
  BY <1>1, TotalIs
<1> HIDE DEF n, other
<1>4. \A k \in 1..n : /\ Accounted(rows[k]) \in Nat /\ Accounted(other[k]) \in Nat
                      /\ k # i => Accounted(rows[k]) = Accounted(other[k])
  <2> TAKE k \in 1..n
  <2>1. rows[k] \in Row /\ other[k] \in Row /\ (k # i => other[k] = rows[k])
    BY <1>1
  <2>2. Accounted(rows[k]) \in 0..Ceiling /\ Accounted(other[k]) \in 0..Ceiling
    BY <2>1, AccountedTyped
  <2> QED BY <2>1, <2>2
<1>5. h[n] = g[n] - Accounted(rows[i]) + Accounted(other[i])
  <2>1. AlikeBut(i, rows, other, n)
    BY <1>4 DEF AlikeBut
  <2> QED BY <1>1, <1>2, <1>3, <2>1, SumsDiffer
<1> QED BY <1>1, <1>2, <1>3, <1>5 DEF other
-----------------------------------------------------------------------------
(* LiveGeneration: the inductive invariant.                                *)

Buying == {"reserve", "reserving", "reserved", "complete", "completing", "completed"}
Asking == {"reserved", "complete", "completing"}

AuthorityType == (UNION Range(Authorities)) \cup {None}

Memory ==
  [index : Nat \ {0}, authority : AuthorityType,
   results : [Cases -> {"absent", "completed", "failed"}],
   drafts : [Cases -> Draft], outputs : SUBSET Cases, failures : BOOLEAN,
   rows : Seq(Row), before : Nat, attempts : 0..4,
   retried : BOOLEAN, repairing : BOOLEAN, file : 1..5]

(* TypeOK, and the types of what a launcher and a seal remember.           *)
Typed ==
  /\ TypeOK
  /\ mem \in [Launchers -> Memory]
  /\ launches \in [Launchers -> Nat]
  /\ sealed \in [Executions -> [sealed : BOOLEAN, ledger : Seq(Row)]]

(* The launcher is at a case that was selected, and knows where a save is. *)
AtCase(l) ==
  /\ mem[l].index <= Len(Selected[ExecutionOf[l]]) + 1
  /\ pc[l] \in Buying \cup {"check", "save"} =>
       mem[l].index <= Len(Selected[ExecutionOf[l]])
  /\ pc[l] # "save" => mem[l].file = 1

(* One retry of each content, one repair: never more than four sends.      *)
Tried(m) == (IF m.repairing THEN 2 ELSE 0) + (IF m.retried THEN 1 ELSE 0)
Counts(l) ==
  /\ pc[l] = "reserve" => mem[l].attempts <= Tried(mem[l])
  /\ pc[l] \in Buying \ {"reserve"} => mem[l].attempts \in 1..(Tried(mem[l]) + 1)

(* From its reservation to its answer a request has its row, still open,   *)
(* and is charged at most what the answer says or the ceiling.             *)
Asks(l) ==
  /\ pc[l] \in Asking =>
       /\ seq[l] \in DOMAIN ledger
       /\ ledger[seq[l]] = Reserved(ExecutionOf[l], CaseOf(l))
  /\ pc[l] = "reserved" => billed[seq[l]] = 0
  /\ pc[l] \in {"complete", "completing"} => billed[seq[l]] <= Accounted(reply[l])
  /\ pc[l] \in {"complete", "completing", "completed"} => reply[l] \in Replies

(* The directory is as far as its launcher has made it, and of the version *)
(* the launcher was given.                                                 *)
Place(l) ==
  /\ pc[l] = "initialize" => disk[ExecutionOf[l]].stage = "absent"
  /\ pc[l] = "files" => disk[ExecutionOf[l]].stage = "made"
  /\ pc[l] \notin {"down", "initialize", "files"} =>
       /\ disk[ExecutionOf[l]].stage = "ready"
       /\ disk[ExecutionOf[l]].authority = mem[l].authority

(* A launcher remembers at least what its files say: the drafts, what is   *)
(* completed and, outside a save, every result. What it buys or checks is  *)
(* not completed; and it goes past a completed manifest without stopping.  *)
Remembers(l) ==
  LET d == disk[ExecutionOf[l]]
      m == mem[l] IN
  pc[l] # "down" =>
    /\ m.drafts = d.drafts
    /\ \A c \in Cases : d.results[c] = "completed" => m.results[c] = "completed"
    /\ \A c \in Cases : m.results[c] = "completed" => m.drafts[c].kind = "sound"
    /\ pc[l] # "save" \/ m.file > 1 => m.results = d.results
    /\ pc[l] \in Buying => m.drafts[CaseOf(l)] = NoDraft
    /\ pc[l] = "check" => m.results[CaseOf(l)] # "completed"
    /\ d.manifest.completed => pc[l] = "case"

Agree(rows, others, e) ==
  /\ SendsOf(rows, e) = SendsOf(others, e)
  /\ \A i \in SendsOf(rows, e) : rows[i] = others[i]

(* What is known of the ledger is old, but as it was: the launcher knows   *)
(* all rows of its execution, and no total of as many rows is below what   *)
(* the ledger has now. The manifest knows no more than the launcher.       *)
Knows(l) ==
  LET m == mem[l]
      manifest == disk[ExecutionOf[l]].manifest IN
  pc[l] # "down" =>
    /\ Agree(m.rows, ledger, ExecutionOf[l])
    /\ Len(m.rows) <= Len(ledger)
    /\ Len(m.rows) = Len(ledger) => Total(ledger) <= Total(m.rows)
    /\ manifest.campaign <= Len(m.rows)
    /\ manifest.campaign = Len(m.rows) => Total(m.rows) <= manifest.units

(* What the files of an output say of one another and of the ledger.       *)
Output(e) ==
  LET d == disk[e] IN
  /\ d.stage # "ready" => d = [EmptyOutput EXCEPT !.stage = d.stage]
  /\ \A c \in Cases : d.results[c] = "completed" => d.drafts[c].kind = "sound"
  /\ d.manifest.completed => \A c \in Chosen(e) : d.results[c] = "completed"
  /\ d.manifest.campaign <= Len(ledger)
  /\ d.manifest.campaign = Len(ledger) => Total(ledger) <= d.manifest.units

(* The ledger has gone on from an old one: its rows only settle.           *)
Since(old) ==
  /\ Len(old) <= Len(ledger)
  /\ \A i \in DOMAIN old : old[i].status # "reserved" => ledger[i] = old[i]

(* Sealable, but for the campaign's own totals: the other executions go on.*)
Whole(e) ==
  LET d == disk[e]
      sends == SendsOf(ledger, e) IN
  /\ d.stage = "ready" /\ d.manifest.completed
  /\ \A c \in Chosen(e) : d.results[c] = "completed" /\ d.drafts[c] # NoDraft
  /\ OutputsWhole(e) /\ ~d.failures
  /\ d.sends = RowsOf(ledger, e) /\ Cardinality(sends) = d.manifest.sends
  /\ Attempts(d.drafts, Chosen(e)) = Cardinality(sends)
  /\ \A i \in sends : ledger[i].status = "succeeded" /\ ledger[i].units # Unknown

SealFits(e) ==
  sealed[e].sealed =>
    /\ Whole(e) /\ Since(sealed[e].ledger)
    /\ sealed[e].ledger = ledger =>
         /\ Len(ledger) = disk[e].manifest.campaign
         /\ Total(ledger) = disk[e].manifest.units

Own(l) ==
  /\ AtCase(l) /\ Counts(l) /\ Asks(l) /\ Place(l) /\ Remembers(l) /\ Knows(l)

GenerationInv ==
  /\ Typed /\ LedgerCoversBill
  /\ \A l \in Launchers : Own(l)
  /\ \A e \in Executions : Output(e) /\ SealFits(e)
-----------------------------------------------------------------------------
(* Ledgers.                                                                *)

LEMMA Selections ==
  /\ ExecutionOf \in [Launchers -> Executions]
  /\ \A k, l \in Launchers : ExecutionOf[k] = ExecutionOf[l] => k = l
  /\ \A e \in Executions : Selected[e] \in Seq(Cases)
BY GenerationAssumption DEF Injection, IsInjective

LEMMA CaseTyped ==
  ASSUME Typed, NEW l \in Launchers, mem[l].index <= Len(Selected[ExecutionOf[l]])
  PROVE  CaseOf(l) \in Cases /\ CaseOf(l) \in Chosen(ExecutionOf[l])
<1>1. Selected[ExecutionOf[l]] \in Seq(Cases) /\ mem[l].index \in Nat \ {0}
  BY Selections DEF Typed, Memory
<1>2. mem[l].index \in DOMAIN Selected[ExecutionOf[l]]
  BY <1>1
<1> QED BY <1>1, <1>2 DEF CaseOf, Chosen

LEMMA SendsFinite ==
  ASSUME NEW rows \in Seq(Row), NEW e
  PROVE  /\ IsFiniteSet(SendsOf(rows, e)) /\ Cardinality(SendsOf(rows, e)) \in Nat
         /\ SendsOf(rows, e) \subseteq 1..Len(rows)
<1>1. SendsOf(rows, e) \subseteq 1..Len(rows) /\ Len(rows) \in Nat
  BY DEF SendsOf
<1>2. IsFiniteSet(1..Len(rows))
  BY <1>1, FS_Interval
<1> QED BY <1>1, <1>2, FS_Subset, FS_CardinalityType

(* A row as it is completed.                                               *)
Settled(old, row) ==
  /\ row \in Row /\ old.status = "reserved" /\ row.status # "reserved"
  /\ row.execution = old.execution /\ row.case = old.case
  /\ Accounted(row) <= Accounted(old)

(* All that a launcher of execution e may do to the ledger.                *)
LedgerStep(e) ==
  \/ ledger' = ledger
  \/ \E c \in Cases : MayReserve(ledger, e, c) /\ ledger' = Append(ledger, Reserved(e, c))
  \/ \E i \in SendsOf(ledger, e) : \E row :
       Settled(ledger[i], row) /\ ledger' = [ledger EXCEPT ![i] = row]

LEMMA ReservedTyped ==
  ASSUME NEW e \in Executions, NEW c \in Cases
  PROVE  Reserved(e, c) \in Row /\ Accounted(Reserved(e, c)) = Ceiling
BY DEF Reserved, Row, Accounted

(* Whatever launchers do, the ledger's rows only settle, its total with as *)
(* many rows only falls, and it stays within the caps.                     *)
LEMMA LedgerGoesOn ==
  ASSUME NEW e \in Executions, LedgerStep(e), ledger \in Seq(Row)
  PROVE  /\ ledger' \in Seq(Row)
         /\ Len(ledger) <= Len(ledger')
         /\ \A i \in DOMAIN ledger : /\ ledger[i].status # "reserved" => ledger'[i] = ledger[i]
                                     /\ ledger'[i].execution = ledger[i].execution
                                     /\ ledger'[i].case = ledger[i].case
                                     /\ Accounted(ledger'[i]) <= Accounted(ledger[i])
                                     /\ ledger'[i].status = "reserved" => ledger'[i] = ledger[i]
         /\ Len(ledger') = Len(ledger) => Total(ledger') <= Total(ledger)
         /\ Len(ledger) <= MaxSends /\ Total(ledger) <= MaxUnits =>
              Len(ledger') <= MaxSends /\ Total(ledger') <= MaxUnits
<1>0. Len(ledger) \in Nat /\ Total(ledger) \in Nat /\ \A i \in DOMAIN ledger : ledger[i] \in Row
  BY TotalTyped
<1>a. \A i \in DOMAIN ledger : Accounted(ledger[i]) \in 0..Ceiling
  BY <1>0, AccountedTyped
<1>1. CASE ledger' = ledger
  BY <1>0, <1>1, <1>a
<1>2. ASSUME NEW c \in Cases, MayReserve(ledger, e, c), ledger' = Append(ledger, Reserved(e, c))
      PROVE  /\ ledger' \in Seq(Row) /\ Len(ledger') = Len(ledger) + 1
             /\ Total(ledger') = Total(ledger) + Ceiling
             /\ Len(ledger') <= MaxSends /\ Total(ledger') <= MaxUnits
             /\ \A i \in DOMAIN ledger : ledger'[i] = ledger[i]
  <2>1. Reserved(e, c) \in Row /\ Accounted(Reserved(e, c)) = Ceiling
    BY ReservedTyped
  <2>2. Total(ledger') = Total(ledger) + Ceiling
    BY <1>2, <2>1, TotalAppend
  <2>3. ledger' \in Seq(Row) /\ Len(ledger') = Len(ledger) + 1
      /\ \A i \in 1..Len(ledger) : ledger'[i] = ledger[i]
    BY <1>2, <2>1, AppendProperties
  <2>4. Len(ledger) < MaxSends /\ Total(ledger) + Ceiling <= MaxUnits
    BY <1>2 DEF MayReserve
  <2> QED BY <1>0, <2>2, <2>3, <2>4, LedgerAssumption
<1>3. ASSUME NEW i \in SendsOf(ledger, e), NEW row, Settled(ledger[i], row),
             ledger' = [ledger EXCEPT ![i] = row]
      PROVE  /\ ledger' \in Seq(Row) /\ Len(ledger') = Len(ledger)
             /\ Total(ledger') <= Total(ledger)
             /\ \A k \in DOMAIN ledger : IF k = i THEN ledger'[k] = row ELSE ledger'[k] = ledger[k]
  <2>1. i \in 1..Len(ledger) /\ row \in Row /\ Accounted(row) <= Accounted(ledger[i])
    BY <1>3 DEF SendsOf, Settled
  <2>2. Total(ledger') = Total(ledger) - Accounted(ledger[i]) + Accounted(row)
    BY <1>3, <2>1, TotalExcept
  <2>3. Accounted(row) \in 0..Ceiling /\ Accounted(ledger[i]) \in 0..Ceiling
    BY <1>a, <2>1, AccountedTyped
  <2>4. Total(ledger') <= Total(ledger)
    BY <1>0, <2>1, <2>2, <2>3, LedgerAssumption
  <2> QED BY <1>3, <2>1, <2>4
<1>4. CASE \E c \in Cases : MayReserve(ledger, e, c) /\ ledger' = Append(ledger, Reserved(e, c))
  <2>1. PICK c \in Cases : MayReserve(ledger, e, c) /\ ledger' = Append(ledger, Reserved(e, c))
    BY <1>4
  <2> QED BY <1>0, <1>2, <1>a, <2>1, LedgerAssumption
<1>5. CASE \E i \in SendsOf(ledger, e) : \E row :
             Settled(ledger[i], row) /\ ledger' = [ledger EXCEPT ![i] = row]
  <2>0. PICK i \in SendsOf(ledger, e) :
          \E row : Settled(ledger[i], row) /\ ledger' = [ledger EXCEPT ![i] = row]
    BY <1>5
  <2>1. PICK row : Settled(ledger[i], row) /\ ledger' = [ledger EXCEPT ![i] = row]
    BY <2>0
  <2>2. /\ ledger' \in Seq(Row) /\ Len(ledger') = Len(ledger)
        /\ Total(ledger') <= Total(ledger)
        /\ \A k \in DOMAIN ledger : IF k = i THEN ledger'[k] = row ELSE ledger'[k] = ledger[k]
    BY <1>3, <2>1
  <2>3. /\ ledger[i].status = "reserved" /\ row.status # "reserved"
        /\ row.execution = ledger[i].execution /\ row.case = ledger[i].case
        /\ Accounted(row) <= Accounted(ledger[i])
    BY <2>1 DEF Settled
  <2>4. Total(ledger') \in Nat
    BY <2>2, TotalTyped
  <2> QED BY <1>0, <1>a, <2>2, <2>3, <2>4, LedgerAssumption
<1> QED BY <1>1, <1>4, <1>5 DEF LedgerStep

(* The rows of another execution, and of another case, are left alone.     *)
LEMMA OthersRowsKept ==
  ASSUME NEW e \in Executions, LedgerStep(e), ledger \in Seq(Row),
         NEW f \in Executions, f # e
  PROVE  Agree(ledger', ledger, f)
<1>0. Len(ledger) \in Nat /\ \A i \in DOMAIN ledger : ledger[i] \in Row
  OBVIOUS
<1>1. CASE ledger' = ledger
  BY <1>1 DEF Agree
<1>2. ASSUME NEW c \in Cases, ledger' = Append(ledger, Reserved(e, c))
      PROVE  Agree(ledger', ledger, f)
  <2>1. Reserved(e, c) \in Row /\ Reserved(e, c).execution = e
    BY ReservedTyped DEF Reserved
  <2>2. /\ DOMAIN ledger' = 1..(Len(ledger) + 1) /\ DOMAIN ledger = 1..Len(ledger)
        /\ ledger'[Len(ledger) + 1] = Reserved(e, c)
        /\ \A i \in 1..Len(ledger) : ledger'[i] = ledger[i]
    BY <1>2, <2>1, AppendProperties
  <2> QED BY <1>0, <2>1, <2>2 DEF Agree, SendsOf
<1>3. ASSUME NEW i \in SendsOf(ledger, e), NEW row, Settled(ledger[i], row),
             ledger' = [ledger EXCEPT ![i] = row]
      PROVE  Agree(ledger', ledger, f)
  <2>1. i \in DOMAIN ledger /\ ledger[i].execution = e /\ row.execution = e
    BY <1>3 DEF SendsOf, Settled
  <2>2. /\ DOMAIN ledger' = DOMAIN ledger /\ ledger'[i] = row
        /\ \A k \in DOMAIN ledger : k # i => ledger'[k] = ledger[k]
    BY <1>3, <2>1
  <2> QED BY <2>1, <2>2 DEF Agree, SendsOf
<1> QED BY <1>1, <1>2, <1>3 DEF LedgerStep

LEMMA AgreeingRows ==
  ASSUME NEW rows, NEW others, NEW e, Agree(rows, others, e)
  PROVE  /\ RowsOf(rows, e) = RowsOf(others, e)
         /\ \A c : CaseSends(rows, e, c) = CaseSends(others, e, c)
<1>1. SendsOf(rows, e) = SendsOf(others, e) /\ \A i \in SendsOf(rows, e) : rows[i] = others[i]
  BY DEF Agree
<1>2. RowsOf(rows, e) = RowsOf(others, e)
  BY <1>1 DEF RowsOf
<1>3. ASSUME NEW c PROVE CaseSends(rows, e, c) = CaseSends(others, e, c)
  <2>1. {i \in SendsOf(rows, e) : rows[i].case = c} = {i \in SendsOf(others, e) : others[i].case = c}
    BY <1>1
  <2> QED BY <2>1 DEF CaseSends
<1> QED BY <1>2, <1>3
-----------------------------------------------------------------------------
(* A step of one launcher, seen by the others.                             *)

Frame(l) ==
  /\ LedgerStep(ExecutionOf[l])
  /\ sealed' = sealed
  /\ \A k \in Launchers \ {l} :
       pc'[k] = pc[k] /\ seq'[k] = seq[k] /\ reply'[k] = reply[k] /\ mem'[k] = mem[k]
  /\ \A f \in Executions \ {ExecutionOf[l]} : disk'[f] = disk[f]
  /\ \A s \in Sends : billed'[s] # billed[s] => pc[l] = "reserved" /\ s = seq[l]

LEMMA CompletedRow ==
  ASSUME GenerationInv, NEW l \in Launchers, Complete(l)
  PROVE  /\ seq[l] \in SendsOf(ledger, ExecutionOf[l]) /\ seq[l] \in DOMAIN ledger
         /\ ledger[seq[l]] = Reserved(ExecutionOf[l], CaseOf(l))
         /\ \E row : /\ Settled(ledger[seq[l]], row) /\ ledger' = [ledger EXCEPT ![seq[l]] = row]
                     /\ billed[seq[l]] <= Accounted(row)
<1> DEFINE e == ExecutionOf[l]
           i == seq[l]
           old == ledger[i]
           r == reply[l]
           row == IF r.kind \in Errors THEN Terminal(old, "failed", Unknown)
                  ELSE Terminal(old, "succeeded", r.units)
<1>1. /\ i \in DOMAIN ledger /\ old = Reserved(e, CaseOf(l))
      /\ r \in Replies /\ billed[i] <= Accounted(r)
  BY DEF GenerationInv, Own, Asks, Complete, Asking
<1>2. i \in SendsOf(ledger, e)
  BY <1>1 DEF SendsOf, Reserved
<1>3. ledger' = [ledger EXCEPT ![i] = row]
  BY DEF Complete
<1>4. e \in Executions /\ CaseOf(l) \in Cases
  <2>1. pc[l] = "completing"
    BY DEF Complete
  <2>2. mem[l].index <= Len(Selected[ExecutionOf[l]])
    BY <2>1 DEF GenerationInv, Own, AtCase, Buying
  <2> QED BY <2>2, CaseTyped, Selections DEF GenerationInv
<1>5. r \in ProviderReplies
  BY <1>1, GenerationAssumption
<1>6. r.units \in (0..Ceiling) \cup {Unknown}
  BY <1>5, LedgerAssumption DEF ProviderReplies
<1>7. billed[i] <= Ceiling /\ Accounted(r) <= Ceiling
  <2>1. Accounted(r) \in 0..Ceiling
    BY <1>6, LedgerAssumption DEF Accounted, Unknown
  <2>2. billed[i] \in Nat
    <3>1. ledger \in Seq(Row) /\ Len(ledger) <= MaxSends /\ billed \in [Sends -> Nat]
      BY DEF GenerationInv, Typed, TypeOK, LedgerCoversBill
    <3>2. i \in 1..Len(ledger)
      BY <1>1, <3>1
    <3> QED BY <3>1, <3>2, LedgerAssumption DEF Sends
  <2> QED BY <1>1, <2>1, <2>2, LedgerAssumption
<1>8. /\ old \in [execution : {e}, case : {CaseOf(l)}, status : {"reserved"}, units : {Unknown}]
      /\ Accounted(old) = Ceiling
  BY <1>1 DEF Reserved, Accounted
<1> HIDE DEF e, i, old, r
<1>9. CASE r.kind \in Errors
  <2>1. row = [old EXCEPT !.status = "failed", !.units = Unknown]
    BY <1>9 DEF Terminal
  <2>2. row \in [execution : {e}, case : {CaseOf(l)}, status : {"failed"}, units : {Unknown}]
    BY <1>8, <2>1
  <2> HIDE DEF row
  <2>3. Accounted(row) = Ceiling
    BY <2>2 DEF Accounted
  <2>4. Settled(old, row)
    BY <1>4, <1>8, <2>2, <2>3, LedgerAssumption DEF Settled, Row
  <2>5. billed[i] <= Accounted(row)
    BY <1>7, <2>3
  <2> QED BY <1>1, <1>2, <1>3, <2>4, <2>5 DEF old, e, i
<1>10. CASE r.kind \notin Errors
  <2>1. row = [old EXCEPT !.status = "succeeded", !.units = r.units]
    BY <1>10 DEF Terminal
  <2>2. row \in [execution : {e}, case : {CaseOf(l)}, status : {"succeeded"}, units : {r.units}]
    BY <1>8, <2>1
  <2> HIDE DEF row
  <2>3. Accounted(row) = Accounted(r)
    BY <2>2 DEF Accounted
  <2>4. Settled(old, row)
    BY <1>4, <1>6, <1>7, <1>8, <2>2, <2>3, LedgerAssumption DEF Settled, Row
  <2>5. billed[i] <= Accounted(row)
    BY <1>1, <2>3
  <2> QED BY <1>1, <1>2, <1>3, <2>4, <2>5 DEF old, e, i
<1> QED BY <1>9, <1>10

LEMMA Framed ==
  ASSUME GenerationInv, NEW l \in Launchers, Step(l)
  PROVE  Frame(l)
<1> DEFINE e == ExecutionOf[l]
           LaunchersKept == \A k \in Launchers \ {l} :
             pc'[k] = pc[k] /\ seq'[k] = seq[k] /\ reply'[k] = reply[k] /\ mem'[k] = mem[k]
           DiskKept == \A f \in Executions \ {e} : disk'[f] = disk[f]
           BillKept == \A s \in Sends : billed'[s] # billed[s] => pc[l] = "reserved" /\ s = seq[l]
<1>1. Typed
  BY DEF GenerationInv
<1>2. /\ pc \in [Launchers -> Pcs] /\ seq \in [Launchers -> 0..MaxSends]
      /\ reply \in [Launchers -> Replies \cup {NoReply}] /\ mem \in [Launchers -> Memory]
      /\ DOMAIN disk = Executions /\ billed \in [Sends -> Nat]
  BY <1>1 DEF Typed, TypeOK
<1>a. e \in Executions
  BY Selections
<1> HIDE DEF e
<1>3. CASE Launch(l)
  BY <1>2, <1>3 DEF Frame, LedgerStep, Launch, campaign
<1>4. CASE Initialize(l)
  BY <1>2, <1>4 DEF Frame, LedgerStep, Initialize, campaign, outside
<1>5. CASE NextCase(l)
  BY <1>2, <1>5 DEF Frame, LedgerStep, NextCase, campaign, outside
<1>6. CASE Acquire(l)
  BY <1>2, <1>6 DEF Frame, LedgerStep, Acquire, outside
<1>7. CASE Reserve(l)
  <2>1. LedgerStep(ExecutionOf[l])
    <3>1. CASE ledger' = ledger
      BY <3>1 DEF LedgerStep
    <3>2. CASE /\ MayReserve(ledger, ExecutionOf[l], CaseOf(l))
               /\ ledger' = Append(ledger, Reserved(ExecutionOf[l], CaseOf(l)))
      <4>1. mem[l].index <= Len(Selected[ExecutionOf[l]])
        BY <1>7 DEF GenerationInv, Own, AtCase, Buying, Reserve
      <4>2. CaseOf(l) \in Cases
        BY <1>1, <4>1, CaseTyped
      <4> QED BY <3>2, <4>2 DEF LedgerStep
    <3> QED BY <1>7, <3>1, <3>2 DEF Reserve
  <2> QED BY <1>2, <1>7, <2>1 DEF Frame, Reserve, outside
<1>8. CASE Transport(l)
  <2>1. PICK n : billed' = [billed EXCEPT ![seq[l]] = n]
    BY <1>8 DEF Transport
  <2>2. BillKept
    BY <1>2, <1>8, <2>1 DEF Transport
  <2> QED BY <1>2, <1>8, <2>2 DEF Frame, LedgerStep, Transport, outside
<1>9. CASE Complete(l)
  <2>1. LedgerStep(ExecutionOf[l])
    BY <1>9, CompletedRow DEF LedgerStep
  <2> QED BY <1>2, <1>9, <2>1 DEF Frame, Complete, outside
<1>10. CASE Settle(l)
  <2>1. LaunchersKept
    BY <1>2, <1>10 DEF Settle
  <2>2. DiskKept
    BY <1>2, <1>10 DEF Settle, e
  <2> QED BY <2>1, <2>2, <1>10 DEF Frame, LedgerStep, Settle, outside, e
<1>11. CASE Check(l)
  BY <1>2, <1>11 DEF Frame, LedgerStep, Check, campaign, outside
<1>12. CASE Save(l)
  BY <1>2, <1>12 DEF Frame, LedgerStep, Save, campaign, outside
<1>13. CASE Finish(l)
  BY <1>2, <1>13 DEF Frame, LedgerStep, Finish, campaign, outside
<1>14. CASE Kill(l)
  BY <1>2, <1>14 DEF Frame, LedgerStep, Kill, outside
<1> QED BY <1>3, <1>4, <1>5, <1>6, <1>7, <1>8, <1>9, <1>10, <1>11, <1>12, <1>13, <1>14 DEF Step

LEMMA LedgerGoesOnInFrame ==
  ASSUME GenerationInv, NEW l \in Launchers, Frame(l)
  PROVE  /\ ledger' \in Seq(Row) /\ ledger \in Seq(Row)
         /\ Len(ledger) \in Nat /\ Len(ledger') \in Nat
         /\ Total(ledger) \in Nat /\ Total(ledger') \in Nat
         /\ Len(ledger) <= Len(ledger')
         /\ Len(ledger') = Len(ledger) => Total(ledger') <= Total(ledger)
         /\ Len(ledger') <= MaxSends /\ Total(ledger') <= MaxUnits
         /\ DOMAIN ledger = 1..Len(ledger) /\ DOMAIN ledger' = 1..Len(ledger')
<1>1. ledger \in Seq(Row) /\ Len(ledger) <= MaxSends /\ Total(ledger) <= MaxUnits
  BY DEF GenerationInv, Typed, TypeOK, LedgerCoversBill
<1>2. ExecutionOf[l] \in Executions /\ LedgerStep(ExecutionOf[l])
  BY Selections DEF Frame
<1>3. ledger' \in Seq(Row)
  BY <1>1, <1>2, LedgerGoesOn
<1>4. Total(ledger) \in Nat /\ Total(ledger') \in Nat
  BY <1>1, <1>3, TotalTyped
<1>5. Len(ledger) <= Len(ledger') /\ (Len(ledger') = Len(ledger) => Total(ledger') <= Total(ledger))
  BY <1>1, <1>2, LedgerGoesOn
<1>6. Len(ledger') <= MaxSends /\ Total(ledger') <= MaxUnits
  BY <1>1, <1>2, LedgerGoesOn
<1> QED BY <1>1, <1>3, <1>4, <1>5, <1>6

(* Knowledge of an older ledger stays knowledge.                           *)
LEMMA KnownStays ==
  ASSUME GenerationInv, NEW l \in Launchers, Frame(l), NEW n \in Nat, NEW t \in Nat,
         n <= Len(ledger), n = Len(ledger) => Total(ledger) <= t
  PROVE  n <= Len(ledger') /\ (n = Len(ledger') => Total(ledger') <= t)
<1> DEFINE a == Len(ledger)
           b == Len(ledger')
           x == Total(ledger)
           y == Total(ledger')
<1>1. a \in Nat /\ b \in Nat /\ x \in Nat /\ y \in Nat /\ a <= b /\ (b = a => y <= x)
  BY LedgerGoesOnInFrame
<1>2. n <= a /\ (n = a => x <= t)
  OBVIOUS
<1> HIDE DEF a, b, x, y
<1>3. n <= b /\ (n = b => y <= t)
  BY <1>1, <1>2
<1> QED BY <1>3 DEF a, b, x, y

LEMMA OthersKept ==
  ASSUME GenerationInv, NEW l \in Launchers, Frame(l), NEW k \in Launchers, k # l
  PROVE  Own(k)'
<1> DEFINE e == ExecutionOf[l]
           f == ExecutionOf[k]
<1>1. e \in Executions /\ f \in Executions /\ e # f
  BY Selections
<1>2. /\ pc'[k] = pc[k] /\ seq'[k] = seq[k] /\ reply'[k] = reply[k] /\ mem'[k] = mem[k]
      /\ disk'[f] = disk[f] /\ CaseOf(k)' = CaseOf(k)
  BY <1>1 DEF Frame, CaseOf
<1>3. Own(k) /\ Typed
  BY DEF GenerationInv
<1>4. /\ ledger' \in Seq(Row) /\ ledger \in Seq(Row)
      /\ Len(ledger) \in Nat /\ Len(ledger') \in Nat /\ Total(ledger) \in Nat
      /\ Total(ledger') \in Nat
      /\ Len(ledger) <= Len(ledger')
      /\ Len(ledger') = Len(ledger) => Total(ledger') <= Total(ledger)
      /\ DOMAIN ledger = 1..Len(ledger) /\ DOMAIN ledger' = 1..Len(ledger')
  BY LedgerGoesOnInFrame
<1>5. Agree(ledger', ledger, f)
  BY <1>1, <1>4, OthersRowsKept DEF Frame
<1> HIDE DEF e
<1>6. AtCase(k)' /\ Counts(k)'
  BY <1>2, <1>3 DEF Own, AtCase, Counts
<1>7. Place(k)' /\ Remembers(k)'
  BY <1>2, <1>3 DEF Own, Place, Remembers
<1>8. Asks(k)'
  <2>1. ASSUME pc[k] \in Asking PROVE seq[k] \in SendsOf(ledger, f) /\ seq[k] \in Sends
    <3>1. seq[k] \in DOMAIN ledger /\ ledger[seq[k]] = Reserved(f, CaseOf(k))
      BY <1>3, <2>1 DEF Own, Asks
    <3>2. Len(ledger) <= MaxSends
      BY DEF GenerationInv, LedgerCoversBill
    <3>3. seq[k] \in SendsOf(ledger, f)
      BY <3>1 DEF SendsOf, Reserved
    <3>4. seq[k] \in 1..Len(ledger)
      BY <1>4, <3>1
    <3>5. seq[k] \in Sends
      <4>1. Len(ledger) \in Nat /\ MaxSends \in Nat
        BY <1>4, LedgerAssumption
      <4> QED BY <3>2, <3>4, <4>1 DEF Sends
    <3> QED BY <3>3, <3>5
  <2>2. ASSUME pc[k] \in Asking
        PROVE  seq[k] \in DOMAIN ledger' /\ ledger'[seq[k]] = ledger[seq[k]]
    BY <1>5, <2>1, <2>2 DEF Agree, SendsOf
  <2>3. ASSUME pc[k] \in Asking PROVE billed'[seq[k]] = billed[seq[k]]
    <3> SUFFICES ASSUME pc[l] = "reserved", seq[k] = seq[l] PROVE FALSE
      BY <2>1, <2>3 DEF Frame
    <3>1. ledger[seq[l]] = Reserved(ExecutionOf[l], CaseOf(l))
      BY DEF GenerationInv, Own, Asks, Asking
    <3>2. ledger[seq[k]] = Reserved(f, CaseOf(k))
      BY <1>3, <2>3 DEF Own, Asks
    <3> QED BY <1>1, <3>1, <3>2 DEF Reserved, e
  <2> QED BY <1>2, <1>3, <2>2, <2>3 DEF Own, Asks, Asking
<1>9. Knows(k)'
  <2> SUFFICES ASSUME pc[k] # "down" PROVE Knows(k)'
    BY <1>2 DEF Knows
  <2>1. /\ Agree(mem[k].rows, ledger, f)
        /\ Len(mem[k].rows) <= Len(ledger)
        /\ Len(mem[k].rows) = Len(ledger) => Total(ledger) <= Total(mem[k].rows)
        /\ disk[f].manifest.campaign <= Len(mem[k].rows)
        /\ disk[f].manifest.campaign = Len(mem[k].rows) => Total(mem[k].rows) <= disk[f].manifest.units
    BY <1>3 DEF Own, Knows
  <2>2. mem[k].rows \in Seq(Row)
    <3>1. mem[k] \in Memory
      BY <1>3 DEF Typed
    <3> QED BY <3>1 DEF Memory
  <2>3. Len(mem[k].rows) \in Nat /\ Total(mem[k].rows) \in Nat
    BY <2>2, TotalTyped
  <2>4. Agree(mem[k].rows, ledger', f)
    BY <1>5, <2>1 DEF Agree
  <2>5. /\ Len(mem[k].rows) <= Len(ledger')
        /\ Len(mem[k].rows) = Len(ledger') => Total(ledger') <= Total(mem[k].rows)
    <3> DEFINE n == Len(mem[k].rows)
               t == Total(mem[k].rows)
    <3>1. n \in Nat /\ t \in Nat /\ n <= Len(ledger) /\ (n = Len(ledger) => Total(ledger) <= t)
      BY <2>1, <2>3
    <3> HIDE DEF n, t
    <3>2. n <= Len(ledger') /\ (n = Len(ledger') => Total(ledger') <= t)
      BY <3>1, KnownStays
    <3> QED BY <3>2 DEF n, t
  <2> QED BY <1>2, <2>1, <2>4, <2>5 DEF Knows
<1> QED BY <1>6, <1>7, <1>8, <1>9 DEF Own

(* A seal looks back: the ledger goes on from the sealed one, and never    *)
(* comes back to it.                                                       *)
LEMMA SinceStays ==
  ASSUME GenerationInv, NEW l \in Launchers, Frame(l), NEW old \in Seq(Row), Since(old)
  PROVE  Since(old)' /\ (old = ledger' => ledger' = ledger)
<1> DEFINE e == ExecutionOf[l]
<1>1. e \in Executions /\ LedgerStep(e) /\ ledger \in Seq(Row)
  BY Selections DEF Frame, GenerationInv, Typed, TypeOK
<1> HIDE DEF e
<1>2. /\ Len(old) \in Nat /\ Len(ledger) \in Nat /\ Len(ledger') \in Nat
      /\ DOMAIN old = 1..Len(old) /\ DOMAIN ledger = 1..Len(ledger)
      /\ Len(ledger) <= Len(ledger')
  BY <1>1, LedgerGoesOnInFrame
<1>3. \A i \in DOMAIN ledger : ledger[i].status # "reserved" => ledger'[i] = ledger[i]
  BY <1>1, LedgerGoesOn
<1>4. Len(old) <= Len(ledger)
    /\ \A i \in DOMAIN old : old[i].status # "reserved" => ledger[i] = old[i]
  BY DEF Since
<1>5. Since(old)'
  BY <1>2, <1>3, <1>4 DEF Since
<1>6. ASSUME old = ledger' PROVE ledger' = ledger
  <2>1. Len(ledger') = Len(ledger)
    <3> DEFINE a == Len(ledger)
               b == Len(ledger')
    <3>1. a \in Nat /\ b \in Nat /\ a <= b /\ b <= a
      BY <1>2, <1>4, <1>6
    <3> HIDE DEF a, b
    <3>2. a = b
      BY <3>1
    <3> QED BY <3>2 DEF a, b
  <2>2. ASSUME NEW c \in Cases, ledger' = Append(ledger, Reserved(e, c)) PROVE FALSE
    <3>1. Reserved(e, c) \in Row
      BY <1>1, ReservedTyped
    <3>2. Len(ledger') = Len(ledger) + 1
      BY <1>1, <2>2, <3>1, AppendProperties
    <3> QED BY <1>2, <2>1, <3>2
  <2>3. ASSUME NEW i \in SendsOf(ledger, e), NEW row, Settled(ledger[i], row),
               ledger' = [ledger EXCEPT ![i] = row]
        PROVE  FALSE
    <3>1. i \in DOMAIN ledger /\ ledger'[i] = row
      BY <2>3 DEF SendsOf
    <3>2. row.status # "reserved" /\ ledger[i].status = "reserved"
      BY <2>3 DEF Settled
    <3>3. ledger[i] = row
      BY <1>2, <1>4, <1>6, <2>1, <3>1, <3>2
    <3> QED BY <3>2, <3>3
  <2> QED BY <1>1, <2>2, <2>3 DEF LedgerStep
<1> QED BY <1>5, <1>6

LEMMA OtherOutputsKept ==
  ASSUME GenerationInv, NEW l \in Launchers, Frame(l), NEW f \in Executions, f # ExecutionOf[l]
  PROVE  Output(f)' /\ SealFits(f)'
<1>1. disk'[f] = disk[f] /\ sealed'[f] = sealed[f]
  BY DEF Frame
<1>2. Typed /\ Output(f) /\ SealFits(f)
  BY DEF GenerationInv
<1>3. Agree(ledger', ledger, f)
  <2>1. ledger \in Seq(Row) /\ ExecutionOf[l] \in Executions /\ LedgerStep(ExecutionOf[l])
    BY <1>2, Selections DEF Typed, TypeOK, Frame
  <2> QED BY <2>1, OthersRowsKept
<1>4. Output(f)'
  <2>1. disk[f].manifest.campaign \in Nat /\ disk[f].manifest.units \in Nat
    BY <1>2 DEF Typed, TypeOK
  <2>2. /\ disk[f].manifest.campaign <= Len(ledger')
        /\ disk[f].manifest.campaign = Len(ledger') => Total(ledger') <= disk[f].manifest.units
    BY <1>2, <2>1, KnownStays DEF Output
  <2> QED BY <1>1, <1>2, <2>2 DEF Output
<1>5. SealFits(f)'
  <2> SUFFICES ASSUME sealed[f].sealed PROVE SealFits(f)'
    BY <1>1 DEF SealFits
  <2>1. Whole(f) /\ Since(sealed[f].ledger)
    BY <1>2 DEF SealFits
  <2>2. sealed[f].ledger \in Seq(Row)
    BY <1>2 DEF Typed
  <2>3. SendsOf(ledger', f) = SendsOf(ledger, f)
      /\ \A i \in SendsOf(ledger, f) : ledger'[i] = ledger[i]
    BY <1>3 DEF Agree
  <2>4. RowsOf(ledger', f) = RowsOf(ledger, f)
    BY <1>3, AgreeingRows
  <2>5. Whole(f)'
    BY <1>1, <2>1, <2>3, <2>4 DEF Whole, OutputsWhole
  <2>6. /\ Since(sealed[f].ledger)'
        /\ sealed[f].ledger = ledger' => ledger' = ledger
    <3> DEFINE old == sealed[f].ledger
    <3>1. Since(old)
      BY <2>1
    <3>2. old \in Seq(Row) /\ old' = old
      BY <1>1, <2>2
    <3> HIDE DEF old
    <3>3. /\ Len(old) <= Len(ledger')
          /\ \A i \in DOMAIN old : old[i].status # "reserved" => ledger'[i] = old[i]
          /\ old = ledger' => ledger' = ledger
      BY <3>1, <3>2, SinceStays DEF Since
    <3>4. Since(old)'
      BY <3>2, <3>3 DEF Since
    <3> QED BY <3>3, <3>4 DEF old
  <2>7. sealed[f].ledger = ledger' =>
          Len(ledger') = disk[f].manifest.campaign /\ Total(ledger') = disk[f].manifest.units
    BY <1>2, <2>6 DEF SealFits
  <2> QED BY <1>1, <2>5, <2>6, <2>7 DEF SealFits
<1> QED BY <1>4, <1>5

LEMMA BillCovered ==
  ASSUME GenerationInv, NEW l \in Launchers, Step(l), Frame(l)
  PROVE  LedgerCoversBill'
<1>1. /\ billed \in [Sends -> Nat] /\ ledger \in Seq(Row)
      /\ \A s \in Sends : billed[s] > 0 => s \in DOMAIN ledger /\ billed[s] <= Accounted(ledger[s])
  BY DEF GenerationInv, Typed, TypeOK, LedgerCoversBill
<1>2. Len(ledger') <= MaxSends /\ Total(ledger') <= MaxUnits
  BY LedgerGoesOnInFrame
<1> SUFFICES ASSUME NEW s \in Sends, billed'[s] > 0
             PROVE  s \in DOMAIN ledger' /\ billed'[s] <= Accounted(ledger'[s])
  BY <1>2 DEF LedgerCoversBill
<1>3. CASE Transport(l)
  <2>1. PICK r \in Replies :
          billed' = [billed EXCEPT ![seq[l]] = @ + (IF r.units = Unknown THEN Ceiling ELSE r.units)]
    BY <1>3 DEF Transport
  <2>2. /\ billed[seq[l]] = 0 /\ seq[l] \in DOMAIN ledger
        /\ ledger[seq[l]] = Reserved(ExecutionOf[l], CaseOf(l))
    BY <1>3 DEF Transport, GenerationInv, Own, Asks, Asking
  <2>3. Accounted(ledger[seq[l]]) = Ceiling
    BY <2>2 DEF Reserved, Accounted
  <2>4. (IF r.units = Unknown THEN Ceiling ELSE r.units) \in 0..Ceiling
    BY GenerationAssumption, LedgerAssumption DEF ProviderReplies, Unknown
  <2>5. s = seq[l] => billed'[s] <= Ceiling
    BY <1>1, <2>1, <2>2, <2>4, LedgerAssumption
  <2>6. s # seq[l] => billed'[s] = billed[s]
    BY <1>1, <2>1
  <2>7. ledger' = ledger
    BY <1>3 DEF Transport
  <2> QED BY <1>1, <2>2, <2>3, <2>5, <2>6, <2>7
<1>4. CASE Complete(l)
  <2>1. billed' = billed
    BY <1>4 DEF Complete
  <2>2. PICK row : ledger' = [ledger EXCEPT ![seq[l]] = row] /\ billed[seq[l]] <= Accounted(row)
    BY <1>4, CompletedRow
  <2>3. seq[l] \in DOMAIN ledger
    BY <1>4, CompletedRow
  <2>4. /\ DOMAIN ledger' = DOMAIN ledger /\ ledger'[seq[l]] = row
        /\ \A i \in DOMAIN ledger : i # seq[l] => ledger'[i] = ledger[i]
    BY <1>1, <2>2, <2>3
  <2> QED BY <1>1, <2>1, <2>2, <2>4
<1>5. CASE Reserve(l) /\ ledger' # ledger
  <2>1. ledger' = Append(ledger, Reserved(ExecutionOf[l], CaseOf(l))) /\ billed' = billed
    BY <1>5 DEF Reserve
  <2>2. mem[l].index <= Len(Selected[ExecutionOf[l]])
    BY <1>5 DEF GenerationInv, Own, AtCase, Buying, Reserve
  <2>3. Reserved(ExecutionOf[l], CaseOf(l)) \in Row
    BY <2>2, CaseTyped, ReservedTyped, Selections DEF GenerationInv
  <2>4. \A i \in DOMAIN ledger : i \in DOMAIN ledger' /\ ledger'[i] = ledger[i]
    BY <1>1, <2>1, <2>3, AppendProperties
  <2> QED BY <1>1, <2>1, <2>4
<1>6. CASE ledger' = ledger /\ billed' = billed
  BY <1>1, <1>6
<1>7. \/ ledger' = ledger /\ billed' = billed
      \/ Transport(l) \/ Complete(l)
      \/ Reserve(l) /\ ledger' # ledger
  BY DEF Step, Launch, Initialize, NextCase, Acquire, Reserve, Settle, Check, Save, Finish, Kill,
         campaign, outside
<1> QED BY <1>3, <1>4, <1>5, <1>6, <1>7
-----------------------------------------------------------------------------
(* Types.                                                                  *)

LEMMA IdleTyped ==
  /\ Idle \in Memory
  /\ Idle.file = 1 /\ Idle.index = 1 /\ Idle.results = [c \in Cases |-> "absent"]
<1> DEFINE R == [c \in Cases |-> "absent"]
           D == [c \in Cases |-> NoDraft]
<1>1. D \in [Cases -> Draft] /\ R \in [Cases -> {"absent", "completed", "failed"}]
  BY DEF Draft
<1>2. <<>> \in Seq(Row)
  OBVIOUS
<1>3. Idle = [index |-> 1, authority |-> None, results |-> R, drafts |-> D,
              outputs |-> {}, failures |-> FALSE, rows |-> <<>>,
              before |-> 0, attempts |-> 0, retried |-> FALSE, repairing |-> FALSE,
              file |-> 1]
  BY DEF Idle
<1>5. None \in AuthorityType
  BY DEF AuthorityType
<1> HIDE DEF R, D
<1>4. Idle \in Memory
  BY <1>1, <1>2, <1>3, <1>5 DEF Memory
<1> QED BY <1>3, <1>4 DEF R

(* What an output directory holds.                                         *)
OutputType ==
  [stage : {"absent", "made", "ready"},
   authority : AuthorityType,
   results : [Cases -> {"absent", "completed", "failed"}],
   drafts : [Cases -> Draft], outputs : SUBSET Cases,
   failures : BOOLEAN,
   sends : SUBSET [number : Sends, row : Row],
   manifest : [completed : BOOLEAN, outputs : SUBSET Cases,
               sends : Nat, campaign : Nat, units : Nat]]

LEMMA EmptyOutputTyped ==
  /\ EmptyOutput \in OutputType
  /\ EmptyOutput.stage = "absent" /\ EmptyOutput.manifest = NoManifest
  /\ EmptyOutput.results = [c \in Cases |-> "absent"]
  /\ NoManifest.campaign = 0 /\ NoManifest.units = 0 /\ ~NoManifest.completed
<1> DEFINE R == [c \in Cases |-> "absent"]
           D == [c \in Cases |-> NoDraft]
<1>1. D \in [Cases -> Draft] /\ R \in [Cases -> {"absent", "completed", "failed"}]
  BY DEF Draft
<1>2. EmptyOutput = [stage |-> "absent", authority |-> None, results |-> R, drafts |-> D,
                     outputs |-> {}, failures |-> FALSE, sends |-> {},
                     manifest |-> NoManifest]
  BY DEF EmptyOutput
<1>3. /\ NoManifest \in [completed : BOOLEAN, outputs : SUBSET Cases,
                         sends : Nat, campaign : Nat, units : Nat]
      /\ NoManifest.campaign = 0 /\ NoManifest.units = 0 /\ NoManifest.completed = FALSE
  BY DEF NoManifest
<1>5. None \in AuthorityType
  BY DEF AuthorityType
<1> HIDE DEF R, D
<1>4. EmptyOutput \in OutputType
  BY <1>1, <1>2, <1>3, <1>5 DEF OutputType
<1> QED BY <1>2, <1>3, <1>4 DEF R

LEMMA TypeOKSplit ==
  TypeOK <=> /\ ledger \in Seq(Row) /\ lock \in Launchers \cup {Free, Stale}
             /\ disk \in [Executions -> OutputType]
             /\ pc \in [Launchers -> Pcs]
             /\ seq \in [Launchers -> 0..MaxSends]
             /\ reply \in [Launchers -> Replies \cup {NoReply}]
             /\ billed \in [Sends -> Nat]
             /\ \A l \in Launchers : launches[l] \in 0..MaxLaunches[l]
BY DEF TypeOK, OutputType, AuthorityType

LEMMA TotalOfNone == Total(<<>>) = 0
<1>1. <<>> \in Seq(Row) /\ Len(<<>>) = 0
  OBVIOUS
<1>2. PICK g : Sums(g, <<>>, Len(<<>>)) /\ Total(<<>>) = g[Len(<<>>)]
  BY <1>1, TotalIs
<1> QED BY <1>1, <1>2 DEF Sums

LEMMA Initially == Init => GenerationInv
<1> SUFFICES ASSUME Init PROVE GenerationInv
  OBVIOUS
<1>1. /\ ledger = <<>> /\ lock = Free /\ disk = [e \in Executions |-> EmptyOutput]
      /\ sealed = [e \in Executions |-> NoPackage] /\ pc = [l \in Launchers |-> "down"]
      /\ seq = [l \in Launchers |-> 0] /\ reply = [l \in Launchers |-> NoReply]
      /\ mem = [l \in Launchers |-> Idle] /\ billed = [s \in Sends |-> 0]
      /\ launches = [l \in Launchers |-> 0]
  BY DEF Init
<1>2. <<>> \in Seq(Row) /\ Len(<<>>) = 0
  OBVIOUS
<1>3. TypeOK
  <2>1. disk \in [Executions -> OutputType]
    BY <1>1, EmptyOutputTyped
  <2>2. seq \in [Launchers -> 0..MaxSends]
    BY <1>1, LedgerAssumption
  <2>3. \A l \in Launchers : launches[l] \in 0..MaxLaunches[l]
    BY <1>1, GenerationAssumption
  <2> QED BY <1>1, <1>2, <2>1, <2>2, <2>3, TypeOKSplit DEF Pcs
<1>4. Typed
  <2>1. NoPackage \in [sealed : BOOLEAN, ledger : Seq(Row)]
    BY <1>2 DEF NoPackage
  <2> QED BY <1>1, <1>3, <2>1, IdleTyped DEF Typed
<1>5. LedgerCoversBill
  BY <1>1, <1>2, TotalOfNone, LedgerAssumption DEF LedgerCoversBill
<1>6. ASSUME NEW l \in Launchers PROVE Own(l)
  <2>1. pc[l] = "down" /\ mem[l] = Idle
    BY <1>1
  <2>2. Len(Selected[ExecutionOf[l]]) \in Nat
    BY Selections
  <2>3. AtCase(l)
    BY <2>1, <2>2, IdleTyped DEF AtCase, Buying
  <2> QED BY <2>1, <2>3 DEF Own, Counts, Asks, Place, Remembers, Knows, Buying, Asking
<1>7. ASSUME NEW e \in Executions PROVE Output(e) /\ SealFits(e)
  <2>1. disk[e] = EmptyOutput /\ ~sealed[e].sealed
    BY <1>1 DEF NoPackage
  <2>2. [EmptyOutput EXCEPT !.stage = EmptyOutput.stage] = EmptyOutput
    BY EmptyOutputTyped DEF OutputType
  <2> QED BY <1>1, <1>2, <2>1, <2>2, EmptyOutputTyped, TotalOfNone DEF Output, SealFits
<1> QED BY <1>4, <1>5, <1>6, <1>7 DEF GenerationInv
-----------------------------------------------------------------------------
(* The launcher's own steps.                                               *)

LEMMA OutputKept ==
  ASSUME GenerationInv, NEW l \in Launchers, Frame(l), NEW f \in Executions, disk'[f] = disk[f]
  PROVE  Output(f)'
<1>1. disk[f].manifest.campaign \in Nat /\ disk[f].manifest.units \in Nat
  BY DEF GenerationInv, Typed, TypeOK
<1>2. Output(f)
  BY DEF GenerationInv
<1>3. /\ disk[f].manifest.campaign <= Len(ledger')
      /\ disk[f].manifest.campaign = Len(ledger') => Total(ledger') <= disk[f].manifest.units
  BY <1>1, <1>2, KnownStays DEF Output
<1> QED BY <1>2, <1>3 DEF Output

(* A launcher that works has an output that is not completed yet.          *)
LEMMA WorkIsUnsealed ==
  ASSUME GenerationInv, NEW l \in Launchers, pc[l] \notin {"down", "case"}
  PROVE  ~disk[ExecutionOf[l]].manifest.completed /\ ~sealed[ExecutionOf[l]].sealed
<1>1. ExecutionOf[l] \in Executions
  BY Selections
<1>2. ~disk[ExecutionOf[l]].manifest.completed
  BY DEF GenerationInv, Own, Remembers
<1> QED BY <1>1, <1>2 DEF GenerationInv, SealFits, Whole

LEMMA OwnSealKept ==
  ASSUME GenerationInv, NEW l \in Launchers, Frame(l),
         \/ pc[l] \notin {"down", "case"}
         \/ disk'[ExecutionOf[l]] = disk[ExecutionOf[l]] /\ ledger' = ledger
  PROVE  SealFits(ExecutionOf[l])'
<1> DEFINE e == ExecutionOf[l]
<1>1. e \in Executions /\ sealed'[e] = sealed[e]
  BY Selections DEF Frame
<1>2. CASE pc[l] \notin {"down", "case"}
  BY <1>1, <1>2, WorkIsUnsealed DEF SealFits
<1>3. CASE disk'[e] = disk[e] /\ ledger' = ledger
  <2>1. SealFits(e)
    BY <1>1 DEF GenerationInv
  <2> HIDE DEF e
  <2>2. Whole(e) => Whole(e)'
    BY <1>3 DEF Whole, OutputsWhole
  <2>3. SealFits(e)'
    BY <1>1, <1>3, <2>1, <2>2 DEF SealFits, Since
  <2> QED BY <2>3 DEF e
<1> QED BY <1>2, <1>3

(* What is left to show of a step of l.                                    *)
LEMMA OwnStep ==
  ASSUME GenerationInv, NEW l \in Launchers, Step(l),
         Typed', Own(l)', Output(ExecutionOf[l])', SealFits(ExecutionOf[l])'
  PROVE  GenerationInv'
<1>1. Frame(l)
  BY Framed
<1>2. LedgerCoversBill'
  BY <1>1, BillCovered
<1>3. ASSUME NEW k \in Launchers PROVE Own(k)'
  BY <1>1, OthersKept
<1>4. ASSUME NEW f \in Executions PROVE Output(f)' /\ SealFits(f)'
  BY <1>1, OtherOutputsKept
<1> QED BY <1>2, <1>3, <1>4 DEF GenerationInv

(* Types after a step that leaves the outputs and the bill alone, and      *)
(* after one that writes the launcher's output.                            *)
LEMMA TypedAfter ==
  ASSUME GenerationInv, NEW l \in Launchers, Frame(l),
         mem'[l] \in Memory, mem' = [mem EXCEPT ![l] = mem'[l]],
         pc'[l] \in Pcs, pc' = [pc EXCEPT ![l] = pc'[l]],
         \/ seq' = seq
         \/ seq'[l] \in 0..MaxSends /\ seq' = [seq EXCEPT ![l] = seq'[l]],
         \/ reply' = reply
         \/ reply'[l] \in Replies \cup {NoReply} /\ reply' = [reply EXCEPT ![l] = reply'[l]],
         lock' \in {lock, l, Free, Stale},
         \/ disk' = disk
         \/ /\ disk'[ExecutionOf[l]] \in OutputType
            /\ disk' = [disk EXCEPT ![ExecutionOf[l]] = disk'[ExecutionOf[l]]],
         \/ billed' = billed
         \/ seq[l] \in Sends /\ billed'[seq[l]] \in Nat
              /\ billed' = [billed EXCEPT ![seq[l]] = billed'[seq[l]]],
         \/ launches' = launches
         \/ launches'[l] \in 0..MaxLaunches[l] /\ launches' = [launches EXCEPT ![l] = launches'[l]]
  PROVE  Typed'
<1>1. Typed /\ TypeOK
  BY DEF GenerationInv, Typed
<1>2. ledger' \in Seq(Row) /\ sealed' = sealed
  BY LedgerGoesOnInFrame DEF Frame
<1>3. lock' \in Launchers \cup {Free, Stale}
  BY <1>1 DEF TypeOK
<1>4. disk' \in [Executions -> OutputType]
  <2>1. disk \in [Executions -> OutputType]
    BY <1>1, TypeOKSplit
  <2> QED BY <2>1
<1>5. pc' \in [Launchers -> Pcs] /\ mem' \in [Launchers -> Memory]
  BY <1>1 DEF Typed, TypeOK
<1>6. seq' \in [Launchers -> 0..MaxSends]
  BY <1>1 DEF TypeOK
<1>7. reply' \in [Launchers -> Replies \cup {NoReply}]
  BY <1>1 DEF TypeOK
<1>8. billed' \in [Sends -> Nat]
  BY <1>1 DEF TypeOK
<1>9. launches' \in [Launchers -> Nat] /\ \A k \in Launchers : launches'[k] \in 0..MaxLaunches[k]
  <2>1. /\ launches \in [Launchers -> Nat] /\ \A k \in Launchers : launches[k] \in 0..MaxLaunches[k]
        /\ \A k \in Launchers : MaxLaunches[k] \in Nat
    BY <1>1, GenerationAssumption DEF Typed, TypeOK
  <2> QED BY <2>1
<1>10. TypeOK'
  BY <1>2, <1>3, <1>4, <1>5, <1>6, <1>7, <1>8, <1>9 DEF TypeOK, OutputType, AuthorityType
<1> QED BY <1>1, <1>2, <1>5, <1>9, <1>10 DEF Typed

(* What is known of the launcher that takes a step.                        *)
LEMMA Known ==
  ASSUME GenerationInv, NEW l \in Launchers
  PROVE  /\ ExecutionOf[l] \in Executions /\ Typed /\ ledger \in Seq(Row)
         /\ mem[l] \in Memory /\ disk[ExecutionOf[l]] \in OutputType
         /\ pc \in [Launchers -> Pcs] /\ pc[l] \in Pcs
         /\ mem \in [Launchers -> Memory] /\ disk \in [Executions -> OutputType]
         /\ seq \in [Launchers -> 0..MaxSends] /\ reply \in [Launchers -> Replies \cup {NoReply}]
         /\ Len(Selected[ExecutionOf[l]]) \in Nat
         /\ Own(l) /\ Output(ExecutionOf[l])
         /\ pc[l] \in Buying \cup {"check", "save"} =>
              CaseOf(l) \in Cases /\ CaseOf(l) \in Chosen(ExecutionOf[l])
<1>1. ExecutionOf[l] \in Executions /\ Len(Selected[ExecutionOf[l]]) \in Nat
  BY Selections
<1>2. Typed /\ TypeOK /\ Own(l) /\ Output(ExecutionOf[l])
  BY <1>1 DEF GenerationInv, Typed
<1>3. pc[l] \in Buying \cup {"check", "save"} => CaseOf(l) \in Cases
    /\ CaseOf(l) \in Chosen(ExecutionOf[l])
  BY <1>2, CaseTyped DEF Own, AtCase
<1>4. disk \in [Executions -> OutputType]
  BY <1>2, TypeOKSplit
<1> QED BY <1>1, <1>2, <1>3, <1>4 DEF Typed, TypeOK

LEMMA LaunchKeeps ==
  ASSUME GenerationInv, NEW l \in Launchers, Launch(l)
  PROVE  GenerationInv'
<1> DEFINE e == ExecutionOf[l]
           m == mem'[l]
           d == disk[e]
<1>0. Step(l) /\ Frame(l)
  BY Framed DEF Step
<1>1. /\ e \in Executions /\ ledger \in Seq(Row) /\ d \in OutputType /\ Len(Selected[e]) \in Nat
      /\ pc \in [Launchers -> Pcs] /\ mem \in [Launchers -> Memory] /\ Output(e)
  BY Known
<1>2. PICK authority \in Authorities[e] \cup {Torn} :
        /\ Preflight(e, authority)
        /\ mem' = [mem EXCEPT ![l] = Loaded(e, authority)]
        /\ pc' = [pc EXCEPT ![l] = IF disk[e].stage = "absent" THEN "initialize" ELSE "case"]
  BY DEF Launch
<1>3. /\ pc[l] = "down" /\ launches[l] < MaxLaunches[l]
      /\ launches' = [launches EXCEPT ![l] = @ + 1]
      /\ ledger' = ledger /\ lock' = lock /\ disk' = disk /\ seq' = seq /\ reply' = reply
      /\ billed' = billed
  BY DEF Launch, campaign
<1>4. authority \in AuthorityType
  BY <1>1, <1>2, GenerationAssumption DEF AuthorityType, Preflight, AuthorityAdmitted, Range
<1>5. /\ m = Loaded(e, authority)
      /\ pc'[l] = IF d.stage = "absent" THEN "initialize" ELSE "case"
  BY <1>1, <1>2
<1>6. /\ m \in Memory
      /\ m.index = 1 /\ m.file = 1 /\ m.authority = authority /\ m.results = d.results
      /\ m.drafts = d.drafts /\ m.rows = ledger
  <2>3. /\ d.results \in [Cases -> {"absent", "completed", "failed"}]
        /\ d.drafts \in [Cases -> Draft] /\ d.outputs \in SUBSET Cases /\ d.failures \in BOOLEAN
    BY <1>1 DEF OutputType
  <2>4. m = [Idle EXCEPT !.authority = authority, !.results = d.results, !.drafts = d.drafts,
                         !.outputs = d.outputs, !.failures = d.failures, !.rows = ledger]
    BY <1>5 DEF Loaded
  <2> HIDE DEF m, d
  <2>5. Idle \in Memory /\ Idle.index = 1 /\ Idle.file = 1
    BY IdleTyped
  <2>6. m \in Memory
    BY <1>1, <1>4, <2>3, <2>4, <2>5 DEF Memory
  <2> QED BY <2>4, <2>5, <2>6 DEF Memory
<1>7. Typed'
  <2>1. mem' = [mem EXCEPT ![l] = mem'[l]] /\ pc' = [pc EXCEPT ![l] = pc'[l]] /\ pc'[l] \in Pcs
    BY <1>1, <1>2 DEF Pcs
  <2>2. launches'[l] \in 0..MaxLaunches[l] /\ launches' = [launches EXCEPT ![l] = launches'[l]]
    <3>1. launches \in [Launchers -> Nat] /\ MaxLaunches[l] \in Nat
      BY GenerationAssumption DEF GenerationInv, Typed
    <3> QED BY <1>3, <3>1
  <2> QED BY <1>0, <1>3, <1>6, <2>1, <2>2, TypedAfter
<1>8. Output(e)' /\ SealFits(e)'
  BY <1>0, <1>1, <1>3, OutputKept, OwnSealKept
<1>9. Own(l)'
  <2>1. d.stage # "absent" => d.stage = "ready" /\ d.authority = authority
    BY <1>2 DEF Preflight, SameVersion
  <2>2. pc'[l] \in {"initialize", "case"}
    BY <1>5
  <2>3. AtCase(l)' /\ Counts(l)' /\ Asks(l)'
    BY <1>1, <1>3, <1>6, <2>2 DEF AtCase, Counts, Asks, Buying, Asking
  <2>4. Place(l)'
    BY <1>3, <1>5, <1>6, <2>1, <2>2 DEF Place
  <2>5. Remembers(l)'
    <3>1. d.stage = "absent" => ~d.manifest.completed
      <4>1. d.stage = "absent" => d = [EmptyOutput EXCEPT !.stage = "absent"]
        BY <1>1 DEF Output
      <4> QED BY <4>1, EmptyOutputTyped DEF OutputType
    <3>2. d.manifest.completed => pc'[l] = "case"
      BY <1>5, <3>1
    <3>3. \A c \in Cases : d.results[c] = "completed" => d.drafts[c].kind = "sound"
      BY <1>1 DEF Output
    <3> HIDE DEF d, m
    <3> QED BY <1>3, <1>6, <2>2, <3>2, <3>3 DEF Remembers, Buying, d, m
  <2>6. Knows(l)'
    <3>1. Len(ledger) \in Nat /\ Total(ledger) \in Nat
      BY <1>1, TotalTyped
    <3>2. /\ d.manifest.campaign <= Len(ledger)
          /\ d.manifest.campaign = Len(ledger) => Total(ledger) <= d.manifest.units
      BY <1>1 DEF Output
    <3>3. mem'[l].rows = ledger /\ disk'[ExecutionOf[l]] = d
      BY <1>3, <1>6
    <3>4. Agree(ledger, ledger, ExecutionOf[l])
      BY DEF Agree
    <3> HIDE DEF d, m, e
    <3> QED BY <1>3, <3>1, <3>2, <3>3, <3>4 DEF Knows, Agree
  <2> QED BY <2>3, <2>4, <2>5, <2>6 DEF Own
<1> QED BY <1>0, <1>7, <1>8, <1>9, OwnStep

LEMMA InitializeKeeps ==
  ASSUME GenerationInv, NEW l \in Launchers, Initialize(l)
  PROVE  GenerationInv'
<1> DEFINE e == ExecutionOf[l]
           m == mem[l]
           d == disk[e]
<1>0. Step(l) /\ Frame(l)
  BY Framed DEF Step
<1>1. /\ e \in Executions /\ ledger \in Seq(Row) /\ d \in OutputType /\ Len(Selected[e]) \in Nat
      /\ pc \in [Launchers -> Pcs] /\ mem \in [Launchers -> Memory]
      /\ disk \in [Executions -> OutputType]
      /\ m \in Memory /\ Output(e) /\ Own(l)
  BY Known
<1>2. ledger' = ledger /\ lock' = lock /\ seq' = seq /\ reply' = reply /\ billed' = billed
    /\ launches' = launches
  BY DEF Initialize, campaign, outside
<1>3. pc[l] \in {"initialize", "files"}
  BY DEF Initialize
<1>4. SealFits(e)'
  BY <1>0, <1>3, OwnSealKept
<1>5. d = [EmptyOutput EXCEPT !.stage = d.stage] /\ d.manifest = NoManifest
  <2>1. d.stage # "ready"
    BY <1>1, <1>3 DEF Own, Place
  <2>2. d = [EmptyOutput EXCEPT !.stage = d.stage]
    BY <1>1, <2>1 DEF Output
  <2> HIDE DEF d
  <2> QED BY <2>2, EmptyOutputTyped DEF OutputType
<1>6. Total(ledger) \in Nat /\ Len(ledger) \in Nat
  BY <1>1, TotalTyped
<1> HIDE DEF e, m, d
<1>7. CASE pc[l] = "initialize"
  <2>1. disk' = [disk EXCEPT ![e].stage = "made"] /\ pc' = [pc EXCEPT ![l] = "files"] /\ mem' = mem
    BY <1>7 DEF Initialize, e
  <2>2. disk'[e] = [d EXCEPT !.stage = "made"] /\ disk'[e] \in OutputType
    BY <1>1, <2>1 DEF OutputType, d
  <2>3. disk'[e] = [EmptyOutput EXCEPT !.stage = "made"] /\ disk'[e].stage = "made"
    BY <1>5, <2>2, EmptyOutputTyped DEF OutputType
  <2>4. /\ disk'[e].results = d.results /\ disk'[e].drafts = d.drafts
        /\ disk'[e].manifest = d.manifest
    BY <1>1, <2>2 DEF OutputType
  <2>5. Typed'
    <3>1. disk' = [disk EXCEPT ![e] = disk'[e]]
      BY <1>1, <2>1, <2>2
    <3>2. pc'[l] = "files" /\ mem' = [mem EXCEPT ![l] = mem'[l]] /\ pc' = [pc EXCEPT ![l] = pc'[l]]
      BY <1>1, <2>1
    <3> QED BY <1>0, <1>1, <1>2, <2>1, <2>2, <3>1, <3>2, TypedAfter DEF e, m, Pcs
  <2>6. Output(e)'
    BY <1>1, <1>2, <2>3, <2>4 DEF Output, d
  <2>7. pc'[l] = "files"
    BY <1>1, <2>1
  <2>8. Own(l)'
    <3>1. AtCase(l)' /\ Counts(l)' /\ Asks(l)'
      BY <1>1, <1>7, <2>1, <2>7 DEF Own, AtCase, Counts, Asks, Buying, Asking
    <3>2. Place(l)'
      BY <2>3, <2>7 DEF Place, e
    <3>3. Remembers(l)'
      BY <1>1, <1>5, <1>7, <2>1, <2>4, <2>7, EmptyOutputTyped DEF Own, Remembers, Buying, e, m, d
    <3>4. Knows(l)'
      BY <1>1, <1>2, <1>7, <2>1, <2>4 DEF Own, Knows, Agree, e, m, d
    <3> QED BY <3>1, <3>2, <3>3, <3>4 DEF Own
  <2> QED BY <1>0, <1>4, <2>5, <2>6, <2>8, OwnStep DEF e
<1>8. CASE pc[l] = "files"
  <2>1. /\ disk' = [disk EXCEPT ![e].stage = "ready", ![e].authority = m.authority]
        /\ pc' = [pc EXCEPT ![l] = "case"] /\ mem' = [mem EXCEPT ![l].rows = ledger]
    BY <1>8 DEF Initialize, e, m
  <2>2. /\ disk'[e] = [d EXCEPT !.stage = "ready", !.authority = m.authority]
        /\ mem'[l] = [m EXCEPT !.rows = ledger]
    BY <1>1, <2>1 DEF d, m
  <2>3. m.authority \in AuthorityType
    BY <1>1 DEF Memory
  <2>4. /\ disk'[e] \in OutputType
        /\ disk'[e].stage = "ready" /\ disk'[e].authority = m.authority
        /\ disk'[e].results = d.results /\ disk'[e].drafts = d.drafts
        /\ disk'[e].manifest = d.manifest
    BY <1>1, <2>2, <2>3 DEF OutputType
  <2>5. /\ mem'[l] \in Memory /\ mem'[l].rows = ledger
        /\ mem'[l].index = m.index /\ mem'[l].file = m.file
        /\ mem'[l].authority = m.authority /\ mem'[l].results = m.results
        /\ mem'[l].drafts = m.drafts
    BY <1>1, <2>2 DEF Memory
  <2>6. Typed'
    <3>1. disk' = [disk EXCEPT ![e] = disk'[e]]
      BY <1>1, <2>1, <2>2 DEF d
    <3>2. pc'[l] = "case" /\ mem' = [mem EXCEPT ![l] = mem'[l]] /\ pc' = [pc EXCEPT ![l] = pc'[l]]
      BY <1>1, <2>1, <2>2 DEF m
    <3> QED BY <1>0, <1>1, <1>2, <2>4, <2>5, <3>1, <3>2, TypedAfter DEF e, Pcs
  <2>7. Output(e)'
    BY <1>1, <1>2, <2>4 DEF Output, d
  <2>8. pc'[l] = "case"
    BY <1>1, <2>1
  <2>9. Own(l)'
    <3>1. AtCase(l)' /\ Counts(l)' /\ Asks(l)'
      BY <1>1, <1>8, <2>5, <2>8 DEF Own, AtCase, Counts, Asks, Buying, Asking, m
    <3>2. Place(l)'
      BY <2>4, <2>5, <2>8 DEF Place, e
    <3>3. Remembers(l)'
      BY <1>1, <1>8, <2>4, <2>5, <2>8 DEF Own, Remembers, Buying, e, m, d
    <3>4. Knows(l)'
      BY <1>1, <1>2, <1>6, <2>4, <2>5 DEF Knows, Agree, Output, e, d
    <3> QED BY <3>1, <3>2, <3>3, <3>4 DEF Own
  <2> QED BY <1>0, <1>4, <2>6, <2>7, <2>9, OwnStep DEF e
<1> QED BY <1>3, <1>7, <1>8

LEMMA KnowsAll ==
  ASSUME GenerationInv, NEW l \in Launchers, Frame(l), mem'[l].rows = ledger',
         disk'[ExecutionOf[l]].manifest = disk[ExecutionOf[l]].manifest
  PROVE  Knows(l)'
<1> DEFINE e == ExecutionOf[l]
           n == disk[e].manifest.campaign
           t == disk[e].manifest.units
<1>1. e \in Executions /\ Output(e) /\ disk[e] \in OutputType
  BY Known
<1>2. n \in Nat /\ t \in Nat /\ n <= Len(ledger) /\ (n = Len(ledger) => Total(ledger) <= t)
  BY <1>1 DEF OutputType, Output
<1> HIDE DEF n, t, e
<1>3. n <= Len(ledger') /\ (n = Len(ledger') => Total(ledger') <= t)
  BY <1>2, KnownStays
<1>4. Len(ledger') \in Nat /\ Total(ledger') \in Nat
  BY LedgerGoesOnInFrame
<1>5. Agree(ledger', ledger', ExecutionOf[l])
  BY DEF Agree
<1> QED BY <1>3, <1>4, <1>5 DEF Knows, Agree, n, t, e

(* A memory is the record of its fields.                                   *)
Uncounted(m, before) ==
  [m EXCEPT !.before = before, !.attempts = 0, !.retried = FALSE, !.repairing = FALSE]

LEMMA UncountedTyped ==
  ASSUME NEW m \in Memory, NEW before \in Nat
  PROVE  LET n == Uncounted(m, before) IN
         /\ n \in Memory
         /\ n.index = m.index /\ n.file = m.file /\ n.authority = m.authority
         /\ n.drafts = m.drafts /\ n.rows = m.rows /\ n.outputs = m.outputs /\ n.results = m.results
         /\ n.attempts = 0 /\ n.retried = FALSE /\ n.repairing = FALSE
<1> DEFINE n == Uncounted(m, before)
<1>1. n = [m EXCEPT !.before = before, !.attempts = 0, !.retried = FALSE, !.repairing = FALSE]
  BY DEF Uncounted
<1> HIDE DEF n
<1>2. n \in Memory
  <2> DEFINE zero == 0
             no == FALSE
  <2>1. zero \in 0..4 /\ no \in BOOLEAN
    OBVIOUS
  <2>2. n = [m EXCEPT !.before = before, !.attempts = zero, !.retried = no, !.repairing = no]
    BY <1>1
  <2> HIDE DEF zero, no
  <2> QED BY <2>1, <2>2 DEF Memory
<1>3. /\ n.index = m.index /\ n.file = m.file /\ n.authority = m.authority
      /\ n.drafts = m.drafts /\ n.rows = m.rows /\ n.outputs = m.outputs /\ n.results = m.results
  BY <1>1 DEF Memory
<1>4. n.attempts = 0 /\ n.retried = FALSE /\ n.repairing = FALSE
  BY <1>1 DEF Memory
<1> QED BY <1>2, <1>3, <1>4 DEF n

LEMMA FailedTyped ==
  ASSUME NEW m \in Memory, NEW c \in Cases
  PROVE  /\ BetweenCases(m) \in Memory /\ Failed(m, c) \in Memory
         /\ \A b \in {BetweenCases(m), Failed(m, c)} :
              b.index = m.index /\ b.file = m.file /\ b.authority = m.authority
              /\ b.drafts = m.drafts /\ b.rows = m.rows /\ b.outputs = m.outputs
         /\ BetweenCases(m).results = m.results
         /\ Failed(m, c).results = [m.results EXCEPT ![c] = "failed"]
<1> DEFINE b == BetweenCases(m)
<1>1. b = [m EXCEPT !.before = 0, !.attempts = 0, !.retried = FALSE, !.repairing = FALSE]
  BY DEF BetweenCases
<1>2. /\ b \in Memory /\ b.index = m.index /\ b.file = m.file /\ b.authority = m.authority
      /\ b.drafts = m.drafts /\ b.rows = m.rows /\ b.outputs = m.outputs /\ b.results = m.results
  <2>1. b = Uncounted(m, 0)
    BY <1>1 DEF Uncounted
  <2> HIDE DEF b
  <2> QED BY <2>1, UncountedTyped
<1> HIDE DEF b
<1>3. Failed(m, c) = [b EXCEPT !.results[c] = "failed", !.failures = TRUE]
  BY DEF Failed, b
<1>4. b.results \in [Cases -> {"absent", "completed", "failed"}]
  BY <1>2 DEF Memory
<1>5. Failed(m, c) = [b EXCEPT !.results = [b.results EXCEPT ![c] = "failed"], !.failures = TRUE]
  BY <1>2, <1>3, <1>4 DEF Memory
<1>6. [b.results EXCEPT ![c] = "failed"] \in [Cases -> {"absent", "completed", "failed"}]
  BY <1>4
<1>7. /\ Failed(m, c) \in Memory
      /\ Failed(m, c).index = b.index /\ Failed(m, c).file = b.file
      /\ Failed(m, c).authority = b.authority
      /\ Failed(m, c).drafts = b.drafts /\ Failed(m, c).rows = b.rows
      /\ Failed(m, c).outputs = b.outputs
      /\ Failed(m, c).results = [b.results EXCEPT ![c] = "failed"]
  BY <1>2, <1>5, <1>6 DEF Memory
<1> QED BY <1>2, <1>7 DEF b

(* A case ends, well or not, and its files are to be saved.                *)
LEMMA ToSave ==
  ASSUME GenerationInv, NEW l \in Launchers, Frame(l),
         pc[l] \in Buying \cup {"check"}, pc'[l] = "save",
         disk'[ExecutionOf[l]] = disk[ExecutionOf[l]],
         mem'[l] \in Memory, mem'[l].index = mem[l].index, mem'[l].file = mem[l].file,
         mem'[l].authority = mem[l].authority, mem'[l].drafts = mem[l].drafts,
         (mem'[l].rows = mem[l].rows /\ ledger' = ledger) \/ mem'[l].rows = ledger',
         \A c \in Cases : c # CaseOf(l) => mem'[l].results[c] = mem[l].results[c],
         mem'[l].results[CaseOf(l)] = "completed" => mem[l].drafts[CaseOf(l)].kind = "sound"
  PROVE  Own(l)'
<1> DEFINE e == ExecutionOf[l]
           d == disk[e]
           m == mem[l]
           a == CaseOf(l)
<1>1. /\ Own(l) /\ Output(e) /\ a \in Cases /\ m \in Memory
  BY Known
<1>2. pc[l] # "down" /\ pc[l] # "save" /\ pc[l] # "case"
  BY DEF Buying
<1>3. AtCase(l)' /\ Counts(l)' /\ Asks(l)'
  BY <1>1, <1>2 DEF Own, AtCase, Counts, Asks, Buying, Asking
<1>4. Place(l)'
  BY <1>1 DEF Own, Place, Buying
<1>5. Remembers(l)'
  <2>1. /\ m.drafts = d.drafts /\ m.results = d.results /\ ~d.manifest.completed
        /\ \A c \in Cases : m.results[c] = "completed" => m.drafts[c].kind = "sound"
        /\ pc[l] \in Buying => m.drafts[a] = NoDraft
        /\ pc[l] = "check" => m.results[a] # "completed"
    BY <1>1, <1>2 DEF Own, Remembers
  <2>2. m.results[a] # "completed"
    BY <1>1, <2>1 DEF NoDraft
  <2>3. m.file = 1
    BY <1>1, <1>2 DEF Own, AtCase
  <2> HIDE DEF d, m, a
  <2>4. \A c \in Cases : mem'[l].results[c] = "completed" => m.drafts[c].kind = "sound"
    BY <1>1, <2>1 DEF m, a
  <2>5. \A c \in Cases : m.results[c] = "completed" => mem'[l].results[c] = "completed"
    BY <1>1, <2>1, <2>2 DEF m, a
  <2> QED BY <2>1, <2>3, <2>4, <2>5 DEF Remembers, Buying, d, m
<1>6. Knows(l)'
  <2>1. CASE mem'[l].rows = ledger'
    BY <2>1, KnowsAll
  <2>2. CASE mem'[l].rows = m.rows /\ ledger' = ledger
    BY <1>1, <1>2, <2>2 DEF Own, Knows, Agree
  <2> QED BY <2>1, <2>2
<1> QED BY <1>3, <1>4, <1>5, <1>6 DEF Own

LEMMA NextCaseKeeps ==
  ASSUME GenerationInv, NEW l \in Launchers, NextCase(l)
  PROVE  GenerationInv'
<1> DEFINE e == ExecutionOf[l]
           m == mem[l]
           d == disk[e]
           a == CaseOf(l)
<1>0. Step(l) /\ Frame(l)
  BY Framed DEF Step
<1>1. /\ e \in Executions /\ ledger \in Seq(Row) /\ d \in OutputType /\ Len(Selected[e]) \in Nat
      /\ pc \in [Launchers -> Pcs] /\ mem \in [Launchers -> Memory]
      /\ m \in Memory /\ Output(e) /\ Own(l) /\ Typed
  BY Known
<1>2. /\ ledger' = ledger /\ lock' = lock /\ disk' = disk /\ seq' = seq /\ reply' = reply
      /\ billed' = billed /\ launches' = launches /\ pc[l] = "case" /\ m.index <= Len(Selected[e])
  BY DEF NextCase, campaign, outside
<1>3. a \in Cases /\ a \in Chosen(e)
  BY <1>1, <1>2, CaseTyped
<1>4. Output(e)' /\ SealFits(e)'
  BY <1>0, <1>1, <1>2, OutputKept, OwnSealKept
<1>5. /\ m.drafts = d.drafts /\ m.results = d.results
      /\ \A c \in Cases : m.results[c] = "completed" => m.drafts[c].kind = "sound"
      /\ d.manifest.completed => m.results[a] = "completed"
  BY <1>1, <1>2, <1>3 DEF Own, Remembers, Output
<1> DEFINE n == mem'[l]
<1>6. /\ n \in Memory /\ mem' = [mem EXCEPT ![l] = n]
      /\ n.authority = m.authority /\ n.results = m.results /\ n.drafts = m.drafts
      /\ n.rows = m.rows /\ n.file = m.file
      /\ pc'[l] \in Pcs /\ pc' = [pc EXCEPT ![l] = pc'[l]]
      /\ \/ /\ n.index = m.index + 1 /\ pc'[l] = "case"
         \/ /\ m.results[a] # "completed" /\ n.index = m.index
            /\ \/ pc'[l] = "check"
               \/ /\ pc'[l] = "reserve" /\ m.drafts[a] = NoDraft
                  /\ n.attempts = 0 /\ n.retried = FALSE /\ n.repairing = FALSE
  <2>1. CASE m.results[a] = "completed" /\ mem' = [mem EXCEPT ![l].index = @ + 1] /\ pc' = pc
    <3>1. n = [m EXCEPT !.index = m.index + 1] /\ mem' = [mem EXCEPT ![l] = n]
      BY <1>1, <2>1
    <3>2. n \in Memory
      <4> HIDE DEF n, m
      <4>1. m.index + 1 \in Nat \ {0}
        BY <1>1 DEF Memory
      <4> QED BY <1>1, <3>1, <4>1 DEF Memory
    <3> QED BY <1>1, <1>2, <2>1, <3>1, <3>2 DEF Memory
  <2>2. CASE m.results[a] # "completed" /\ pc' = [pc EXCEPT ![l] = "check"] /\ mem' = mem
    BY <1>1, <2>2 DEF Pcs
  <2>3. CASE /\ m.results[a] # "completed" /\ ~Drafted(l) /\ pc' = [pc EXCEPT ![l] = "reserve"]
             /\ mem' = [mem EXCEPT ![l] = [@ EXCEPT
                  !.before = Cardinality(SendsOf(m.rows, e)), !.attempts = 0,
                  !.retried = FALSE, !.repairing = FALSE]]
    <3> DEFINE b == Cardinality(SendsOf(m.rows, e))
    <3>1. b \in Nat
      <4>1. m.rows \in Seq(Row)
        BY <1>1 DEF Memory
      <4> QED BY <4>1, SendsFinite
    <3> HIDE DEF b
    <3>2. /\ n = [m EXCEPT !.before = b, !.attempts = 0, !.retried = FALSE, !.repairing = FALSE]
          /\ mem' = [mem EXCEPT ![l] = n]
      BY <1>1, <2>3 DEF b
    <3> HIDE DEF n
    <3>3. /\ n \in Memory /\ n.authority = m.authority /\ n.results = m.results
          /\ n.drafts = m.drafts
          /\ n.rows = m.rows /\ n.file = m.file /\ n.index = m.index
          /\ n.attempts = 0 /\ n.retried = FALSE /\ n.repairing = FALSE
      <4>1. n = Uncounted(m, b)
        BY <3>2 DEF Uncounted
      <4> HIDE DEF m
      <4> QED BY <1>1, <3>1, <4>1, UncountedTyped
    <3>4. pc'[l] = "reserve" /\ pc' = [pc EXCEPT ![l] = pc'[l]]
      BY <1>1, <2>3
    <3> QED BY <2>3, <3>2, <3>3, <3>4 DEF Drafted, Pcs
  <2> QED BY <2>1, <2>2, <2>3 DEF NextCase
<1> HIDE DEF n
<1>7. Typed'
  BY <1>0, <1>2, <1>6, TypedAfter DEF n
<1>8. Own(l)'
  <2>1. m.index \in Nat /\ m.file = 1
    BY <1>1, <1>2 DEF Memory, Own, AtCase
  <2>2. pc'[l] \in {"case", "check", "reserve"}
    BY <1>6
  <2>3. n.index = m.index => CaseOf(l)' = a
    BY DEF CaseOf, n
  <2>4. AtCase(l)'
    BY <1>1, <1>2, <1>6, <2>1, <2>2 DEF AtCase, Buying, n
  <2>5. Counts(l)' /\ Asks(l)'
    BY <1>6, <2>2 DEF Counts, Asks, Asking, Buying, Tried, n
  <2>6. Place(l)'
    BY <1>1, <1>2, <1>6, <2>2 DEF Own, Place, n
  <2>7. Remembers(l)'
    <3>1. d.manifest.completed => pc'[l] = "case"
      BY <1>5, <1>6
    <3>2. pc'[l] # "case" => CaseOf(l)' = a /\ m.results[a] # "completed"
      BY <1>6, <2>3
    <3>3. pc'[l] = "reserve" => m.drafts[a] = NoDraft
      BY <1>6
    <3> HIDE DEF d, m, a
    <3> QED BY <1>2, <1>5, <1>6, <2>2, <3>1, <3>2, <3>3 DEF Remembers, Buying, d, n
  <2>8. Knows(l)'
    BY <1>1, <1>2, <1>6 DEF Own, Knows, Agree, n
  <2> QED BY <2>4, <2>5, <2>6, <2>7, <2>8 DEF Own
<1> QED BY <1>0, <1>4, <1>7, <1>8, OwnStep

LEMMA AcquireKeeps ==
  ASSUME GenerationInv, NEW l \in Launchers, Acquire(l)
  PROVE  GenerationInv'
<1> DEFINE e == ExecutionOf[l]
           m == mem[l]
           a == CaseOf(l)
<1>0. Step(l) /\ Frame(l)
  BY Framed DEF Step
<1>1. /\ e \in Executions /\ pc \in [Launchers -> Pcs] /\ mem \in [Launchers -> Memory]
      /\ m \in Memory /\ Own(l) /\ Output(e)
  BY Known
<1>2. /\ ledger' = ledger /\ disk' = disk /\ seq' = seq /\ reply' = reply
      /\ billed' = billed /\ launches' = launches /\ pc[l] \in {"reserve", "complete"}
  BY DEF Acquire, outside
<1>3. Output(e)' /\ SealFits(e)'
  BY <1>0, <1>1, <1>2, OutputKept, OwnSealKept
<1>a. a \in Cases
  BY <1>2, Known DEF Buying
<1>4. CASE lock # Free
  <2>1. mem' = [mem EXCEPT ![l] = Failed(m, a)] /\ pc' = [pc EXCEPT ![l] = "save"] /\ lock' = lock
    BY <1>4 DEF Acquire
  <2>2. mem'[l] = Failed(m, a) /\ pc'[l] = "save"
    BY <1>1, <2>1
  <2> DEFINE n == mem'[l]
  <2> HIDE DEF n, m, a, e
  <2>3. /\ n \in Memory /\ n.index = m.index /\ n.file = m.file /\ n.authority = m.authority
        /\ n.drafts = m.drafts /\ n.rows = m.rows /\ n.results = [m.results EXCEPT ![a] = "failed"]
    BY <1>1, <1>a, <2>2, FailedTyped DEF n
  <2>4. m.results \in [Cases -> {"absent", "completed", "failed"}]
    BY <1>1 DEF Memory
  <2>5. (\A c \in Cases : c # a => n.results[c] = m.results[c]) /\ n.results[a] = "failed"
    BY <1>a, <2>3, <2>4
  <2>6. Own(l)'
    BY <1>0, <1>2, <2>2, <2>3, <2>5, ToSave DEF Buying, n, m, a
  <2>7. Typed'
    <3>1. mem' = [mem EXCEPT ![l] = n] /\ pc' = [pc EXCEPT ![l] = pc'[l]]
      BY <1>1, <2>1, <2>2 DEF n
    <3> QED BY <1>0, <1>2, <2>1, <2>2, <2>3, <3>1, TypedAfter DEF n, Pcs
  <2> QED BY <1>0, <1>3, <2>6, <2>7, OwnStep DEF e
<1>5. CASE lock = Free
  <2> DEFINE n == mem'[l]
             plus == IF pc[l] = "reserve" THEN m.attempts + 1 ELSE m.attempts
  <2>1. /\ lock' = l
        /\ pc' = [pc EXCEPT ![l] = IF pc[l] = "reserve" THEN "reserving" ELSE "completing"]
        /\ mem' = [mem EXCEPT ![l].attempts = IF pc[l] = "reserve" THEN @ + 1 ELSE @]
    BY <1>5 DEF Acquire
  <2>2. /\ pc'[l] = IF pc[l] = "reserve" THEN "reserving" ELSE "completing"
        /\ n = [m EXCEPT !.attempts = plus] /\ mem' = [mem EXCEPT ![l] = n]
        /\ pc' = [pc EXCEPT ![l] = pc'[l]]
    BY <1>1, <2>1
  <2>3. plus \in 0..4 /\ plus \in 1..(Tried(m) + 1)
    <3>1. /\ pc[l] = "reserve" => m.attempts <= Tried(m)
          /\ pc[l] = "complete" => m.attempts \in 1..(Tried(m) + 1)
      BY <1>1 DEF Own, Counts, Buying
    <3>2. Tried(m) \in 0..3 /\ m.attempts \in 0..4
      BY <1>1 DEF Tried, Memory
    <3> QED BY <1>2, <3>1, <3>2
  <2> HIDE DEF n, m, plus
  <2>4. /\ n \in Memory /\ n.index = m.index /\ n.file = m.file /\ n.authority = m.authority
        /\ n.drafts = m.drafts /\ n.rows = m.rows /\ n.results = m.results /\ n.attempts = plus
        /\ Tried(n) = Tried(m)
    BY <1>1, <2>2, <2>3 DEF Memory, Tried
  <2>5. Typed'
    <3>1. lock' \in {lock, l, Free, Stale} /\ pc'[l] \in Pcs
      BY <2>1, <2>2 DEF Pcs
    <3> QED BY <1>0, <1>2, <2>2, <2>4, <3>1, TypedAfter DEF n
  <2>6. Own(l)'
    <3>0. pc'[l] \in {"reserving", "completing"} /\ (pc'[l] = "completing" => pc[l] = "complete")
      BY <1>2, <2>2
    <3>1. CaseOf(l)' = CaseOf(l)
      BY <2>4 DEF CaseOf, n, m
    <3>2. AtCase(l)' /\ Counts(l)'
      BY <1>1, <1>2, <2>3, <2>4, <3>0 DEF Own, AtCase, Counts, Buying, n, m
    <3>3. Asks(l)'
      BY <1>1, <1>2, <3>0, <3>1 DEF Own, Asks, Asking
    <3>4. Place(l)'
      BY <1>1, <1>2, <2>4, <3>0 DEF Own, Place, n, m
    <3>5. Remembers(l)'
      BY <1>1, <1>2, <2>4, <3>0, <3>1 DEF Own, Remembers, Buying, n, m
    <3>6. Knows(l)'
      BY <1>1, <1>2, <2>4 DEF Own, Knows, Agree, n, m
    <3> QED BY <3>2, <3>3, <3>4, <3>5, <3>6 DEF Own
  <2> QED BY <1>0, <1>3, <2>5, <2>6, OwnStep
<1> QED BY <1>4, <1>5

LEMMA ReserveKeeps ==
  ASSUME GenerationInv, NEW l \in Launchers, Reserve(l)
  PROVE  GenerationInv'
<1> DEFINE e == ExecutionOf[l]
           m == mem[l]
           a == CaseOf(l)
           n == mem'[l]
<1>0. Step(l) /\ Frame(l)
  BY Framed DEF Step
<1>1. /\ e \in Executions /\ pc \in [Launchers -> Pcs] /\ mem \in [Launchers -> Memory]
      /\ m \in Memory /\ Own(l) /\ Output(e) /\ ledger \in Seq(Row)
      /\ seq \in [Launchers -> 0..MaxSends]
  BY Known
<1>2. /\ disk' = disk /\ reply' = reply
      /\ billed' = billed /\ launches' = launches /\ pc[l] = "reserving"
  BY DEF Reserve, outside
<1>3. Output(e)' /\ SealFits(e)'
  BY <1>0, <1>1, <1>2, OutputKept, OwnSealKept
<1>a. a \in Cases
  BY <1>2, Known DEF Buying
<1>b. ledger' \in Seq(Row) /\ Len(ledger') <= MaxSends
  BY <1>0, LedgerGoesOnInFrame
<1>4. CASE ~MayReserve(ledger, e, a)
  <2> DEFINE b == [m EXCEPT !.rows = ledger]
  <2>1. mem' = [mem EXCEPT ![l] = Failed(b, a)] /\ pc' = [pc EXCEPT ![l] = "save"]
        /\ lock' = Free /\ ledger' = ledger /\ seq' = seq
    BY <1>4 DEF Reserve
  <2>2. n = Failed(b, a) /\ pc'[l] = "save"
    BY <1>1, <2>1
  <2>3. /\ b \in Memory /\ b.index = m.index /\ b.file = m.file /\ b.authority = m.authority
        /\ b.drafts = m.drafts /\ b.rows = ledger /\ b.results = m.results
    BY <1>1 DEF Memory
  <2> HIDE DEF b, n, m, a, e
  <2>4. /\ n \in Memory /\ n.index = m.index /\ n.file = m.file /\ n.authority = m.authority
        /\ n.drafts = m.drafts /\ n.rows = ledger /\ n.results = [m.results EXCEPT ![a] = "failed"]
    BY <1>a, <2>2, <2>3, FailedTyped
  <2>5. m.results \in [Cases -> {"absent", "completed", "failed"}]
    BY <1>1 DEF Memory
  <2>6. (\A c \in Cases : c # a => n.results[c] = m.results[c]) /\ n.results[a] = "failed"
    BY <1>a, <2>4, <2>5
  <2>7. Own(l)'
    BY <1>0, <1>2, <2>1, <2>2, <2>4, <2>6, ToSave DEF Buying, n, m, a
  <2>8. Typed'
    <3>1. mem' = [mem EXCEPT ![l] = n] /\ pc' = [pc EXCEPT ![l] = pc'[l]]
      BY <1>1, <2>1, <2>2 DEF n
    <3> QED BY <1>0, <1>2, <2>1, <2>2, <2>4, <3>1, TypedAfter DEF n, Pcs
  <2> QED BY <1>0, <1>3, <2>7, <2>8, OwnStep DEF e
<1>5. CASE MayReserve(ledger, e, a)
  <2> DEFINE s == Len(ledger) + 1
  <2>1. /\ ledger' = Append(ledger, Reserved(e, a)) /\ seq' = [seq EXCEPT ![l] = s]
        /\ mem' = [mem EXCEPT ![l].rows = ledger'] /\ pc' = [pc EXCEPT ![l] = "reserved"]
        /\ lock' = lock
    BY <1>5 DEF Reserve
  <2>2. /\ n = [m EXCEPT !.rows = ledger'] /\ mem' = [mem EXCEPT ![l] = n]
        /\ pc'[l] = "reserved" /\ pc' = [pc EXCEPT ![l] = pc'[l]]
        /\ seq'[l] = s /\ seq' = [seq EXCEPT ![l] = seq'[l]]
    BY <1>1, <2>1
  <2>3. Len(ledger) \in Nat /\ Len(ledger) < MaxSends
    BY <1>1, <1>5 DEF MayReserve
  <2>4. s \in 0..MaxSends /\ s \in Sends
    BY <2>3, LedgerAssumption DEF Sends
  <2>5. Reserved(e, a) \in Row
    BY <1>1, <1>a, ReservedTyped
  <2>6. s \in DOMAIN ledger' /\ ledger'[s] = Reserved(e, a)
    BY <1>1, <2>1, <2>3, <2>5, AppendProperties
  <2>7. billed[s] = 0
    <3>1. s \notin DOMAIN ledger
      BY <1>1, <2>3
    <3>2. ~(billed[s] > 0)
      BY <2>4, <3>1 DEF GenerationInv, LedgerCoversBill
    <3>3. billed[s] \in Nat
      BY <2>4 DEF GenerationInv, Typed, TypeOK
    <3> QED BY <3>2, <3>3
  <2> HIDE DEF s, n, m, e
  <2>8. /\ n \in Memory /\ n.index = m.index /\ n.file = m.file /\ n.authority = m.authority
        /\ n.drafts = m.drafts /\ n.rows = ledger' /\ n.results = m.results
        /\ n.attempts = m.attempts /\ Tried(n) = Tried(m)
    BY <1>1, <1>b, <2>2 DEF Memory, Tried
  <2>9. Typed'
    BY <1>0, <1>2, <2>1, <2>2, <2>4, <2>8, TypedAfter DEF n, Pcs
  <2>10. Own(l)'
    <3>1. CaseOf(l)' = a
      BY <2>8 DEF CaseOf, n, m
    <3>2. AtCase(l)' /\ Counts(l)'
      BY <1>1, <1>2, <2>2, <2>8 DEF Own, AtCase, Counts, Buying, n, m
    <3>3. Asks(l)'
      BY <1>2, <2>2, <2>6, <2>7, <3>1 DEF Asks, Asking, e
    <3>4. Place(l)'
      BY <1>1, <1>2, <2>2, <2>8 DEF Own, Place, n, m
    <3>5. Remembers(l)'
      BY <1>1, <1>2, <2>2, <2>8, <3>1 DEF Own, Remembers, Buying, n, m
    <3>6. Knows(l)'
      BY <1>0, <1>2, <2>8, KnowsAll DEF n
    <3> QED BY <3>2, <3>3, <3>4, <3>5, <3>6 DEF Own
  <2> QED BY <1>0, <1>3, <2>9, <2>10, OwnStep DEF e
<1> QED BY <1>4, <1>5

LEMMA TransportKeeps ==
  ASSUME GenerationInv, NEW l \in Launchers, Transport(l)
  PROVE  GenerationInv'
<1> DEFINE e == ExecutionOf[l]
           s == seq[l]
<1>0. Step(l) /\ Frame(l)
  BY Framed DEF Step
<1>1. /\ e \in Executions /\ pc \in [Launchers -> Pcs] /\ mem \in [Launchers -> Memory]
      /\ mem[l] \in Memory /\ Own(l) /\ ledger \in Seq(Row) /\ s \in 0..MaxSends
      /\ reply \in [Launchers -> Replies \cup {NoReply}]
  BY Known
<1>2. /\ disk' = disk /\ ledger' = ledger /\ seq' = seq /\ mem' = mem /\ launches' = launches
      /\ pc[l] = "reserved" /\ lock' = Free /\ pc' = [pc EXCEPT ![l] = "complete"]
  BY DEF Transport, outside
<1>3. Output(e)' /\ SealFits(e)'
  BY <1>0, <1>1, <1>2, OutputKept, OwnSealKept
<1>4. PICK r \in Replies :
        /\ reply' = [reply EXCEPT ![l] = r]
        /\ billed' = [billed EXCEPT ![s] = @ + (IF r.units = Unknown THEN Ceiling ELSE r.units)]
  BY DEF Transport
<1>5. s \in DOMAIN ledger /\ ledger[s] = Reserved(e, CaseOf(l)) /\ billed[s] = 0
  BY <1>1, <1>2 DEF Own, Asks, Asking
<1>6. s \in Sends /\ billed \in [Sends -> Nat]
  <2>1. Len(ledger) \in Nat /\ Len(ledger) <= MaxSends /\ billed \in [Sends -> Nat]
    BY <1>1 DEF GenerationInv, LedgerCoversBill, Typed, TypeOK
  <2>2. s \in 1..Len(ledger)
    BY <1>1, <1>5
  <2> QED BY <2>1, <2>2, LedgerAssumption DEF Sends
<1>7. Accounted(r) \in Nat /\ Accounted(r) = IF r.units = Unknown THEN Ceiling ELSE r.units
  <2>1. r \in ProviderReplies
    BY GenerationAssumption
  <2> QED BY <2>1, LedgerAssumption DEF ProviderReplies, Accounted, Unknown
<1>8. /\ reply'[l] = r /\ reply' = [reply EXCEPT ![l] = reply'[l]]
      /\ billed'[s] = Accounted(r) /\ billed' = [billed EXCEPT ![s] = billed'[s]]
      /\ pc'[l] = "complete" /\ pc' = [pc EXCEPT ![l] = pc'[l]]
  <2>1. billed'[s] = Accounted(r)
    BY <1>4, <1>5, <1>6, <1>7
  <2> QED BY <1>1, <1>2, <1>4, <1>6, <2>1
<1> HIDE DEF e, s
<1>9. Typed'
  <2>1. lock' \in {lock, l, Free, Stale} /\ mem' = [mem EXCEPT ![l] = mem'[l]] /\ pc'[l] \in Pcs
    BY <1>1, <1>2, <1>8 DEF Pcs
  <2> QED BY <1>0, <1>1, <1>2, <1>6, <1>7, <1>8, <2>1, TypedAfter DEF s
<1>10. Own(l)'
  <2>1. CaseOf(l)' = CaseOf(l)
    BY <1>2 DEF CaseOf
  <2>2. AtCase(l)' /\ Counts(l)'
    BY <1>1, <1>2, <1>8 DEF Own, AtCase, Counts, Buying
  <2>3. Asks(l)'
    BY <1>2, <1>5, <1>7, <1>8, <2>1 DEF Asks, Asking, e, s
  <2>4. Place(l)' /\ Remembers(l)'
    BY <1>1, <1>2, <1>8, <2>1 DEF Own, Place, Remembers, Buying
  <2>5. Knows(l)'
    BY <1>1, <1>2 DEF Own, Knows, Agree
  <2> QED BY <2>2, <2>3, <2>4, <2>5 DEF Own
<1> QED BY <1>0, <1>3, <1>9, <1>10, OwnStep DEF e

LEMMA CompleteKeeps ==
  ASSUME GenerationInv, NEW l \in Launchers, Complete(l)
  PROVE  GenerationInv'
<1> DEFINE e == ExecutionOf[l]
           m == mem[l]
           n == mem'[l]
<1>0. Step(l) /\ Frame(l)
  BY Framed DEF Step
<1>1. /\ e \in Executions /\ pc \in [Launchers -> Pcs] /\ mem \in [Launchers -> Memory]
      /\ m \in Memory /\ Own(l) /\ ledger \in Seq(Row)
  BY Known
<1>2. /\ disk' = disk /\ seq' = seq /\ launches' = launches /\ lock' = lock /\ reply' = reply
      /\ billed' = billed /\ pc[l] = "completing" /\ pc' = [pc EXCEPT ![l] = "completed"]
      /\ mem' = [mem EXCEPT ![l].rows = ledger']
  BY DEF Complete, outside
<1>3. Output(e)' /\ SealFits(e)'
  BY <1>0, <1>1, <1>2, OutputKept, OwnSealKept
<1>4. ledger' \in Seq(Row)
  BY <1>0, LedgerGoesOnInFrame
<1>5. /\ n = [m EXCEPT !.rows = ledger'] /\ mem' = [mem EXCEPT ![l] = n]
      /\ pc'[l] = "completed" /\ pc' = [pc EXCEPT ![l] = pc'[l]]
  BY <1>1, <1>2
<1> HIDE DEF n, m, e
<1>6. /\ n \in Memory /\ n.index = m.index /\ n.file = m.file /\ n.authority = m.authority
      /\ n.drafts = m.drafts /\ n.rows = ledger' /\ n.results = m.results
      /\ n.attempts = m.attempts /\ Tried(n) = Tried(m)
  BY <1>1, <1>4, <1>5 DEF Memory, Tried
<1>7. Typed'
  BY <1>0, <1>2, <1>5, <1>6, TypedAfter DEF n, Pcs
<1>8. Own(l)'
  <2>1. CaseOf(l)' = CaseOf(l)
    BY <1>6 DEF CaseOf, n, m
  <2>2. AtCase(l)' /\ Counts(l)'
    BY <1>1, <1>2, <1>5, <1>6 DEF Own, AtCase, Counts, Buying, n, m
  <2>3. Asks(l)'
    BY <1>1, <1>2, <1>5 DEF Own, Asks, Asking
  <2>4. Place(l)' /\ Remembers(l)'
    BY <1>1, <1>2, <1>5, <1>6, <2>1 DEF Own, Place, Remembers, Buying, n, m
  <2>5. Knows(l)'
    BY <1>0, <1>2, <1>6, KnowsAll DEF n
  <2> QED BY <2>2, <2>3, <2>4, <2>5 DEF Own
<1> QED BY <1>0, <1>3, <1>7, <1>8, OwnStep DEF e

LEMMA SettleKeeps ==
  ASSUME GenerationInv, NEW l \in Launchers, Settle(l)
  PROVE  GenerationInv'
<1> DEFINE e == ExecutionOf[l]
           m == mem[l]
           n == mem'[l]
           a == CaseOf(l)
           d == disk[e]
           k == reply[l].kind
           draft == [kind |-> k, attempts |-> m.attempts]
<1>0. Step(l) /\ Frame(l)
  BY Framed DEF Step
<1>1. /\ e \in Executions /\ pc \in [Launchers -> Pcs] /\ mem \in [Launchers -> Memory]
      /\ m \in Memory /\ Own(l) /\ Output(e) /\ d \in OutputType
      /\ seq \in [Launchers -> 0..MaxSends] /\ reply \in [Launchers -> Replies \cup {NoReply}]
      /\ disk \in [Executions -> OutputType] /\ ledger \in Seq(Row)
  BY Known
<1>2. /\ ledger' = ledger /\ launches' = launches /\ lock' = Free
      /\ billed' = billed /\ pc[l] = "completed"
      /\ seq' = [seq EXCEPT ![l] = 0] /\ reply' = [reply EXCEPT ![l] = NoReply]
  BY DEF Settle, outside
<1>3. SealFits(e)'
  BY <1>0, <1>2, OwnSealKept
<1>4. a \in Cases
  BY <1>2, Known DEF Buying
<1>5. /\ seq'[l] \in 0..MaxSends /\ seq' = [seq EXCEPT ![l] = seq'[l]]
      /\ reply'[l] \in Replies \cup {NoReply} /\ reply' = [reply EXCEPT ![l] = reply'[l]]
  BY <1>1, <1>2, LedgerAssumption
<1>6. /\ m.drafts = d.drafts /\ m.results = d.results /\ ~d.manifest.completed
      /\ \A c \in Cases : m.results[c] = "completed" => m.drafts[c].kind = "sound"
      /\ m.drafts[a] = NoDraft
  BY <1>1, <1>2 DEF Own, Remembers, Buying
<1>7. m.results[a] # "completed"
  BY <1>4, <1>6 DEF NoDraft
<1>8. m.attempts \in 1..(Tried(m) + 1) /\ Tried(m) \in 0..3 /\ m.attempts \in 1..4
  <2>1. m.attempts \in 1..(Tried(m) + 1)
    BY <1>1, <1>2 DEF Own, Counts, Buying
  <2>2. Tried(m) \in 0..3
    BY <1>1 DEF Tried, Memory
  <2> QED BY <2>1, <2>2
<1>9. ASSUME disk' = disk PROVE Output(e)'
  BY <1>0, <1>1, <1>9, OutputKept
<1>10. ASSUME \/ ~m.retried /\ mem' = [mem EXCEPT ![l].retried = TRUE]
              \/ ~m.repairing /\ mem' = [mem EXCEPT ![l] = [@ EXCEPT !.repairing = TRUE, !.retried = FALSE]],
              pc' = [pc EXCEPT ![l] = "reserve"], disk' = disk
       PROVE  GenerationInv'
  <2>1. /\ \/ ~m.retried /\ n = [m EXCEPT !.retried = TRUE]
           \/ ~m.repairing /\ n = [m EXCEPT !.repairing = TRUE, !.retried = FALSE]
        /\ mem' = [mem EXCEPT ![l] = n] /\ pc'[l] = "reserve" /\ pc' = [pc EXCEPT ![l] = pc'[l]]
    BY <1>1, <1>10
  <2> HIDE DEF n, m, a, d, e
  <2>2. /\ n \in Memory /\ n.index = m.index /\ n.file = m.file /\ n.authority = m.authority
        /\ n.drafts = m.drafts /\ n.rows = m.rows /\ n.results = m.results
        /\ n.attempts = m.attempts
    <3> DEFINE yes == TRUE
               no == FALSE
    <3>1. yes \in BOOLEAN /\ no \in BOOLEAN
      OBVIOUS
    <3>2. \/ n = [m EXCEPT !.retried = yes]
          \/ n = [m EXCEPT !.repairing = yes, !.retried = no]
      BY <2>1
    <3> HIDE DEF yes, no
    <3>3. CASE n = [m EXCEPT !.retried = yes]
      BY <1>1, <3>1, <3>3 DEF Memory
    <3>4. CASE n = [m EXCEPT !.repairing = yes, !.retried = no]
      BY <1>1, <3>1, <3>4 DEF Memory
    <3> QED BY <3>2, <3>3, <3>4
  <2>3. n.attempts <= Tried(n)
    <3>1. CASE ~m.retried /\ n = [m EXCEPT !.retried = TRUE]
      <4>1. n.retried = TRUE /\ n.repairing = m.repairing
        BY <1>1, <3>1 DEF Memory
      <4> QED BY <1>8, <2>2, <3>1, <4>1 DEF Tried
    <3>2. CASE ~m.repairing /\ n = [m EXCEPT !.repairing = TRUE, !.retried = FALSE]
      <4>1. n.retried = FALSE /\ n.repairing = TRUE
        BY <1>1, <3>2 DEF Memory
      <4> QED BY <1>8, <2>2, <3>2, <4>1 DEF Tried
    <3> QED BY <2>1, <3>1, <3>2
  <2>4. Typed'
    <3>1. lock' \in {lock, l, Free, Stale} /\ pc'[l] \in Pcs
      BY <1>2, <2>1 DEF Pcs
    <3> QED BY <1>0, <1>2, <1>5, <1>10, <2>1, <2>2, <3>1, TypedAfter DEF n
  <2>5. Own(l)'
    <3>1. CaseOf(l)' = a
      BY <2>2 DEF CaseOf, n, m, a
    <3>2. AtCase(l)' /\ Counts(l)'
      BY <1>1, <1>2, <2>1, <2>2, <2>3 DEF Own, AtCase, Counts, Buying, n, m
    <3>3. Asks(l)'
      BY <2>1 DEF Asks, Asking
    <3>4. Place(l)'
      BY <1>1, <1>2, <1>10, <2>1, <2>2 DEF Own, Place, n, m
    <3>5. Remembers(l)'
      BY <1>6, <1>10, <2>1, <2>2, <3>1 DEF Remembers, Buying, n, d, e
    <3>6. Knows(l)'
      BY <1>1, <1>2, <1>10, <2>2 DEF Own, Knows, Agree, n, m
    <3> QED BY <3>2, <3>3, <3>4, <3>5, <3>6 DEF Own
  <2> QED BY <1>0, <1>3, <1>9, <1>10, <2>4, <2>5, OwnStep DEF e
<1>11. ASSUME k \in {"sound", "unsound"},
              mem' = [mem EXCEPT ![l] = [BetweenCases(@) EXCEPT !.drafts[a] = draft]],
              disk' = [disk EXCEPT ![e].drafts = n.drafts],
              pc' = [pc EXCEPT ![l] = "check"]
       PROVE  GenerationInv'
  <2> DEFINE b == BetweenCases(m)
             drafts == [m.drafts EXCEPT ![a] = draft]
  <2>1. /\ b \in Memory /\ b.index = m.index /\ b.file = m.file /\ b.authority = m.authority
        /\ b.drafts = m.drafts /\ b.rows = m.rows /\ b.results = m.results
    BY <1>1, <1>4, FailedTyped
  <2>2. /\ n = [b EXCEPT !.drafts[a] = draft] /\ mem' = [mem EXCEPT ![l] = n]
        /\ pc'[l] = "check" /\ pc' = [pc EXCEPT ![l] = pc'[l]]
        /\ disk'[e] = [d EXCEPT !.drafts = n.drafts] /\ disk' = [disk EXCEPT ![e] = disk'[e]]
    <3> HIDE DEF k, draft, a
    <3>1. n = [b EXCEPT !.drafts[a] = draft] /\ mem' = [mem EXCEPT ![l] = n]
      BY <1>1, <1>11
    <3>2. disk'[e] = [d EXCEPT !.drafts = n.drafts] /\ disk' = [disk EXCEPT ![e] = disk'[e]]
      <4> DEFINE x == n.drafts
      <4>1. disk' = [disk EXCEPT ![e].drafts = x]
        BY <1>11
      <4> HIDE DEF x, n, m
      <4> QED BY <1>1, <4>1 DEF x
    <3>3. pc'[l] = "check" /\ pc' = [pc EXCEPT ![l] = pc'[l]]
      BY <1>1, <1>11
    <3> QED BY <3>1, <3>2, <3>3
  <2>3. draft \in Draft /\ m.drafts \in [Cases -> Draft]
    <3>1. m.attempts \in 1..4 /\ k \in {"sound", "unsound"}
      BY <1>8, <1>11
    <3>2. m.drafts \in [Cases -> Draft]
      BY <1>1 DEF Memory
    <3> HIDE DEF k, m
    <3> QED BY <3>1, <3>2 DEF Draft
  <2>4. drafts \in [Cases -> Draft] /\ drafts[a] = draft
      /\ \A c \in Cases : c # a => drafts[c] = m.drafts[c]
    BY <1>4, <2>3
  <2> HIDE DEF b
  <2>5. n = [b EXCEPT !.drafts = drafts]
    <3> HIDE DEF n, draft
    <3> QED BY <1>1, <2>1, <2>2 DEF Memory
  <2> HIDE DEF drafts, n, m, d, e, draft, a, k
  <2>6. /\ n \in Memory /\ n.index = m.index /\ n.file = m.file /\ n.authority = m.authority
        /\ n.drafts = drafts /\ n.rows = m.rows /\ n.results = m.results
    BY <2>1, <2>4, <2>5 DEF Memory
  <2>7. /\ disk'[e] \in OutputType /\ disk'[e].stage = d.stage /\ disk'[e].authority = d.authority
        /\ disk'[e].drafts = drafts /\ disk'[e].results = d.results
        /\ disk'[e].manifest = d.manifest
    BY <1>1, <2>2, <2>4, <2>6 DEF OutputType
  <2>8. Typed'
    <3>1. lock' \in {lock, l, Free, Stale} /\ pc'[l] \in Pcs
      BY <1>2, <2>2 DEF Pcs
    <3> QED BY <1>0, <1>2, <1>5, <2>2, <2>6, <2>7, <3>1, TypedAfter DEF n, e
  <2>9. \A c \in Cases : m.results[c] = "completed" => drafts[c].kind = "sound"
    BY <1>6, <1>7, <2>4
  <2>10. d.stage = "ready" /\ d.authority = m.authority
    BY <1>1, <1>2 DEF Own, Place, d, e, m
  <2>11. Output(e)'
    BY <1>1, <1>2, <1>6, <2>7, <2>9, <2>10 DEF Output, d
  <2>12. Own(l)'
    <3>1. CaseOf(l)' = a
      BY <2>6 DEF CaseOf, n, m, a
    <3>2. AtCase(l)' /\ Counts(l)' /\ Asks(l)'
      BY <1>1, <1>2, <2>2, <2>6 DEF Own, AtCase, Counts, Asks, Asking, Buying, n, m
    <3>3. Place(l)'
      BY <2>2, <2>6, <2>7, <2>10 DEF Place, n, e
    <3>4. Remembers(l)'
      <4>1. pc'[l] = "check" /\ disk'[e].drafts = n.drafts /\ disk'[e].results = n.results
        BY <1>6, <2>2, <2>6, <2>7
      <4>2. n.results[a] # "completed" /\ ~disk'[e].manifest.completed
        BY <1>6, <1>7, <2>6, <2>7
      <4>3. \A c \in Cases : n.results[c] = "completed" => n.drafts[c].kind = "sound"
        BY <2>6, <2>9
      <4>4. CaseOf(l)' = a /\ n = mem'[l] /\ e = ExecutionOf[l]
        BY <3>1 DEF n, e
      <4> QED BY <4>1, <4>2, <4>3, <4>4, Zenon DEF Remembers, Buying
    <3>5. Knows(l)'
      BY <1>1, <1>2, <2>6, <2>7 DEF Own, Knows, Agree, n, m, d, e
    <3> QED BY <3>2, <3>3, <3>4, <3>5 DEF Own
  <2> QED BY <1>0, <1>3, <2>8, <2>11, <2>12, OwnStep DEF e
<1>12. ASSUME mem' = [mem EXCEPT ![l] = Failed(@, a)], pc' = [pc EXCEPT ![l] = "save"], disk' = disk
       PROVE  GenerationInv'
  <2>1. n = Failed(m, a) /\ mem' = [mem EXCEPT ![l] = n] /\ pc'[l] = "save"
      /\ pc' = [pc EXCEPT ![l] = pc'[l]]
    BY <1>1, <1>12
  <2> HIDE DEF n, m, a, e
  <2>2. /\ n \in Memory /\ n.index = m.index /\ n.file = m.file /\ n.authority = m.authority
        /\ n.drafts = m.drafts /\ n.rows = m.rows /\ n.results = [m.results EXCEPT ![a] = "failed"]
    BY <1>1, <1>4, <2>1, FailedTyped
  <2>3. m.results \in [Cases -> {"absent", "completed", "failed"}]
    BY <1>1 DEF Memory
  <2>4. (\A c \in Cases : c # a => n.results[c] = m.results[c]) /\ n.results[a] = "failed"
    BY <1>4, <2>2, <2>3
  <2>5. Own(l)'
    BY <1>0, <1>2, <1>12, <2>1, <2>2, <2>4, ToSave DEF Buying, n, m, a
  <2>6. Typed'
    <3>1. lock' \in {lock, l, Free, Stale} /\ pc'[l] \in Pcs
      BY <1>2, <2>1 DEF Pcs
    <3> QED BY <1>0, <1>2, <1>5, <1>12, <2>1, <2>2, <3>1, TypedAfter DEF n
  <2> QED BY <1>0, <1>3, <1>9, <1>12, <2>5, <2>6, OwnStep DEF e
<1>13. \/ /\ ~m.retried /\ mem' = [mem EXCEPT ![l].retried = TRUE]
          /\ pc' = [pc EXCEPT ![l] = "reserve"] /\ disk' = disk
       \/ /\ ~m.repairing /\ mem' = [mem EXCEPT ![l] = [@ EXCEPT !.repairing = TRUE, !.retried = FALSE]]
          /\ pc' = [pc EXCEPT ![l] = "reserve"] /\ disk' = disk
       \/ /\ k \in {"sound", "unsound"}
          /\ mem' = [mem EXCEPT ![l] = [BetweenCases(@) EXCEPT !.drafts[a] = draft]]
          /\ disk' = [disk EXCEPT ![e].drafts = n.drafts]
          /\ pc' = [pc EXCEPT ![l] = "check"]
       \/ /\ mem' = [mem EXCEPT ![l] = Failed(@, a)]
          /\ pc' = [pc EXCEPT ![l] = "save"] /\ disk' = disk
  BY Zenon DEF Settle
<1> HIDE DEF e, m, n, a, d, k, draft
<1> QED BY <1>10, <1>11, <1>12, <1>13

LEMMA CheckKeeps ==
  ASSUME GenerationInv, NEW l \in Launchers, Check(l)
  PROVE  GenerationInv'
<1> DEFINE e == ExecutionOf[l]
           m == mem[l]
           n == mem'[l]
           a == CaseOf(l)
<1>0. Step(l) /\ Frame(l)
  BY Framed DEF Step
<1>1. /\ e \in Executions /\ pc \in [Launchers -> Pcs] /\ mem \in [Launchers -> Memory]
      /\ m \in Memory /\ Own(l)
  BY Known
<1>2. /\ ledger' = ledger /\ lock' = lock /\ disk' = disk /\ seq' = seq /\ reply' = reply
      /\ billed' = billed /\ launches' = launches /\ pc[l] = "check"
      /\ pc' = [pc EXCEPT ![l] = "save"]
  BY DEF Check, campaign, outside
<1>3. Output(e)' /\ SealFits(e)'
  BY <1>0, <1>1, <1>2, OutputKept, OwnSealKept
<1>4. a \in Cases
  BY <1>2, Known
<1>5. /\ mem' = [mem EXCEPT ![l] = n] /\ pc'[l] = "save" /\ pc' = [pc EXCEPT ![l] = pc'[l]]
      /\ n = IF m.drafts[a].kind = "sound"
             THEN Completed(m, a)
             ELSE Failed(m, a)
  <2> DEFINE k == IF mem[l].drafts[CaseOf(l)].kind = "sound"
                  THEN Completed(mem[l], CaseOf(l))
                  ELSE Failed(mem[l], CaseOf(l))
  <2>1. mem' = [mem EXCEPT ![l] = k]
    BY Zenon DEF Check
  <2>2. k = IF m.drafts[a].kind = "sound"
            THEN Completed(m, a)
            ELSE Failed(m, a)
    OBVIOUS
  <2> HIDE DEF k, a
  <2>3. n = k
    BY <1>1, <2>1
  <2>4. mem' = [mem EXCEPT ![l] = n]
    BY <2>1, <2>3
  <2>5. pc'[l] = "save" /\ pc' = [pc EXCEPT ![l] = pc'[l]]
    BY <1>1, <1>2
  <2> HIDE DEF n, m
  <2> QED BY <2>2, <2>3, <2>4, <2>5
<1> HIDE DEF e, m, n, a
<1>6. m.results \in [Cases -> {"absent", "completed", "failed"}] /\ m.outputs \in SUBSET Cases
  BY <1>1 DEF Memory
<1>7. /\ n \in Memory /\ n.index = m.index /\ n.file = m.file /\ n.authority = m.authority
      /\ n.drafts = m.drafts /\ n.rows = m.rows
      /\ \A c \in Cases : c # a => n.results[c] = m.results[c]
      /\ n.results[a] = "completed" => m.drafts[a].kind = "sound"
  <2>1. CASE m.drafts[a].kind = "sound"
    <3> DEFINE results == [m.results EXCEPT ![a] = "completed"]
               outputs == m.outputs \cup {a}
    <3>1. n = [m EXCEPT !.results = results, !.outputs = outputs]
      BY <1>1, <1>5, <1>6, <2>1 DEF Memory, Completed
    <3>2. /\ results \in [Cases -> {"absent", "completed", "failed"}] /\ outputs \in SUBSET Cases
          /\ \A c \in Cases : c # a => results[c] = m.results[c]
      BY <1>4, <1>6
    <3> HIDE DEF results, outputs
    <3>3. /\ n \in Memory /\ n.index = m.index /\ n.file = m.file /\ n.authority = m.authority
          /\ n.drafts = m.drafts /\ n.rows = m.rows /\ n.results = results
      BY <1>1, <3>1, <3>2 DEF Memory
    <3> QED BY <2>1, <3>2, <3>3
  <2>2. CASE m.drafts[a].kind # "sound"
    <3>1. n = Failed(m, a)
      BY <1>5, <2>2
    <3>2. /\ n \in Memory /\ n.index = m.index /\ n.file = m.file /\ n.authority = m.authority
          /\ n.drafts = m.drafts /\ n.rows = m.rows
          /\ n.results = [m.results EXCEPT ![a] = "failed"]
      BY <1>1, <1>4, <3>1, FailedTyped
    <3> QED BY <1>4, <1>6, <3>2
  <2> QED BY <2>1, <2>2
<1>8. Own(l)'
  BY <1>0, <1>2, <1>5, <1>7, ToSave DEF n, m, a
<1>9. Typed'
  BY <1>0, <1>2, <1>5, <1>7, TypedAfter DEF n, Pcs
<1> QED BY <1>0, <1>3, <1>8, <1>9, OwnStep DEF e

(* What the manifest says.                                                 *)
LEMMA ManifestIs ==
  ASSUME GenerationInv, NEW l \in Launchers
  PROVE  LET m == mem[l]
             e == ExecutionOf[l] IN
         /\ Manifest(l) \in [completed : BOOLEAN, outputs : SUBSET Cases,
                             sends : Nat, campaign : Nat, units : Nat]
         /\ Manifest(l).completed <=> \A c \in Chosen(e) : m.results[c] = "completed"
         /\ Manifest(l).completed => Manifest(l).outputs = disk[e].outputs
         /\ Manifest(l).sends = Cardinality(SendsOf(m.rows, e))
         /\ Manifest(l).campaign = Len(m.rows) /\ Manifest(l).units = Total(m.rows)
<1> DEFINE m == mem[l]
           e == ExecutionOf[l]
           all == \A c \in Chosen(e) : m.results[c] = "completed"
           sends == Cardinality(SendsOf(m.rows, e))
           outputs == IF all THEN disk[e].outputs ELSE {}
           units == Total(m.rows)
<1>1. m \in Memory /\ disk[e] \in OutputType
  BY Known
<1>2. m.rows \in Seq(Row) /\ disk[e].outputs \in SUBSET Cases
  BY <1>1 DEF Memory, OutputType
<1>3. sends \in Nat /\ units \in Nat /\ Len(m.rows) \in Nat /\ outputs \in SUBSET Cases
    /\ all \in BOOLEAN
  BY <1>2, SendsFinite, TotalTyped
<1> DEFINE w == Manifest(l)
           r == Len(m.rows)
<1>4. w = [completed |-> all, outputs |-> outputs, sends |-> sends, campaign |-> r, units |-> units]
  BY DEF Manifest
<1>5. all => outputs = disk[e].outputs
  OBVIOUS
<1>6. all <=> \A c \in Chosen(e) : m.results[c] = "completed"
  OBVIOUS
<1>7. r \in Nat
  BY <1>3
<1> HIDE DEF sends, units, outputs, all, w, r
<1>8. /\ w.completed = all /\ w.outputs = outputs /\ w.sends = sends
      /\ w.campaign = r /\ w.units = units
  BY <1>4
<1>9. w \in [completed : BOOLEAN, outputs : SUBSET Cases, sends : Nat, campaign : Nat, units : Nat]
  BY <1>3, <1>4, <1>7
<1>10. /\ w.completed <=> \A c \in Chosen(e) : m.results[c] = "completed"
       /\ w.completed => w.outputs = disk[e].outputs
  <2>1. w.completed <=> all
    BY <1>8
  <2>2. w.completed => w.outputs = disk[e].outputs
    BY <1>5, <1>8, <2>1
  <2> QED BY <1>6, <2>1, <2>2
<1> QED BY <1>8, <1>9, <1>10 DEF w, sends, r, units

(* One file of an output replaced.                                         *)
ManifestType ==
  [completed : BOOLEAN, outputs : SUBSET Cases, sends : Nat, campaign : Nat, units : Nat]

LEMMA OneField ==
  ASSUME NEW d \in OutputType
  PROVE  /\ \A v \in [Cases -> {"absent", "completed", "failed"}] :
              LET x == [d EXCEPT !.results = v] IN
              /\ x \in OutputType /\ x.stage = d.stage /\ x.authority = d.authority
              /\ x.drafts = d.drafts /\ x.results = v /\ x.manifest = d.manifest
         /\ \A v \in SUBSET Cases :
              LET x == [d EXCEPT !.outputs = v] IN
              /\ x \in OutputType /\ x.stage = d.stage /\ x.authority = d.authority
              /\ x.drafts = d.drafts /\ x.results = d.results /\ x.manifest = d.manifest
         /\ \A v : v \in BOOLEAN =>
              LET x == [d EXCEPT !.failures = v] IN
              /\ x \in OutputType /\ x.stage = d.stage /\ x.authority = d.authority
              /\ x.drafts = d.drafts /\ x.results = d.results /\ x.manifest = d.manifest
         /\ \A v \in SUBSET [number : Sends, row : Row] :
              LET x == [d EXCEPT !.sends = v] IN
              /\ x \in OutputType /\ x.stage = d.stage /\ x.authority = d.authority
              /\ x.drafts = d.drafts /\ x.results = d.results /\ x.manifest = d.manifest
         /\ \A v \in ManifestType :
              LET x == [d EXCEPT !.manifest = v] IN
              /\ x \in OutputType /\ x.stage = d.stage /\ x.authority = d.authority
              /\ x.drafts = d.drafts /\ x.results = d.results /\ x.manifest = v
<1>1. \A v \in [Cases -> {"absent", "completed", "failed"}] :
        LET x == [d EXCEPT !.results = v] IN
        /\ x \in OutputType /\ x.stage = d.stage /\ x.authority = d.authority
        /\ x.drafts = d.drafts /\ x.results = v /\ x.manifest = d.manifest
  BY DEF OutputType
<1>2. \A v \in SUBSET Cases :
        LET x == [d EXCEPT !.outputs = v] IN
        /\ x \in OutputType /\ x.stage = d.stage /\ x.authority = d.authority
        /\ x.drafts = d.drafts /\ x.results = d.results /\ x.manifest = d.manifest
  BY DEF OutputType
<1>3. \A v : v \in BOOLEAN =>
        LET x == [d EXCEPT !.failures = v] IN
        /\ x \in OutputType /\ x.stage = d.stage /\ x.authority = d.authority
        /\ x.drafts = d.drafts /\ x.results = d.results /\ x.manifest = d.manifest
  BY DEF OutputType
<1>4. \A v \in SUBSET [number : Sends, row : Row] :
        LET x == [d EXCEPT !.sends = v] IN
        /\ x \in OutputType /\ x.stage = d.stage /\ x.authority = d.authority
        /\ x.drafts = d.drafts /\ x.results = d.results /\ x.manifest = d.manifest
  BY DEF OutputType
<1>5. \A v \in ManifestType :
        LET x == [d EXCEPT !.manifest = v] IN
        /\ x \in OutputType /\ x.stage = d.stage /\ x.authority = d.authority
        /\ x.drafts = d.drafts /\ x.results = d.results /\ x.manifest = v
  BY DEF OutputType, ManifestType
<1> QED BY <1>1, <1>2, <1>3, <1>4, <1>5

LEMMA SavedOutput ==
  ASSUME GenerationInv, NEW l \in Launchers, Save(l)
  PROVE  LET e == ExecutionOf[l]
             m == mem[l]
             d == disk[e]
             x == disk'[e] IN
         /\ disk' = [disk EXCEPT ![e] = x]
         /\ x \in OutputType /\ x.stage = d.stage /\ x.authority = d.authority
         /\ x.drafts = d.drafts
         /\ x.results = m.results \/ (m.file > 1 /\ x.results = d.results)
         /\ x.manifest = d.manifest \/ (m.file = 5 /\ x.manifest = Manifest(l))
<1> DEFINE e == ExecutionOf[l]
           m == mem[l]
           d == disk[e]
           x == disk'[e]
<1>1. /\ e \in Executions /\ m \in Memory /\ Own(l) /\ d \in OutputType
      /\ disk \in [Executions -> OutputType]
      /\ ledger \in Seq(Row) /\ pc[l] = "save" /\ disk' = [disk EXCEPT ![e] = Written(l)]
  BY Known DEF Save
<1>4. /\ m.file \in 1..5 /\ m.results \in [Cases -> {"absent", "completed", "failed"}]
      /\ m.outputs \in SUBSET Cases /\ m.failures \in BOOLEAN /\ m.rows \in Seq(Row)
  BY <1>1 DEF Memory
<1>7. Len(m.rows) <= Len(ledger)
  BY <1>1 DEF Own, Knows
<1>8. x = Written(l) /\ disk' = [disk EXCEPT ![e] = x]
  BY <1>1
<1>9. /\ x \in OutputType /\ x.stage = d.stage /\ x.authority = d.authority /\ x.drafts = d.drafts
      /\ x.results = m.results \/ (m.file > 1 /\ x.results = d.results)
      /\ x.manifest = d.manifest \/ (m.file = 5 /\ x.manifest = Manifest(l))
  <2>1. CASE m.file = 1
    <3>1. x = [d EXCEPT !.results = m.results]
      BY <1>8, <2>1 DEF Written, Files
    <3> DEFINE k == m.results
    <3>2. k \in [Cases -> {"absent", "completed", "failed"}]
      BY <1>4
    <3>3. x = [d EXCEPT !.results = k]
      BY <3>1
    <3> HIDE DEF x, d, m, k
    <3>4. /\ x \in OutputType /\ x.stage = d.stage /\ x.authority = d.authority
          /\ x.drafts = d.drafts /\ x.results = k /\ x.manifest = d.manifest
      BY <1>1, <3>2, <3>3, OneField
    <3> QED BY <3>4 DEF k
  <2>2. CASE m.file = 2
    <3>1. x = [d EXCEPT !.outputs = m.outputs]
      BY <1>8, <2>2 DEF Written, Files
    <3> DEFINE k == m.outputs
    <3>2. k \in SUBSET Cases
      BY <1>4
    <3>3. x = [d EXCEPT !.outputs = k]
      BY <3>1
    <3> HIDE DEF x, d, m, k
    <3>4. /\ x \in OutputType /\ x.stage = d.stage /\ x.authority = d.authority
          /\ x.drafts = d.drafts /\ x.results = d.results /\ x.manifest = d.manifest
      BY <1>1, <3>2, <3>3, OneField
    <3> QED BY <2>2, <3>4
  <2>3. CASE m.file = 3
    <3>1. x = [d EXCEPT !.failures = m.failures]
      BY <1>8, <2>3 DEF Written, Files
    <3> DEFINE k == m.failures
    <3>2. k \in BOOLEAN
      BY <1>4
    <3>3. x = [d EXCEPT !.failures = k]
      BY <3>1
    <3> HIDE DEF x, d, m, k
    <3>4. /\ x \in OutputType /\ x.stage = d.stage /\ x.authority = d.authority
          /\ x.drafts = d.drafts /\ x.results = d.results /\ x.manifest = d.manifest
      BY <1>1, <3>2, <3>3, OneField
    <3> QED BY <2>3, <3>4
  <2>4. CASE m.file = 4
    <3> DEFINE rows == RowsOf(m.rows, e)
    <3>1. x = [d EXCEPT !.sends = rows]
      BY <1>8, <2>4 DEF Written, Files
    <3>2. rows \in SUBSET [number : Sends, row : Row]
      <4>1. SendsOf(m.rows, e) \subseteq 1..Len(m.rows)
          /\ \A i \in 1..Len(m.rows) : m.rows[i] \in Row
        BY <1>4, SendsFinite
      <4>2. Len(m.rows) <= MaxSends
        <5>1. Len(m.rows) \in Nat /\ Len(ledger) \in Nat /\ Len(ledger) <= MaxSends
            /\ MaxSends \in Nat
          BY <1>1, <1>4, LedgerAssumption DEF GenerationInv, LedgerCoversBill
        <5> QED BY <1>7, <5>1
      <4>3. Len(m.rows) \in Nat /\ MaxSends \in Nat
        BY <1>4, LedgerAssumption
      <4>4. \A i \in SendsOf(m.rows, e) : i \in Sends /\ m.rows[i] \in Row
        BY <4>1, <4>2, <4>3 DEF Sends
      <4> HIDE DEF m, e
      <4> QED BY <4>4 DEF RowsOf
    <3> HIDE DEF x, d, m, rows
    <3>4. /\ x \in OutputType /\ x.stage = d.stage /\ x.authority = d.authority
          /\ x.drafts = d.drafts /\ x.results = d.results /\ x.manifest = d.manifest
      BY <1>1, <3>1, <3>2, OneField
    <3> QED BY <2>4, <3>4
  <2>5. CASE m.file = 5
    <3> DEFINE manifest == Manifest(l)
    <3>1. x = [d EXCEPT !.manifest = manifest]
      BY <1>8, <2>5 DEF Written, Files
    <3>2. manifest \in ManifestType
      BY ManifestIs DEF ManifestType
    <3> HIDE DEF x, d, m, manifest
    <3>3. /\ x \in OutputType /\ x.stage = d.stage /\ x.authority = d.authority
          /\ x.drafts = d.drafts
          /\ x.results = d.results /\ x.manifest = manifest
      BY <1>1, <3>1, <3>2, OneField
    <3> QED BY <2>5, <3>3 DEF manifest
  <2> QED BY <1>4, <2>1, <2>2, <2>3, <2>4, <2>5
<1> QED BY <1>8, <1>9

LEMMA SaveKeeps ==
  ASSUME GenerationInv, NEW l \in Launchers, Save(l)
  PROVE  GenerationInv'
<1> DEFINE e == ExecutionOf[l]
           m == mem[l]
           n == mem'[l]
           d == disk[e]
           x == disk'[e]
<1>0. Step(l) /\ Frame(l)
  BY Framed DEF Step
<1>1. /\ e \in Executions /\ pc \in [Launchers -> Pcs] /\ mem \in [Launchers -> Memory]
      /\ m \in Memory /\ Own(l) /\ Output(e) /\ d \in OutputType
      /\ disk \in [Executions -> OutputType]
      /\ ledger \in Seq(Row) /\ Len(Selected[e]) \in Nat
  BY Known
<1>2. /\ ledger' = ledger /\ lock' = lock /\ seq' = seq /\ reply' = reply
      /\ billed' = billed /\ launches' = launches /\ pc[l] = "save"
      /\ disk' = [disk EXCEPT ![e] = Written(l)]
  BY DEF Save, campaign, outside
<1>3. SealFits(e)'
  BY <1>0, <1>2, OwnSealKept
<1>4. /\ m.index \in Nat /\ m.index <= Len(Selected[e]) /\ m.file \in 1..5
      /\ m.results \in [Cases -> {"absent", "completed", "failed"}] /\ m.outputs \in SUBSET Cases
      /\ m.failures \in BOOLEAN /\ m.rows \in Seq(Row)
  BY <1>1, <1>2 DEF Memory, Own, AtCase
<1>5. /\ m.drafts = d.drafts /\ ~d.manifest.completed
      /\ \A c \in Cases : d.results[c] = "completed" => m.results[c] = "completed"
      /\ \A c \in Cases : m.results[c] = "completed" => m.drafts[c].kind = "sound"
      /\ m.file > 1 => m.results = d.results
  BY <1>1, <1>2 DEF Own, Remembers
<1>6. d.stage = "ready" /\ d.authority = m.authority
  BY <1>1, <1>2 DEF Own, Place
<1>7. /\ Agree(m.rows, ledger, e)
      /\ Len(m.rows) <= Len(ledger)
      /\ Len(m.rows) = Len(ledger) => Total(ledger) <= Total(m.rows)
      /\ d.manifest.campaign <= Len(m.rows)
      /\ d.manifest.campaign = Len(m.rows) => Total(m.rows) <= d.manifest.units
  BY <1>1, <1>2 DEF Own, Knows
<1>8. x = Written(l) /\ disk' = [disk EXCEPT ![e] = x]
  BY <1>1, <1>2
<1>9. /\ x \in OutputType /\ x.stage = d.stage /\ x.authority = d.authority /\ x.drafts = d.drafts
      /\ x.results = m.results \/ (m.file > 1 /\ x.results = d.results)
      /\ x.manifest = d.manifest \/ (m.file = 5 /\ x.manifest = Manifest(l))
  BY SavedOutput
<1>10. /\ n \in Memory /\ n.authority = m.authority /\ n.results = m.results
       /\ n.drafts = m.drafts /\ n.rows = m.rows
       /\ mem' = [mem EXCEPT ![l] = n] /\ pc' = [pc EXCEPT ![l] = pc'[l]]
       /\ \/ m.file < 5 /\ n.index = m.index /\ n.file = m.file + 1 /\ pc'[l] = "save"
          \/ m.file = 5 /\ n.index = m.index + 1 /\ n.file = 1 /\ pc'[l] = "case"
  <2>1. CASE m.file < 5
    <3>1. mem' = [mem EXCEPT ![l].file = @ + 1] /\ pc' = pc
      BY <2>1 DEF Save, Files
    <3>2. n = [m EXCEPT !.file = m.file + 1] /\ mem' = [mem EXCEPT ![l] = n]
      BY <1>1, <3>1
    <3>3. m.file + 1 \in 1..5
      BY <1>4, <2>1
    <3> HIDE DEF n, m
    <3>4. /\ n \in Memory /\ n.authority = m.authority /\ n.results = m.results
          /\ n.drafts = m.drafts /\ n.rows = m.rows /\ n.index = m.index /\ n.file = m.file + 1
      BY <1>1, <3>2, <3>3 DEF Memory
    <3> QED BY <1>1, <1>2, <2>1, <3>1, <3>2, <3>4
  <2>2. CASE m.file = 5
    <3>1. mem' = [mem EXCEPT ![l].file = 1, ![l].index = @ + 1] /\ pc' = [pc EXCEPT ![l] = "case"]
      BY <2>2 DEF Save, Files
    <3>2. n = [m EXCEPT !.file = 1, !.index = m.index + 1] /\ pc'[l] = "case"
      BY <1>1, <3>1
    <3>5. mem' = [mem EXCEPT ![l] = n]
      <4>1. \A k \in Launchers : k # l => mem'[k] = mem[k]
        BY <1>1, <3>1
      <4> QED BY <1>1, <3>1, <4>1
    <3>3. m.index + 1 \in Nat \ {0} /\ 1 \in 1..5
      BY <1>4
    <3> HIDE DEF n, m
    <3>4. /\ n \in Memory /\ n.authority = m.authority /\ n.results = m.results
          /\ n.drafts = m.drafts /\ n.rows = m.rows /\ n.index = m.index + 1 /\ n.file = 1
      BY <1>1, <3>2, <3>3 DEF Memory
    <3> QED BY <1>1, <1>2, <2>2, <3>1, <3>2, <3>4, <3>5
  <2> QED BY <1>4, <2>1, <2>2
<1> HIDE DEF e, m, n, d, x
<1>11. Typed'
  <2>1. pc'[l] \in Pcs
    BY <1>10 DEF Pcs
  <2> QED BY <1>0, <1>2, <1>8, <1>9, <1>10, <2>1, TypedAfter DEF n, x, e
<1>12. /\ \A c \in Cases : x.results[c] = "completed" => m.results[c] = "completed"
       /\ x.results = m.results
  BY <1>5, <1>9
<1>13. /\ x.manifest.campaign <= Len(m.rows)
       /\ x.manifest.campaign = Len(m.rows) => Total(m.rows) <= x.manifest.units
       /\ x.manifest.completed => m.file = 5 /\ \A c \in Chosen(e) : x.results[c] = "completed"
  <2>1. CASE x.manifest = d.manifest
    BY <1>5, <1>7, <2>1
  <2>2. CASE m.file = 5 /\ x.manifest = Manifest(l)
    <3>1. /\ x.manifest.campaign = Len(m.rows) /\ x.manifest.units = Total(m.rows)
          /\ x.manifest.completed => \A c \in Chosen(e) : m.results[c] = "completed"
      BY <2>2, ManifestIs DEF m, e
    <3>2. Len(m.rows) \in Nat /\ Total(m.rows) \in Nat
      BY <1>4, TotalTyped
    <3> QED BY <1>12, <2>2, <3>1, <3>2
  <2> QED BY <1>9, <2>1, <2>2
<1>14. Output(e)'
  <2> DEFINE k == x.manifest.campaign
             r == Len(m.rows)
             w == Len(ledger)
             u == x.manifest.units
             v == Total(m.rows)
             z == Total(ledger)
  <2>1. k \in Nat /\ r \in Nat /\ w \in Nat /\ u \in Nat /\ v \in Nat /\ z \in Nat
    BY <1>1, <1>4, <1>9, TotalTyped DEF OutputType
  <2>2. k <= r /\ (k = r => v <= u) /\ r <= w /\ (r = w => z <= v)
    BY <1>7, <1>13
  <2>3. k <= w /\ (k = w => z <= u)
    <3> HIDE DEF k, r, w, u, v, z
    <3> QED BY <2>1, <2>2
  <2>4. x.stage = "ready"
    BY <1>6, <1>9
  <2>5. \A c \in Cases : x.results[c] = "completed" => x.drafts[c].kind = "sound"
    BY <1>5, <1>9, <1>12
  <2> QED BY <1>2, <1>13, <2>3, <2>4, <2>5 DEF Output, x
<1>15. Own(l)'
  <2>1. pc'[l] \in {"save", "case"}
    BY <1>10
  <2>2. AtCase(l)'
    BY <1>4, <1>10 DEF AtCase, Buying, n, e
  <2>3. Counts(l)' /\ Asks(l)'
    BY <2>1 DEF Counts, Asks, Asking, Buying
  <2>4. Place(l)'
    BY <1>6, <1>9, <1>10, <2>1 DEF Place, n, x, e
  <2>5. Remembers(l)'
    BY <1>4, <1>5, <1>9, <1>10, <1>12, <1>13 DEF Remembers, Buying, n, x, e
  <2>6. Knows(l)'
    BY <1>2, <1>7, <1>10, <1>13 DEF Knows, Agree, n, x, e
  <2> QED BY <2>2, <2>3, <2>4, <2>5, <2>6 DEF Own
<1> QED BY <1>0, <1>3, <1>11, <1>14, <1>15, OwnStep DEF e

(* A launcher that is down knows nothing.                                  *)
LEMMA DownOwn ==
  ASSUME NEW l \in Launchers, pc'[l] = "down", mem'[l] = Idle, Len(Selected[ExecutionOf[l]]) \in Nat
  PROVE  Own(l)'
<1>1. AtCase(l)'
  BY IdleTyped DEF AtCase, Buying
<1>2. Counts(l)' /\ Asks(l)' /\ Place(l)' /\ Remembers(l)' /\ Knows(l)'
  BY DEF Counts, Asks, Asking, Buying, Place, Remembers, Knows
<1> QED BY <1>1, <1>2 DEF Own

LEMMA KillKeeps ==
  ASSUME GenerationInv, NEW l \in Launchers, Kill(l)
  PROVE  GenerationInv'
<1>0. Step(l) /\ Frame(l)
  BY Framed DEF Step
<1>1. /\ ExecutionOf[l] \in Executions /\ pc \in [Launchers -> Pcs] /\ mem \in [Launchers -> Memory]
      /\ seq \in [Launchers -> 0..MaxSends] /\ reply \in [Launchers -> Replies \cup {NoReply}]
      /\ Len(Selected[ExecutionOf[l]]) \in Nat
  BY Known
<1>2. /\ ledger' = ledger /\ disk' = disk /\ billed' = billed /\ launches' = launches
      /\ lock' \in {Stale, lock}
      /\ pc' = [pc EXCEPT ![l] = "down"] /\ mem' = [mem EXCEPT ![l] = Idle]
      /\ seq' = [seq EXCEPT ![l] = 0] /\ reply' = [reply EXCEPT ![l] = NoReply]
  BY DEF Kill, outside
<1>3. /\ pc'[l] = "down" /\ pc' = [pc EXCEPT ![l] = pc'[l]]
      /\ mem'[l] = Idle /\ mem' = [mem EXCEPT ![l] = mem'[l]]
      /\ seq'[l] \in 0..MaxSends /\ seq' = [seq EXCEPT ![l] = seq'[l]]
      /\ reply'[l] \in Replies \cup {NoReply} /\ reply' = [reply EXCEPT ![l] = reply'[l]]
  BY <1>1, <1>2, LedgerAssumption
<1>4. Typed'
  <2>1. lock' \in {lock, l, Free, Stale} /\ mem'[l] \in Memory /\ pc'[l] \in Pcs
    BY <1>2, <1>3, IdleTyped DEF Pcs
  <2> QED BY <1>0, <1>2, <1>3, <2>1, TypedAfter
<1>5. Own(l)'
  BY <1>1, <1>3, DownOwn
<1>6. Output(ExecutionOf[l])' /\ SealFits(ExecutionOf[l])'
  BY <1>0, <1>1, <1>2, OutputKept, OwnSealKept
<1> QED BY <1>0, <1>4, <1>5, <1>6, OwnStep

(* A launcher that went past a sealed output's cases writes its manifest   *)
(* once more: what it remembers lies between the old one and the ledger,   *)
(* so where these agree nothing changes.                                   *)
LEMMA FinishKeeps ==
  ASSUME GenerationInv, NEW l \in Launchers, Finish(l)
  PROVE  GenerationInv'
<1> DEFINE e == ExecutionOf[l]
           m == mem[l]
           d == disk[e]
           x == disk'[e]
           w == Manifest(l)
<1>0. Step(l) /\ Frame(l)
  BY Framed DEF Step
<1>1. /\ e \in Executions /\ pc \in [Launchers -> Pcs] /\ mem \in [Launchers -> Memory]
      /\ m \in Memory /\ Own(l) /\ Output(e) /\ d \in OutputType
      /\ disk \in [Executions -> OutputType]
      /\ ledger \in Seq(Row) /\ Len(Selected[e]) \in Nat
  BY Known
<1>2. /\ ledger' = ledger /\ lock' = lock /\ seq' = seq /\ reply' = reply
      /\ billed' = billed /\ launches' = launches /\ sealed' = sealed /\ pc[l] = "case"
      /\ disk' = [disk EXCEPT ![e].manifest = w]
      /\ pc' = [pc EXCEPT ![l] = "down"] /\ mem' = [mem EXCEPT ![l] = Idle]
  BY DEF Finish, campaign, outside
<1>3. /\ pc'[l] = "down" /\ pc' = [pc EXCEPT ![l] = pc'[l]]
      /\ mem'[l] = Idle /\ mem' = [mem EXCEPT ![l] = mem'[l]]
      /\ x = [d EXCEPT !.manifest = w] /\ disk' = [disk EXCEPT ![e] = x]
  BY <1>1, <1>2
<1>4. /\ w \in ManifestType
      /\ w.completed <=> \A c \in Chosen(e) : m.results[c] = "completed"
      /\ w.completed => w.outputs = d.outputs
      /\ w.sends = Cardinality(SendsOf(m.rows, e))
      /\ w.campaign = Len(m.rows) /\ w.units = Total(m.rows)
  BY ManifestIs DEF ManifestType
<1>5. d.stage = "ready" /\ m.drafts = d.drafts /\ m.results = d.results
  BY <1>1, <1>2 DEF Own, Place, Remembers
<1>6. /\ SendsOf(m.rows, e) = SendsOf(ledger, e)
      /\ Len(m.rows) <= Len(ledger)
      /\ Len(m.rows) = Len(ledger) => Total(ledger) <= Total(m.rows)
      /\ d.manifest.campaign <= Len(m.rows)
      /\ d.manifest.campaign = Len(m.rows) => Total(m.rows) <= d.manifest.units
  BY <1>1, <1>2 DEF Own, Knows, Agree
<1>7. m.rows \in Seq(Row) /\ d.manifest.campaign \in Nat /\ d.manifest.units \in Nat
  BY <1>1 DEF Memory, OutputType
<1>8. Total(m.rows) \in Nat /\ Total(ledger) \in Nat /\ Len(m.rows) \in Nat /\ Len(ledger) \in Nat
  BY <1>1, <1>7, TotalTyped
<1> HIDE DEF e, m, d, x, w
<1>9. /\ x \in OutputType /\ x.stage = d.stage /\ x.authority = d.authority
      /\ x.drafts = d.drafts /\ x.results = d.results /\ x.manifest = w
  BY <1>1, <1>3, <1>4, OneField
<1>10. x.outputs = d.outputs /\ x.failures = d.failures /\ x.sends = d.sends
  BY <1>1, <1>3 DEF OutputType
<1>11. Typed'
  <2>1. mem'[l] \in Memory /\ pc'[l] \in Pcs
    BY <1>3, IdleTyped DEF Pcs
  <2> QED BY <1>0, <1>2, <1>3, <1>9, <2>1, TypedAfter DEF x, e
<1>12. Own(l)'
  BY <1>1, <1>3, DownOwn DEF e
<1>13. Output(e)'
  BY <1>1, <1>2, <1>4, <1>5, <1>6, <1>9 DEF Output, x, d
<1>14. ASSUME sealed[e].sealed PROVE SealFits(e)'
  <2>1. SealFits(e)
    BY <1>1 DEF GenerationInv
  <2>2. Whole(e) /\ Since(sealed[e].ledger)
    BY <1>14, <2>1 DEF SealFits
  <2>3. /\ d.manifest.completed /\ d.outputs = Chosen(e) /\ ~d.failures
        /\ \A c \in Chosen(e) : d.results[c] = "completed" /\ d.drafts[c] # NoDraft
        /\ d.sends = RowsOf(ledger, e)
        /\ Attempts(d.drafts, Chosen(e)) = Cardinality(SendsOf(ledger, e))
        /\ \A i \in SendsOf(ledger, e) : ledger[i].status = "succeeded" /\ ledger[i].units # Unknown
    BY <2>2 DEF Whole, OutputsWhole, d
  <2>4. w.completed /\ w.outputs = Chosen(e) /\ w.sends = Cardinality(SendsOf(ledger, e))
    BY <1>4, <1>5, <1>6, <2>3
  <2>5. Whole(e)'
    BY <1>2, <1>5, <1>9, <1>10, <2>3, <2>4 DEF Whole, OutputsWhole, x
  <2>6. ASSUME sealed[e].ledger = ledger PROVE Len(ledger) = w.campaign /\ Total(ledger) = w.units
    <3> DEFINE a == Len(ledger)
               b == Len(m.rows)
               c == d.manifest.campaign
               p == Total(ledger)
               q == Total(m.rows)
               r == d.manifest.units
    <3>1. a = c /\ p = r
      BY <1>14, <2>1, <2>6 DEF SealFits, d
    <3>2. /\ a \in Nat /\ b \in Nat /\ c \in Nat /\ p \in Nat /\ q \in Nat /\ r \in Nat
          /\ b <= a /\ (b = a => p <= q) /\ c <= b /\ (c = b => q <= r)
      BY <1>6, <1>7, <1>8
    <3>3. a = b /\ p = q
      <4> HIDE DEF a, b, c, p, q, r
      <4> QED BY <3>1, <3>2
    <3> QED BY <1>4, <3>3
  <2>7. Since(sealed[e].ledger)'
    BY <1>2, <2>2 DEF Since
  <2> QED BY <1>2, <1>9, <2>5, <2>6, <2>7 DEF SealFits, x
<1>15. SealFits(e)'
  BY <1>2, <1>14 DEF SealFits
<1> QED BY <1>0, <1>11, <1>12, <1>13, <1>15, OwnStep DEF e

LEMMA SealKeeps ==
  ASSUME GenerationInv, NEW e \in Executions, Seal(e)
  PROVE  GenerationInv'
<1>1. /\ ledger' = ledger /\ lock' = lock /\ disk' = disk /\ pc' = pc /\ seq' = seq
      /\ reply' = reply
      /\ mem' = mem /\ billed' = billed /\ launches' = launches
      /\ sealed' = [sealed EXCEPT ![e] = [sealed |-> TRUE, ledger |-> ledger]] /\ Sealable(e)
  BY DEF Seal, campaign, control
<1>2. Typed /\ TypeOK /\ LedgerCoversBill
    /\ sealed \in [Executions -> [sealed : BOOLEAN, ledger : Seq(Row)]]
      /\ ledger \in Seq(Row)
  BY DEF GenerationInv, Typed, TypeOK
<1>3. Typed'
  <2>1. TypeOK'
    BY <1>1, <1>2 DEF TypeOK
  <2>2. sealed' \in [Executions -> [sealed : BOOLEAN, ledger : Seq(Row)]]
    <3> DEFINE yes == TRUE
               k == [sealed |-> yes, ledger |-> ledger]
    <3>1. yes \in BOOLEAN
      OBVIOUS
    <3>2. sealed' = [sealed EXCEPT ![e] = k]
      BY <1>1
    <3> HIDE DEF yes
    <3>3. k \in [sealed : BOOLEAN, ledger : Seq(Row)]
      BY <1>2, <3>1
    <3> HIDE DEF k
    <3> QED BY <1>2, <3>2, <3>3
  <2> QED BY <1>1, <1>2, <2>1, <2>2 DEF Typed
<1>4. LedgerCoversBill'
  BY <1>1, <1>2 DEF LedgerCoversBill
<1>5. ASSUME NEW l \in Launchers PROVE Own(l)'
  <2>1. CaseOf(l)' = CaseOf(l) /\ Own(l)
    BY <1>1 DEF CaseOf, GenerationInv
  <2>2. AtCase(l)' /\ Counts(l)'
    BY <1>1, <2>1 DEF Own, AtCase, Counts
  <2>3. Asks(l)' /\ Place(l)'
    BY <1>1, <2>1 DEF Own, Asks, Place
  <2>4. Remembers(l)' /\ Knows(l)'
    BY <1>1, <2>1 DEF Own, Remembers, Knows, Agree
  <2> QED BY <2>2, <2>3, <2>4 DEF Own
<1>6. ASSUME NEW f \in Executions PROVE Output(f)' /\ SealFits(f)'
  <2>1. Output(f) /\ SealFits(f)
    BY DEF GenerationInv
  <2>2. Output(f)'
    BY <1>1, <2>1 DEF Output
  <2>3. CASE f # e
    <3>1. sealed'[f] = sealed[f]
      BY <1>1, <1>2, <2>3
    <3>2. Whole(f) => Whole(f)'
      BY <1>1 DEF Whole, OutputsWhole
    <3>3. SealFits(f)'
      BY <1>1, <2>1, <3>1, <3>2 DEF SealFits, Since
    <3> QED BY <2>2, <3>3
  <2>4. CASE f = e
    <3>1. sealed'[e].ledger = ledger
      BY <1>1, <1>2
    <3>2. Whole(e)'
      BY <1>1 DEF Sealable, Whole, OutputsWhole
    <3>3. Len(ledger) = disk[e].manifest.campaign /\ Total(ledger) = disk[e].manifest.units
      BY <1>1 DEF Sealable
    <3>4. Len(ledger) <= Len(ledger)
      BY <1>2
    <3>5. SealFits(e)'
      BY <1>1, <3>1, <3>2, <3>3, <3>4 DEF SealFits, Since
    <3> QED BY <2>2, <2>4, <3>5
  <2> QED BY <2>3, <2>4
<1> QED BY <1>3, <1>4, <1>5, <1>6 DEF GenerationInv

LEMMA GenerationStep == GenerationInv /\ [Next]_vars => GenerationInv'
<1> SUFFICES ASSUME GenerationInv, [Next]_vars PROVE GenerationInv'
  OBVIOUS
<1>1. ASSUME NEW l \in Launchers, Step(l) PROVE GenerationInv'
  BY <1>1, LaunchKeeps, InitializeKeeps, NextCaseKeeps, AcquireKeeps, ReserveKeeps, TransportKeeps,
     CompleteKeeps, SettleKeeps, CheckKeeps, SaveKeeps, FinishKeeps, KillKeeps DEF Step
<1>2. ASSUME NEW e \in Executions, Seal(e) PROVE GenerationInv'
  BY <1>2, SealKeeps
<1>3. CASE UNCHANGED vars
  <2>1. /\ ledger' = ledger /\ lock' = lock /\ disk' = disk /\ pc' = pc /\ seq' = seq
        /\ reply' = reply
        /\ mem' = mem /\ billed' = billed /\ launches' = launches /\ sealed' = sealed
    BY <1>3 DEF vars
  <2>2. Typed'
    BY <2>1 DEF GenerationInv, Typed, TypeOK
  <2>3. LedgerCoversBill'
    BY <2>1 DEF GenerationInv, LedgerCoversBill
  <2>4. ASSUME NEW l \in Launchers PROVE Own(l)'
    <3>1. CaseOf(l)' = CaseOf(l) /\ Own(l)
      BY <2>1 DEF CaseOf, GenerationInv
    <3>2. AtCase(l)' /\ Counts(l)'
      BY <2>1, <3>1 DEF Own, AtCase, Counts
    <3>3. Asks(l)' /\ Place(l)'
      BY <2>1, <3>1 DEF Own, Asks, Place
    <3>4. Remembers(l)' /\ Knows(l)'
      BY <2>1, <3>1 DEF Own, Remembers, Knows, Agree
    <3> QED BY <3>2, <3>3, <3>4 DEF Own
  <2>5. ASSUME NEW e \in Executions PROVE Output(e)' /\ SealFits(e)'
    <3>1. Output(e) /\ SealFits(e)
      BY DEF GenerationInv
    <3>2. Whole(e) => Whole(e)'
      BY <2>1 DEF Whole, OutputsWhole
    <3> QED BY <2>1, <3>1, <3>2 DEF Output, SealFits, Since
  <2> QED BY <2>2, <2>3, <2>4, <2>5 DEF GenerationInv
<1> QED BY <1>1, <1>2, <1>3 DEF Next
-----------------------------------------------------------------------------
(* What the invariant gives.                                               *)

(* Launchers of any number of executions, killed and resumed at any point, *)
(* with stale locks and reservations nobody answers: what each remembers   *)
(* of its output and of the ledger stays true, every open request has its  *)
(* row, and a seal goes on fitting its output and the ledger.              *)
THEOREM GenerationInvariant == Spec => []GenerationInv
BY Initially, GenerationStep, PTL DEF Spec

(* Every variable has the type its declaration tells.                      *)
THEOREM GenerationTypes == Spec => []TypeOK
<1>1. GenerationInv => TypeOK
  BY DEF GenerationInv, Typed
<1> QED BY <1>1, GenerationInvariant, PTL

(* The ledger never undercounts, however launchers interleave and wherever *)
(* they are killed: GenerationBudgetLedger gives each request its row      *)
(* before the request goes out, and charges it at least what the provider  *)
(* may ask for it.                                                         *)
THEOREM LedgerNeverUndercounts == Spec => []LedgerCoversBill
<1>1. GenerationInv => LedgerCoversBill
  BY DEF GenerationInv
<1> QED BY <1>1, GenerationInvariant, PTL

(* A sealed output stays whole through every later launch of its own and   *)
(* of the other executions, and verify_generation_authority accepts it     *)
(* until the campaign's ledger goes on.                                    *)
THEOREM SealedStaysWhole == Spec => []SealedIsWhole
<1>1. GenerationInv => SealedIsWhole
  <2> SUFFICES ASSUME GenerationInv, NEW e \in Executions, sealed[e].sealed
               PROVE  /\ disk[e].outputs = Chosen(e)
                      /\ \A c \in Chosen(e) : disk[e].results[c] = "completed"
                                              /\ disk[e].drafts[c].kind = "sound"
                      /\ \A i \in SendsOf(ledger, e) : ledger[i].status = "succeeded"
                      /\ Verifies(e) \/ sealed[e].ledger # ledger
    BY DEF SealedIsWhole
  <2>1. Output(e) /\ Whole(e)
    BY DEF GenerationInv, SealFits
  <2>2. \A c \in Chosen(e) : c \in Cases
    BY Selections DEF Chosen
  <2>3. /\ disk[e].outputs = Chosen(e)
        /\ \A c \in Chosen(e) : disk[e].results[c] = "completed"
        /\ \A i \in SendsOf(ledger, e) : ledger[i].status = "succeeded"
    BY <2>1 DEF Whole, OutputsWhole
  <2>4. \A c \in Chosen(e) : disk[e].drafts[c].kind = "sound"
    BY <2>1, <2>2, <2>3 DEF Output
  <2>5. ASSUME sealed[e].ledger = ledger PROVE Verifies(e)
    <3>1. Len(ledger) = disk[e].manifest.campaign /\ Total(ledger) = disk[e].manifest.units
      BY <2>5 DEF GenerationInv, SealFits
    <3>2. Sealable(e)
      BY <2>1, <3>1 DEF Whole, Sealable
    <3> QED BY <2>5, <3>2 DEF Verifies
  <2> QED BY <2>3, <2>4, <2>5
<1> QED BY <1>1, GenerationInvariant, PTL

(* What a step does to the drafts and the results of an output.            *)
LEMMA SettledOutput ==
  ASSUME GenerationInv, NEW l \in Launchers, Settle(l)
  PROVE  LET e == ExecutionOf[l] IN
         \/ disk'[e] = disk[e]
         \/ \E draft : disk'[e] = [disk[e] EXCEPT !.drafts = [@ EXCEPT ![CaseOf(l)] = draft]]
<1> DEFINE e == ExecutionOf[l]
           m == mem[l]
           d == disk[e]
           a == CaseOf(l)
           draft == [kind |-> reply[l].kind, attempts |-> m.attempts]
<1>1. /\ e \in Executions /\ mem \in [Launchers -> Memory] /\ disk \in [Executions -> OutputType]
      /\ m \in Memory /\ m.drafts = d.drafts
  BY Known DEF Own, Remembers, Settle
<1>2. CASE disk' = disk
  BY <1>2
<1>3. CASE /\ mem' = [mem EXCEPT ![l] = [BetweenCases(@) EXCEPT !.drafts[a] = draft]]
           /\ disk' = [disk EXCEPT ![e].drafts = mem'[l].drafts]
  <2> DEFINE b == BetweenCases(m)
             v == [d.drafts EXCEPT ![a] = draft]
             w == mem'[l].drafts
  <2>1. b \in Memory /\ b.drafts = m.drafts
    BY <1>1, Known, FailedTyped DEF Settle, Buying
  <2>2. mem'[l] = [b EXCEPT !.drafts[a] = draft]
    BY <1>1, <1>3
  <2>3. w = v
    <3> HIDE DEF b, a, draft
    <3> QED BY <1>1, <2>1, <2>2 DEF Memory
  <2>4. disk'[e] = [d EXCEPT !.drafts = w]
    BY <1>1, <1>3
  <2> HIDE DEF v, w
  <2>5. disk'[e] = [d EXCEPT !.drafts = v]
    BY <2>3, <2>4
  <2> QED BY <2>5 DEF v
<1>4. \/ disk' = disk
      \/ /\ mem' = [mem EXCEPT ![l] = [BetweenCases(@) EXCEPT !.drafts[a] = draft]]
         /\ disk' = [disk EXCEPT ![e].drafts = mem'[l].drafts]
  BY Zenon DEF Settle
<1> QED BY <1>2, <1>3, <1>4

LEMMA WorkKept ==
  ASSUME GenerationInv, NEW l \in Launchers, Step(l)
  PROVE  LET d == disk[ExecutionOf[l]]
             x == disk'[ExecutionOf[l]] IN
         /\ \A c \in Cases : d.drafts[c] # NoDraft => x.drafts[c] = d.drafts[c]
         /\ \A c \in Cases : d.results[c] = "completed" => x.results[c] = "completed"
         /\ x.drafts # d.drafts => mem[l].authority = d.authority
<1> DEFINE e == ExecutionOf[l]
           d == disk[e]
           x == disk'[e]
<1>1. /\ e \in Executions /\ disk \in [Executions -> OutputType] /\ d \in OutputType
      /\ mem[l] \in Memory /\ Own(l)
  BY Known
<1>2. CASE disk' = disk
  BY <1>2
<1>3. CASE Initialize(l)
  <2>1. \/ disk' = [disk EXCEPT ![e].stage = "made"]
        \/ disk' = [disk EXCEPT ![e].stage = "ready", ![e].authority = mem[l].authority]
    BY <1>3 DEF Initialize
  <2>2. \/ x = [d EXCEPT !.stage = "made"]
        \/ x = [d EXCEPT !.stage = "ready", !.authority = mem[l].authority]
    BY <1>1, <2>1
  <2> HIDE DEF x, d
  <2>3. x.drafts = d.drafts /\ x.results = d.results
    BY <1>1, <2>2 DEF OutputType
  <2> QED BY <2>3 DEF x, d
<1>4. CASE Settle(l)
  <2> DEFINE a == CaseOf(l)
  <2>1. mem[l].drafts = d.drafts /\ d.drafts[a] = NoDraft /\ mem[l].authority = d.authority
    BY <1>1, <1>4 DEF Settle, Own, Remembers, Place, Buying
  <2>2. CASE x = d
    BY <2>2
  <2>3. ASSUME NEW draft, x = [d EXCEPT !.drafts = [@ EXCEPT ![a] = draft]]
        PROVE  x.results = d.results /\ \A c \in Cases : c # a => x.drafts[c] = d.drafts[c]
    <3> HIDE DEF x, d, a
    <3>1. x.drafts = [d.drafts EXCEPT ![a] = draft] /\ x.results = d.results
      BY <1>1, <2>3 DEF OutputType
    <3>2. d.drafts \in [Cases -> Draft]
      BY <1>1 DEF OutputType
    <3> QED BY <3>1, <3>2
  <2>4. x = d \/ \E draft : x = [d EXCEPT !.drafts = [@ EXCEPT ![a] = draft]]
    BY <1>4, SettledOutput
  <2> HIDE DEF x, d, a
  <2>5. CASE x # d
    <3>1. x.results = d.results /\ \A c \in Cases : c # a => x.drafts[c] = d.drafts[c]
      BY <2>3, <2>4, <2>5
    <3> QED BY <2>1, <3>1 DEF x, d
  <2> QED BY <2>2, <2>5
<1>5. CASE Save(l)
  <2>1. /\ x.drafts = d.drafts
        /\ x.results = mem[l].results \/ x.results = d.results
    BY <1>5, SavedOutput
  <2>2. \A c \in Cases : d.results[c] = "completed" => mem[l].results[c] = "completed"
    BY <1>1, <1>5 DEF Save, Own, Remembers
  <2> QED BY <2>1, <2>2
<1>6. CASE Finish(l)
  <2> DEFINE w == Manifest(l)
  <2>1. disk' = [disk EXCEPT ![e].manifest = w]
    BY <1>6 DEF Finish
  <2>2. x = [d EXCEPT !.manifest = w]
    BY <1>1, <2>1
  <2> HIDE DEF x, d, w
  <2>3. x.drafts = d.drafts /\ x.results = d.results
    BY <1>1, <2>2 DEF OutputType
  <2> QED BY <2>3 DEF x, d
<1>7. disk' = disk \/ Initialize(l) \/ Settle(l) \/ Save(l) \/ Finish(l)
  BY DEF Step, Launch, NextCase, Acquire, Reserve, Transport, Complete, Check, Kill
<1> QED BY <1>2, <1>3, <1>4, <1>5, <1>6, <1>7

(* Only a case without a draft is bought.                                  *)
LEMMA SendsKept ==
  ASSUME GenerationInv, NEW l \in Launchers, Step(l), NEW c \in Cases,
         disk[ExecutionOf[l]].drafts[c] # NoDraft
  PROVE  CaseSends(ledger', ExecutionOf[l], c) = CaseSends(ledger, ExecutionOf[l], c)
<1> DEFINE e == ExecutionOf[l]
           a == CaseOf(l)
<1>1. e \in Executions /\ ledger \in Seq(Row) /\ mem[l] \in Memory /\ Own(l)
  BY Known
<1>2. CASE ledger' = ledger
  BY <1>2
<1>3. CASE Reserve(l) /\ ledger' # ledger
  <2>1. ledger' = Append(ledger, Reserved(e, a)) /\ pc[l] = "reserving"
    BY <1>3 DEF Reserve
  <2>2. a # c
    BY <1>1, <2>1 DEF Own, Remembers, Buying
  <2>3. Reserved(e, a) \in Row
    BY <1>1, <2>1, Known, ReservedTyped DEF Buying
  <2> DEFINE r == Reserved(e, a)
             s == Len(ledger) + 1
  <2>4. r.case = a
    BY DEF Reserved
  <2>5. /\ DOMAIN ledger' = DOMAIN ledger \cup {s} /\ ledger'[s] = r
        /\ \A i \in DOMAIN ledger : ledger'[i] = ledger[i]
    BY <1>1, <2>1, <2>3, AppendProperties
  <2> HIDE DEF r, a, e
  <2>6. {i \in SendsOf(ledger', e) : ledger'[i].case = c} = {i \in SendsOf(ledger, e) : ledger[i].case = c}
    BY <2>2, <2>4, <2>5 DEF SendsOf
  <2> QED BY <2>6 DEF CaseSends, e
<1>4. CASE Complete(l)
  <2>1. PICK row : /\ Settled(ledger[seq[l]], row) /\ ledger' = [ledger EXCEPT ![seq[l]] = row]
                   /\ seq[l] \in DOMAIN ledger
    BY <1>4, CompletedRow
  <2> HIDE DEF e
  <2>2. \A i \in DOMAIN ledger : ledger'[i].execution = ledger[i].execution
      /\ ledger'[i].case = ledger[i].case
    BY <1>1, <2>1 DEF Settled
  <2>3. DOMAIN ledger' = DOMAIN ledger
    BY <1>1, <2>1
  <2>4. {i \in SendsOf(ledger', e) : ledger'[i].case = c} = {i \in SendsOf(ledger, e) : ledger[i].case = c}
    BY <2>2, <2>3 DEF SendsOf
  <2> QED BY <2>4 DEF CaseSends, e
<1>5. ledger' = ledger \/ Reserve(l) \/ Complete(l)
  BY DEF Step, Launch, Initialize, NextCase, Acquire, Transport, Settle, Check, Save, Finish, Kill,
      campaign
<1> QED BY <1>2, <1>3, <1>4, <1>5

(* What a launch has paid for and finished no later launch undoes: each    *)
(* stored draft keeps its content and its number of sends, each completed  *)
(* case stays completed, and a draft is only added by a launcher that was  *)
(* given the version of the prepared files the output was begun with.      *)
THEOREM PaidWorkKept == Spec => PaidWorkIsKept
<1> DEFINE Bought == \A e \in Executions, c \in Cases :
             disk[e].drafts[c] # NoDraft =>
               /\ disk'[e].drafts[c] = disk[e].drafts[c]
               /\ CaseSends(ledger', e, c) = CaseSends(ledger, e, c)
           Kept == \A e \in Executions :
             /\ \A c \in Cases : disk[e].results[c] = "completed" =>
                  disk'[e].results[c] = "completed"
             /\ \A l \in Launchers :
                  ExecutionOf[l] = e /\ disk'[e].drafts # disk[e].drafts =>
                    mem[l].authority = disk[e].authority
<1>1. GenerationInv /\ [Next]_vars => [Bought]_vars /\ [Kept]_vars
  <2> SUFFICES ASSUME GenerationInv, Next PROVE Bought /\ Kept
    OBVIOUS
  <2>1. CASE \E e \in Executions : Seal(e)
    BY <2>1 DEF Seal, campaign
  <2>2. ASSUME NEW l \in Launchers, Step(l) PROVE Bought /\ Kept
    <3>1. Frame(l) /\ ledger \in Seq(Row) /\ ExecutionOf[l] \in Executions
      BY <2>2, Framed, Known
    <3>2. \A e \in Executions : e # ExecutionOf[l] =>
            disk'[e] = disk[e] /\ \A c : CaseSends(ledger', e, c) = CaseSends(ledger, e, c)
      <4>1. ASSUME NEW e \in Executions, e # ExecutionOf[l] PROVE Agree(ledger', ledger, e)
        BY <3>1, <4>1, OthersRowsKept DEF Frame
      <4> QED BY <3>1, <4>1, AgreeingRows DEF Frame
    <3>3. Bought
      BY <2>2, <3>2, WorkKept, SendsKept
    <3>4. Kept
      BY <2>2, <3>2, WorkKept, Selections
    <3> QED BY <3>3, <3>4
  <2> QED BY <2>1, <2>2 DEF Next
<1>2. Spec => [][Bought]_vars /\ [][Kept]_vars
  BY <1>1, GenerationInvariant, PTL DEF Spec
<1> QED BY <1>2 DEF PaidWorkIsKept, DraftNotBoughtAgain, CompletedIsKept
=============================================================================
