---------------------------- MODULE GoldMatching ----------------------------
(***************************************************************************)
(* Which cited evidence is which piece of gold evidence                    *)
(* (eval/citation_baseline/matching.py): whether an occurrence is          *)
(* structurally valid, when a pair matches and with which score, and the   *)
(* one-to-one assignment of the greatest total score.                      *)
(*                                                                         *)
(* A quote is the sequence of its normalized tokens. A score is a whole    *)
(* number of parts of One, which every denominator that occurs divides.    *)
(* Scores are doubles in the code: the assignment only compares and adds   *)
(* them, and the two thresholds are where a rounding may show.             *)
(***************************************************************************)
EXTENDS Integers, Sequences, FiniteSets, FiniteSetsExt, Functions

CONSTANTS One,         \* the score 1.0
          RoundedDown  \* <<overlap, tokens, tokens>> whose F1, exactly 4/5, is
                       \* computed as the double below 0.80

Missing == "none"
Infinite == 1000 * One
-----------------------------------------------------------------------------
(* resolve_citation_occurrences: the first reason found, or Missing. `mine`*)
(* is the set of identifiers that start with the run of the assertion;     *)
(* assertion.paper is Missing for an assertion about the whole survey.     *)
Reason(occurrence, assertions, evidence) ==
  LET assertion == assertions[occurrence.assertion]
      candidates == {e \in evidence : e.id = occurrence.evidence} IN
  IF occurrence.assertion \notin DOMAIN assertions THEN "unknown_assertion"
  ELSE IF occurrence.evidence \notin assertion.mine THEN "foreign_run_evidence"
  ELSE IF candidates = {} THEN "missing_evidence"
  ELSE IF Cardinality(candidates) > 1 THEN "non_unique_evidence"
  ELSE IF assertion.paper \notin {Missing} \cup {e.paper : e \in candidates}
       THEN "paper_scope_mismatch" ELSE Missing
-----------------------------------------------------------------------------
(* When the quotes of a pair match, and with which score.                  *)

PageMatches(actual, gold) ==   \* pages count from 1; 0 is no page
  IF actual.page # 0 /\ gold.page # 0 THEN actual.page = gold.page ELSE gold.passage

Contains(longer, shorter) ==
  /\ shorter # <<>>
  /\ \E start \in 0..Len(longer) - Len(shorter) :
       \A i \in DOMAIN shorter : longer[start + i] = shorter[i]
Contained(a, b) == IF Len(a) <= Len(b) THEN Contains(b, a) ELSE Contains(a, b)

Count(quote, token) == Cardinality({i \in DOMAIN quote : quote[i] = token})
LesserOf(m, n) == IF m < n THEN m ELSE n
Overlap(a, b) == MapThenSumSet(LAMBDA t : LesserOf(Count(a, t), Count(b, t)), Range(a))

(* Thresholds: 0.90 of the longer quote, and 0.80 of F1.                   *)
LongEnough(a, b) ==
  IF Len(a) <= Len(b) THEN 10 * Len(a) >= 9 * Len(b) ELSE 10 * Len(b) >= 9 * Len(a)
SharesEnough(a, b) ==
  LET o == Overlap(a, b) IN
  /\ o > 0
  /\ 10 * o >= 4 * (Len(a) + Len(b))
  /\ {<<o, Len(a), Len(b)>>, <<o, Len(b), Len(a)>>} \cap RoundedDown = {}

(* _match_pair, with the score 0 for no match.                             *)
Matched(strategy, score) == [strategy |-> strategy, score |-> score]

QuoteMatch(a, b) ==
  LET shorter == LesserOf(Len(a), Len(b))
      both == Len(a) + Len(b) IN
  IF a = b THEN Matched("exact_normalized_quote", One)
  ELSE IF Contained(a, b) /\ LongEnough(a, b)
       THEN Matched("containment", (One * shorter) \div (both - shorter))
  ELSE IF SharesEnough(a, b)
       THEN Matched("token_span_f1", (2 * One * Overlap(a, b)) \div both)
  ELSE Matched("no_match", 0)

PairMatch(actual, gold) ==
  IF actual.paper # gold.paper \/ ~PageMatches(actual, gold) THEN Matched("no_match", 0)
  ELSE IF actual.locator # Missing /\ actual.locator = gold.locator
       THEN Matched("exact_locator", One)
       ELSE QuoteMatch(actual.quote, gold.quote)
-----------------------------------------------------------------------------
(* _maximum_weight_assignment over a matrix of scores with rows and cols:  *)
(* the Hungarian algorithm, a further column for each row standing for no  *)
(* match. Columns and rows are counted from 1; 0 is the column from which  *)
(* a row is being placed.                                                  *)
Cost(scores, cols, r, c) == IF c <= cols THEN -scores[r][c] ELSE 0

(* One look over the columns from h.column: potentials and slacks move by  *)
(* the least slack, and its first column comes next.                       *)
Scan(h, scores, cols) ==
  LET n == cols + Len(scores)
      used == h.used \cup {h.column}
      row == h.at[h.column]
      reduced == [c \in 1..n |-> Cost(scores, cols, row, c) - h.u[row] - h.v[c]]
      closer == {c \in (1..n) \ used : reduced[c] < h.slack[c]}
      slack == [c \in 1..n |-> IF c \in closer THEN reduced[c] ELSE h.slack[c]]
      delta == Min({slack[c] : c \in (1..n) \ used}) IN
  [h EXCEPT
    !.used = used,
    !.from = [c \in 1..n |-> IF c \in closer THEN h.column ELSE h.from[c]],
    !.slack = [c \in 1..n |-> IF c \in used THEN slack[c] ELSE slack[c] - delta],
    !.u = [r \in 1..Len(scores) |->
             IF \E c \in used : h.at[c] = r THEN h.u[r] + delta ELSE h.u[r]],
    !.v = [c \in 0..n |-> IF c \in used THEN h.v[c] - delta ELSE h.v[c]],
    !.column = Min({c \in (1..n) \ used : slack[c] = delta})]

RECURSIVE Search(_, _, _), Shift(_, _), Place(_, _, _)

Search(h, scores, cols) ==
  LET next == Scan(h, scores, cols) IN
  IF next.at[next.column] = 0 THEN next ELSE Search(next, scores, cols)

(* The path of columns is shifted by one, back to column 0.                *)
Shift(h, column) ==
  IF column = 0 THEN h
  ELSE Shift([h EXCEPT !.at[column] = h.at[h.from[column]]], h.from[column])

Place(h, row, input) ==
  IF row > Len(input.scores) THEN h
  ELSE LET ready == [h EXCEPT !.at[0] = row, !.used = {}, !.column = 0,
                              !.slack = [c \in DOMAIN h.slack |-> Infinite]]
           found == Search(ready, input.scores, input.cols) IN
       Place(Shift(found, found.column), row + 1, input)

(* The column of each row, or 0 when it is left without a match.           *)
Assignment(scores, cols) ==
  LET n == cols + Len(scores)
      placed == Place([at |-> [c \in 0..n |-> 0], from |-> [c \in 1..n |-> 0],
                       u |-> [r \in 1..Len(scores) |-> 0], v |-> [c \in 0..n |-> 0],
                       slack |-> [c \in 1..n |-> Infinite], used |-> {}, column |-> 0],
                      1, [scores |-> scores, cols |-> cols]) IN
  [r \in DOMAIN scores |->
     IF \E c \in 1..cols : placed.at[c] = r /\ scores[r][c] > 0
     THEN CHOOSE c \in 1..cols : placed.at[c] = r ELSE 0]
-----------------------------------------------------------------------------
(* match_gold_evidence: `cited` is the sequence of records of the valid    *)
(* occurrences of one assertion, the first occurrence of each record;      *)
(* `gold` the sequence of the pieces in the assertion's scope.             *)
ContentMismatch(cited, gold) ==
  \E a \in Range(cited) :
    LET hashes == {g.hash : g \in {x \in Range(gold) : x.paper = a.paper}} IN
    hashes # {} /\ a.hash \notin hashes

MatchGold(cited, gold) ==
  LET scores == [r \in DOMAIN cited |->
                   [c \in DOMAIN gold |-> PairMatch(cited[r], gold[c]).score]]
      assigned == Assignment(scores, Len(gold)) IN
  IF ContentMismatch(cited, gold)
  THEN [status |-> "unscorable_content", matches |-> <<>>, unmatched |-> DOMAIN gold]
  ELSE [status |-> IF 0 \in Range(assigned) THEN "review_required" ELSE "matched",
        matches |-> assigned,
        unmatched |-> DOMAIN gold \ Range(assigned)]
=============================================================================
