-------------------------- MODULE MCCitationReview --------------------------
(* One calibration item and one reported assertion, of which each source assigns what   *)
(* its second argument says to the two reviewers; two freezes that share their rubric   *)
(* and calibration versions and differ in the reviewed content.                         *)
EXTENDS CitationReview, Sequences, Functions, TLC

Names == Permutations(JudgmentFiles)

F(content) == [version |-> "v1", content |-> content]
Asg(i, r) == [item |-> i, reviewer |-> r]
Source(content, asg, k1, clean) ==
    [freeze |-> F(content), assignments |-> asg,
     kind |-> [a \in {"open"} |-> k1], clean |-> clean]

Full == {Asg("cal", "r1"), Asg("cal", "r2"), Asg("open", "r1")}

MCSources ==
    {Source("out1", Full, "open", TRUE),
     Source("out2", Full, "open", TRUE),
     Source("out1", Full, "matched", TRUE),
     Source("out1", Full \ {Asg("open", "r1")}, "unscorable", FALSE),
     Source("out1", Full \ {Asg("open", "r1")}, "open", TRUE),
     Source("out1", Full \ {Asg("cal", "r2")}, "open", TRUE)}
-----------------------------------------------------------------------------
(* The matching of citations with gold evidence, over small inputs. Of all *)
(* quotes of up to 16 tokens, these overlaps are computed as a double just *)
(* below 0.80.                                                             *)
Gold == INSTANCE GoldMatching WITH One <- 2520,
          RoundedDown <- {<<6, 7, 8>>, <<8, 9, 11>>, <<12, 14, 16>>}

Matrices(rows, cols, top) == [1..rows -> [1..cols -> 0..top]]
Total(scores, assigned) ==
  SumFunction([r \in DOMAIN scores |-> IF assigned[r] = 0 THEN 0 ELSE scores[r][assigned[r]]])
OneToOne(assigned) == \A r, q \in DOMAIN assigned : assigned[r] = assigned[q] => r = q \/ assigned[r] = 0

(* The assignment gives no gold piece twice, and no other has a greater    *)
(* total, whatever the scores and whether rows or columns are more.        *)
ASSUME AssignmentIsOptimal ==
  \A shape \in {<<1, 3, 3>>, <<3, 1, 3>>, <<2, 2, 4>>, <<2, 3, 2>>, <<3, 2, 2>>, <<3, 3, 1>>} :
    LET choices == {f \in [1..shape[1] -> 0..shape[2]] : OneToOne(f)} IN
    \A scores \in Matrices(shape[1], shape[2], shape[3]) :
      LET assigned == Gold!Assignment(scores, shape[2]) IN
      /\ assigned \in choices
      /\ \A r \in DOMAIN scores : assigned[r] # 0 => scores[r][assigned[r]] > 0
      /\ \A other \in choices : Total(scores, other) <= Total(scores, assigned)

Quotes == UNION {[1..n -> {"x", "y", "z"}] : n \in 1..4}

(* Which of two quotes is the cited one does not matter, and only equal    *)
(* ones have the full score.                                               *)
ASSUME QuotesMatchBothWays ==
  \A a, b \in Quotes :
    /\ Gold!QuoteMatch(a, b) = Gold!QuoteMatch(b, a)
    /\ Gold!QuoteMatch(a, b).score = 2520 <=> a = b \/ (Len(a) = Len(b) /\ Gold!Overlap(a, b) = Len(a))

(* At four fifths the doubles decide: 2 of 2 and 3 tokens match, 6 of 7    *)
(* and 8 do not.                                                           *)
Share(shared, m, n) ==
  Gold!QuoteMatch([i \in 1..m |-> IF i <= shared THEN "x" ELSE "y"],
                  [i \in 1..n |-> IF i <= n - shared THEN "z" ELSE "x"]).strategy
ASSUME FourFifthsIsNotAlwaysEnough ==
  Share(4, 5, 5) = "token_span_f1" /\ Share(6, 7, 8) = "no_match"

Piece(paper, page, locator, quote, hash) ==
  [paper |-> paper, page |-> page, locator |-> locator, quote |-> quote, hash |-> hash,
   passage |-> FALSE]
Pieces == {Piece(p, 1, l, q, h) : p \in {"p", "q"}, l \in {"none", "here"},
                                  q \in {<<"x">>, <<"y">>}, h \in {"one", "two"}}
Shorts(S) == UNION {[1..n -> S] : n \in 0..2}

(* The status says whether a person must look; nothing cited at all is     *)
(* "matched", and leaves all gold unmatched.                               *)
ASSUME StatusTells ==
  \A cited, gold \in Shorts(Pieces) :
    LET result == Gold!MatchGold(cited, gold) IN
    /\ result.status = "matched" =>
         Cardinality(result.unmatched) = Len(gold) - Len(cited)
    /\ result.status = "review_required" => cited # <<>>
    /\ gold = <<>> => result.status = IF cited = <<>> THEN "matched" ELSE "review_required"
    /\ \A r \in DOMAIN result.matches : result.matches[r] # 0 =>
         gold[result.matches[r]].paper = cited[r].paper

Assertions == [a \in {"of p", "of all"} |->
  [mine |-> {"m", "n", "k"}, paper |-> IF a = "of p" THEN "p" ELSE "none"]]
Stored == {[id |-> "m", paper |-> "p", at |-> 1], [id |-> "n", paper |-> "q", at |-> 2],
           [id |-> "k", paper |-> "p", at |-> 3], [id |-> "k", paper |-> "p", at |-> 4],
           [id |-> "f", paper |-> "p", at |-> 5]}

(* A valid occurrence names one item of its run, of its paper; the same    *)
(* item is valid for the whole survey when it is for a paper.              *)
ASSUME ValidNamesOne ==
  \A e \in {"m", "n", "k", "f", "absent"} :
    LET at(a) == Gold!Reason([assertion |-> a, evidence |-> e], Assertions, Stored) IN
    /\ at("of nothing") = "unknown_assertion"
    /\ at("of p") = "none" => at("of all") = "none"
    /\ at("of p") = "none" <=> e = "m"
    /\ at("of all") = "none" <=> e \in {"m", "n"}
=============================================================================
