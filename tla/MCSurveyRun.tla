----------------------------- MODULE MCSurveyRun -----------------------------
(* Instances of SurveyRun for TLC, and the citation checker over small     *)
(* inputs: two items of this run, of two papers, an unknown one of this    *)
(* run, and one of another run that is in the index.                       *)
EXTENDS SurveyRun, FiniteSetsExt, SequencesExt, TLC

Checker == INSTANCE CitationChecker WITH Mine <- {"a", "b", "unknown"}, AnyPaper <- "any"

Index == [e \in {"a", "b", "foreign"} |-> IF e = "a" THEN "p" ELSE "q"]
References == UNION {[1..n -> {"a", "b", "unknown", "foreign"}] : n \in 0..4}

(* The loop of _sanitize_references, with its list and its set of seen     *)
(* items, retains what the checker's definition retains.                   *)
Loop(refs, paper) ==
  FoldLeft(LAMBDA retained, e :
             IF /\ e \in {"a", "b", "unknown"} \cap DOMAIN Index
                /\ paper = "any" \/ Index[e] = paper
                /\ ~Contains(retained, e)
             THEN Append(retained, e) ELSE retained, <<>>, refs)

ASSUME LoopRetainsTheSame ==
  \A refs \in References, paper \in {"any", "p", "q"} :
    LET kept == Loop(refs, paper) IN
    /\ ToSet(kept) = Checker!Retained(refs, Index, paper)
    /\ Len(kept) = Cardinality(Checker!Places(refs, Index, paper))
    /\ Len(refs) - Len(kept) = Cardinality(Checker!Removed(refs, Index, paper))

(* An analysis may be degraded or not, with a supported finding or not, in *)
(* every combination: the choice of the action Analysis.                   *)
ASSUME AnalysisMayEndEitherWay ==
  \A sanitized, supported \in BOOLEAN :
    \E findings \in UNION {[1..n -> {<<"a">>, <<"b">>, <<"a", "b">>}] : n \in 0..2} :
      LET analysis == [c \in Checker!Categories |->
                         IF c = "methods" THEN findings ELSE <<>>] IN
      /\ sanitized = Checker!AnalysisSanitized(analysis, Index, "p")
      /\ supported = Checker!HasSupportedFinding(
                       Checker!CheckPaperAnalysis(analysis, Index, "p"))

(* A draft may be sanitized or not, and publishable or not, in every       *)
(* combination; when it is not publishable, CitationCheck raises.          *)
ASSUME DraftMayEndEitherWay ==
  \A sanitized, publishable \in BOOLEAN :
    \E claim \in {<<"a">>, <<"foreign">>}, other \in {<<"b">>, <<"b", "b">>},
       sections \in SUBSET Checker!Critical :
      LET draft == [s \in Checker!Sections |->
                      IF s \in sections THEN <<<<"a">>, claim>>
                      ELSE IF s = "comparisons" THEN <<other>> ELSE <<>>]
          report == Checker!CheckSurveyDraft(draft, Index) IN
      /\ sanitized = Checker!DraftSanitized(report)
      /\ publishable = Checker!Publishable(report)

(* The legacy check agrees with the survey's on lists without repetition.  *)
ASSUME LegacyAgrees ==
  \A refs \in References : IsInjective(refs) =>
    (Checker!ClaimSupported(refs, Index)
       <=> Checker!SupportStatus(refs, Index, "any") = "supported")
-----------------------------------------------------------------------------
(* The retrieval of a paper over small calls.                              *)
Hybrid == INSTANCE HybridRetrieval

RetrievalCalls ==
  [requested : Hybrid!Modes, vector : BOOLEAN, chunks : {{}, {"a", "b"}},
   lexical : SUBSET {"a", "b"}, near : SUBSET {"a", "b"},
   fails : Hybrid!Stages \cup {"none"}, down : BOOLEAN, converts : BOOLEAN, k : {1, 2}]

(* The failures that no event tells: before the vector source was asked,   *)
(* in a retrieval that was to be hybrid.                                   *)
ASSUME UntoldFailures ==
  \A c \in RetrievalCalls :
    Hybrid!Delivered(c) = {} <=>
      /\ c.chunks # {} /\ c.requested # "lexical" /\ c.vector
      /\ c.fails \in {"validation", "lexical"}

(* An event counts no more than there is, and a pack no more than that.    *)
ASSUME CountsAreWithin ==
  \A c \in RetrievalCalls :
    LET e == Hybrid!Event(c) IN
    /\ e.returned <= e.fused /\ e.fused <= e.lexical + e.vector
    /\ e.stage # "none" => e.returned = 0
    /\ Hybrid!PackSize(c, 1) <= e.returned
    /\ Hybrid!Result(c) = "evidence" => e.fused <= Cardinality(c.chunks)

(* Of the settings' 60 and 30: to be in both lists at all outweighs being  *)
(* first in one; of lists of more than 62 it would not.                    *)
ASSUME RanksMatter ==
  /\ \A l, v \in 1..30 : Hybrid!Below(Hybrid!One(60, 1), Hybrid!Both(60, l, v))
  /\ Hybrid!Below(Hybrid!Both(60, 63, 63), Hybrid!One(60, 1))
==============================================================================
