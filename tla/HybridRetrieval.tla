-------------------------- MODULE HybridRetrieval --------------------------
(***************************************************************************)
(* One retrieval of evidence for a paper (evidence/hybrid.py, fusion.py,   *)
(* models.py, packs.py): what HybridEvidenceRetriever.retrieve does with   *)
(* each way in which its sources may answer, which event it delivers, and  *)
(* whether its own models accept that event. SurveyRun's step Retrieval    *)
(* chooses among these outcomes.                                           *)
(*                                                                         *)
(* A call is a record: requested, the mode of the settings; vector, is     *)
(* there a vector source; chunks, the identifiers to search; lexical and   *)
(* near, what the two sources find among them; fails, the first stage that *)
(* would raise, or NoFailure; down, whether the vector source fails by     *)
(* being unavailable; converts, whether candidates can be made evidence;   *)
(* k, the limit of the evidence. A sink that raises is left out, and so is *)
(* an exception of the vector source of neither of its two kinds: it can   *)
(* come only of making candidates of what the vector retriever returns,    *)
(* whose models have the same bounds.                                      *)
(***************************************************************************)
EXTENDS Integers, FiniteSets

NoFailure == "none"
Modes == {"lexical", "hybrid", "auto"}
VectorStages == {"vector_index", "vector_query"}
Stages == {"validation", "lexical", "fusion"} \cup VectorStages
-----------------------------------------------------------------------------
Planned(c) == IF c.requested = "lexical" \/ ~c.vector THEN "lexical" ELSE "hybrid"

(* An automatic retrieval goes on without an unavailable vector source.    *)
Degrades(c) ==
  /\ Planned(c) = "hybrid" /\ c.requested = "auto"
  /\ c.fails \in VectorStages /\ c.down

Actual(c) == IF Degrades(c) THEN "lexical" ELSE Planned(c)

(* Nothing is asked of anyone about a paper without chunks; a vector       *)
(* source that is not asked, or that auto does without, fails nothing.     *)
Reached(c) ==
  IF c.chunks = {} THEN {}
  ELSE Stages \ IF Actual(c) = "hybrid" THEN {} ELSE VectorStages \cup {"fusion"}
FailsAt(c) ==
  IF c.fails \in Reached(c) THEN c.fails
  ELSE IF c.chunks # {} /\ ~c.converts THEN "evidence_conversion" ELSE NoFailure

Attempted(c) ==
  /\ c.chunks # {} /\ Planned(c) = "hybrid"
  /\ FailsAt(c) \notin {"validation", "lexical"}

Least(m, n) == IF m < n THEN m ELSE n

(* What a failing stage would have found or used up to be counted is 0.    *)
Counted(c, found, stages) ==
  IF c.chunks = {} \/ FailsAt(c) \in stages THEN 0 ELSE Cardinality(found)
LexicalCount(c) == Counted(c, c.lexical, {"validation", "lexical"})
VectorCount(c) ==
  IF Actual(c) = "hybrid"
  THEN Counted(c, c.near, {"validation", "lexical"} \cup VectorStages) ELSE 0
FusedCount(c) ==
  Counted(c, IF Actual(c) = "hybrid" THEN c.lexical \cup c.near ELSE c.lexical, Stages)
Returned(c) == IF FailsAt(c) = NoFailure THEN Least(c.k, FusedCount(c)) ELSE 0

Code(stage) ==
  CASE stage = "validation" -> "invalid_request"
    [] stage = "lexical" -> "lexical_failure"
    [] stage \in VectorStages -> "vector_failure"
    [] stage = "fusion" -> "fusion_failure"
    [] stage = "evidence_conversion" -> "evidence_conversion_failure"
    [] OTHER -> NoFailure

(* The mode that _success and _emit_error are given: a paper without       *)
(* chunks was searched lexically. degraded says whether the words          *)
(* degraded and degradation_code, which come together, are set.            *)
Event(c) ==
  [status |-> IF FailsAt(c) = NoFailure THEN "ok" ELSE "error",
   requested |-> c.requested,
   actual |-> IF c.chunks = {} THEN "lexical" ELSE Actual(c),
   attempted |-> Attempted(c),
   degraded |-> c.chunks # {} /\ Degrades(c),
   lexical |-> LexicalCount(c), vector |-> VectorCount(c),
   fused |-> FusedCount(c), returned |-> Returned(c),
   stage |-> FailsAt(c), code |-> Code(FailsAt(c))]
-----------------------------------------------------------------------------
(* What RetrievalEvent and RetrievalDiagnostics accept.                    *)

CountsAgree(e) == e.returned <= e.fused

StateIsValid(e) ==
  /\ ~e.attempted => e.vector = 0
  /\ e.actual = "hybrid" => e.attempted
  /\ e.degraded => e.requested = "auto" /\ e.actual = "lexical" /\ e.attempted

Accepted(e) ==
  /\ CountsAgree(e)
  /\ StateIsValid(e)
  /\ IF e.status = "ok" THEN e.stage = NoFailure /\ e.code = NoFailure
                        ELSE e.stage # NoFailure /\ e.code # NoFailure

(* What the caller gets: the evidence, the exception of the stage, or the  *)
(* ValidationError of an event that cannot be built; the sink then hears   *)
(* nothing.                                                                *)
Delivered(c) == IF Accepted(Event(c)) THEN {Event(c)} ELSE {}
Result(c) ==
  CASE ~Accepted(Event(c)) -> "validation_error"
    [] Accepted(Event(c)) /\ FailsAt(c) # NoFailure -> "cause"
    [] OTHER -> "evidence"

(* EvidencePackBuilder keeps the first of the evidence, one for a chunk;   *)
(* no chunk comes twice out of the fusion.                                 *)
PackSize(c, limit) == Least(limit, Returned(c))
-----------------------------------------------------------------------------
(* fuse_candidates: the score of a candidate is the sum of 1 / (k + rank)  *)
(* over the lists that have it, as a fraction of the greatest sum, 2 / (k  *)
(* + 1). Here scores are fractions, compared by cross multiplication.      *)
One(k, rank) == [num |-> k + 1, den |-> 2 * (k + rank)]
Both(k, lexical, vector) ==
  [num |-> (k + 1) * (2 * k + lexical + vector),
   den |-> 2 * (k + lexical) * (k + vector)]
Below(s, t) == s.num * t.den < t.num * s.den
=============================================================================
