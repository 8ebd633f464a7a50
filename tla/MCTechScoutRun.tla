--------------------------- MODULE MCTechScoutRun ---------------------------
(* Instances of TechScoutRun for TLC: two candidates with a reviewed       *)
(* recipe, one of which compiles, and one without a recipe.                *)
EXTENDS TechScoutRun

McCandidates == {"lib", "drop_in", "other"}
McReviewed == {"lib", "drop_in"}
McRunnable == {"lib"}
McCovered == {"lib", "drop_in"}

Asking(mode, asks, candidates, unmet) ==
  [mode |-> mode, asks |-> asks, candidates |-> candidates, unmet |-> unmet]

McFast ==
  {Asking("fast", asks, candidates, {}) :
     asks \in {"happy", "recovery", "cached"},
     candidates \in {<<"lib">>, <<"other">>, <<"other", "lib">>,
                     <<"lib", "other">>}}
  \cup {Asking("fast", "happy", <<"lib">>, {"lib"})}

McVerified ==
  {Asking("verified", "happy", candidates, {}) :
     candidates \in {<<"lib">>, <<"drop_in">>, <<"lib", "other">>}}
  \cup {Asking("verified", "happy", <<"lib">>, {"lib"})}

McRequests == McFast \cup McVerified

(* The services of TechScoutRun answer; Harness is given none of its own.  *)
McOutcomes == [s \in StageNodes |-> {}]
McRunIds == {"run:1"}
McReportIds == {"report:1"}
-----------------------------------------------------------------------------
(* The context of a stage, of data with two documents and three pieces of  *)
(* evidence that rest on one of them each, at the cutoff 1, for "new". Any *)
(* of the pieces, and the two chunks, may have the same identifier.        *)
Context ==
  INSTANCE ContextSelection WITH PacketSources <- 1, PacketEvidence <- 2, PacketChunks <- 1

DocumentAt(i) ==
  [id : {i}, candidate : {"c"}, as_of : {1, 2}, version : {"none", "new", "old"}, at : {i}]
PieceAt(i) ==
  [id : {1, i}, candidate : {"c"}, sources : {{1}, {2}}, fact : {TRUE}, at : {i}]
CandidateData ==
  {[candidate |-> "c", documents |-> {d1, d2}, evidence |-> {e1, e2, e3},
    chunks |-> [id : {1}, source : {1}, at : {1}] \cup [id : {i}, source : {2}, at : {2}]] :
     i \in {1, 2}, d1 \in DocumentAt(1), d2 \in DocumentAt(2),
     e1 \in PieceAt(1), e2 \in PieceAt(2), e3 \in PieceAt(3)}

Shown(stage, data) ==
  {Context!Packet(stage, data, 1, "new", found) :
     found \in IF stage \in Context!Searching
               THEN Context!Retrievable(data, Context!ScopedDocuments(data, 1, "new"))
               ELSE {{}}}

(* Two pieces of evidence with one identifier in the packet are what makes *)
(* a packet of valid data invalid, and nothing else does.                  *)
ASSUME PacketsAreAccepted ==
  \A data \in CandidateData, stage \in Context!PacketStages :
    /\ Context!IsPartition(data)
    /\ \A packet \in Shown(stage, data) :
         /\ Context!Accepts(packet) <=> Context!UniqueIds(packet.evidence)
         /\ Cardinality(packet.sources) <= 1 /\ Cardinality(packet.evidence) <= 2

(* It does happen, and no packet is left of candidates whose chunks share  *)
(* an identifier, where they are searched.                                 *)
ASSUME PacketsMayBeRefused ==
  /\ \E data \in CandidateData : \E packet \in Shown("reporting", data) :
       ~Context!Accepts(packet)
  /\ \E data \in CandidateData : Shown("research", data) = {}

(* Evidence that is out of scope takes a place before it is left out: the  *)
(* third piece, the only one in scope, is not shown, with room for it.     *)
ASSUME PlacesAreTakenByWhatIsOut ==
  \E data \in CandidateData : \A packet \in Shown("validation", data) :
    /\ packet.evidence = {}
    /\ \E e \in data.evidence :
         e.sources \subseteq Context!Ids(Context!ScopedDocuments(data, 1, "new"))
=============================================================================
