-------------------------- MODULE ContextSelection --------------------------
(***************************************************************************)
(* What a stage of TechScout is shown of the research (techscout/context/  *)
(* engine.py, models.py): ContextEngine.build chooses sources, chunks and  *)
(* evidence of one candidate, up to a cutoff date and for one version.     *)
(*                                                                         *)
(* The data of a candidate are records with the position `at` that they    *)
(* have in their tuple: documents [id, candidate, as_of, version, at],     *)
(* chunks [id, source, at], evidence [id, candidate, sources, fact, at];   *)
(* fact says that its kind is RETRIEVED_FACT. Texts, the parts of a packet *)
(* that are only handed through, and search history are left out.          *)
(***************************************************************************)
EXTENDS Integers, FiniteSets

CONSTANTS PacketSources, PacketEvidence, PacketChunks

(* What the constructors of the engine and of its retriever let through.   *)
Limits == PacketSources \in 1..5 /\ PacketEvidence \in 1..12 /\ PacketChunks \in 1..8

NoVersion == "none"
Searching == {"research", "poc_planning"}
Judging == {"validation", "reporting"}
PacketStages == Searching \cup Judging

Ids(S) == {x.id : x \in S}
UniqueIds(S) == \A x, y \in S : x.id = y.id => x = y
First(S, n) == {x \in S : Cardinality({y \in S : y.at < x.at}) < n}

(* CandidateContextData: the data are of the candidate, identifiers of     *)
(* documents are unique, chunks are of known documents. Identifiers of     *)
(* chunks and of evidence are not looked at here.                          *)
IsPartition(data) ==
  /\ \A d \in data.documents : d.candidate = data.candidate
  /\ UniqueIds(data.documents)
  /\ \A c \in data.chunks : c.source \in Ids(data.documents)
  /\ \A e \in data.evidence : e.candidate = data.candidate
-----------------------------------------------------------------------------
(* A document of another version than the target is out, one without       *)
(* version is in. The evidence is cut at its limit before the cutoff is    *)
(* looked at.                                                              *)
ScopedDocuments(data, cutoff, target) ==
  {d \in data.documents :
     d.as_of <= cutoff /\ (target = NoVersion \/ d.version \in {NoVersion, target})}
ScopedEvidence(data) == First(data.evidence, PacketEvidence)

(* HybridContextRetriever.retrieve finds some chunks of scoped documents,  *)
(* each once; it raises, and finds nothing, when two have the same id.     *)
Retrievable(data, documents) ==
  LET scoped == {c \in data.chunks : c.source \in Ids(documents)} IN
  {found \in SUBSET scoped : UniqueIds(scoped) /\ Cardinality(found) <= PacketChunks}

Cited(evidence) == UNION {e.sources : e \in evidence}

SelectedDocuments(stage, documents, evidence, found) ==
  LET wanted == CASE stage = "research" -> {c.source : c \in found}
                  [] stage = "poc_planning" -> {c.source : c \in found} \cup Cited(evidence)
                  [] stage \in Judging -> Cited(evidence) IN
  First({d \in documents : d.id \in wanted}, PacketSources)

(* build, of the stages after planning, which is shown nothing of this.    *)
Packet(stage, data, cutoff, target, found) ==
  LET evidence == ScopedEvidence(data)
      sources == SelectedDocuments(stage, ScopedDocuments(data, cutoff, target),
                                   evidence, found) IN
  [stage |-> stage, candidate |-> data.candidate, sources |-> sources,
   chunks |-> IF stage \in Searching
              THEN {c \in found : c.source \in Ids(sources)} ELSE {},
   evidence |-> IF stage = "research" THEN {}
                ELSE {e \in evidence : e.sources \subseteq Ids(sources)}]

(* ContextPacket: the lengths of its fields and enforce_stage_partition.   *)
Accepts(packet) ==
  /\ Cardinality(packet.sources) <= 5
  /\ Cardinality(packet.chunks) <= 8
  /\ Cardinality(packet.evidence) <= 12
  /\ UniqueIds(packet.sources) /\ UniqueIds(packet.chunks) /\ UniqueIds(packet.evidence)
  /\ \A d \in packet.sources : d.candidate = packet.candidate
  /\ \A c \in packet.chunks : c.source \in Ids(packet.sources)
  /\ \A e \in packet.evidence :
       /\ e.candidate = packet.candidate
       /\ e.fact => e.sources \subseteq Ids(packet.sources)
=============================================================================
