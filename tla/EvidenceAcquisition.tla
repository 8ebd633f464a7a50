------------------------ MODULE EvidenceAcquisition ------------------------
(***************************************************************************)
(* Acquiring evidence for one candidate: research/service.py asks the      *)
(* cached adapters of tools/adapters.py, which keep the answers of the     *)
(* search, page and GitHub providers in the cache of tools/cache.py.       *)
(*                                                                         *)
(* Researchers are threads or processes that share one cache directory:    *)
(* the web server's worker, the worker of a server that outlived its join, *)
(* the stdio gateways of tools/mcp_server.py.  They use no lock.  Any of   *)
(* them may be killed between two file operations; what the file system    *)
(* holds stays.                                                            *)
(*                                                                         *)
(* The index record of a request is a file whose temporary name all its    *)
(* writers share, so names and inodes are kept apart: opening the          *)
(* temporary truncates the inode another writer may be about to publish.   *)
(* A blob's name holds the time the value was retrieved, so a blob has one *)
(* writer, and it is there, whole, before the index record that names it:  *)
(* an index record stands for the value it names.                          *)
(***************************************************************************)
EXTENDS Integers, Sequences, FiniteSets

CONSTANTS
    Researchers,
    Queries,        \* CandidateSourcePolicy.official_queries, a sequence
    Pages,          \* the pages a search may name
    Repository,     \* repository_url: a sequence of one request to GitHub, or of none
    Answers,        \* [Requests -> what the provider may answer]
    Errors,         \* the AdapterErrors a provider may end with
    MaxSources,     \* max_sources
    TTL, MaxStale,  \* ttl and max_stale, in ticks of the clock
    Inodes,
    MaxTime, MaxKills, MaxBegun,   \* bounds of the model
    None, Torn

Searches == {Queries[k] : k \in DOMAIN Queries}
Requests == Searches \cup Pages \cup {Repository[k] : k \in DOMAIN Repository}
Time == 0..MaxTime

\* What a provider returned for a request, with provenance.retrieved_at.
Value(req) == [request : {req}, data : Answers[req], at : Time]
Values == UNION {Value(req) : req \in Requests}

\* An index record with the blob it names.
Entry == [value : Values, stored : Time]

\* The AdapterErrors a call to a provider ends with.
AdapterErrors == {"timeout", "rate limited", "too large", "unsafe", "unavailable"}

ASSUME EvidenceAssumption ==
    /\ Errors \subseteq AdapterErrors
    /\ TTL \in Nat /\ MaxStale \in Nat /\ MaxTime \in Nat /\ MaxSources \in Nat \ {0}
    /\ Queries \in Seq(Searches) /\ Repository \in Seq(Requests)
    /\ \A q \in Searches : Answers[q] \subseteq Seq(Pages)
    /\ \A req \in Requests \ Searches : Answers[req] \subseteq {"text", "bare", "long"}
    /\ None \notin Inodes \cup Values \cup Entry /\ Torn \notin Entry /\ Torn # None
    /\ \A k \in DOMAIN Repository : Repository[k] \notin Searches
    /\ Pages \cap Searches = {}

VARIABLES
    index,      \* [Requests -> the inode of keys/<request>.json, or None]
    temp,       \* [Requests -> the inode of keys/<request>.tmp, or None]
    content,    \* [Inodes -> Torn or an Entry]
    work,       \* [Researchers -> what the researcher is doing, and has]
    now, kills, begun

vars == <<index, temp, content, work, now, kills, begun>>
disk == <<index, temp, content>>
bounds == <<now, kills, begun>>

\* docs and failed are the available and the failed SourceAttempts.
Resting == [step |-> "rest", request |-> None, todo |-> <<>>, seen |-> {}, docs |-> <<>>,
            failed |-> {}, began |-> 0, cached |-> None, value |-> None, inode |-> None]

Init ==
    /\ index = [req \in Requests |-> None]
    /\ temp = [req \in Requests |-> None]
    /\ content = [i \in Inodes |-> Torn]
    /\ work = [r \in Researchers |-> Resting]
    /\ now = 0 /\ kills = 0 /\ begun = 0

(***************************************************************************)
(* LiveEvidenceResearchService._acquire                                    *)
(***************************************************************************)

\* What is still asked for: every query, and pages not yet seen and the repository while
\* there are fewer than max_sources documents.
Wanted(w, req) == req \in Searches \/ (Len(w.docs) < MaxSources /\ req \notin w.seen)

\* A page of more than 200 chunks is no CandidateResearchResult: its validation raises.
TooLong(docs) == \E k \in DOMAIN docs : docs[k].value.data = "long"

\* The exception is none of those _acquire catches: the stage ends with it, and what was
\* acquired is lost.
Raised == [Resting EXCEPT !.step = "raised"]

\* The first request on the list that is still wanted.
IsNext(w, k) == Wanted(w, w.todo[k]) /\ \A j \in 1..k - 1 : ~Wanted(w, w.todo[j])

\* On to the next request, or to the result when there is none.
Advance(w) ==
    IF \E k \in DOMAIN w.todo : IsNext(w, k)
      THEN LET k   == CHOOSE i \in DOMAIN w.todo : IsNext(w, i)
               req == w.todo[k]
           IN  [Resting EXCEPT !.step = "look", !.request = req,
                    !.todo = SubSeq(w.todo, k + 1, Len(w.todo)),
                    !.docs = w.docs, !.failed = w.failed,
                    !.seen = IF req \in Pages THEN w.seen \cup {req} ELSE w.seen]
      ELSE IF TooLong(w.docs)
             THEN Raised
             ELSE [Resting EXCEPT !.step = "done", !.docs = w.docs, !.failed = w.failed]

\* _failed_attempt: the request is recorded as unavailable, and research goes on.
Failed(w, error) ==
    Advance([w EXCEPT !.failed = @ \cup {[request |-> w.request, error |-> error]}])

\* _normalize finds no text in the answer.
Unusable(value) == value.data = "bare"

\* A search answer names pages to fetch; a page or a repository becomes a document and
\* an attempt that says how it was had, or a failed one when it has no usable text.
Had(w, value, label) ==
    IF w.request \in Searches
      THEN Advance([w EXCEPT !.todo = value.data \o @])
      ELSE IF Unusable(value)
             THEN Failed(w, "parsing")
             ELSE Advance([w EXCEPT !.docs =
                      Append(@, [request |-> w.request, value |-> value,
                                 label |-> label, began |-> w.began])])

Begin(r) ==
    /\ work[r].step \in {"rest", "done", "raised"}
    /\ begun < MaxBegun
    /\ begun' = begun + 1
    /\ work' = [work EXCEPT ![r] = Advance([Resting EXCEPT !.todo = Queries \o Repository])]
    /\ UNCHANGED <<disk, now, kills>>

(***************************************************************************)
(* CachedSearchAdapter, CachedFetchAdapter, CachedGitHubAdapter            *)
(***************************************************************************)

\* Mutant: a hit may be as old as a fallback.
IsFreshAsFallback(entry, at) == at - entry.stored <= MaxStale

IsFresh(entry, at) == at - entry.stored <= TTL

\* The clock is read and the cache is asked: a fresh entry is a hit; an older one is
\* kept for a fallback; a record that does not parse raises.
Look(r) ==
    /\ work[r].step = "look"
    /\ LET inode == index[work[r].request]
           found == IF inode = None THEN None ELSE content[inode]
           w     == [work[r] EXCEPT !.began = now]
       IN  work' = [work EXCEPT ![r] =
               CASE found = None -> [w EXCEPT !.step = "call"]
                 [] found = Torn -> Raised
                 [] OTHER -> IF IsFresh(found, now)
                               THEN Had(w, found.value, "hit")
                               ELSE [w EXCEPT !.step = "call", !.cached = found]]
    /\ UNCHANGED <<disk, bounds>>

\* Mutant: any entry answers for a provider that fails.
FallsBackAlways(w) == w.cached # None

FallsBack(w) == w.cached # None /\ w.began - w.cached.stored <= MaxStale

\* The provider fails: the entry that is there answers for it unless it is too old.
Refused(r) ==
    /\ work[r].step = "call"
    /\ LET w == work[r]
       IN  IF FallsBack(w)
             THEN work' = [work EXCEPT ![r] = Had(w, w.cached.value, "stale")]
             ELSE \E error \in Errors : work' = [work EXCEPT ![r] = Failed(w, error)]
    /\ UNCHANGED <<disk, bounds>>

\* resolve_addresses: the host of a page does not resolve, and getaddrinfo raises.
Unresolved(r) ==
    /\ work[r].step = "call"
    /\ work[r].request \in Pages
    /\ work' = [work EXCEPT ![r] = Raised]
    /\ UNCHANGED <<disk, bounds>>

(***************************************************************************)
(* ContentAddressedCache.put: the blob, which is its writer's own, then    *)
(* _write_json of the index record                                         *)
(***************************************************************************)

\* The inodes a name or a writer refers to.  The others are gone.
InUse == {index[req] : req \in Requests} \cup {temp[req] : req \in Requests}
            \cup {work[r].inode : r \in Researchers}

\* The provider answers, the blob is stored, and the temporary is opened: the one that is
\* there is truncated, or a new one is made.
Answered(r) ==
    /\ work[r].step = "call"
    /\ LET req  == work[r].request
           gone == Inodes \ InUse
       IN  /\ gone # {}
           /\ \E inode \in IF temp[req] # None THEN {temp[req]}
                                              ELSE {CHOOSE i \in gone : TRUE} :
                 /\ temp' = [temp EXCEPT ![req] = inode]
                 /\ content' = [i \in Inodes |-> IF i \in gone \cup {inode}
                                                   THEN Torn ELSE content[i]]
                 /\ \E data \in Answers[req] :
                       work' = [work EXCEPT ![r].step = "write", ![r].inode = inode,
                                    ![r].cached = None,
                                    ![r].value = [request |-> req, data |-> data, at |-> now]]
    /\ UNCHANGED <<index, bounds>>

\* Mutants: the entry is dated when it is stored, or by when it ends to be of use.
StampAtEnd(w) == now
StampExpiry(w) == w.began + MaxStale

\* The entry is dated when the request began, before the provider retrieved the value.
Stamp(w) == w.began

\* Mutant: a writer whose temporary has been moved does not write.
WriteUnlessMoved(r) ==
    /\ work[r].step = "write"
    /\ IF temp[work[r].request] = work[r].inode
         THEN /\ content' = [content EXCEPT ![work[r].inode] =
                                [value |-> work[r].value, stored |-> Stamp(work[r])]]
              /\ work' = [work EXCEPT ![r].step = "move"]
         ELSE /\ work' = [work EXCEPT ![r] = Raised]
              /\ UNCHANGED content
    /\ UNCHANGED <<index, temp, bounds>>

\* Records of one request have one length: the last of two writers of an inode wins.
Write(r) ==
    /\ work[r].step = "write"
    /\ content' = [content EXCEPT ![work[r].inode] =
                      [value |-> work[r].value, stored |-> Stamp(work[r])]]
    /\ work' = [work EXCEPT ![r].step = "move"]
    /\ UNCHANGED <<index, temp, bounds>>

\* The temporary becomes the record, whoever opened it last; when another writer has
\* moved it already, the move raises.
Move(r) ==
    /\ work[r].step = "move"
    /\ LET req == work[r].request
       IN  IF temp[req] = None
             THEN /\ work' = [work EXCEPT ![r] = Raised]
                  /\ UNCHANGED <<index, temp>>
             ELSE /\ work' = [work EXCEPT ![r] = Had(work[r], work[r].value, "miss")]
                  /\ index' = [index EXCEPT ![req] = temp[req]]
                  /\ temp' = [temp EXCEPT ![req] = None]
    /\ UNCHANGED <<content, bounds>>

(***************************************************************************)

\* The process is killed: the files it was writing stay as they are.
Kill(r) ==
    /\ work[r].step \notin {"rest", "done", "raised"}
    /\ kills < MaxKills
    /\ kills' = kills + 1
    /\ work' = [work EXCEPT ![r] = Resting]
    /\ UNCHANGED <<disk, now, begun>>

Tick ==
    /\ now < MaxTime
    /\ now' = now + 1
    /\ UNCHANGED <<disk, work, kills, begun>>

Proceed(r) ==
    \/ Look(r) \/ Answered(r) \/ Refused(r) \/ Unresolved(r)
    \/ Write(r) \/ Move(r)

Next ==
    \/ \E r \in Researchers : Begin(r) \/ Proceed(r) \/ Kill(r)
    \/ Tick

Spec == Init /\ [][Next]_vars

(***************************************************************************)
(* Properties                                                              *)
(***************************************************************************)

Document == [request : Requests \ Searches, value : Values,
             label : {"miss", "hit", "stale"}, began : Time]

Steps == {"rest", "look", "call", "write", "move", "done", "raised"}
Work == [step : Steps, request : Requests \cup {None}, todo : Seq(Requests),
         seen : SUBSET Pages, docs : Seq(Document),
         failed : SUBSET [request : Requests, error : Errors \cup {"parsing"}],
         began : Time, cached : Entry \cup {None}, value : Values \cup {None},
         inode : Inodes \cup {None}]

\* Types: the files are inodes of torn or whole records, and a researcher has the
\* documents and failures of the requests it has made.
TypeOK ==
    /\ index \in [Requests -> Inodes \cup {None}]
    /\ temp \in [Requests -> Inodes \cup {None}]
    /\ content \in [Inodes -> Entry \cup {Torn}]
    /\ work \in [Researchers -> Work]
    /\ now \in Time /\ kills \in Nat /\ begun \in Nat

\* CandidateResearchResult.state.
State(docs) ==
    IF \E k \in DOMAIN docs : docs[k].label = "miss" THEN "live"
    ELSE IF docs # <<>> THEN "cache" ELSE "unavailable"

\* What a document says of itself is so.
Told(d) ==
    LET age == d.began - d.value.at
    IN  /\ d.value.request = d.request
        /\ d.label = "miss" => age <= 0
        /\ d.label = "hit" => age <= TTL
        /\ d.label = "stale" => age <= MaxStale

\* A document is what the provider returned for that page or repository and no other; one
\* said to be live was retrieved while its request ran; one had from the cache had been
\* retrieved no longer than the ttl before, or, as a fallback, than max_stale; and what is
\* said of the whole acquisition is so of a document.  It holds through every overlap of
\* writers that share a temporary, late answers and kills.
SourcesAreTold ==
    \A r \in Researchers :
        LET docs == work[r].docs
        IN  /\ \A k \in DOMAIN docs : Told(docs[k])
            /\ State(docs) = "live" =>
                  \E k \in DOMAIN docs : docs[k].value.at >= docs[k].began
            /\ State(docs) = "unavailable" => docs = <<>>

\* A record that does not parse is one whose writer is about to complete it, unless a
\* writer was killed: no interleaving of writers alone leaves a request unanswerable.
TornHasWriter ==
    kills = 0 =>
        \A req \in Requests :
            (index[req] # None /\ content[index[req]] = Torn) =>
                \E r \in Researchers :
                    work[r].step = "write" /\ work[r].inode = index[req]

\* docs/techscout/running.md: verified mode "records live, cache, or unavailable per
\* candidate".  With one researcher and no kill, research ends with such a state.
ResearchRecordsAState ==
    \A r \in Researchers : work[r].step # "raised"
=============================================================================
