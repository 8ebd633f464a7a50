----------------------------- MODULE SurveyRun -----------------------------
(***************************************************************************)
(* One paper survey: run_pipeline (pipeline.py), the RunRecorder that keeps *)
(* its directory (observability/recorder.py), the trace it appends to and  *)
(* seals (run_trace.py, trace_store.py) and the validator that reads both  *)
(* afterwards (trace_validation.py).  Searches, models and checks answer   *)
(* anything; every call and every write may raise; the process may die     *)
(* between any two of them.                                                *)
(***************************************************************************)
EXTENDS Integers, FiniteSets, Sequences

CONSTANTS MaxPapers       \* requested_limit

ASSUME SurveyAssumption == MaxPapers \in Nat

VARIABLES
  traced,    \* settings.trace_enabled
  pc,        \* what the pipeline does next, or how it ended
  pending,   \* the trace events it writes before that
  run,       \* its local variables
  intent,    \* RunRecorder._terminal_intent
  manifest,  \* run_manifest.json
  trace,     \* traces.jsonl and the state of its writer
  files      \* the other files of the run's directory

vars == <<traced, pc, pending, run, intent, manifest, trace, files>>

None == "none"
Success == {"completed", "completed_with_degradation"}
Terminal == Success \cup {"failed"}

(* The stages that `timed` measures are named as the step that does them.  *)
Stages ==
  {"search", "acquisition", "chunking", "retrieval", "analysis", "synthesis"}
Untimed == {"write_papers", "write", "citation_check", "publishing",
            "publish_markdown"}
Ending == {"complete", "fail", "finish", "seal", "write_manifest",
           "write_failed"}
Over == {"returned", "raised", "escaped", "dead"}
Steps == {"create", "open_trace"} \cup Stages \cup Untimed \cup Ending \cup Over

EventNames == {"run.started", "retrieval", "fulltext", "rerank", "analysis",
               "citation_validation", "synthesis", "output", "degradation",
               "run.finished"}
SpanStatus == {"ok", "degraded", "error"}

(* A line of the trace: the span's start, an event, its end, the seal, or  *)
(* what a failing write left of a line.                                    *)
Line == [name : EventNames \cup {"start", "end", "seal", "torn"},
         status : SpanStatus]
Record(name, status) == [name |-> name, status |-> status]
Start == Record("start", "ok")
Sealed == Record("seal", "ok")
Torn == Record("torn", "ok")
Judged(bad) == IF bad THEN "degraded" ELSE "ok"

Run == [papers : 0..MaxPapers, done : 0..MaxPapers, analyses : 0..MaxPapers,
        degraded : BOOLEAN, timed : SUBSET Stages,
        stage : Stages \cup {"pipeline"}]
NewRun == [papers |-> 0, done |-> 0, analyses |-> 0, degraded |-> FALSE,
           timed |-> {}, stage |-> "pipeline"]
Artifacts == {"papers", "documents", "evidence", "analyses"}
Published == Artifacts \cup {"report.json", "report.md"}
-----------------------------------------------------------------------------
(* Control.                                                                *)

(* Where a raise outside the pipeline's try, or in its handler, ends.      *)
Escapes == pc' = "escaped" /\ pending' = <<>>

(* trace_event does nothing when tracing is off.                           *)
Tell(events, next) ==
  /\ pc' = next
  /\ pending' = IF traced THEN events ELSE <<>>

(* _emit_failure_trace_event; its mutant tells only the run's end.         *)
StageEvent ==
  [search |-> "retrieval", acquisition |-> "fulltext", chunking |-> "fulltext",
   retrieval |-> "retrieval", analysis |-> "analysis", synthesis |-> "synthesis"]
FailureEventsUnstaged(stage) == <<Record("run.finished", "error")>>
FailureEvents(stage) ==
  (IF stage \in Stages THEN <<Record(StageEvent[stage], "error")>> ELSE <<>>)
  \o <<Record("run.finished", "error")>>

(* The handlers of the try differ in the code they record only.            *)
Handle(stage) == Tell(FailureEvents(stage), "fail")

Measured(r, stage) == [r EXCEPT !.timed = @ \cup {stage}]
(* The paper loop; its mutant takes one paper too many.                    *)
NextPaperOneMore(r) == IF r.done <= r.papers THEN "acquisition" ELSE "write"
NextPaper(r) == IF r.done < r.papers THEN "acquisition" ELSE "write"
PaperDone(r) == [r EXCEPT !.done = @ + 1]
-----------------------------------------------------------------------------
(* RunRecorder.start, before the try.                                      *)

Create ==
  /\ pc = "create"
  /\ manifest' = [manifest EXCEPT !.status = "running"]
  /\ pc' = "open_trace"
  /\ UNCHANGED <<traced, pending, run, intent, trace, files>>

OpenTrace ==
  /\ pc = "open_trace"
  /\ trace' = IF traced THEN [lines |-> <<Start>>, writer |-> "open"] ELSE trace
  /\ Tell(<<Record("run.started", "ok")>>, "search")
  /\ UNCHANGED <<traced, run, intent, manifest, files>>

StartRaises ==
  /\ pc \in {"create", "open_trace"}
  /\ Escapes
  /\ UNCHANGED <<traced, run, intent, manifest, trace, files>>
-----------------------------------------------------------------------------
(* RunRecorder.trace_event.                                                *)

TraceEvent ==
  /\ pending # <<>> /\ trace.writer = "open" /\ manifest.status = "running"
  /\ trace' = [trace EXCEPT !.lines = Append(@, Head(pending))]
  /\ pending' = Tail(pending)
  /\ UNCHANGED <<traced, pc, run, intent, manifest, files>>

(* An OSError makes the writer unusable.  The models of the events refuse  *)
(* none of the pipeline's: their attributes are counts, flags, literals    *)
(* and an arXiv id, and their codes are constants.  run.started is told    *)
(* before the try, a failure's events inside its handler.                  *)
TraceEventRaises ==
  /\ pending # <<>> /\ trace.writer = "open" /\ manifest.status = "running"
  /\ \E written \in {<<>>, <<Torn>>} :
       trace' = [lines |-> trace.lines \o written, writer |-> "failed"]
  /\ IF Head(pending).name = "run.started" \/ pc = "fail"
       THEN Escapes
       ELSE Handle(run.stage)
  /\ UNCHANGED <<traced, run, intent, manifest, files>>

TraceEventRefused ==
  /\ pending # <<>>
  /\ trace.writer # "open" \/ manifest.status # "running"
  /\ Escapes
  /\ UNCHANGED <<traced, run, intent, manifest, trace, files>>
-----------------------------------------------------------------------------
(* The stages.                                                             *)

At(step) == pc = step /\ pending = <<>>
Recorder == <<traced, intent, manifest, trace>>

Search ==
  /\ At("search")
  /\ \E n \in 0..MaxPapers :
       run' = [Measured(run, "search") EXCEPT !.papers = n]
  /\ Tell(<<Record("retrieval", "ok")>>, "write_papers")
  /\ UNCHANGED <<Recorder, files>>

WritePapers ==
  /\ At("write_papers")
  /\ files' = files \cup {"papers"}
  /\ pc' = NextPaper(run)
  /\ UNCHANGED <<Recorder, pending, run>>

(* A document, the abstract instead of it, or neither.                     *)
Acquisition ==
  /\ At("acquisition")
  /\ \E outcome \in {"document", "fallback", "excluded"} :
       LET r == [Measured(run, "acquisition") EXCEPT
                   !.degraded = @ \/ outcome # "document"]
       IN  /\ run' = IF outcome = "excluded" THEN PaperDone(r) ELSE r
           /\ Tell(<<Record("fulltext", Judged(outcome # "document"))>>,
                   IF outcome = "excluded" THEN NextPaper(run') ELSE "chunking")
  /\ UNCHANGED <<Recorder, files>>

Chunking ==
  /\ At("chunking")
  /\ run' = Measured(run, "chunking")
  /\ Tell(<<Record("fulltext", "ok")>>, "retrieval")
  /\ UNCHANGED <<Recorder, files>>

(* Mutant: a degraded retrieval that is told but not counted.              *)
RetrievedUncounted(degraded) == Measured(run, "retrieval")
Retrieved(degraded) ==
  [Measured(run, "retrieval") EXCEPT !.degraded = @ \/ degraded]

Retrieval ==
  /\ At("retrieval")
  /\ \E degraded \in BOOLEAN :
       /\ run' = Retrieved(degraded)
       /\ Tell(<<Record("retrieval", Judged(degraded)),
                 Record("rerank", Judged(degraded))>>, "analysis")
  /\ UNCHANGED <<Recorder, files>>

Analysis ==
  /\ At("analysis")
  /\ \E sanitized, supported \in BOOLEAN :
       /\ run' = [PaperDone(Measured(run, "analysis")) EXCEPT
                    !.degraded = @ \/ sanitized \/ ~supported,
                    !.analyses = @ + IF supported THEN 1 ELSE 0]
       /\ Tell(<<Record("analysis", "ok"),
                 Record("citation_validation", Judged(sanitized))>>,
               NextPaper(run'))
  /\ UNCHANGED <<Recorder, files>>

(* A timeout, a rate limit, a server error or a bad response skips the     *)
(* paper; `timed` has already named the stage.                             *)
AnalysisSkipped ==
  /\ At("analysis")
  /\ run' = [PaperDone(Measured(run, "analysis")) EXCEPT
               !.degraded = TRUE, !.stage = "analysis"]
  /\ Tell(<<Record("analysis", "degraded")>>, NextPaper(run'))
  /\ UNCHANGED <<Recorder, files>>

(* documents.json, evidence.json, analyses.json, in this order.            *)
WriteModels ==
  /\ At("write")
  /\ \E f \in {"documents", "evidence", "analyses"} \ files :
       /\ f = "evidence" => "documents" \in files
       /\ f = "analyses" => "evidence" \in files
       /\ files' = files \cup {f}
  /\ UNCHANGED <<Recorder, pc, pending, run>>

Enough(r) == r.analyses >= IF r.papers >= 2 THEN 2 ELSE 1

CountAnalyses ==
  /\ At("write") /\ Artifacts \subseteq files
  /\ IF Enough(run) THEN Tell(<<>>, "synthesis") ELSE Handle(run.stage)
  /\ UNCHANGED <<Recorder, run, files>>

Synthesis ==
  /\ At("synthesis")
  /\ run' = Measured(run, "synthesis")
  /\ Tell(<<Record("synthesis", "ok")>>, "citation_check")
  /\ UNCHANGED <<Recorder, files>>

CitationCheck ==
  /\ At("citation_check")
  /\ \E sanitized \in BOOLEAN :
       /\ run' = [run EXCEPT !.degraded = @ \/ sanitized]
       /\ Tell(<<Record("citation_validation", Judged(sanitized))>>, "publishing")
  /\ UNCHANGED <<Recorder, files>>

(* publish_report: both temporaries are there before either is renamed.    *)
ReplaceJson ==
  /\ At("publishing")
  /\ files' = files \cup {"report.json"}
  /\ pc' = "publish_markdown"
  /\ UNCHANGED <<Recorder, pending, run>>

ReplaceMarkdown ==
  /\ At("publish_markdown")
  /\ files' = files \cup {"report.md"}
  /\ Tell(<<Record("output", "ok")>>
          \o (IF run.degraded THEN <<Record("degradation", "degraded")>> ELSE <<>>)
          \o <<Record("run.finished", Judged(run.degraded))>>, "complete")
  /\ UNCHANGED <<Recorder, run>>

(* The operation that is measured raises, and names the stage.             *)
StageRaises ==
  /\ pc \in Stages /\ pending = <<>>
  /\ run' = [Measured(run, pc) EXCEPT !.stage = pc]
  /\ Handle(pc)
  /\ UNCHANGED <<Recorder, files>>

(* A progress report, a write, a rename or the last check of the report    *)
(* raises: the stage is the last one that did, if any.                     *)
StepRaises ==
  /\ pc \in Stages \cup Untimed /\ pending = <<>>
  /\ Handle(run.stage)
  /\ UNCHANGED <<Recorder, run, files>>
-----------------------------------------------------------------------------
(* complete, fail and _transition_with_trace.                              *)

Complete ==
  /\ At("complete")
  /\ intent' = IF run.degraded THEN "completed_with_degradation" ELSE "completed"
  /\ pc' = IF traced THEN "finish" ELSE "write_manifest"
  /\ UNCHANGED <<traced, pending, run, manifest, trace, files>>

(* A run ends once: neither after a terminal manifest nor after an attempt *)
(* to write one.                                                           *)
MayFail == manifest.status = "running" /\ intent = None

Fail ==
  /\ At("fail") /\ MayFail
  /\ intent' = "failed"
  /\ pc' = IF traced THEN "finish" ELSE "write_manifest"
  /\ UNCHANGED <<traced, pending, run, manifest, trace, files>>

(* The run has an end already, or the log line cannot be written.          *)
FailRaises ==
  /\ At("fail")
  /\ Escapes
  /\ UNCHANGED <<Recorder, run, files>>

EndStatus == [completed |-> "ok", completed_with_degradation |-> "degraded",
              failed |-> "error"]
SpanEnd(status) == Record("end", EndStatus[status])

Finish ==
  /\ pc = "finish"
  /\ trace' = [lines |-> Append(trace.lines, SpanEnd(intent)), writer |-> "finished"]
  /\ pc' = "seal"
  /\ UNCHANGED <<traced, pending, run, intent, manifest, files>>

Seal ==
  /\ pc = "seal"
  /\ trace' = [trace EXCEPT !.lines = Append(@, Sealed)]
  /\ pc' = "write_manifest"
  /\ UNCHANGED <<traced, pending, run, intent, manifest, files>>

(* Writing the end, writing the seal or hashing what was sealed fails.     *)
PersistenceFails ==
  /\ pc \in {"finish", "seal"}
  /\ \E written \in {<<>>, <<Torn>>}
                   \cup (IF pc = "seal" THEN {<<Sealed>>} ELSE {}) :
       trace' = [lines |-> trace.lines \o written, writer |-> "failed"]
  /\ pc' = "write_failed"
  /\ UNCHANGED <<traced, pending, run, intent, manifest, files>>

(* The hash of a file is its contents.                                     *)
Hash(t) == t.lines
Ended(status, sha256) ==
  [status |-> status, papers |-> run.papers, analyses |-> run.analyses,
   timed |-> run.timed, degraded |-> run.degraded, sha256 |-> sha256]

TerminalManifest == Ended(intent, IF traced THEN Hash(trace) ELSE <<>>)

WriteManifest ==
  /\ pc = "write_manifest"
  /\ manifest' = TerminalManifest
  /\ pc' = IF intent = "failed" THEN "raised" ELSE "returned"
  /\ UNCHANGED <<traced, pending, run, intent, trace, files>>

(* complete raises inside the try, fail in the handler.                    *)
Reraise == IF intent = "failed" THEN Escapes ELSE Handle(run.stage)

WriteManifestRaises ==
  /\ pc = "write_manifest"
  /\ Reraise
  /\ UNCHANGED <<Recorder, run, files>>

(* Best effort: an OSError is ignored, and the failure of the trace raised *)
(* again.  The mutant keeps the status that was intended.                  *)
FailedManifestAsIntended == Ended(intent, <<>>)
FailedManifest == Ended("failed", <<>>)

WriteFailedManifest ==
  /\ pc = "write_failed"
  /\ manifest' \in {manifest, FailedManifest}
  /\ Reraise
  /\ UNCHANGED <<traced, run, intent, trace, files>>

(* The process is killed, or KeyboardInterrupt passes every handler.       *)
Dies ==
  /\ pc \notin Over
  /\ pc' = "dead" /\ pending' = <<>>
  /\ UNCHANGED <<Recorder, run, files>>

RunIsOver == pc \in Over /\ UNCHANGED vars
-----------------------------------------------------------------------------
Init ==
  /\ traced \in BOOLEAN
  /\ pc = "create" /\ pending = <<>>
  /\ run = NewRun
  /\ intent = None
  /\ manifest = [status |-> None, papers |-> 0, analyses |-> 0, timed |-> {},
                 degraded |-> FALSE, sha256 |-> <<>>]
  /\ trace = [lines |-> <<>>, writer |-> None]
  /\ files = {}

Stage == Search \/ Acquisition \/ Chunking \/ Retrieval \/ Analysis
         \/ AnalysisSkipped \/ CountAnalyses \/ Synthesis \/ CitationCheck
Publish == WritePapers \/ WriteModels \/ ReplaceJson \/ ReplaceMarkdown
Tracing == TraceEvent \/ TraceEventRaises \/ TraceEventRefused
Transition == Complete \/ Fail \/ FailRaises \/ Finish \/ Seal \/ PersistenceFails
              \/ WriteManifest \/ WriteManifestRaises \/ WriteFailedManifest

Next == Create \/ OpenTrace \/ StartRaises \/ Tracing \/ Stage \/ Publish
        \/ StageRaises \/ StepRaises \/ Transition \/ Dies \/ RunIsOver

Spec == Init /\ [][Next]_vars
-----------------------------------------------------------------------------
(* validate_pipeline_trace: what it finds wrong with a directory whose     *)
(* manifest is terminal.  A tampered file is out of scope.                 *)
Names == {trace.lines[i].name : i \in DOMAIN trace.lines}
Lines(name) == {i \in DOMAIN trace.lines : trace.lines[i].name = name}
IsSealed ==
  /\ trace.lines # <<>>
  /\ trace.lines[Len(trace.lines)] = Sealed

RequiredEvents ==
  {"run.started", "run.finished"}
  \cup {StageEvent[s] : s \in manifest.timed}
  \cup (IF manifest.status \in Success
          THEN EventNames \ {"degradation"}
          ELSE IF manifest.analyses > 0 THEN {"citation_validation"} ELSE {})
  \cup (IF manifest.status = "completed_with_degradation"
          THEN {"degradation"} ELSE {})

Found ==
  [trace_integrity_invalid |->
     \/ Lines("torn") # {}
     \/ Lines("seal") \notin {{}, {Len(trace.lines)}},
   span_start_count_invalid |-> Cardinality(Lines("start")) # 1,
   span_end_count_invalid |-> Cardinality(Lines("end")) # 1,
   trace_not_sealed |-> ~IsSealed,
   full_file_hash_mismatch |-> manifest.sha256 # Hash(trace),
   terminal_status_mismatch |->
     \E i \in Lines("end") : trace.lines[i] # SpanEnd(manifest.status),
   required_event_missing |-> ~(RequiredEvents \subseteq Names)]
Findings == IF traced THEN {code \in DOMAIN Found : Found[code]} ELSE {}
-----------------------------------------------------------------------------
(* Properties.                                                             *)

ManifestType ==
  [status : Terminal \cup {None, "running"}, papers : 0..MaxPapers,
   analyses : 0..MaxPapers, timed : SUBSET Stages, degraded : BOOLEAN,
   sha256 : Seq(Line)]

(* Every variable has its type.                                            *)
TypeOK ==
  /\ traced \in BOOLEAN
  /\ pc \in Steps
  /\ pending \in Seq(Line)
  /\ run \in Run
  /\ intent \in Terminal \cup {None}
  /\ manifest \in ManifestType
  /\ trace \in [lines : Seq(Line), writer : {None, "open", "failed", "finished"}]
  /\ files \subseteq Published

(* The trace is sealed and hashed before the manifest that names the hash  *)
(* is there, also when the process dies on the way: a terminal manifest    *)
(* has the hash of the whole sealed file, unless tracing was off or the    *)
(* trace could not be persisted, and then the run is not a success         *)
(* (recorder.py, _transition_with_trace).                                  *)
TerminalIsSealed ==
  manifest.status \in Terminal /\ traced =>
    \/ IsSealed /\ manifest.sha256 = Hash(trace)
    \/ manifest.status = "failed" /\ manifest.sha256 = <<>>

(* The validator finds nothing wrong with the directory of a run whose     *)
(* terminal manifest has a hash: the recorder and the pipeline write every *)
(* event that trace_validation.py requires, on every path, the failing     *)
(* ones included.                                                          *)
TraceValidates ==
  /\ manifest.status \in Terminal
  /\ manifest.sha256 # <<>>
  => Findings = {}

(* A published end is final: nothing in the directory changes after it.    *)
EndIsFinal ==
  [][manifest.status \in Terminal => UNCHANGED <<manifest, trace, files>>]_vars

(* A successful manifest stands beside both reports and all the artifacts  *)
(* they cite, and enough papers were analysed.                             *)
SuccessIsComplete ==
  manifest.status \in Success =>
    /\ files = Published
    /\ manifest.analyses >= 1
    /\ manifest.papers >= 2 => manifest.analyses >= 2

(* A run that calls itself completed has no degraded step in its trace.    *)
DegradationIsTold ==
  manifest.status = "completed" =>
    \A i \in DOMAIN trace.lines : trace.lines[i].status = "ok"

(* What the caller is told is what the manifest says: a result with a      *)
(* successful manifest, PipelineRunFailed with a failed one, and any other *)
(* exception never with a successful one (web/execution.py and the CLI     *)
(* take the exception for the run's failure).                              *)
CallerAgrees ==
  /\ pc = "returned" => manifest.status \in Success
  /\ pc = "raised" => manifest.status = "failed"
  /\ manifest.status \in Success => pc = "returned"

(* To its caller and its readers the run behaves as RunDirectory says.     *)
Directory == INSTANCE RunDirectory WITH
  status <- manifest.status,
  reported <- {"report.json", "report.md"} \subseteq files,
  call <- IF pc \in {"returned", "raised"} THEN pc
          ELSE IF pc \in {"escaped", "dead"} THEN "stopped" ELSE "working"
ImplementsDirectory == Directory!Spec

(* A failed run must not contain a newly published report.md (production   *)
(* full-text survey design, line 740).                                     *)
FailedHasNoReport == manifest.status = "failed" => "report.md" \notin files

(* When the trace of a run that has searched cannot be persisted, the      *)
(* pipeline attempts to finalize the manifest (agent trace observability   *)
(* design, lines 339-343).                                                 *)
PersistenceFailureIsRecorded ==
  trace.writer = "failed" /\ pc = "escaped" /\ "papers" \in files
    => intent # None
=============================================================================
