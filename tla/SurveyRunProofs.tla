-------------------------- MODULE SurveyRunProofs --------------------------
(***************************************************************************)
(* Theorems about SurveyRun, for every number of papers: the types, what   *)
(* the end of a run rests on, that a run implements RunDirectory, and that *)
(* the trace tells what the manifest says.                                 *)
(***************************************************************************)
EXTENDS SurveyRun, SequenceTheorems, FiniteSetTheorems, TLAPS

LEMMA RecordType ==
  /\ \A name \in EventNames \cup {"start", "end", "seal", "torn"},
        status \in SpanStatus : Record(name, status) \in Line
  /\ Start \in Line /\ Sealed \in Line /\ Torn \in Line
  BY DEF Record, Line, SpanStatus, Start, Sealed, Torn

LEMMA SpanEndType == \A status \in Terminal : SpanEnd(status) \in Line
<1>1. \A status \in Terminal : EndStatus[status] \in SpanStatus
  BY DEF Terminal, Success, EndStatus, SpanStatus
<1> QED BY <1>1, RecordType DEF SpanEnd

LEMMA FailureEventsType == \A stage : FailureEvents(stage) \in Seq(Line)
<1> TAKE stage
<1>1. \A s \in Stages : StageEvent[s] \in EventNames
  BY DEF Stages, StageEvent, EventNames
<1>2. <<Record("run.finished", "error")>> \in Seq(Line)
  BY RecordType DEF EventNames, SpanStatus
<1>3. CASE stage \in Stages
  <2>1. <<Record(StageEvent[stage], "error")>> \in Seq(Line)
    BY <1>1, <1>3, RecordType DEF SpanStatus
  <2> QED BY <2>1, <1>2, <1>3, ConcatProperties DEF FailureEvents
<1>4. CASE stage \notin Stages
  <2>1. <<>> \in Seq(Line)
    OBVIOUS
  <2> QED BY <2>1, <1>2, <1>4, ConcatProperties DEF FailureEvents
<1> QED BY <1>3, <1>4
-----------------------------------------------------------------------------
(* Types.  A paper is counted once, and its analysis at most once.         *)

Counted ==
  /\ run.analyses <= run.done /\ run.done <= run.papers
  /\ pc \in {"create", "open_trace", "search"} => run.done = 0
  /\ pc \in {"acquisition", "chunking", "retrieval", "analysis"}
       => run.done < run.papers

LEMMA TellType ==
  ASSUME NEW events \in Seq(Line), NEW next, Tell(events, next)
  PROVE  pc' = next /\ pending' \in Seq(Line)
<1>1. <<>> \in Seq(Line)
  OBVIOUS
<1> QED BY <1>1 DEF Tell

LEMMA HandleType ==
  ASSUME NEW stage, Handle(stage)
  PROVE  pc' = "fail" /\ pending' \in Seq(Line)
<1>1. FailureEvents(stage) \in Seq(Line)
  BY FailureEventsType
<1> HIDE DEF FailureEvents
<1> QED BY <1>1, TellType DEF Handle

(* What the run's operators return, and the counts they keep.              *)
LEMMA MeasuredType ==
  ASSUME NEW r \in Run, NEW s \in Stages
  PROVE  /\ Measured(r, s) \in Run
         /\ Measured(r, s).papers = r.papers /\ Measured(r, s).done = r.done
         /\ Measured(r, s).analyses = r.analyses
         /\ Measured(r, s).degraded = r.degraded
  BY DEF Run, Measured

LEMMA PaperDoneType ==
  ASSUME NEW r \in Run, r.done < r.papers
  PROVE  /\ PaperDone(r) \in Run
         /\ PaperDone(r).papers = r.papers /\ PaperDone(r).done = r.done + 1
         /\ PaperDone(r).analyses = r.analyses
         /\ PaperDone(r).degraded = r.degraded
  BY SurveyAssumption DEF Run, PaperDone

LEMMA NextPaperType ==
  ASSUME NEW r
  PROVE  /\ NextPaper(r) \in {"acquisition", "write"}
         /\ NextPaper(r) = "acquisition" => r.done < r.papers
  BY DEF NextPaper

LEMMA EventType ==
  ASSUME NEW name \in EventNames
  PROVE  /\ Record(name, "ok") \in Line
         /\ Record(name, "degraded") \in Line
         /\ Record(name, "error") \in Line
         /\ \A bad : Record(name, Judged(bad)) \in Line
<1>1. \A status \in SpanStatus : Record(name, status) \in Line
  BY RecordType
<1>2. \A bad : Judged(bad) \in SpanStatus
  BY DEF Judged, SpanStatus
<1> QED BY <1>1, <1>2 DEF SpanStatus

LEMMA InitTyped == Init => TypeOK /\ Counted
<1> SUFFICES ASSUME Init PROVE TypeOK /\ Counted
  OBVIOUS
<1>1. NewRun \in Run
  BY SurveyAssumption DEF NewRun, Run
<1>2. manifest \in ManifestType
  BY SurveyAssumption DEF Init, ManifestType
<1>3. pc \in Steps
  BY DEF Init, Steps
<1>4. trace \in [lines : Seq(Line), writer : {None, "open", "failed", "finished"}]
  BY DEF Init
<1>5. Counted
  BY DEF Init, Counted, NewRun
<1> QED BY <1>1, <1>2, <1>3, <1>4, <1>5 DEF Init, TypeOK

(* The actions that leave the recorder alone need their program counter,   *)
(* events, run and files typed only.                                       *)
LEMMA StageTyped ==
  ASSUME TypeOK, Counted, UNCHANGED Recorder,
         pc' \in Steps, pending' \in Seq(Line), run' \in Run,
         files' \subseteq Published, Counted'
  PROVE  TypeOK' /\ Counted'
  BY DEF TypeOK, Recorder

LEMMA SearchTyped ==
  ASSUME TypeOK, Counted, Search
  PROVE  TypeOK' /\ Counted'
<1>1. PICK n \in 0..MaxPapers :
        run' = [Measured(run, "search") EXCEPT !.papers = n]
  BY DEF Search
<1> DEFINE m == Measured(run, "search")
<1>m. m \in Run /\ m.done = 0 /\ m.analyses = 0
  BY MeasuredType, SurveyAssumption DEF Search, At, TypeOK, Counted, Run, Stages
<1> HIDE DEF m
<1>2. run' \in Run /\ run'.done = 0 /\ run'.analyses = 0 /\ run'.papers = n
  <2>1. run' = [m EXCEPT !.papers = n]
    BY <1>1 DEF m
  <2> QED BY <2>1, <1>m DEF Run
<1>3. pc' = "write_papers" /\ pending' \in Seq(Line)
  <2>1. <<Record("retrieval", "ok")>> \in Seq(Line)
    BY EventType DEF EventNames
  <2> QED BY <2>1, TellType DEF Search
<1>4. Counted'
  BY <1>2, <1>3 DEF Counted
<1> QED BY <1>2, <1>3, <1>4, StageTyped DEF Search, Steps, Untimed, TypeOK, Recorder

LEMMA AcquisitionTyped ==
  ASSUME TypeOK, Counted, Acquisition
  PROVE  TypeOK' /\ Counted'
<1>1. PICK outcome \in {"document", "fallback", "excluded"} :
        LET r == [Measured(run, "acquisition") EXCEPT
                    !.degraded = @ \/ outcome # "document"]
        IN  /\ run' = IF outcome = "excluded" THEN PaperDone(r) ELSE r
            /\ Tell(<<Record("fulltext", Judged(outcome # "document"))>>,
                    IF outcome = "excluded" THEN NextPaper(run') ELSE "chunking")
  BY DEF Acquisition
<1> DEFINE r == [Measured(run, "acquisition") EXCEPT
                   !.degraded = @ \/ outcome # "document"]
           next == IF outcome = "excluded" THEN NextPaper(run') ELSE "chunking"
<1>2. /\ r \in Run /\ r.done = run.done /\ r.analyses = run.analyses
      /\ r.papers = run.papers /\ r.done < r.papers
  <2> DEFINE m == Measured(run, "acquisition")
  <2>1. /\ m \in Run /\ m.done = run.done /\ m.analyses = run.analyses
        /\ m.papers = run.papers /\ run.done < run.papers
    BY MeasuredType DEF Acquisition, At, TypeOK, Counted, Stages
  <2>2. r = [m EXCEPT !.degraded = @ \/ outcome # "document"]
    OBVIOUS
  <2> HIDE DEF m, r
  <2> QED BY <2>1, <2>2 DEF Run
<1>3. /\ PaperDone(r) \in Run /\ PaperDone(r).done = r.done + 1
      /\ PaperDone(r).analyses = r.analyses /\ PaperDone(r).papers = r.papers
  <2> HIDE DEF r
  <2> QED BY <1>2, PaperDoneType
<1>4. run' = (IF outcome = "excluded" THEN PaperDone(r) ELSE r) /\ run' \in Run
  BY <1>1, <1>2, <1>3
<1>5. pc' = next /\ pending' \in Seq(Line)
  <2>1. <<Record("fulltext", Judged(outcome # "document"))>> \in Seq(Line)
    BY EventType DEF EventNames
  <2>2. Tell(<<Record("fulltext", Judged(outcome # "document"))>>, next)
    BY <1>1
  <2> QED BY <2>1, <2>2, TellType
<1> HIDE DEF r
<1>6. pc' \in Steps /\ Counted'
  BY <1>2, <1>3, <1>4, <1>5
     DEF NextPaper, Counted, Run, Steps, Stages, Untimed, TypeOK
<1> QED BY <1>4, <1>5, <1>6, StageTyped DEF Acquisition, TypeOK

LEMMA ChunkingTyped ==
  ASSUME TypeOK, Counted, Chunking
  PROVE  TypeOK' /\ Counted'
<1>1. /\ run' \in Run /\ run'.done = run.done /\ run'.analyses = run.analyses
      /\ run'.papers = run.papers
  BY MeasuredType DEF Chunking, TypeOK, Stages
<1>2. pc' = "retrieval" /\ pending' \in Seq(Line)
  <2>1. <<Record("fulltext", "ok")>> \in Seq(Line)
    BY EventType DEF EventNames
  <2> QED BY <2>1, TellType DEF Chunking
<1>3. Counted'
  BY <1>1, <1>2 DEF Counted, Chunking, At
<1> QED BY <1>1, <1>2, <1>3, StageTyped DEF Chunking, Steps, Stages, TypeOK

LEMMA RetrievalTyped ==
  ASSUME TypeOK, Counted, Retrieval
  PROVE  TypeOK' /\ Counted'
<1>1. PICK degraded \in BOOLEAN :
        /\ run' = Retrieved(degraded)
        /\ Tell(<<Record("retrieval", Judged(degraded)),
                  Record("rerank", Judged(degraded))>>, "analysis")
  BY DEF Retrieval
<1> DEFINE m == Measured(run, "retrieval")
<1>2. /\ m \in Run /\ m.done = run.done /\ m.analyses = run.analyses
      /\ m.papers = run.papers
  BY MeasuredType DEF TypeOK, Stages
<1>3. run' = [m EXCEPT !.degraded = @ \/ degraded]
  BY <1>1 DEF Retrieved
<1> HIDE DEF m
<1>4. /\ run' \in Run /\ run'.done = run.done /\ run'.analyses = run.analyses
      /\ run'.papers = run.papers
  BY <1>2, <1>3 DEF Run
<1>5. pc' = "analysis" /\ pending' \in Seq(Line)
  <2>1. <<Record("retrieval", Judged(degraded)),
          Record("rerank", Judged(degraded))>> \in Seq(Line)
    BY EventType DEF EventNames
  <2> QED BY <2>1, <1>1, TellType
<1>6. Counted'
  BY <1>4, <1>5 DEF Counted, Retrieval, At
<1> QED BY <1>4, <1>5, <1>6, StageTyped DEF Retrieval, Steps, Stages, TypeOK

LEMMA AnalysisTyped ==
  ASSUME TypeOK, Counted, Analysis
  PROVE  TypeOK' /\ Counted'
<1>1. PICK sanitized \in BOOLEAN, supported \in BOOLEAN :
        /\ run' = [PaperDone(Measured(run, "analysis")) EXCEPT
                     !.degraded = @ \/ sanitized \/ ~supported,
                     !.analyses = @ + IF supported THEN 1 ELSE 0]
        /\ Tell(<<Record("analysis", "ok"),
                  Record("citation_validation", Judged(sanitized))>>,
                NextPaper(run'))
  BY DEF Analysis
<1> DEFINE m == PaperDone(Measured(run, "analysis"))
<1>2. /\ m \in Run /\ m.done = run.done + 1 /\ m.analyses = run.analyses
      /\ m.papers = run.papers /\ run.done < run.papers
  BY MeasuredType, PaperDoneType DEF TypeOK, Stages, Analysis, At, Counted
<1>3. run' = [m EXCEPT !.degraded = @ \/ sanitized \/ ~supported,
                       !.analyses = @ + IF supported THEN 1 ELSE 0]
  BY <1>1
<1> HIDE DEF m
<1>4. /\ run' \in Run /\ run'.done = run.done + 1
      /\ run'.analyses <= run.analyses + 1 /\ run'.papers = run.papers
  <2>1. run.analyses <= run.done /\ run.papers <= MaxPapers
    BY SurveyAssumption DEF Counted, TypeOK, Run
  <2>2. /\ m.analyses + (IF supported THEN 1 ELSE 0) \in 0..MaxPapers
        /\ m.analyses + (IF supported THEN 1 ELSE 0) <= run.analyses + 1
    BY <1>2, <2>1, SurveyAssumption DEF Run, TypeOK
  <2> QED BY <1>2, <1>3, <2>2 DEF Run
<1>5. pc' = NextPaper(run') /\ pending' \in Seq(Line)
  <2>1. <<Record("analysis", "ok"),
          Record("citation_validation", Judged(sanitized))>> \in Seq(Line)
    BY EventType DEF EventNames
  <2> QED BY <2>1, <1>1, TellType
<1>6. pc' \in {"acquisition", "write"}
      /\ (pc' = "acquisition" => run'.done < run'.papers)
  BY <1>5, NextPaperType
<1>7. Counted'
  BY <1>2, <1>4, <1>6, SurveyAssumption DEF Counted, Run, TypeOK
<1> QED BY <1>4, <1>5, <1>6, <1>7, StageTyped
        DEF Analysis, Steps, Stages, Untimed, TypeOK

LEMMA AnalysisSkippedTyped ==
  ASSUME TypeOK, Counted, AnalysisSkipped
  PROVE  TypeOK' /\ Counted'
<1> DEFINE m == PaperDone(Measured(run, "analysis"))
<1>1. /\ m \in Run /\ m.done = run.done + 1 /\ m.analyses = run.analyses
      /\ m.papers = run.papers /\ run.done < run.papers
  BY MeasuredType, PaperDoneType DEF TypeOK, Stages, AnalysisSkipped, At, Counted
<1>2. run' = [m EXCEPT !.degraded = TRUE, !.stage = "analysis"]
  BY DEF AnalysisSkipped
<1> HIDE DEF m
<1>3. /\ run' \in Run /\ run'.done = run.done + 1
      /\ run'.analyses = run.analyses /\ run'.papers = run.papers
  BY <1>1, <1>2 DEF Run, Stages
<1>4. pc' = NextPaper(run') /\ pending' \in Seq(Line)
  <2>1. <<Record("analysis", "degraded")>> \in Seq(Line)
    BY EventType DEF EventNames
  <2> QED BY <2>1, TellType DEF AnalysisSkipped
<1>5. pc' \in {"acquisition", "write"}
      /\ (pc' = "acquisition" => run'.done < run'.papers)
  BY <1>4, NextPaperType
<1>6. Counted'
  BY <1>1, <1>3, <1>5, SurveyAssumption DEF Counted, Run, TypeOK
<1> QED BY <1>3, <1>4, <1>5, <1>6, StageTyped
        DEF AnalysisSkipped, Steps, Stages, Untimed, TypeOK

LEMMA LateStagesTyped ==
  ASSUME TypeOK, Counted,
         Synthesis \/ CitationCheck \/ CountAnalyses
  PROVE  TypeOK' /\ Counted'
<1>1. CASE Synthesis
  <2>1. /\ run' \in Run /\ run'.done = run.done /\ run'.analyses = run.analyses
        /\ run'.papers = run.papers
    BY <1>1, MeasuredType DEF Synthesis, TypeOK, Stages
  <2>2. pc' = "citation_check" /\ pending' \in Seq(Line)
    <3>1. <<Record("synthesis", "ok")>> \in Seq(Line)
      BY EventType DEF EventNames
    <3> QED BY <1>1, <3>1, TellType DEF Synthesis
  <2> QED BY <1>1, <2>1, <2>2, StageTyped
          DEF Synthesis, Steps, Untimed, TypeOK, Counted
<1>2. CASE CitationCheck
  <2>1. PICK sanitized \in BOOLEAN :
          /\ run' = [run EXCEPT !.degraded = @ \/ sanitized]
          /\ Tell(<<Record("citation_validation", Judged(sanitized))>>, "publishing")
    BY <1>2 DEF CitationCheck
  <2>2. /\ run' \in Run /\ run'.done = run.done /\ run'.analyses = run.analyses
        /\ run'.papers = run.papers
    BY <2>1 DEF TypeOK, Run
  <2>3. pc' = "publishing" /\ pending' \in Seq(Line)
    <3>1. <<Record("citation_validation", Judged(sanitized))>> \in Seq(Line)
      BY EventType DEF EventNames
    <3> QED BY <2>1, <3>1, TellType
  <2> QED BY <1>2, <2>2, <2>3, StageTyped
          DEF CitationCheck, Steps, Untimed, TypeOK, Counted
<1>3. CASE CountAnalyses
  <2>1. pc' \in {"synthesis", "fail"} /\ pending' \in Seq(Line)
    <3>1. <<>> \in Seq(Line)
      OBVIOUS
    <3> QED BY <1>3, <3>1, TellType, HandleType DEF CountAnalyses
  <2> QED BY <1>3, <2>1, StageTyped
          DEF CountAnalyses, Steps, Stages, Ending, TypeOK, Counted
<1> QED BY <1>1, <1>2, <1>3

LEMMA PublishTyped ==
  ASSUME TypeOK, Counted, Publish
  PROVE  TypeOK' /\ Counted'
<1>1. CASE WritePapers
  <2>1. pc' \in {"acquisition", "write"}
        /\ (pc' = "acquisition" => run.done < run.papers)
    BY <1>1, NextPaperType DEF WritePapers
  <2> QED BY <1>1, <2>1, StageTyped
          DEF WritePapers, Steps, Stages, Untimed, TypeOK, Counted, Published, Artifacts
<1>2. CASE WriteModels
  BY <1>2 DEF WriteModels, Recorder, TypeOK, Counted, Published, Artifacts
<1>3. CASE ReplaceJson
  BY <1>3 DEF ReplaceJson, Recorder, TypeOK, Counted, Published, Steps, Untimed
<1>4. CASE ReplaceMarkdown
  <2>1. /\ <<Record("output", "ok")>> \in Seq(Line)
        /\ <<Record("degradation", "degraded")>> \in Seq(Line)
        /\ <<Record("run.finished", Judged(run.degraded))>> \in Seq(Line)
        /\ <<>> \in Seq(Line)
    BY EventType DEF EventNames
  <2>2. \A d \in {<<Record("degradation", "degraded")>>, <<>>} :
          <<Record("output", "ok")>> \o d
            \o <<Record("run.finished", Judged(run.degraded))>> \in Seq(Line)
    BY <2>1, ConcatProperties
  <2>3. pc' = "complete" /\ pending' \in Seq(Line)
    BY <1>4, <2>2, TellType DEF ReplaceMarkdown
  <2> QED BY <1>4, <2>3, StageTyped
          DEF ReplaceMarkdown, Steps, Ending, TypeOK, Counted, Published
<1> QED BY <1>1, <1>2, <1>3, <1>4 DEF Publish

LEMMA RaisesTyped ==
  ASSUME TypeOK, Counted, StageRaises \/ StepRaises
  PROVE  TypeOK' /\ Counted'
<1>1. CASE StageRaises
  <2> DEFINE m == Measured(run, pc)
  <2>1. /\ m \in Run /\ m.done = run.done /\ m.analyses = run.analyses
        /\ m.papers = run.papers /\ pc \in Stages
    BY <1>1, MeasuredType DEF StageRaises, TypeOK
  <2>2. run' = [m EXCEPT !.stage = pc]
    BY <1>1 DEF StageRaises
  <2> HIDE DEF m
  <2>3. /\ run' \in Run /\ run'.done = run.done /\ run'.analyses = run.analyses
        /\ run'.papers = run.papers
    BY <2>1, <2>2 DEF Run
  <2>4. pc' = "fail" /\ pending' \in Seq(Line)
    BY <1>1, HandleType DEF StageRaises
  <2> QED BY <1>1, <2>3, <2>4, StageTyped
          DEF StageRaises, Steps, Ending, TypeOK, Counted
<1>2. CASE StepRaises
  <2>1. pc' = "fail" /\ pending' \in Seq(Line)
    BY <1>2, HandleType DEF StepRaises
  <2> QED BY <1>2, <2>1, StageTyped DEF StepRaises, Steps, Ending, TypeOK, Counted
<1> QED BY <1>1, <1>2

LEMMA TracingTyped ==
  ASSUME TypeOK, Counted, Tracing
  PROVE  TypeOK' /\ Counted'
<1>0. <<>> \in Seq(Line) /\ <<Torn>> \in Seq(Line)
  BY RecordType
<1>1. CASE TraceEvent
  <2>1. Head(pending) \in Line /\ Tail(pending) \in Seq(Line)
    BY <1>1, HeadTailProperties DEF TraceEvent, TypeOK
  <2>2. Append(trace.lines, Head(pending)) \in Seq(Line)
    BY <2>1, AppendProperties DEF TypeOK
  <2>3. trace' \in [lines : Seq(Line), writer : {None, "open", "failed", "finished"}]
    BY <1>1, <2>2 DEF TraceEvent, TypeOK
  <2> QED BY <1>1, <2>1, <2>3 DEF TraceEvent, TypeOK, Counted
<1>2. CASE TraceEventRaises
  <2>1. \A w \in {<<>>, <<Torn>>} : trace.lines \o w \in Seq(Line)
    BY <1>0, ConcatProperties DEF TypeOK
  <2>2. trace' \in [lines : Seq(Line), writer : {None, "open", "failed", "finished"}]
    <3>1. PICK w \in {<<>>, <<Torn>>} :
            trace' = [lines |-> trace.lines \o w, writer |-> "failed"]
      BY <1>2 DEF TraceEventRaises
    <3> QED BY <2>1, <3>1
  <2>3. pc' \in {"escaped", "fail"} /\ pending' \in Seq(Line)
    BY <1>0, <1>2, HandleType DEF TraceEventRaises, Escapes
  <2> QED BY <1>2, <2>2, <2>3
          DEF TraceEventRaises, TypeOK, Counted, Steps, Ending, Over
<1>3. CASE TraceEventRefused
  BY <1>0, <1>3 DEF TraceEventRefused, Escapes, TypeOK, Counted, Steps, Over
<1> QED BY <1>1, <1>2, <1>3 DEF Tracing

LEMMA StartTyped ==
  ASSUME TypeOK, Counted, Create \/ OpenTrace \/ StartRaises
  PROVE  TypeOK' /\ Counted'
<1>0. <<>> \in Seq(Line) /\ <<Start>> \in Seq(Line)
      /\ <<Record("run.started", "ok")>> \in Seq(Line)
  BY RecordType, EventType DEF EventNames
<1>1. CASE Create
  <2>1. manifest' \in ManifestType
    BY <1>1 DEF Create, TypeOK, ManifestType
  <2> QED BY <1>1, <2>1 DEF Create, TypeOK, Counted, Steps
<1>2. CASE OpenTrace
  <2>1. pc' = "search" /\ pending' \in Seq(Line)
    BY <1>0, <1>2, TellType DEF OpenTrace
  <2>2. trace' \in [lines : Seq(Line), writer : {None, "open", "failed", "finished"}]
    BY <1>0, <1>2 DEF OpenTrace, TypeOK
  <2> QED BY <1>2, <2>1, <2>2 DEF OpenTrace, TypeOK, Counted, Steps, Stages
<1>3. CASE StartRaises
  BY <1>0, <1>3 DEF StartRaises, Escapes, TypeOK, Counted, Steps, Over
<1> QED BY <1>1, <1>2, <1>3
-----------------------------------------------------------------------------
(* Where a run is tells what its manifest says and what it means to write: *)
(* the manifest is running until the one step that ends it, and a step     *)
(* that ends it has said so before.                                        *)

Placed ==
  /\ pc = "create" => manifest.status = None /\ intent = None
  /\ pc \in {"open_trace", "complete"} \cup Stages \cup Untimed
       => manifest.status = "running" /\ intent = None
  /\ pc \in {"finish", "seal", "write_manifest", "write_failed"}
       => manifest.status = "running" /\ intent \in Terminal
  /\ pc = "fail" =>
       \/ manifest.status = "running"
       \/ manifest.status = "failed" /\ intent # None
  /\ pc = "returned" => manifest.status \in Success
  /\ pc = "raised" => manifest.status = "failed"
  /\ manifest.status \in Success => pc = "returned"
  /\ pending # <<>> => pc \in {"complete", "fail"} \cup Stages \cup Untimed

LEMMA StageSteps ==
  ASSUME Stage \/ Publish \/ StageRaises \/ StepRaises
  PROVE  /\ UNCHANGED <<traced, intent, manifest, trace>>
         /\ pc \in Stages \cup Untimed
         /\ pc' \in Stages \cup Untimed \cup {"complete", "fail"}
         /\ pc' = "complete" => pc = "publish_markdown"
<1>1. CASE Stage
  <2>1. \A r : NextPaper(r) \in {"acquisition", "write"}
    BY DEF NextPaper
  <2> QED BY <1>1, <2>1 DEF Stage, Search, Acquisition, Chunking, Retrieval, Analysis,
          AnalysisSkipped, CountAnalyses, Synthesis, CitationCheck, At, Tell, Handle,
          Recorder, Stages, Untimed
<1>2. CASE Publish
  BY <1>2 DEF Publish, WritePapers, WriteModels, ReplaceJson, ReplaceMarkdown, At,
     Tell, NextPaper, Recorder, Stages, Untimed
<1>3. CASE StageRaises \/ StepRaises
  BY <1>3 DEF StageRaises, StepRaises, Handle, Tell, Recorder
<1> QED BY <1>1, <1>2, <1>3

LEMMA PlacedInit == Init => Placed
  BY DEF Init, Placed, None, Stages, Untimed, Success

LEMMA PlacedNext ==
  ASSUME TypeOK, Placed, [Next]_vars
  PROVE  Placed'
<1>1. CASE Stage \/ Publish \/ StageRaises \/ StepRaises
  BY <1>1, StageSteps DEF Placed, Stages, Untimed, Success
<1>2. CASE Create \/ OpenTrace \/ StartRaises
  <2>1. CASE Create
    <3>1. manifest'.status = "running"
      BY <2>1 DEF Create, TypeOK, ManifestType
    <3> QED BY <2>1, <3>1 DEF Create, Placed, Stages, Untimed, Success
  <2>2. CASE OpenTrace
    BY <2>2 DEF OpenTrace, Tell, Placed, Stages, Untimed, Success
  <2>3. CASE StartRaises
    BY <2>3 DEF StartRaises, Escapes, Placed, Stages, Untimed, Success, None
  <2> QED BY <1>2, <2>1, <2>2, <2>3
<1>3. CASE Tracing
  <2>1. CASE TraceEvent
    BY <2>1 DEF TraceEvent, Placed
  <2>2. CASE TraceEventRaises
    <3>1. /\ manifest.status = "running"
          /\ \/ pc' = "escaped" /\ pending' = <<>>
             \/ pc' = "fail"
      BY <2>2 DEF TraceEventRaises, Escapes, Handle, Tell
    <3> QED BY <2>2, <3>1 DEF TraceEventRaises, Placed, Stages, Untimed, Success
  <2>3. CASE TraceEventRefused
    <3>1. pc' = "escaped" /\ pending' = <<>>
      BY <2>3 DEF TraceEventRefused, Escapes
    <3>2. manifest.status \notin Success
      BY <2>3 DEF TraceEventRefused, Placed, Stages, Untimed
    <3> QED BY <2>3, <3>1, <3>2 DEF TraceEventRefused, Placed, Stages, Untimed
  <2> QED BY <1>3, <2>1, <2>2, <2>3 DEF Tracing
<1>4. CASE Transition
  <2>1. CASE Complete \/ Fail
    BY <2>1 DEF Complete, Fail, MayFail, At, Placed, Stages, Untimed, Success, Terminal, None
  <2>2. CASE FailRaises \/ WriteManifestRaises
    BY <2>2 DEF FailRaises, WriteManifestRaises, Recorder, Reraise, Escapes, Handle, Tell,
       At, Placed, Stages, Untimed, Success, Terminal, None
  <2>3. CASE Finish \/ Seal \/ PersistenceFails
    BY <2>3 DEF Finish, Seal, PersistenceFails, Placed, Stages, Untimed, Success, Terminal
  <2>4. CASE WriteManifest
    BY <2>4 DEF WriteManifest, TerminalManifest, Ended, Placed, Stages, Untimed,
       Success, Terminal
  <2>5. CASE WriteFailedManifest
    BY <2>5 DEF WriteFailedManifest, FailedManifest, Ended, Reraise, Escapes, Handle,
       Tell, Placed, Stages, Untimed, Success, Terminal, None
  <2> QED BY <1>4, <2>1, <2>2, <2>3, <2>4, <2>5 DEF Transition
<1>5. CASE Dies
  BY <1>5 DEF Dies, Recorder, Placed, Over, Stages, Untimed, Success
<1>6. CASE RunIsOver \/ UNCHANGED vars
  BY <1>6 DEF RunIsOver, vars, Placed
<1> QED BY <1>1, <1>2, <1>3, <1>4, <1>5, <1>6 DEF Next

LEMMA TransitionTyped ==
  ASSUME TypeOK, Counted, Placed, Transition
  PROVE  TypeOK' /\ Counted'
<1> DEFINE TraceType == [lines : Seq(Line),
                         writer : {None, "open", "failed", "finished"}]
<1>0. /\ <<>> \in Seq(Line) /\ <<Torn>> \in Seq(Line) /\ <<Sealed>> \in Seq(Line)
      /\ trace \in TraceType /\ trace.lines \in Seq(Line)
  BY RecordType DEF TypeOK
<1>r. \A sha256 \in Seq(Line), status \in Terminal :
        Ended(status, sha256) \in ManifestType
  BY DEF Ended, ManifestType, TypeOK, Run
<1>h. Reraise => pc' \in {"escaped", "fail"} /\ pending' \in Seq(Line)
  BY <1>0, HandleType DEF Reraise, Escapes
<1>1. CASE Complete \/ Fail
  BY <1>1 DEF Complete, Fail, At, TypeOK, Counted, Steps, Ending, Terminal, Success
<1>2. CASE FailRaises
  BY <1>0, <1>2 DEF FailRaises, Escapes, Recorder, TypeOK, Counted, Steps, Over
<1>3. CASE Finish
  <2>1. SpanEnd(intent) \in Line
    BY <1>3, SpanEndType DEF Placed, Finish
  <2>2. Append(trace.lines, SpanEnd(intent)) \in Seq(Line)
    BY <1>0, <2>1, AppendProperties
  <2>3. trace' \in TraceType
    BY <1>3, <2>2 DEF Finish
  <2> QED BY <1>3, <2>3 DEF Finish, TypeOK, Counted, Steps, Ending
<1>4. CASE Seal
  <2>1. Append(trace.lines, Sealed) \in Seq(Line)
    BY <1>0, RecordType, AppendProperties
  <2>2. trace' \in TraceType
    BY <1>0, <1>4, <2>1 DEF Seal
  <2> QED BY <1>4, <2>2 DEF Seal, TypeOK, Counted, Steps, Ending
<1>5. CASE PersistenceFails
  <2>1. PICK w \in {<<>>, <<Torn>>, <<Sealed>>} :
          trace' = [lines |-> trace.lines \o w, writer |-> "failed"]
    BY <1>5 DEF PersistenceFails
  <2>2. trace.lines \o w \in Seq(Line)
    BY <1>0, ConcatProperties
  <2>3. trace' \in TraceType
    BY <2>1, <2>2
  <2> QED BY <1>5, <2>3 DEF PersistenceFails, TypeOK, Counted, Steps, Ending
<1>6. CASE WriteManifest
  <2>1. TerminalManifest \in ManifestType
    <3>1. (IF traced THEN Hash(trace) ELSE <<>>) \in Seq(Line)
      BY <1>0 DEF Hash
    <3>2. intent \in Terminal
      BY <1>6 DEF WriteManifest, Placed
    <3> QED BY <1>r, <3>1, <3>2 DEF TerminalManifest
  <2> QED BY <1>6, <2>1 DEF WriteManifest, TypeOK, Counted, Steps, Over
<1>7. CASE WriteManifestRaises
  BY <1>7, <1>h DEF WriteManifestRaises, Recorder, TypeOK, Counted, Steps, Over, Ending
<1>8. CASE WriteFailedManifest
  <2>1. FailedManifest \in ManifestType
    BY <1>0, <1>r DEF FailedManifest, Terminal
  <2> QED BY <1>8, <1>h, <2>1
          DEF WriteFailedManifest, TypeOK, Counted, Steps, Over, Ending
<1> QED BY <1>1, <1>2, <1>3, <1>4, <1>5, <1>6, <1>7, <1>8 DEF Transition

LEMMA InitInv == Init => TypeOK /\ Counted /\ Placed
  BY InitTyped, PlacedInit

LEMMA NextInv ==
  ASSUME TypeOK, Counted, Placed, [Next]_vars
  PROVE  TypeOK' /\ Counted' /\ Placed'
<1>1. CASE Create \/ OpenTrace \/ StartRaises
  BY <1>1, StartTyped, PlacedNext DEF Next
<1>2. CASE Tracing
  BY <1>2, TracingTyped, PlacedNext DEF Next
<1>3. CASE Stage
  BY <1>3, SearchTyped, AcquisitionTyped, ChunkingTyped, RetrievalTyped, AnalysisTyped,
     AnalysisSkippedTyped, LateStagesTyped, PlacedNext DEF Next, Stage
<1>4. CASE Publish \/ StageRaises \/ StepRaises
  BY <1>4, PublishTyped, RaisesTyped, PlacedNext DEF Next
<1>5. CASE Transition
  BY <1>5, TransitionTyped, PlacedNext DEF Next
<1>6. CASE Dies
  <2>1. <<>> \in Seq(Line)
    OBVIOUS
  <2>2. TypeOK' /\ Counted'
    BY <1>6, <2>1 DEF Dies, Recorder, TypeOK, Counted, Steps, Over
  <2> QED BY <1>6, <2>2, PlacedNext DEF Next
<1>7. CASE RunIsOver \/ UNCHANGED vars
  <2>1. TypeOK' /\ Counted'
    BY <1>7 DEF RunIsOver, vars, TypeOK, Counted
  <2> QED BY <2>1, PlacedNext
<1> QED BY <1>1, <1>2, <1>3, <1>4, <1>5, <1>6, <1>7 DEF Next

(* Every variable keeps its type.                                          *)
THEOREM TypeCorrect == Spec => []TypeOK
<1> DEFINE I == TypeOK /\ Counted /\ Placed
<1>1. Init => I
  BY InitInv
<1>2. I /\ [Next]_vars => I'
  BY NextInv
<1>3. I => TypeOK
  OBVIOUS
<1> QED BY <1>1, <1>2, <1>3, PTL DEF Spec
-----------------------------------------------------------------------------
(* Ends are final: no step that writes a file is taken beside a terminal   *)
(* manifest.                                                               *)

LEMMA EndKept ==
  ASSUME Placed, [Next]_vars, manifest.status \in Terminal
  PROVE  UNCHANGED <<traced, manifest, trace, files>>
<1>0. manifest.status # "running" /\ manifest.status # None
  BY DEF Terminal, Success, None
<1>1. CASE Stage \/ Publish \/ StageRaises \/ StepRaises
  BY <1>0, <1>1, StageSteps DEF Placed
<1>2. CASE Create \/ OpenTrace \/ StartRaises
  BY <1>0, <1>2 DEF Create, OpenTrace, StartRaises, Placed
<1>3. CASE Tracing
  BY <1>0, <1>3 DEF Tracing, TraceEvent, TraceEventRaises, TraceEventRefused
<1>4. CASE Transition
  BY <1>0, <1>4 DEF Transition, Complete, Fail, FailRaises, Finish, Seal,
     PersistenceFails, WriteManifest, WriteManifestRaises, WriteFailedManifest,
     Recorder, Placed
<1>5. CASE Dies \/ RunIsOver \/ UNCHANGED vars
  BY <1>5 DEF Dies, RunIsOver, vars, Recorder
<1> QED BY <1>1, <1>2, <1>3, <1>4, <1>5 DEF Next

(* A published end is final: nothing in the directory changes after it.    *)
THEOREM EndsAreFinal == Spec => EndIsFinal
<1> DEFINE I == TypeOK /\ Counted /\ Placed
           A == manifest.status \in Terminal => UNCHANGED <<manifest, trace, files>>
<1>1. Init => I
  BY InitInv
<1>2. I /\ [Next]_vars => I'
  BY NextInv
<1>3. I /\ [Next]_vars => [A]_vars
  BY EndKept
<1> QED BY <1>1, <1>2, <1>3, PTL DEF Spec, EndIsFinal

(* What the caller is told is what the manifest says.                      *)
THEOREM CallersAgree == Spec => []CallerAgrees
<1> DEFINE I == TypeOK /\ Counted /\ Placed
<1>1. Init => I
  BY InitInv
<1>2. I /\ [Next]_vars => I'
  BY NextInv
<1>3. I => CallerAgrees
  BY DEF Placed, CallerAgrees
<1> QED BY <1>1, <1>2, <1>3, PTL DEF Spec
-----------------------------------------------------------------------------
(* The seal comes before the manifest.                                     *)

SealedFirst ==
  /\ pc = "write_manifest" /\ traced => IsSealed
  /\ TerminalIsSealed

LEMMA SealedFirstNext ==
  ASSUME TypeOK, Placed, SealedFirst, [Next]_vars
  PROVE  SealedFirst'
<1>1. CASE manifest.status \in Terminal
  <2>1. UNCHANGED <<traced, manifest, trace, files>>
    BY <1>1, EndKept
  <2>2. TerminalIsSealed'
    BY <2>1 DEF SealedFirst, TerminalIsSealed, IsSealed, Hash
  <2>3. pc' # "write_manifest"
    <3>1. pc' = "write_manifest" => manifest'.status = "running"
      BY PlacedNext DEF Placed
    <3> QED BY <1>1, <2>1, <3>1 DEF Terminal, Success
  <2> QED BY <2>2, <2>3 DEF SealedFirst
<1>2. CASE manifest.status \notin Terminal /\ manifest'.status \in Terminal
  <2>1. CASE WriteManifest
    BY <1>2, <2>1 DEF WriteManifest, TerminalManifest, Ended, SealedFirst,
       TerminalIsSealed, IsSealed, Hash
  <2>2. CASE WriteFailedManifest
    BY <1>2, <2>2 DEF WriteFailedManifest, FailedManifest, Ended, SealedFirst,
       TerminalIsSealed, Reraise, Escapes, Handle, Tell
  <2>3. CASE ~WriteManifest /\ ~WriteFailedManifest
    <3>1. UNCHANGED manifest \/ Create
      BY <2>3, StageSteps DEF Next, OpenTrace, StartRaises, Tracing, TraceEvent,
         TraceEventRaises, TraceEventRefused, Transition, Complete, Fail, FailRaises,
         Finish, Seal, PersistenceFails, WriteManifestRaises, Dies, RunIsOver, vars,
         Recorder
    <3>2. ~Create
      BY <1>2 DEF Create, TypeOK, ManifestType, Terminal, Success
    <3> QED BY <1>2, <3>1, <3>2
  <2> QED BY <2>1, <2>2, <2>3
<1>3. CASE manifest.status \notin Terminal /\ manifest'.status \notin Terminal
  <2>1. TerminalIsSealed'
    BY <1>3 DEF TerminalIsSealed
  <2>2. ASSUME pc' = "write_manifest", traced'
        PROVE  IsSealed'
    <3>1. CASE Seal
      <4>1. trace'.lines = Append(trace.lines, Sealed)
        BY <3>1 DEF Seal, TypeOK
      <4>2. /\ trace'.lines \in Seq(Line)
            /\ Len(trace'.lines) = Len(trace.lines) + 1
            /\ trace'.lines[Len(trace.lines) + 1] = Sealed
        BY <4>1, RecordType, AppendProperties DEF TypeOK
      <4>3. trace'.lines # <<>>
        BY <4>2, LenProperties DEF TypeOK
      <4> QED BY <4>2, <4>3 DEF IsSealed
    <3>2. CASE UNCHANGED vars \/ RunIsOver
      BY <2>2, <3>2 DEF RunIsOver, vars, SealedFirst, IsSealed
    <3>3. CASE ~Seal /\ ~UNCHANGED vars /\ ~RunIsOver
      <4>1. pc' # "write_manifest" \/ ~traced' \/ TraceEvent
        BY <3>3, StageSteps DEF Next, Create, OpenTrace, StartRaises, Tracing,
           TraceEventRaises, TraceEventRefused, Transition, Complete, Fail, FailRaises,
           Finish, PersistenceFails, WriteManifest, WriteManifestRaises,
           WriteFailedManifest, Reraise, Escapes, Handle, Tell, Dies, Stages, Untimed
      <4>2. ~TraceEvent
        BY <2>2 DEF TraceEvent, Placed, Stages, Untimed
      <4> QED BY <2>2, <4>1, <4>2
    <3> QED BY <3>1, <3>2, <3>3
  <2> QED BY <2>1, <2>2 DEF SealedFirst
<1> QED BY <1>1, <1>2, <1>3

(* A terminal manifest has the hash of the whole sealed trace, unless      *)
(* tracing was off or the trace could not be persisted.                    *)
THEOREM TerminalsAreSealed == Spec => []TerminalIsSealed
<1> DEFINE I == TypeOK /\ Counted /\ Placed /\ SealedFirst
<1>1. Init => I
  <2>1. Init => SealedFirst
    BY DEF Init, SealedFirst, TerminalIsSealed, Terminal, Success, None
  <2> QED BY <2>1, InitInv
<1>2. I /\ [Next]_vars => I'
  BY NextInv, SealedFirstNext
<1>3. I => TerminalIsSealed
  BY DEF SealedFirst
<1> QED BY <1>1, <1>2, <1>3, PTL DEF Spec
-----------------------------------------------------------------------------
(* A success is earned: what its manifest stands for was written, and      *)
(* enough papers analysed, before the run said that it would end well.     *)

Earned ==
  /\ pc \in {"synthesis", "citation_check", "publishing"} =>
       Artifacts \subseteq files /\ Enough(run)
  /\ pc = "publish_markdown" =>
       Artifacts \cup {"report.json"} \subseteq files /\ Enough(run)
  /\ pc = "complete" \/ intent \in Success =>
       Published \subseteq files /\ Enough(run)
  /\ SuccessIsComplete

LEMMA EarnedStage ==
  ASSUME TypeOK, Placed, Earned, Stage \/ Publish \/ StageRaises \/ StepRaises
  PROVE  Earned'
<1>0. /\ SuccessIsComplete' /\ intent' \notin Success
      /\ manifest.status \notin Success
  BY StageSteps DEF Placed, SuccessIsComplete, Stages, Untimed, None, Success
<1>1. CASE Search \/ Acquisition \/ Chunking \/ Retrieval \/ Analysis \/ AnalysisSkipped
  <2>1. \A r : NextPaper(r) \in {"acquisition", "write"}
    BY DEF NextPaper
  <2>2. pc' \in {"write_papers", "acquisition", "chunking", "retrieval", "analysis",
                 "write"}
    BY <1>1, <2>1 DEF Search, Acquisition, Chunking, Retrieval, Analysis,
       AnalysisSkipped, Tell
  <2> QED BY <1>0, <2>2 DEF Earned
<1>2. CASE CountAnalyses
  <2>1. (pc' = "synthesis" /\ Enough(run)) \/ pc' = "fail"
    BY <1>2 DEF CountAnalyses, Tell, Handle
  <2>2. run' = run /\ Artifacts \subseteq files /\ files' = files
    BY <1>2 DEF CountAnalyses
  <2> QED BY <1>0, <2>1, <2>2 DEF Earned, Enough
<1>3. CASE Synthesis
  <2>1. run'.papers = run.papers /\ run'.analyses = run.analyses
    BY <1>3, MeasuredType DEF Synthesis, TypeOK, Stages
  <2>2. pc = "synthesis" /\ pc' = "citation_check" /\ files' = files
    BY <1>3 DEF Synthesis, At, Tell
  <2> QED BY <1>0, <2>1, <2>2 DEF Earned, Enough
<1>4. CASE CitationCheck
  <2>1. PICK d \in BOOLEAN : run' = [run EXCEPT !.degraded = @ \/ d]
    BY <1>4 DEF CitationCheck
  <2>2. run'.papers = run.papers /\ run'.analyses = run.analyses
    BY <2>1 DEF TypeOK, Run
  <2>3. pc = "citation_check" /\ pc' = "publishing" /\ files' = files
    BY <1>4 DEF CitationCheck, At, Tell
  <2> QED BY <1>0, <2>2, <2>3 DEF Earned, Enough
<1>5. CASE Publish
  BY <1>0, <1>5 DEF Publish, WritePapers, WriteModels, ReplaceJson, ReplaceMarkdown, At,
     Tell, NextPaper, Earned, Published, Enough
<1>6. CASE StageRaises \/ StepRaises
  BY <1>0, <1>6 DEF StageRaises, StepRaises, Handle, Tell, Earned
<1> QED BY <1>1, <1>2, <1>3, <1>4, <1>5, <1>6 DEF Stage

LEMMA EarnedNext ==
  ASSUME TypeOK, Placed, Earned, [Next]_vars
  PROVE  Earned'
<1>1. CASE Stage \/ Publish \/ StageRaises \/ StepRaises
  BY <1>1, EarnedStage
<1>2. CASE Create \/ OpenTrace \/ StartRaises
  <2>1. manifest'.status \notin Success
    BY <1>2 DEF Create, OpenTrace, StartRaises, Placed, TypeOK, ManifestType, Success
  <2>2. pc' \in {"open_trace", "search", "escaped"}
    BY <1>2 DEF Create, OpenTrace, StartRaises, Tell, Escapes
  <2>3. UNCHANGED <<run, intent, files>>
    BY <1>2 DEF Create, OpenTrace, StartRaises
  <2> QED BY <2>1, <2>2, <2>3 DEF Earned, SuccessIsComplete, Enough
<1>3. CASE Tracing \/ Dies \/ RunIsOver \/ UNCHANGED vars
  <2>1. UNCHANGED <<run, intent, files, manifest>>
    BY <1>3 DEF Tracing, TraceEvent, TraceEventRaises, TraceEventRefused, Dies,
       RunIsOver, vars, Recorder
  <2>2. pc' \in {pc, "fail", "escaped", "dead"}
    BY <1>3 DEF Tracing, TraceEvent, TraceEventRaises, TraceEventRefused, Escapes,
       Handle, Tell, Dies, RunIsOver, vars
  <2> QED BY <2>1, <2>2 DEF Earned, SuccessIsComplete, Enough
<1>4. CASE Transition
  <2>1. CASE Complete
    BY <2>1 DEF Complete, At, Earned, SuccessIsComplete, Enough
  <2>2. CASE Fail
    BY <2>2 DEF Fail, Earned, SuccessIsComplete, Success
  <2>3. CASE FailRaises \/ WriteManifestRaises
    BY <2>3 DEF FailRaises, WriteManifestRaises, Reraise, Escapes, Handle, Tell,
       Recorder, Earned, SuccessIsComplete, Enough
  <2>4. CASE Finish \/ Seal \/ PersistenceFails
    BY <2>4 DEF Finish, Seal, PersistenceFails, Earned, SuccessIsComplete, Enough
  <2>5. CASE WriteManifest
    <3>1. /\ manifest'.status = intent /\ manifest'.papers = run.papers
          /\ manifest'.analyses = run.analyses
      BY <2>5 DEF WriteManifest, TerminalManifest, Ended
    <3>2. UNCHANGED <<run, intent, files>> /\ pc' \in {"raised", "returned"}
      BY <2>5 DEF WriteManifest
    <3>3. ASSUME intent \in Success
          PROVE  files = Published /\ run.analyses >= 1
                 /\ (run.papers >= 2 => run.analyses >= 2)
      BY <3>3, SurveyAssumption DEF Earned, Enough, TypeOK, Run
    <3> QED BY <3>1, <3>2, <3>3 DEF Earned, SuccessIsComplete, Enough
  <2>6. CASE WriteFailedManifest
    <3>1. manifest'.status \notin Success
      BY <2>6 DEF WriteFailedManifest, FailedManifest, Ended, Placed, Success
    <3>2. UNCHANGED <<run, intent, files>> /\ pc' \in {"escaped", "fail"}
      BY <2>6 DEF WriteFailedManifest, Reraise, Escapes, Handle, Tell
    <3> QED BY <3>1, <3>2 DEF Earned, SuccessIsComplete, Enough
  <2> QED BY <1>4, <2>1, <2>2, <2>3, <2>4, <2>5, <2>6 DEF Transition
<1> QED BY <1>1, <1>2, <1>3, <1>4 DEF Next

LEMMA EarnedInit == Init => Earned
  BY DEF Init, Earned, SuccessIsComplete, Success, None

(* A successful manifest stands beside both reports and all artifacts, and *)
(* enough papers were analysed.                                            *)
THEOREM SuccessesAreComplete == Spec => []SuccessIsComplete
<1> DEFINE I == TypeOK /\ Counted /\ Placed /\ Earned
<1>1. Init => I
  BY InitInv, EarnedInit
<1>2. I /\ [Next]_vars => I'
  BY NextInv, EarnedNext
<1>3. I => SuccessIsComplete
  BY DEF Earned
<1> QED BY <1>1, <1>2, <1>3, PTL DEF Spec
-----------------------------------------------------------------------------
(* The run implements what its callers and readers are promised.           *)

Reported == {"report.json", "report.md"} \subseteq files
Call == IF pc \in {"returned", "raised"} THEN pc
        ELSE IF pc \in {"escaped", "dead"} THEN "stopped" ELSE "working"

(* A step that leaves the manifest alone reports, stops or does nothing.   *)
LEMMA QuietStep ==
  ASSUME UNCHANGED manifest, pc \notin Over, pc' \notin {"returned", "raised"},
         Reported => Reported',
         Reported' # Reported => manifest.status = "running" /\ pc' \notin Over
  PROVE  [Directory!Next]_Directory!vars
<1>1. CASE pc' \in {"escaped", "dead"}
  <2>1. Reported' <=> Reported
    BY <1>1 DEF Over
  <2>2. Call = "working" /\ Call' = "stopped"
    BY <1>1 DEF Call, Over
  <2>3. Directory!Stop
    BY <2>1, <2>2 DEF Directory!Stop, Call, Reported
  <2> QED BY <2>3 DEF Directory!Next
<1>2. CASE pc' \notin Over
  <2>1. Call = "working" /\ Call' = "working"
    BY <1>2 DEF Call, Over
  <2>2. CASE Reported' <=> Reported
    BY <2>1, <2>2 DEF Directory!vars, Call, Reported
  <2>3. CASE ~(Reported' <=> Reported)
    <3>1. Reported' /\ manifest.status = "running"
      BY <2>3
    <3>2. Directory!Report
      BY <2>1, <3>1 DEF Directory!Report, Call, Reported
    <3> QED BY <3>2 DEF Directory!Next
  <2> QED BY <2>2, <2>3
<1> QED BY <1>1, <1>2 DEF Over

LEMMA DirectoryStep ==
  ASSUME TypeOK, Placed, Earned, [Next]_vars
  PROVE  [Directory!Next]_Directory!vars
<1>1. CASE Stage \/ Publish \/ StageRaises \/ StepRaises
  <2>1. files \subseteq files'
    BY <1>1 DEF Stage, Search, Acquisition, Chunking, Retrieval, Analysis,
       AnalysisSkipped, CountAnalyses, Synthesis, CitationCheck, Publish, WritePapers,
       WriteModels, ReplaceJson, ReplaceMarkdown, StageRaises, StepRaises
  <2>2. UNCHANGED manifest /\ manifest.status = "running"
    BY <1>1, StageSteps DEF Placed
  <2>3. pc \notin Over /\ pc' \notin Over
    BY <1>1, StageSteps DEF Stages, Untimed, Over
  <2> QED BY <2>1, <2>2, <2>3, QuietStep DEF Reported, Over
<1>2. CASE Create
  <2>1. Directory!Begin
    BY <1>2 DEF Create, Directory!Begin, Placed, TypeOK, ManifestType, None
  <2> QED BY <2>1 DEF Directory!Next
<1>3. CASE OpenTrace \/ StartRaises \/ Tracing \/ Dies
  <2>1. pc \notin Over
    BY <1>3 DEF OpenTrace, StartRaises, Tracing, TraceEvent, TraceEventRaises,
       TraceEventRefused, Dies, Placed, Over, Stages, Untimed
  <2>2. UNCHANGED <<manifest, files>>
    BY <1>3 DEF OpenTrace, StartRaises, Tracing, TraceEvent, TraceEventRaises,
       TraceEventRefused, Dies, Recorder
  <2>3. pc' \notin {"returned", "raised"}
    BY <1>3, <2>1 DEF OpenTrace, StartRaises, Tracing, TraceEvent, TraceEventRaises,
       TraceEventRefused, Dies, Escapes, Handle, Tell, Over
  <2> QED BY <2>1, <2>2, <2>3, QuietStep DEF Reported
<1>4. CASE Complete \/ Fail \/ FailRaises \/ Finish \/ Seal \/ PersistenceFails
           \/ WriteManifestRaises
  <2>1. pc \notin Over /\ pc' \notin {"returned", "raised"}
    BY <1>4 DEF Complete, Fail, FailRaises, Finish, Seal, PersistenceFails,
       WriteManifestRaises, Reraise, Escapes, Handle, Tell, At, Over
  <2>2. UNCHANGED <<manifest, files>>
    BY <1>4 DEF Complete, Fail, FailRaises, Finish, Seal, PersistenceFails,
       WriteManifestRaises, Recorder
  <2> QED BY <2>1, <2>2, QuietStep DEF Reported
<1>5. CASE WriteManifest
  <2>1. /\ manifest.status = "running" /\ manifest'.status = intent
        /\ intent \in Terminal /\ files' = files /\ pc = "write_manifest"
        /\ pc' = IF intent = "failed" THEN "raised" ELSE "returned"
    BY <1>5 DEF WriteManifest, TerminalManifest, Ended, Placed
  <2>2. CASE intent = "failed"
    <3>1. Directory!Fail
      BY <2>1, <2>2 DEF Directory!Fail
    <3> QED BY <3>1 DEF Directory!Next
  <2>3. CASE intent \in Success
    <3>1. Reported
      BY <2>3 DEF Earned, Reported, Published
    <3>2. Directory!Return
      BY <2>1, <2>3, <3>1 DEF Directory!Return, Directory!Success, Reported, Success
    <3> QED BY <3>2 DEF Directory!Next
  <2> QED BY <2>1, <2>2, <2>3 DEF Terminal
<1>6. CASE WriteFailedManifest
  <2>1. /\ manifest.status = "running" /\ files' = files /\ pc = "write_failed"
        /\ pc' \in {"escaped", "fail"}
    BY <1>6 DEF WriteFailedManifest, Reraise, Escapes, Handle, Tell, Placed
  <2>2. CASE UNCHANGED manifest
    BY <2>1, <2>2, QuietStep DEF Reported, Over
  <2>3. CASE manifest' = FailedManifest
    <3>1. manifest'.status = "failed"
      BY <2>3 DEF FailedManifest, Ended
    <3>2. Directory!Fail
      BY <2>1, <3>1 DEF Directory!Fail
    <3> QED BY <3>2 DEF Directory!Next
  <2> QED BY <1>6, <2>2, <2>3 DEF WriteFailedManifest
<1>7. CASE RunIsOver \/ UNCHANGED vars
  BY <1>7 DEF RunIsOver, vars, Directory!vars
<1> QED BY <1>1, <1>2, <1>3, <1>4, <1>5, <1>6, <1>7 DEF Next, Transition

(* Every behaviour of a survey is one that RunDirectory allows.            *)
THEOREM RunsImplementDirectory == Spec => ImplementsDirectory
<1> DEFINE I == TypeOK /\ Counted /\ Placed /\ Earned
<1>1. Init => I
  BY InitInv, EarnedInit
<1>2. I /\ [Next]_vars => I'
  BY NextInv, EarnedNext
<1>3. Init => Directory!Init
  BY DEF Init, Directory!Init, None
<1>4. I /\ [Next]_vars => [Directory!Next]_Directory!vars
  BY DirectoryStep
<1> QED BY <1>1, <1>2, <1>3, <1>4, PTL DEF Spec, ImplementsDirectory, Directory!Spec
-----------------------------------------------------------------------------
(* The events a run tells.  First, the lines of a trace: their names, and  *)
(* whether none of them tells of something degraded.                       *)

NamesOf(q) == {q[i].name : i \in DOMAIN q}
Spotless(q) == \A i \in DOMAIN q : q[i].status = "ok"

LEMMA NoLine == NamesOf(<<>>) = {} /\ Spotless(<<>>)
BY DEF NamesOf, Spotless

LEMMA OneLine ==
  ASSUME NEW e
  PROVE  NamesOf(<<e>>) = {e.name} /\ (Spotless(<<e>>) <=> e.status = "ok")
BY DEF NamesOf, Spotless

LEMMA TwoLines ==
  ASSUME NEW e, NEW f
  PROVE  /\ NamesOf(<<e, f>>) = {e.name, f.name}
         /\ Spotless(<<e, f>>) <=> e.status = "ok" /\ f.status = "ok"
BY DEF NamesOf, Spotless

LEMMA JoinedLines ==
  ASSUME NEW p \in Seq(Line), NEW q \in Seq(Line)
  PROVE  /\ NamesOf(p \o q) = NamesOf(p) \cup NamesOf(q)
         /\ Spotless(p \o q) <=> Spotless(p) /\ Spotless(q)
<1>1. /\ DOMAIN p = 1..Len(p) /\ DOMAIN q = 1..Len(q)
      /\ Len(p) \in Nat /\ Len(q) \in Nat
      /\ DOMAIN (p \o q) = 1..(Len(p) + Len(q))
      /\ \A i \in 1..Len(p) : (p \o q)[i] = p[i]
      /\ \A i \in 1..Len(q) : (p \o q)[Len(p) + i] = q[i]
  BY LenProperties, ConcatProperties
<1> DEFINE r == p \o q
<1>2. \A i \in DOMAIN r : (i \in DOMAIN p /\ r[i] = p[i])
                          \/ \E j \in DOMAIN q : r[i] = q[j]
  <2> TAKE i \in DOMAIN r
  <2>1. CASE i \in 1..Len(p)
    BY <1>1, <2>1
  <2>2. CASE i \notin 1..Len(p)
    <3>1. i - Len(p) \in 1..Len(q) /\ i = Len(p) + (i - Len(p))
      BY <1>1, <2>2
    <3> QED BY <1>1, <3>1
  <2> QED BY <2>1, <2>2
<1>3. \A i \in DOMAIN p : i \in DOMAIN r /\ r[i] = p[i]
  BY <1>1
<1>4. \A j \in DOMAIN q : \E i \in DOMAIN r : r[i] = q[j]
  <2> TAKE j \in DOMAIN q
  <2>1. Len(p) + j \in DOMAIN r /\ r[Len(p) + j] = q[j]
    BY <1>1
  <2> QED BY <2>1
<1> HIDE DEF r
<1>5. NamesOf(r) = NamesOf(p) \cup NamesOf(q)
  BY <1>2, <1>3, <1>4 DEF NamesOf
<1>6. Spotless(r) <=> Spotless(p) /\ Spotless(q)
  BY <1>2, <1>3, <1>4 DEF Spotless
<1> QED BY <1>5, <1>6 DEF r

LEMMA AppendedLine ==
  ASSUME NEW q \in Seq(Line), NEW e \in Line
  PROVE  /\ NamesOf(Append(q, e)) = NamesOf(q) \cup {e.name}
         /\ Spotless(Append(q, e)) <=> Spotless(q) /\ e.status = "ok"
<1>1. Append(q, e) = q \o <<e>> /\ <<e>> \in Seq(Line)
  BY AppendIsConcat
<1> QED BY <1>1, JoinedLines, OneLine

LEMMA FirstLine ==
  ASSUME NEW q \in Seq(Line), q # <<>>
  PROVE  /\ Head(q) \in Line /\ Tail(q) \in Seq(Line)
         /\ NamesOf(q) = {Head(q).name} \cup NamesOf(Tail(q))
         /\ Spotless(q) <=> Head(q).status = "ok" /\ Spotless(Tail(q))
<1>1. /\ Head(q) \in Line /\ Tail(q) \in Seq(Line)
      /\ q = <<Head(q)>> \o Tail(q)
  BY HeadTailProperties, ElementOfSeq
<1> DEFINE first == <<Head(q)>>
<1>2. first \in Seq(Line)
  BY <1>1
<1>3. NamesOf(first) = {Head(q).name} /\ (Spotless(first) <=> Head(q).status = "ok")
  BY OneLine
<1>4. q = first \o Tail(q)
  BY <1>1
<1> HIDE DEF first
<1>5. /\ NamesOf(first \o Tail(q)) = NamesOf(first) \cup NamesOf(Tail(q))
      /\ Spotless(first \o Tail(q)) <=> Spotless(first) /\ Spotless(Tail(q))
  BY <1>1, <1>2, JoinedLines
<1> QED BY <1>1, <1>3, <1>4, <1>5
-----------------------------------------------------------------------------
(* What each step of the pipeline tells, beside what it has told before.   *)

(* The events that a run at step p with the locals r has told, or is about *)
(* to tell.                                                                *)
Covers(p, r, told) ==
  /\ \A s \in r.timed : StageEvent[s] \in told
  /\ p \notin {"create", "open_trace"} => "run.started" \in told
  /\ p \in {"chunking", "retrieval", "analysis"} \/ r.analyses > 0 =>
       "fulltext" \in told
  /\ p = "analysis" \/ r.analyses > 0 => {"rerank", "retrieval"} \subseteq told
  /\ r.analyses > 0 => {"analysis", "citation_validation"} \subseteq told
  /\ p \in {"citation_check", "publishing", "publish_markdown", "complete"} =>
       "synthesis" \in told
  /\ p = "complete" => "output" \in told /\ (r.degraded => "degradation" \in told)
  /\ p \in {"complete", "fail"} => "run.finished" \in told

(* What a step of the pipeline tells of itself.                            *)
Tells ==
  /\ NamesOf(pending') \subseteq EventNames
  /\ pc' # "fail" /\ ~run'.degraded => ~run.degraded /\ Spotless(pending')
  /\ traced => \A told : Covers(pc, run, told) =>
                 Covers(pc', run', told \cup NamesOf(pending'))

LEMMA ToldOne ==
  ASSUME NEW name, NEW status, NEW next, Tell(<<Record(name, status)>>, next)
  PROVE  /\ pc' = next
         /\ NamesOf(pending') = IF traced THEN {name} ELSE {}
         /\ status = "ok" => Spotless(pending')
<1>1. Record(name, status).name = name /\ Record(name, status).status = status
  BY DEF Record
<1> QED BY <1>1, OneLine, NoLine DEF Tell

LEMMA ToldTwo ==
  ASSUME NEW name, NEW status, NEW name2, NEW status2, NEW next,
         Tell(<<Record(name, status), Record(name2, status2)>>, next)
  PROVE  /\ pc' = next
         /\ NamesOf(pending') = IF traced THEN {name, name2} ELSE {}
         /\ status = "ok" /\ status2 = "ok" => Spotless(pending')
<1>1. /\ Record(name, status).name = name /\ Record(name, status).status = status
      /\ Record(name2, status2).name = name2 /\ Record(name2, status2).status = status2
  BY DEF Record
<1> QED BY <1>1, TwoLines, NoLine DEF Tell

LEMMA ToldFailure ==
  ASSUME NEW stage, Handle(stage)
  PROVE  /\ pc' = "fail"
         /\ NamesOf(pending') \subseteq EventNames
         /\ traced => /\ "run.finished" \in NamesOf(pending')
                      /\ stage \in Stages => StageEvent[stage] \in NamesOf(pending')
                      /\ pending' # <<>>
<1> DEFINE last == <<Record("run.finished", "error")>>
           first == <<Record(StageEvent[stage], "error")>>
<1>0. "run.finished" \in EventNames /\ \A s \in Stages : StageEvent[s] \in EventNames
  BY DEF Stages, StageEvent, EventNames
<1>1. last \in Seq(Line) /\ NamesOf(last) = {"run.finished"}
  BY EventType, OneLine DEF EventNames, Record
<1>2. stage \in Stages => first \in Seq(Line) /\ NamesOf(first) = {StageEvent[stage]}
  <2> SUFFICES ASSUME stage \in Stages
               PROVE  first \in Seq(Line) /\ NamesOf(first) = {StageEvent[stage]}
    OBVIOUS
  <2>1. StageEvent[stage] \in EventNames
    BY DEF Stages, StageEvent, EventNames
  <2> DEFINE line == Record(StageEvent[stage], "error")
  <2>2. line \in Line
    BY <2>1, EventType
  <2>3. line.name = StageEvent[stage]
    BY DEF Record
  <2> HIDE DEF line
  <2>4. NamesOf(<<line>>) = {StageEvent[stage]}
    BY <2>3, OneLine
  <2>5. <<line>> \in Seq(Line)
    BY <2>2
  <2> QED BY <2>4, <2>5 DEF line
<1>3. <<>> \in Seq(Line) /\ NamesOf(<<>>) = {}
  BY NoLine
<1>4. FailureEvents(stage) = (IF stage \in Stages THEN first ELSE <<>>) \o last
  BY DEF FailureEvents
<1> HIDE DEF first, last
<1>5. /\ NamesOf(FailureEvents(stage)) \subseteq EventNames
      /\ "run.finished" \in NamesOf(FailureEvents(stage))
      /\ stage \in Stages => StageEvent[stage] \in NamesOf(FailureEvents(stage))
  <2>1. CASE stage \in Stages
    <3>1. NamesOf(first \o last) = NamesOf(first) \cup NamesOf(last)
      BY <1>1, <1>2, <2>1, JoinedLines
    <3> QED BY <1>0, <1>1, <1>2, <1>4, <2>1, <3>1
  <2>2. CASE stage \notin Stages
    <3>1. NamesOf(<<>> \o last) = NamesOf(<<>>) \cup NamesOf(last)
      BY <1>1, <1>3, JoinedLines
    <3> QED BY <1>0, <1>1, <1>4, <2>2, <3>1
  <2> QED BY <2>1, <2>2
<1>6. FailureEvents(stage) # <<>>
  BY <1>5, NoLine
<1> HIDE DEF FailureEvents
<1> QED BY <1>5, <1>6, NoLine DEF Handle, Tell

LEMMA MeasuredTimes ==
  ASSUME NEW r \in Run, NEW s \in Stages
  PROVE  Measured(r, s).timed = r.timed \cup {s}
BY DEF Run, Measured

LEMMA SearchTells ==
  ASSUME TypeOK, Search
  PROVE  Tells
<1>1. PICK n \in 0..MaxPapers :
        run' = [Measured(run, "search") EXCEPT !.papers = n]
  BY DEF Search
<1> DEFINE m == Measured(run, "search")
<1>2. /\ m \in Run /\ m.timed = run.timed \cup {"search"}
      /\ m.analyses = run.analyses /\ m.degraded = run.degraded
  BY MeasuredType, MeasuredTimes DEF TypeOK, Stages
<1> HIDE DEF m
<1>3. /\ run'.timed = run.timed \cup {"search"}
      /\ run'.analyses = run.analyses /\ run'.degraded = run.degraded
  BY <1>1, <1>2 DEF Run, m
<1>4. /\ pc' = "write_papers" /\ Spotless(pending')
      /\ NamesOf(pending') = IF traced THEN {"retrieval"} ELSE {}
  BY ToldOne DEF Search
<1>5. pc = "search"
  BY DEF Search, At
<1> QED BY <1>3, <1>4, <1>5 DEF Tells, Covers, StageEvent, Stages, EventNames

LEMMA AcquisitionTells ==
  ASSUME TypeOK, Counted, Acquisition
  PROVE  Tells
<1>1. PICK outcome \in {"document", "fallback", "excluded"} :
        LET r == [Measured(run, "acquisition") EXCEPT
                    !.degraded = @ \/ outcome # "document"]
        IN  /\ run' = IF outcome = "excluded" THEN PaperDone(r) ELSE r
            /\ Tell(<<Record("fulltext", Judged(outcome # "document"))>>,
                    IF outcome = "excluded" THEN NextPaper(run') ELSE "chunking")
  BY DEF Acquisition
<1> DEFINE m == Measured(run, "acquisition")
           r == [m EXCEPT !.degraded = @ \/ outcome # "document"]
           next == IF outcome = "excluded" THEN NextPaper(run') ELSE "chunking"
<1>2. /\ m \in Run /\ m.timed = run.timed \cup {"acquisition"}
      /\ m.analyses = run.analyses /\ m.degraded = run.degraded
  BY MeasuredType, MeasuredTimes DEF TypeOK, Stages
<1> HIDE DEF m
<1>3. /\ r.timed = run.timed \cup {"acquisition"} /\ r.analyses = run.analyses
      /\ ~r.degraded => ~run.degraded /\ outcome = "document"
  BY <1>2 DEF Run
<1>4. /\ PaperDone(r).timed = r.timed /\ PaperDone(r).analyses = r.analyses
      /\ PaperDone(r).degraded = r.degraded
  <2>1. r \in Run
    BY <1>2 DEF Run
  <2> HIDE DEF r
  <2> QED BY <2>1 DEF PaperDone, Run
<1>5. run' = IF outcome = "excluded" THEN PaperDone(r) ELSE r
  BY <1>1 DEF m
<1> HIDE DEF r
<1>6. /\ run'.timed = run.timed \cup {"acquisition"} /\ run'.analyses = run.analyses
      /\ ~run'.degraded => ~run.degraded /\ outcome = "document"
  BY <1>3, <1>4, <1>5
<1>7. Tell(<<Record("fulltext", Judged(outcome # "document"))>>, next)
  BY <1>1
<1>8. outcome = "document" => Judged(outcome # "document") = "ok"
  BY DEF Judged
<1>9. /\ pc' = next
      /\ NamesOf(pending') = IF traced THEN {"fulltext"} ELSE {}
      /\ outcome = "document" => Spotless(pending')
  BY <1>7, <1>8, ToldOne
<1>10. pc = "acquisition" /\ pc' \in {"chunking", "acquisition", "write"}
  BY <1>9 DEF Acquisition, At, NextPaper
<1> QED BY <1>6, <1>9, <1>10 DEF Tells, Covers, StageEvent, Stages, EventNames

LEMMA ChunkingTells ==
  ASSUME TypeOK, Chunking
  PROVE  Tells
<1>1. /\ run'.timed = run.timed \cup {"chunking"}
      /\ run'.analyses = run.analyses /\ run'.degraded = run.degraded
  BY MeasuredType, MeasuredTimes DEF Chunking, TypeOK, Stages
<1>2. /\ pc' = "retrieval" /\ Spotless(pending')
      /\ NamesOf(pending') = IF traced THEN {"fulltext"} ELSE {}
  BY ToldOne DEF Chunking
<1>3. pc = "chunking"
  BY DEF Chunking, At
<1> QED BY <1>1, <1>2, <1>3 DEF Tells, Covers, StageEvent, Stages, EventNames

LEMMA RetrievalTells ==
  ASSUME TypeOK, Retrieval
  PROVE  Tells
<1>1. PICK degraded \in BOOLEAN :
        /\ run' = Retrieved(degraded)
        /\ Tell(<<Record("retrieval", Judged(degraded)),
                  Record("rerank", Judged(degraded))>>, "analysis")
  BY DEF Retrieval
<1> DEFINE m == Measured(run, "retrieval")
<1>2. /\ m \in Run /\ m.timed = run.timed \cup {"retrieval"}
      /\ m.analyses = run.analyses /\ m.degraded = run.degraded
  BY MeasuredType, MeasuredTimes DEF TypeOK, Stages
<1>3. run' = [m EXCEPT !.degraded = @ \/ degraded]
  BY <1>1 DEF Retrieved
<1> HIDE DEF m
<1>4. /\ run'.timed = run.timed \cup {"retrieval"} /\ run'.analyses = run.analyses
      /\ ~run'.degraded => ~run.degraded /\ ~degraded
  BY <1>2, <1>3 DEF Run
<1>5. ~degraded => Judged(degraded) = "ok"
  BY DEF Judged
<1>6. /\ pc' = "analysis" /\ (~degraded => Spotless(pending'))
      /\ NamesOf(pending') = IF traced THEN {"retrieval", "rerank"} ELSE {}
  BY <1>1, <1>5, ToldTwo
<1>7. pc = "retrieval"
  BY DEF Retrieval, At
<1> QED BY <1>4, <1>6, <1>7 DEF Tells, Covers, StageEvent, Stages, EventNames

LEMMA AnalysisTells ==
  ASSUME TypeOK, Counted, Analysis
  PROVE  Tells
<1>1. PICK sanitized \in BOOLEAN, supported \in BOOLEAN :
        /\ run' = [PaperDone(Measured(run, "analysis")) EXCEPT
                     !.degraded = @ \/ sanitized \/ ~supported,
                     !.analyses = @ + IF supported THEN 1 ELSE 0]
        /\ Tell(<<Record("analysis", "ok"),
                  Record("citation_validation", Judged(sanitized))>>,
                NextPaper(run'))
  BY DEF Analysis
<1> DEFINE m == PaperDone(Measured(run, "analysis"))
<1>2. /\ m \in Run /\ m.timed = run.timed \cup {"analysis"}
      /\ m.degraded = run.degraded
  <2> DEFINE n == Measured(run, "analysis")
  <2>1. /\ n \in Run /\ n.timed = run.timed \cup {"analysis"}
        /\ n.degraded = run.degraded /\ n.done = run.done /\ n.papers = run.papers
    BY MeasuredType, MeasuredTimes DEF TypeOK, Stages
  <2>2. n.done < n.papers
    BY <2>1 DEF Counted, Analysis, At
  <2>3. PaperDone(n).timed = n.timed
    BY DEF PaperDone, Measured, TypeOK, Run
  <2> HIDE DEF n
  <2>4. PaperDone(n) \in Run /\ PaperDone(n).degraded = n.degraded
    BY <2>1, <2>2, PaperDoneType
  <2> QED BY <2>1, <2>3, <2>4 DEF n
<1>3. run' = [m EXCEPT !.degraded = @ \/ sanitized \/ ~supported,
                       !.analyses = @ + IF supported THEN 1 ELSE 0]
  BY <1>1
<1> HIDE DEF m
<1>4. /\ run'.timed = run.timed \cup {"analysis"}
      /\ ~run'.degraded => ~run.degraded /\ ~sanitized
  BY <1>2, <1>3 DEF Run
<1>5. ~sanitized => Judged(sanitized) = "ok"
  BY DEF Judged
<1>6. /\ pc' = NextPaper(run') /\ (~sanitized => Spotless(pending'))
      /\ NamesOf(pending') = IF traced THEN {"analysis", "citation_validation"} ELSE {}
  BY <1>1, <1>5, ToldTwo
<1>7. pc = "analysis" /\ pc' \in {"acquisition", "write"}
  BY <1>6 DEF Analysis, At, NextPaper
<1> QED BY <1>4, <1>6, <1>7 DEF Tells, Covers, StageEvent, Stages, EventNames

LEMMA AnalysisSkippedTells ==
  ASSUME TypeOK, Counted, AnalysisSkipped
  PROVE  Tells
<1> DEFINE m == PaperDone(Measured(run, "analysis"))
<1>2. /\ m \in Run /\ m.timed = run.timed \cup {"analysis"}
  <2> DEFINE n == Measured(run, "analysis")
  <2>1. /\ n \in Run /\ n.timed = run.timed \cup {"analysis"}
        /\ n.done = run.done /\ n.papers = run.papers
    BY MeasuredType, MeasuredTimes DEF TypeOK, Stages
  <2>2. n.done < n.papers
    BY <2>1 DEF Counted, AnalysisSkipped, At
  <2>3. PaperDone(n).timed = n.timed
    BY DEF PaperDone, Measured, TypeOK, Run
  <2> HIDE DEF n
  <2>4. PaperDone(n) \in Run
    BY <2>1, <2>2, PaperDoneType
  <2> QED BY <2>1, <2>3, <2>4 DEF n
<1>3. run' = [m EXCEPT !.degraded = TRUE, !.stage = "analysis"]
  BY DEF AnalysisSkipped
<1> HIDE DEF m
<1>4. run'.timed = run.timed \cup {"analysis"} /\ run'.degraded
  BY <1>2, <1>3 DEF Run
<1>6. /\ pc' = NextPaper(run')
      /\ NamesOf(pending') = IF traced THEN {"analysis"} ELSE {}
  BY ToldOne DEF AnalysisSkipped
<1>7. pc = "analysis" /\ pc' \in {"acquisition", "write"}
  BY <1>6 DEF AnalysisSkipped, At, NextPaper
<1>8. run'.analyses = run.analyses
  BY <1>3 DEF m, PaperDone, Measured, TypeOK, Run
<1> QED BY <1>4, <1>6, <1>7, <1>8 DEF Tells, Covers, StageEvent, Stages, EventNames

(* A step that adds no event but leaves the run where it is known to be.   *)
LEMMA LateTells ==
  ASSUME TypeOK, CountAnalyses \/ Synthesis \/ CitationCheck
  PROVE  Tells
<1>1. CASE CountAnalyses
  <2>1. CASE Enough(run)
    <3>1. pc = "write" /\ pc' = "synthesis" /\ pending' = <<>> /\ run' = run
      BY <1>1, <2>1 DEF CountAnalyses, Tell, At
    <3> QED BY <3>1, NoLine DEF Tells, Covers
  <2>2. CASE ~Enough(run)
    <3>1. pc = "write" /\ Handle(run.stage) /\ run' = run
      BY <1>1, <2>2 DEF CountAnalyses, At
    <3>2. /\ pc' = "fail" /\ NamesOf(pending') \subseteq EventNames
          /\ traced => "run.finished" \in NamesOf(pending')
      BY <3>1, ToldFailure
    <3> QED BY <3>1, <3>2 DEF Tells, Covers
  <2> QED BY <2>1, <2>2
<1>2. CASE Synthesis
  <2>1. /\ run'.timed = run.timed \cup {"synthesis"}
        /\ run'.analyses = run.analyses /\ run'.degraded = run.degraded
    BY <1>2, MeasuredType, MeasuredTimes DEF Synthesis, TypeOK, Stages
  <2>2. /\ pc' = "citation_check" /\ Spotless(pending')
        /\ NamesOf(pending') = IF traced THEN {"synthesis"} ELSE {}
    BY <1>2, ToldOne DEF Synthesis
  <2>3. pc = "synthesis"
    BY <1>2 DEF Synthesis, At
  <2> QED BY <2>1, <2>2, <2>3 DEF Tells, Covers, StageEvent, Stages, EventNames
<1>3. CASE CitationCheck
  <2>1. PICK sanitized \in BOOLEAN :
          /\ run' = [run EXCEPT !.degraded = @ \/ sanitized]
          /\ Tell(<<Record("citation_validation", Judged(sanitized))>>, "publishing")
    BY <1>3 DEF CitationCheck
  <2>2. /\ run'.timed = run.timed /\ run'.analyses = run.analyses
        /\ ~run'.degraded => ~run.degraded /\ ~sanitized
    BY <2>1 DEF TypeOK, Run
  <2>3. ~sanitized => Judged(sanitized) = "ok"
    BY DEF Judged
  <2>4. /\ pc' = "publishing" /\ (~sanitized => Spotless(pending'))
        /\ NamesOf(pending') = IF traced THEN {"citation_validation"} ELSE {}
    BY <2>1, <2>3, ToldOne
  <2>5. pc = "citation_check"
    BY <1>3 DEF CitationCheck, At
  <2> QED BY <2>2, <2>4, <2>5 DEF Tells, Covers, EventNames
<1> QED BY <1>1, <1>2, <1>3

LEMMA PublishTells ==
  ASSUME TypeOK, Publish
  PROVE  Tells
<1>1. CASE WritePapers \/ WriteModels \/ ReplaceJson
  <2>1. /\ run' = run /\ pending' = <<>>
        /\ \/ pc = "write_papers" /\ pc' \in {"acquisition", "write"}
           \/ pc = "write" /\ pc' = "write"
           \/ pc = "publishing" /\ pc' = "publish_markdown"
    BY <1>1 DEF WritePapers, WriteModels, ReplaceJson, At, NextPaper
  <2> QED BY <2>1, NoLine DEF Tells, Covers
<1>2. CASE ReplaceMarkdown
  <2> DEFINE first == <<Record("output", "ok")>>
             second == IF run.degraded THEN <<Record("degradation", "degraded")>>
                       ELSE <<>>
             last == <<Record("run.finished", Judged(run.degraded))>>
             all == first \o second \o last
  <2>1. pc = "publish_markdown" /\ run' = run /\ Tell(all, "complete")
    BY <1>2 DEF ReplaceMarkdown, At
  <2>2. /\ first \in Seq(Line) /\ NamesOf(first) = {"output"} /\ Spotless(first)
    BY EventType, OneLine DEF EventNames, Record
  <2>3. /\ second \in Seq(Line)
        /\ NamesOf(second) = IF run.degraded THEN {"degradation"} ELSE {}
        /\ ~run.degraded => Spotless(second)
    <3>1. <<>> \in Seq(Line) /\ Record("degradation", "degraded") \in Line
      BY EventType DEF EventNames
    <3>2. CASE run.degraded
      <4>1. NamesOf(second) = {"degradation"}
        BY <3>2, OneLine DEF Record
      <4> QED BY <3>1, <3>2, <4>1
    <3>3. CASE ~run.degraded
      BY <3>1, <3>3, NoLine
    <3> QED BY <3>2, <3>3
  <2>4. /\ last \in Seq(Line) /\ NamesOf(last) = {"run.finished"}
        /\ ~run.degraded => Spotless(last)
    <3>1. Record("run.finished", Judged(run.degraded)) \in Line
      BY EventType DEF EventNames
    <3>2. ~run.degraded => Judged(run.degraded) = "ok"
      BY DEF Judged
    <3> QED BY <3>1, <3>2, OneLine DEF Record
  <2> HIDE DEF first, second, last
  <2>5. first \o second \in Seq(Line)
    BY <2>2, <2>3, ConcatProperties
  <2>6. /\ NamesOf(all) = NamesOf(first) \cup NamesOf(second) \cup NamesOf(last)
        /\ Spotless(all) <=> Spotless(first) /\ Spotless(second) /\ Spotless(last)
    BY <2>2, <2>3, <2>4, <2>5, JoinedLines
  <2> HIDE DEF all
  <2>7. /\ NamesOf(all) \subseteq EventNames
        /\ {"output", "run.finished"} \subseteq NamesOf(all)
        /\ run.degraded => "degradation" \in NamesOf(all)
        /\ ~run.degraded => Spotless(all)
    BY <2>2, <2>3, <2>4, <2>6 DEF EventNames
  <2>8. /\ pc' = "complete" /\ (traced => pending' = all)
        /\ NamesOf(pending') \subseteq EventNames
        /\ ~run.degraded => Spotless(pending')
    BY <2>1, <2>7, NoLine DEF Tell
  <2> QED BY <2>1, <2>7, <2>8 DEF Tells, Covers
<1> QED BY <1>1, <1>2 DEF Publish

LEMMA RaisesTells ==
  ASSUME TypeOK, StageRaises \/ StepRaises
  PROVE  Tells
<1>1. CASE StageRaises
  <2> DEFINE m == Measured(run, pc)
  <2>1. /\ m \in Run /\ m.timed = run.timed \cup {pc} /\ m.analyses = run.analyses
    BY <1>1, MeasuredType, MeasuredTimes DEF StageRaises, TypeOK
  <2>2. run' = [m EXCEPT !.stage = pc] /\ Handle(pc) /\ pc \in Stages
    BY <1>1 DEF StageRaises
  <2> HIDE DEF m
  <2>3. run'.timed = run.timed \cup {pc} /\ run'.analyses = run.analyses
    BY <2>1, <2>2 DEF Run
  <2>4. /\ pc' = "fail" /\ NamesOf(pending') \subseteq EventNames
        /\ traced => {"run.finished", StageEvent[pc]} \subseteq NamesOf(pending')
    BY <2>2, ToldFailure
  <2> HIDE DEF StageEvent
  <2>5. pc \notin {"create", "open_trace"}
    BY <2>2 DEF Stages
  <2> QED BY <2>3, <2>4, <2>5 DEF Tells, Covers
<1>2. CASE StepRaises
  <2>1. /\ pc' = "fail" /\ NamesOf(pending') \subseteq EventNames
        /\ traced => "run.finished" \in NamesOf(pending')
    BY <1>2, ToldFailure DEF StepRaises
  <2>2. run' = run /\ pc \notin {"create", "open_trace"}
    BY <1>2 DEF StepRaises, Stages, Untimed
  <2> QED BY <2>1, <2>2 DEF Tells, Covers
<1> QED BY <1>1, <1>2

LEMMA StageTells ==
  ASSUME TypeOK, Counted,
         Stage \/ Publish \/ StageRaises \/ StepRaises
  PROVE  Tells
BY SearchTells, AcquisitionTells, ChunkingTells, RetrievalTells, AnalysisTells,
   AnalysisSkippedTells, LateTells, PublishTells, RaisesTells DEF Stage
-----------------------------------------------------------------------------
(* The recorder's side: what the trace holds at each step of the run, up   *)
(* to the manifest that names its hash.                                    *)

(* A run that has nothing degraded has told nothing degraded.              *)
Told ==
  /\ pc \in {"create", "open_trace", "complete"} \cup Stages \cup Untimed =>
       (~run.degraded => Spotless(trace.lines) /\ Spotless(pending))
  /\ pc \in {"finish", "seal", "write_manifest"} =>
       (intent = "completed" => Spotless(trace.lines))
  /\ DegradationIsTold

(* A trace that takes events, one whose span has ended, and one that is    *)
(* sealed.                                                                 *)
Opened(q) ==
  /\ Len(q) >= 1 /\ q[1] = Start
  /\ \A i \in 2..Len(q) : q[i].name \in EventNames
WithEnd(q, status) ==
  /\ Len(q) >= 2 /\ q[1] = Start /\ q[Len(q)] = SpanEnd(status)
  /\ \A i \in 2..(Len(q) - 1) : q[i].name \in EventNames
Closed(q, status) ==
  /\ Len(q) >= 3 /\ q[1] = Start
  /\ q[Len(q) - 1] = SpanEnd(status) /\ q[Len(q)] = Sealed
  /\ \A i \in 2..(Len(q) - 2) : q[i].name \in EventNames

(* What the validator requires of a run that ended so.                     *)
Needs(status, r) ==
  {"run.started", "run.finished"}
  \cup {StageEvent[s] : s \in r.timed}
  \cup (IF status \in Success THEN EventNames \ {"degradation"}
        ELSE IF r.analyses > 0 THEN {"citation_validation"} ELSE {})
  \cup (IF status = "completed_with_degradation" THEN {"degradation"} ELSE {})

Known == NamesOf(trace.lines) \cup NamesOf(pending)

(* The writer at each step.                                                *)
WriterFits ==
  /\ pc \in {"create", "open_trace"} =>
       run = NewRun /\ trace = [lines |-> <<>>, writer |-> None]
  /\ traced =>
       /\ trace.writer = "open" => Opened(trace.lines)
       /\ pc \in Stages \cup Untimed \cup {"complete", "finish"} =>
            trace.writer = "open"
       /\ pc = "fail" =>
            trace.writer = "open" \/ pending # <<>> \/ intent # None
       /\ pc \in {"seal", "write_manifest", "write_failed"} =>
            trace.writer # "open"

(* The events at each step.                                                *)
EventsFit ==
  /\ NamesOf(pending) \subseteq EventNames
  /\ traced =>
       /\ pc \in Stages \cup Untimed \cup {"complete"}
          \/ (pc = "fail" /\ trace.writer = "open") => Covers(pc, run, Known)
       /\ pc \in {"finish", "seal", "write_manifest"} =>
            Needs(intent, run) \subseteq NamesOf(trace.lines)
       /\ pc = "seal" => WithEnd(trace.lines, intent)
       /\ pc = "write_manifest" => Closed(trace.lines, intent)

(* What is so when the manifest that names the hash is there.              *)
EndFits ==
  traced /\ manifest.status \in Terminal /\ manifest.sha256 # <<>> =>
    /\ manifest.sha256 = trace.lines
    /\ Closed(trace.lines, manifest.status)
    /\ RequiredEvents \subseteq NamesOf(trace.lines)

LEMMA OpenedKept ==
  ASSUME NEW q \in Seq(Line), NEW e \in Line, Opened(q)
  PROVE  /\ e.name \in EventNames => Opened(Append(q, e))
         /\ \A status : e = SpanEnd(status) => WithEnd(Append(q, e), status)
<1>1. /\ Len(q) \in Nat /\ Append(q, e) \in Seq(Line)
      /\ Len(Append(q, e)) = Len(q) + 1
      /\ \A i \in 1..Len(q) : Append(q, e)[i] = q[i]
      /\ Append(q, e)[Len(q) + 1] = e
  BY LenProperties, AppendProperties
<1> DEFINE r == Append(q, e)
<1> HIDE DEF r
<1>2. /\ Len(q) \in Nat /\ Len(r) = Len(q) + 1
      /\ \A i \in 1..Len(q) : r[i] = q[i]
      /\ r[Len(q) + 1] = e
  BY <1>1 DEF r
<1>3. e.name \in EventNames => Opened(r)
  BY <1>2 DEF Opened
<1>4. \A status : e = SpanEnd(status) => WithEnd(r, status)
  <2> HIDE DEF SpanEnd
  <2> QED BY <1>2 DEF Opened, WithEnd
<1> QED BY <1>3, <1>4 DEF r

LEMMA EndSealed ==
  ASSUME NEW q \in Seq(Line), NEW status, WithEnd(q, status)
  PROVE  Closed(Append(q, Sealed), status)
<1>1. /\ Len(q) \in Nat
      /\ Len(Append(q, Sealed)) = Len(q) + 1
      /\ \A i \in 1..Len(q) : Append(q, Sealed)[i] = q[i]
      /\ Append(q, Sealed)[Len(q) + 1] = Sealed
  BY RecordType, LenProperties, AppendProperties
<1> DEFINE r == Append(q, Sealed)
<1> HIDE DEF r
<1>2. /\ Len(q) \in Nat /\ Len(r) = Len(q) + 1
      /\ \A i \in 1..Len(q) : r[i] = q[i]
      /\ r[Len(q) + 1] = Sealed
  BY <1>1 DEF r
<1>3. Closed(r, status)
  BY <1>2 DEF WithEnd, Closed
<1> QED BY <1>3 DEF r

(* What a trace event does to the events that are told.                    *)
LEMMA EventKept ==
  ASSUME TypeOK, TraceEvent
  PROVE  /\ Known' = Known
         /\ NamesOf(pending') \subseteq NamesOf(pending)
         /\ Head(pending) \in Line /\ Head(pending).name \in NamesOf(pending)
         /\ Spotless(trace.lines) /\ Spotless(pending)
              => Spotless(trace'.lines) /\ Spotless(pending')
         /\ trace'.lines = Append(trace.lines, Head(pending))
         /\ trace'.writer = "open" /\ trace.writer = "open"
<1>1. /\ trace.lines \in Seq(Line) /\ pending \in Seq(Line) /\ pending # <<>>
      /\ trace' = [trace EXCEPT !.lines = Append(@, Head(pending))]
      /\ pending' = Tail(pending) /\ trace.writer = "open"
  BY DEF TypeOK, TraceEvent
<1>2. /\ Head(pending) \in Line
      /\ NamesOf(pending) = {Head(pending).name} \cup NamesOf(Tail(pending))
      /\ Spotless(pending) <=> Head(pending).status = "ok" /\ Spotless(Tail(pending))
  BY <1>1, FirstLine
<1>3. /\ trace'.lines = Append(trace.lines, Head(pending))
      /\ trace'.writer = "open"
  BY <1>1 DEF TypeOK
<1>4. /\ NamesOf(trace'.lines) = NamesOf(trace.lines) \cup {Head(pending).name}
      /\ Spotless(trace'.lines) <=> Spotless(trace.lines) /\ Head(pending).status = "ok"
  BY <1>1, <1>2, <1>3, AppendedLine
<1> QED BY <1>1, <1>2, <1>3, <1>4 DEF Known

(* The statuses of the lines that no event adds.                           *)
LEMMA RecorderLines ==
  /\ Start.name = "start" /\ Start.status = "ok"
  /\ Sealed.name = "seal" /\ Sealed.status = "ok"
  /\ Torn.name = "torn" /\ Torn.status = "ok"
  /\ SpanEnd("completed").status = "ok"
  /\ \A status : SpanEnd(status).name = "end"
BY DEF Start, Sealed, Torn, SpanEnd, EndStatus, Record

LEMMA ToldNext ==
  ASSUME TypeOK, Counted, Placed, WriterFits, Told, [Next]_vars
  PROVE  Told'
<1>0. None # "completed" /\ "running" # "completed" /\ "failed" # "completed"
  BY DEF None
<1>1. CASE Stage \/ Publish \/ StageRaises \/ StepRaises
  <2>1. /\ UNCHANGED <<intent, manifest, trace>>
        /\ pc \in Stages \cup Untimed
        /\ pc' \in Stages \cup Untimed \cup {"complete", "fail"}
    BY <1>1, StageSteps
  <2>2. pc' # "fail" /\ ~run'.degraded => ~run.degraded /\ Spotless(pending')
    BY <1>1, StageTells DEF Tells
  <2>3. pc' \notin {"finish", "seal", "write_manifest"}
    BY <2>1 DEF Stages, Untimed
  <2>4. DegradationIsTold'
    BY <2>1 DEF Told, DegradationIsTold
  <2>5. "fail" \notin {"create", "open_trace", "complete"} \cup Stages \cup Untimed
    BY DEF Stages, Untimed
  <2> QED BY <2>1, <2>2, <2>3, <2>4, <2>5 DEF Told
<1>2. CASE Create \/ OpenTrace \/ StartRaises
  <2>1. /\ manifest'.status \in {manifest.status, "running"}
        /\ UNCHANGED run /\ pc \in {"create", "open_trace"}
    BY <1>2 DEF Create, OpenTrace, StartRaises, TypeOK, ManifestType
  <2>2. manifest'.status # "completed"
    BY <1>0, <2>1 DEF Placed
  <2>3. CASE Create
    <3>1. pc = "create" /\ pc' = "open_trace" /\ UNCHANGED <<run, trace, pending>>
      BY <2>3 DEF Create
    <3> QED BY <2>2, <3>1 DEF Told, DegradationIsTold
  <2>4. CASE OpenTrace
    <3>1. pc' = "search" /\ Spotless(pending')
      BY <2>4, ToldOne DEF OpenTrace
    <3>2. Spotless(trace'.lines)
      <4>1. trace'.lines = <<Start>> \/ trace'.lines = <<>>
        BY <2>4 DEF OpenTrace, WriterFits
      <4> QED BY <4>1, NoLine, OneLine, RecorderLines
    <3> QED BY <2>2, <3>1, <3>2 DEF Told, DegradationIsTold
  <2>5. CASE StartRaises
    <3>1. pc' = "escaped"
      BY <2>5 DEF StartRaises, Escapes
    <3> QED BY <2>2, <3>1 DEF Told, DegradationIsTold, Stages, Untimed
  <2> QED BY <1>2, <2>3, <2>4, <2>5
<1>3. CASE Tracing
  <2>1. CASE TraceEvent
    <3>1. UNCHANGED <<pc, run, intent, manifest>> /\ manifest.status = "running"
          /\ pending # <<>>
      BY <2>1 DEF TraceEvent
    <3>2. pc \notin {"finish", "seal", "write_manifest"}
      BY <3>1 DEF Placed, Stages, Untimed
    <3>3. Spotless(trace.lines) /\ Spotless(pending)
            => Spotless(trace'.lines) /\ Spotless(pending')
      BY <2>1, EventKept
    <3> QED BY <1>0, <3>1, <3>2, <3>3 DEF Told, DegradationIsTold
  <2>2. CASE TraceEventRaises
    <3>1. pc' \in {"escaped", "fail"} /\ UNCHANGED manifest
          /\ manifest.status = "running"
      BY <2>2 DEF TraceEventRaises, Escapes, Handle, Tell
    <3> QED BY <1>0, <3>1 DEF Told, DegradationIsTold, Stages, Untimed
  <2>3. CASE TraceEventRefused
    <3>1. pc' = "escaped" /\ UNCHANGED <<manifest, trace>>
      BY <2>3 DEF TraceEventRefused, Escapes
    <3> QED BY <3>1 DEF Told, DegradationIsTold, Stages, Untimed
  <2> QED BY <1>3, <2>1, <2>2, <2>3 DEF Tracing
<1>4. CASE Transition
  <2>1. CASE Complete \/ Fail
    <3>1. /\ pc' \in {"finish", "write_manifest"}
          /\ UNCHANGED <<manifest, trace>>
          /\ intent' = "completed" => pc = "complete" /\ ~run.degraded
      BY <2>1 DEF Complete, Fail, At
    <3> QED BY <3>1 DEF Told, DegradationIsTold, Stages, Untimed
  <2>2. CASE FailRaises \/ WriteManifestRaises
    <3>1. pc' \in {"escaped", "fail"} /\ UNCHANGED <<manifest, trace>>
      BY <2>2 DEF FailRaises, WriteManifestRaises, Reraise, Escapes, Handle, Tell, Recorder
    <3> QED BY <3>1 DEF Told, DegradationIsTold, Stages, Untimed
  <2>3. CASE Finish
    <3>1. /\ pc = "finish" /\ pc' = "seal" /\ UNCHANGED <<intent, manifest>>
          /\ trace'.lines = Append(trace.lines, SpanEnd(intent))
          /\ intent \in Terminal /\ manifest.status = "running"
      BY <2>3 DEF Finish, Placed
    <3>2. SpanEnd(intent) \in Line /\ trace.lines \in Seq(Line)
      BY <3>1, SpanEndType DEF TypeOK
    <3>3. intent = "completed" => Spotless(trace'.lines)
      BY <3>1, <3>2, AppendedLine, RecorderLines DEF Told
    <3> QED BY <1>0, <3>1, <3>3 DEF Told, DegradationIsTold, Stages, Untimed
  <2>4. CASE Seal
    <3>1. /\ pc = "seal" /\ pc' = "write_manifest" /\ UNCHANGED <<intent, manifest>>
          /\ trace'.lines = Append(trace.lines, Sealed)
          /\ manifest.status = "running"
      BY <2>4 DEF Seal, Placed, TypeOK
    <3>2. Sealed \in Line /\ trace.lines \in Seq(Line)
      BY RecordType DEF TypeOK
    <3>3. intent = "completed" => Spotless(trace'.lines)
      BY <3>1, <3>2, AppendedLine, RecorderLines DEF Told
    <3> QED BY <1>0, <3>1, <3>3 DEF Told, DegradationIsTold, Stages, Untimed
  <2>5. CASE PersistenceFails
    <3>1. pc' = "write_failed" /\ UNCHANGED manifest /\ manifest.status = "running"
      BY <2>5 DEF PersistenceFails, Placed
    <3> QED BY <1>0, <3>1 DEF Told, DegradationIsTold, Stages, Untimed
  <2>6. CASE WriteManifest
    <3>1. /\ pc = "write_manifest" /\ pc' \in {"raised", "returned"}
          /\ UNCHANGED trace /\ manifest'.status = intent
      BY <2>6 DEF WriteManifest, TerminalManifest, Ended
    <3>2. DegradationIsTold'
      BY <3>1 DEF Told, DegradationIsTold, Spotless
    <3> QED BY <3>1, <3>2 DEF Told, Stages, Untimed
  <2>7. CASE WriteFailedManifest
    <3>1. /\ pc' \in {"escaped", "fail"} /\ UNCHANGED trace
          /\ manifest' = manifest \/ manifest'.status = "failed"
      BY <2>7 DEF WriteFailedManifest, FailedManifest, Ended, Reraise, Escapes, Handle, Tell
    <3>2. DegradationIsTold'
      BY <1>0, <3>1 DEF Told, DegradationIsTold
    <3> QED BY <3>1, <3>2 DEF Told, Stages, Untimed
  <2> QED BY <1>4, <2>1, <2>2, <2>3, <2>4, <2>5, <2>6, <2>7 DEF Transition
<1>5. CASE Dies
  <2>1. pc' = "dead" /\ UNCHANGED <<manifest, trace>>
    BY <1>5 DEF Dies, Recorder
  <2> QED BY <2>1 DEF Told, DegradationIsTold, Stages, Untimed
<1>6. CASE RunIsOver \/ UNCHANGED vars
  BY <1>6 DEF RunIsOver, vars, Told, DegradationIsTold
<1> QED BY <1>1, <1>2, <1>3, <1>4, <1>5, <1>6 DEF Next

LEMMA WriterNext ==
  ASSUME TypeOK, Counted, Placed, WriterFits, EventsFit, [Next]_vars
  PROVE  WriterFits'
<1>1. CASE Stage \/ Publish \/ StageRaises \/ StepRaises
  <2>1. /\ UNCHANGED <<traced, intent, manifest, trace>>
        /\ pc \in Stages \cup Untimed
        /\ pc' \in Stages \cup Untimed \cup {"complete", "fail"}
    BY <1>1, StageSteps
  <2> QED BY <2>1 DEF WriterFits, Stages, Untimed
<1>2. CASE Create \/ OpenTrace \/ StartRaises
  <2>1. CASE Create
    BY <2>1 DEF Create, WriterFits, Stages, Untimed
  <2>2. CASE OpenTrace
    <3>1. pc' = "search" /\ UNCHANGED <<traced, intent>> /\ pc = "open_trace"
      BY <2>2 DEF OpenTrace, Tell
    <3>2. trace'.writer = (IF traced THEN "open" ELSE None)
      BY <2>2 DEF OpenTrace, WriterFits
    <3>3. trace'.writer = "open" => Opened(trace'.lines)
      <4>1. Len(<<Start>>) = 1 /\ <<Start>>[1] = Start
        OBVIOUS
      <4>2. Opened(<<Start>>)
        BY <4>1 DEF Opened
      <4> QED BY <2>2, <3>2, <4>2 DEF OpenTrace, None
    <3> QED BY <3>1, <3>2, <3>3 DEF WriterFits, Stages, Untimed
  <2>3. CASE StartRaises
    BY <2>3 DEF StartRaises, Escapes, WriterFits, Stages, Untimed
  <2> QED BY <1>2, <2>1, <2>2, <2>3
<1>3. CASE Tracing
  <2>1. CASE TraceEvent
    <3>1. UNCHANGED <<pc, run, intent, traced>> /\ pending # <<>>
      BY <2>1 DEF TraceEvent
    <3>2. /\ Head(pending) \in Line /\ Head(pending).name \in EventNames
          /\ trace'.lines = Append(trace.lines, Head(pending))
          /\ trace'.writer = "open" /\ trace.writer = "open"
      BY <2>1, EventKept DEF EventsFit
    <3>3. traced => Opened(trace'.lines)
      BY <3>2, OpenedKept DEF WriterFits, TypeOK
    <3>4. pc \notin {"create", "open_trace", "seal", "write_manifest", "write_failed"}
      BY <3>1 DEF Placed, Stages, Untimed
    <3> QED BY <3>1, <3>2, <3>3, <3>4 DEF WriterFits
  <2>2. CASE TraceEventRaises
    <3>1. /\ trace'.writer = "failed" /\ traced' = traced
          /\ \/ pc' = "escaped"
             \/ pc' = "fail" /\ (traced => pending' # <<>>)
      BY <2>2, ToldFailure DEF TraceEventRaises, Escapes
    <3> QED BY <3>1 DEF WriterFits, Stages, Untimed
  <2>3. CASE TraceEventRefused
    BY <2>3 DEF TraceEventRefused, Escapes, WriterFits, Stages, Untimed
  <2> QED BY <1>3, <2>1, <2>2, <2>3 DEF Tracing
<1>4. CASE Transition
  <2>1. CASE Complete \/ Fail
    <3>1. /\ UNCHANGED <<traced, trace, pending>> /\ pc \in {"complete", "fail"}
          /\ pc' = IF traced THEN "finish" ELSE "write_manifest"
          /\ pc = "fail" => pending = <<>> /\ intent = None
      BY <2>1 DEF Complete, Fail, MayFail, At
    <3> QED BY <3>1 DEF WriterFits, Stages, Untimed
  <2>2. CASE FailRaises
    BY <2>2 DEF FailRaises, Escapes, Recorder, WriterFits, Stages, Untimed
  <2>3. CASE Finish \/ Seal \/ PersistenceFails
    <3>1. /\ UNCHANGED <<traced, intent>> /\ pc' \in {"seal", "write_manifest", "write_failed"}
          /\ pc \in {"finish", "seal"}
          /\ pc = "finish" \/ PersistenceFails => trace'.writer \in {"finished", "failed"}
          /\ Seal => trace'.writer = trace.writer
      BY <2>3 DEF Finish, Seal, PersistenceFails, TypeOK
    <3>2. traced => trace'.writer # "open"
      BY <2>3, <3>1 DEF WriterFits, Finish, Seal
    <3> QED BY <3>1, <3>2 DEF WriterFits, Stages, Untimed
  <2>4. CASE WriteManifest
    BY <2>4 DEF WriteManifest, WriterFits, Stages, Untimed
  <2>5. CASE WriteManifestRaises \/ WriteFailedManifest
    <3>1. /\ UNCHANGED <<traced, intent, trace>> /\ intent \in Terminal
          /\ pc' \in {"escaped", "fail"}
      BY <2>5 DEF WriteManifestRaises, WriteFailedManifest, Reraise, Escapes, Handle,
         Tell, Recorder, Placed
    <3> QED BY <3>1 DEF WriterFits, Stages, Untimed, Terminal, Success, None
  <2> QED BY <1>4, <2>1, <2>2, <2>3, <2>4, <2>5 DEF Transition
<1>5. CASE Dies
  BY <1>5 DEF Dies, Recorder, WriterFits, Stages, Untimed
<1>6. CASE RunIsOver \/ UNCHANGED vars
  BY <1>6 DEF RunIsOver, vars, WriterFits
<1> QED BY <1>1, <1>2, <1>3, <1>4, <1>5, <1>6 DEF Next

LEMMA StageWaits ==
  ASSUME Stage \/ Publish \/ StageRaises \/ StepRaises
  PROVE  pending = <<>>
BY DEF Stage, Search, Acquisition, Chunking, Retrieval, Analysis, AnalysisSkipped,
   CountAnalyses, Synthesis, CitationCheck, Publish, WritePapers, WriteModels,
   ReplaceJson, ReplaceMarkdown, StageRaises, StepRaises, At

(* What was told up to the end is what the validator will require.         *)
LEMMA CompleteNeeds ==
  ASSUME NEW told, TypeOK, Earned, pc = "complete", Covers(pc, run, told)
  PROVE  /\ run.degraded => Needs("completed_with_degradation", run) \subseteq told
         /\ ~run.degraded => Needs("completed", run) \subseteq told
<1>1. run.analyses > 0
  BY SurveyAssumption DEF Earned, Enough, TypeOK, Run
<1>2. EventNames \ {"degradation"} \subseteq told
  BY <1>1 DEF Covers, EventNames
<1>3. \A s \in run.timed : StageEvent[s] \in told
  BY DEF Covers
<1>4. "run.started" \in told /\ "run.finished" \in told
      /\ (run.degraded => "degradation" \in told)
  BY DEF Covers
<1> QED BY <1>2, <1>3, <1>4 DEF Needs, Success

LEMMA FailNeeds ==
  ASSUME NEW told, pc = "fail", Covers(pc, run, told)
  PROVE  Needs("failed", run) \subseteq told
<1>1. run.analyses > 0 => "citation_validation" \in told
  BY DEF Covers
<1>2. \A s \in run.timed : StageEvent[s] \in told
  BY DEF Covers
<1>3. "run.started" \in told /\ "run.finished" \in told
  BY DEF Covers
<1> QED BY <1>1, <1>2, <1>3 DEF Needs, Success

LEMMA ReraiseTells ==
  ASSUME Reraise
  PROVE  pc' \in {"escaped", "fail"} /\ NamesOf(pending') \subseteq EventNames
BY ToldFailure, NoLine DEF Reraise, Escapes

LEMMA EventsNext ==
  ASSUME TypeOK, Counted, Placed, Earned, WriterFits, EventsFit, [Next]_vars
  PROVE  EventsFit'
<1>1. CASE Stage \/ Publish \/ StageRaises \/ StepRaises
  <2>1. /\ UNCHANGED <<traced, intent, manifest, trace>>
        /\ pc \in Stages \cup Untimed
        /\ pc' \in Stages \cup Untimed \cup {"complete", "fail"}
    BY <1>1, StageSteps
  <2>2. pc' \notin {"finish", "seal", "write_manifest"}
    BY <2>1 DEF Stages, Untimed
  <2>3. NamesOf(pending') \subseteq EventNames
    BY <1>1, StageTells DEF Tells
  <2>4. ASSUME traced
        PROVE  Covers(pc', run', Known')
    <3>1. Covers(pc, run, Known)
      BY <2>1, <2>4 DEF EventsFit
    <3>2. Covers(pc', run', Known \cup NamesOf(pending'))
      BY <1>1, <2>4, <3>1, StageTells DEF Tells
    <3>3. Known \cup NamesOf(pending') = Known'
      BY <1>1, <2>1, StageWaits, NoLine DEF Known
    <3> QED BY <3>2, <3>3
  <2> QED BY <2>1, <2>2, <2>3, <2>4 DEF EventsFit
<1>2. CASE Create \/ OpenTrace \/ StartRaises
  <2>1. CASE Create
    <3>1. pc' = "open_trace" /\ UNCHANGED pending
      BY <2>1 DEF Create
    <3> QED BY <3>1 DEF EventsFit, Stages, Untimed
  <2>2. CASE OpenTrace
    <3>1. /\ pc' = "search"
          /\ NamesOf(pending') = IF traced THEN {"run.started"} ELSE {}
      BY <2>2, ToldOne DEF OpenTrace
    <3>2. run' = NewRun /\ traced' = traced
      BY <2>2 DEF OpenTrace, WriterFits
    <3>3. traced => Covers(pc', run', Known')
      BY <3>1, <3>2 DEF Covers, NewRun, Known
    <3> QED BY <3>1, <3>2, <3>3 DEF EventsFit, EventNames
  <2>3. CASE StartRaises
    BY <2>3, NoLine DEF StartRaises, Escapes, EventsFit, Stages, Untimed
  <2> QED BY <1>2, <2>1, <2>2, <2>3
<1>3. CASE Tracing
  <2>1. CASE TraceEvent
    <3>1. /\ UNCHANGED <<traced, pc, run>> /\ Known' = Known
          /\ NamesOf(pending') \subseteq NamesOf(pending)
          /\ trace'.writer = "open" /\ trace.writer = "open" /\ pending # <<>>
      BY <2>1, EventKept DEF TraceEvent
    <3>2. pc \in Stages \cup Untimed \cup {"complete", "fail"}
      BY <3>1 DEF Placed
    <3>3. pc \notin {"finish", "seal", "write_manifest"}
      BY <3>2 DEF Stages, Untimed
    <3> QED BY <3>1, <3>2, <3>3 DEF EventsFit
  <2>2. CASE TraceEventRaises
    <3>1. /\ trace'.writer = "failed" /\ pc' \in {"escaped", "fail"}
          /\ NamesOf(pending') \subseteq EventNames
      BY <2>2, ToldFailure, NoLine DEF TraceEventRaises, Escapes
    <3> QED BY <3>1 DEF EventsFit, Stages, Untimed
  <2>3. CASE TraceEventRefused
    BY <2>3, NoLine DEF TraceEventRefused, Escapes, EventsFit, Stages, Untimed
  <2> QED BY <1>3, <2>1, <2>2, <2>3 DEF Tracing
<1>4. CASE Transition
  <2>1. CASE Complete
    <3>1. /\ pc = "complete" /\ pending = <<>> /\ UNCHANGED <<traced, run, pending, trace>>
          /\ pc' = IF traced THEN "finish" ELSE "write_manifest"
          /\ intent' = IF run.degraded THEN "completed_with_degradation"
                       ELSE "completed"
      BY <2>1 DEF Complete, At
    <3>2. Known = NamesOf(trace.lines)
      BY <3>1, NoLine DEF Known
    <3>3. traced => Needs(intent', run) \subseteq NamesOf(trace.lines)
      BY <3>1, <3>2, CompleteNeeds DEF EventsFit
    <3>4. Needs(intent', run') = Needs(intent', run)
      BY <3>1
    <3> HIDE DEF Needs
    <3> QED BY <3>1, <3>3, <3>4 DEF EventsFit, Stages, Untimed
  <2>2. CASE Fail
    <3>1. /\ pc = "fail" /\ pending = <<>> /\ UNCHANGED <<traced, run, pending, trace>>
          /\ pc' = IF traced THEN "finish" ELSE "write_manifest"
          /\ intent = None /\ intent' = "failed"
      BY <2>2 DEF Fail, MayFail, At
    <3>2. Known = NamesOf(trace.lines)
      BY <3>1, NoLine DEF Known
    <3>3. traced => trace.writer = "open"
      BY <3>1 DEF WriterFits
    <3>4. traced => Needs(intent', run) \subseteq NamesOf(trace.lines)
      BY <3>1, <3>2, <3>3, FailNeeds DEF EventsFit
    <3> QED BY <3>1, <3>4 DEF EventsFit, Stages, Untimed
  <2>3. CASE FailRaises
    BY <2>3, NoLine DEF FailRaises, Escapes, EventsFit, Stages, Untimed
  <2>4. CASE Finish
    <3>1. /\ pc = "finish" /\ pc' = "seal" /\ UNCHANGED <<traced, run, pending, intent>>
          /\ trace'.lines = Append(trace.lines, SpanEnd(intent))
          /\ intent \in Terminal
      BY <2>4 DEF Finish, Placed
    <3>2. SpanEnd(intent) \in Line /\ trace.lines \in Seq(Line)
      BY <3>1, SpanEndType DEF TypeOK
    <3>3. NamesOf(trace.lines) \subseteq NamesOf(trace'.lines)
      BY <3>1, <3>2, AppendedLine
    <3>4. traced => WithEnd(trace'.lines, intent)
      BY <3>1, <3>2, OpenedKept DEF WriterFits
    <3> QED BY <3>1, <3>3, <3>4 DEF EventsFit, Stages, Untimed
  <2>5. CASE Seal
    <3>1. /\ pc = "seal" /\ pc' = "write_manifest"
          /\ UNCHANGED <<traced, run, pending, intent>>
          /\ trace'.lines = Append(trace.lines, Sealed)
      BY <2>5 DEF Seal, TypeOK
    <3>2. Sealed \in Line /\ trace.lines \in Seq(Line)
      BY RecordType DEF TypeOK
    <3>3. NamesOf(trace.lines) \subseteq NamesOf(trace'.lines)
      BY <3>1, <3>2, AppendedLine
    <3>4. traced => Closed(trace'.lines, intent)
      BY <3>1, <3>2, EndSealed DEF EventsFit
    <3> QED BY <3>1, <3>3, <3>4 DEF EventsFit, Stages, Untimed
  <2>6. CASE PersistenceFails
    BY <2>6 DEF PersistenceFails, EventsFit, Stages, Untimed
  <2>7. CASE WriteManifest
    BY <2>7 DEF WriteManifest, EventsFit, Stages, Untimed
  <2>8. CASE WriteManifestRaises \/ WriteFailedManifest
    <3>1. /\ UNCHANGED <<traced, trace>> /\ pc \in {"write_manifest", "write_failed"}
          /\ pc' \in {"escaped", "fail"} /\ NamesOf(pending') \subseteq EventNames
      BY <2>8, ReraiseTells DEF WriteManifestRaises, WriteFailedManifest, Recorder
    <3> QED BY <3>1 DEF WriterFits, EventsFit, Stages, Untimed
  <2> QED BY <1>4, <2>1, <2>2, <2>3, <2>4, <2>5, <2>6, <2>7, <2>8 DEF Transition
<1>5. CASE Dies
  BY <1>5, NoLine DEF Dies, Recorder, EventsFit, Stages, Untimed
<1>6. CASE RunIsOver \/ UNCHANGED vars
  BY <1>6 DEF RunIsOver, vars, EventsFit, Known
<1> QED BY <1>1, <1>2, <1>3, <1>4, <1>5, <1>6 DEF Next

(* Two steps only publish an end.                                          *)
LEMMA EndWritten ==
  ASSUME TypeOK, Placed, [Next]_vars,
         manifest.status \notin Terminal, manifest'.status \in Terminal
  PROVE  WriteManifest \/ WriteFailedManifest
<1> SUFFICES ASSUME ~WriteManifest, ~WriteFailedManifest
             PROVE  FALSE
  OBVIOUS
<1>1. UNCHANGED manifest \/ Create
  BY StageSteps DEF Next, OpenTrace, StartRaises, Tracing, TraceEvent,
     TraceEventRaises, TraceEventRefused, Transition, Complete, Fail, FailRaises,
     Finish, Seal, PersistenceFails, WriteManifestRaises, Dies, RunIsOver, vars,
     Recorder
<1>2. ~Create
  BY DEF Create, TypeOK, ManifestType, Terminal, Success
<1> QED BY <1>1, <1>2

LEMMA EndNext ==
  ASSUME TypeOK, Placed, EventsFit, EndFits, [Next]_vars
  PROVE  EndFits'
<1>1. CASE manifest.status \in Terminal
  BY <1>1, EndKept DEF EndFits, RequiredEvents
<1>2. CASE manifest.status \notin Terminal /\ manifest'.status \in Terminal
  <2>1. CASE WriteManifest
    <3>1. /\ pc = "write_manifest" /\ UNCHANGED <<traced, trace>>
          /\ manifest'.status = intent /\ manifest'.timed = run.timed
          /\ manifest'.analyses = run.analyses
          /\ manifest'.sha256 = IF traced THEN trace.lines ELSE <<>>
      BY <2>1 DEF WriteManifest, TerminalManifest, Ended, Hash
    <3>2. RequiredEvents' = Needs(intent, run)
      BY <3>1 DEF RequiredEvents, Needs
    <3>3. traced => /\ Needs(intent, run) \subseteq NamesOf(trace.lines)
                    /\ Closed(trace.lines, intent)
      BY <3>1 DEF EventsFit
    <3> HIDE DEF RequiredEvents, Needs
    <3> QED BY <3>1, <3>2, <3>3 DEF EndFits
  <2>2. CASE WriteFailedManifest
    <3>1. manifest'.sha256 = <<>>
      BY <1>2, <2>2 DEF WriteFailedManifest, FailedManifest, Ended
    <3> QED BY <3>1 DEF EndFits
  <2> QED BY <1>2, <2>1, <2>2, EndWritten
<1>3. CASE manifest'.status \notin Terminal
  BY <1>3 DEF EndFits
<1> QED BY <1>1, <1>2, <1>3

LEMMA ClosedIsValid ==
  ASSUME TypeOK, traced, manifest.sha256 = trace.lines,
         Closed(trace.lines, manifest.status),
         RequiredEvents \subseteq NamesOf(trace.lines)
  PROVE  Findings = {}
<1> DEFINE q == trace.lines
           n == Len(trace.lines)
<1>1. /\ n \in Nat /\ n >= 3 /\ DOMAIN q = 1..n
      /\ q[1] = Start /\ q[n - 1] = SpanEnd(manifest.status) /\ q[n] = Sealed
      /\ \A i \in 2..(n - 2) : q[i].name \in EventNames
  BY LenProperties DEF TypeOK, Closed
<1>2. \A i \in DOMAIN q : i = 1 \/ i \in 2..(n - 2) \/ i = n - 1 \/ i = n
  BY <1>1
<1> HIDE DEF q, n
<1>3. {"start", "end", "seal", "torn"} \cap EventNames = {}
  BY DEF EventNames
<1>4. \A i \in DOMAIN q : /\ q[i].name = "start" <=> i = 1
                          /\ q[i].name = "end" <=> i = n - 1
                          /\ q[i].name = "seal" <=> i = n
                          /\ q[i].name # "torn"
  <2> TAKE i \in DOMAIN q
  <2>1. CASE i = 1
    BY <1>1, <2>1, RecorderLines
  <2>2. CASE i \in 2..(n - 2)
    BY <1>1, <1>3, <2>2
  <2>3. CASE i = n - 1
    BY <1>1, <2>3, RecorderLines
  <2>4. CASE i = n
    BY <1>1, <2>4, RecorderLines
  <2> QED BY <1>2, <2>1, <2>2, <2>3, <2>4
<1>5. 1 \in DOMAIN q /\ n - 1 \in DOMAIN q /\ n \in DOMAIN q
  BY <1>1
<1>6. \A name : Lines(name) = {i \in DOMAIN q : q[i].name = name}
  BY DEF Lines, q
<1>7. /\ Lines("torn") = {} /\ Lines("seal") = {n}
      /\ Lines("start") = {1} /\ Lines("end") = {n - 1}
  BY <1>4, <1>5, <1>6
<1>8. Cardinality(Lines("start")) = 1 /\ Cardinality(Lines("end")) = 1
  BY <1>7, FS_Singleton
<1>9. IsSealed
  <2>1. q # <<>> /\ q[Len(q)] = Sealed
    BY <1>1 DEF q, n
  <2> QED BY <2>1 DEF IsSealed, q
<1>10. \A i \in Lines("end") : q[i] = SpanEnd(manifest.status)
  BY <1>1, <1>7
<1>11. RequiredEvents \subseteq Names
  BY DEF Names, NamesOf
<1>12. \A code \in DOMAIN Found : ~Found[code]
  <2>1. /\ ~Found.trace_integrity_invalid /\ ~Found.span_start_count_invalid
        /\ ~Found.span_end_count_invalid /\ ~Found.trace_not_sealed
        /\ ~Found.full_file_hash_mismatch /\ ~Found.terminal_status_mismatch
        /\ ~Found.required_event_missing
    BY <1>7, <1>8, <1>9, <1>10, <1>11 DEF Found, Hash, q, n
  <2>2. DOMAIN Found = {"trace_integrity_invalid", "span_start_count_invalid",
          "span_end_count_invalid", "trace_not_sealed", "full_file_hash_mismatch",
          "terminal_status_mismatch", "required_event_missing"}
    BY DEF Found
  <2> QED BY <2>1, <2>2
<1> QED BY <1>12 DEF Findings

(* A run that calls itself completed has no degraded step in its trace.    *)
THEOREM DegradationsAreTold == Spec => []DegradationIsTold
<1> DEFINE I == TypeOK /\ Counted /\ Placed /\ Earned /\ WriterFits /\ EventsFit /\ Told
<1>1. Init => I
  <2> SUFFICES ASSUME Init PROVE I
    OBVIOUS
  <2>1. WriterFits /\ EventsFit
    BY NoLine DEF Init, WriterFits, EventsFit, Stages, Untimed, None
  <2>2. Told
    BY NoLine DEF Init, Told, DegradationIsTold, None
  <2> QED BY <2>1, <2>2, InitInv, EarnedInit
<1>2. I /\ [Next]_vars => I'
  BY NextInv, EarnedNext, WriterNext, EventsNext, ToldNext
<1>3. I => DegradationIsTold
  BY DEF Told
<1> QED BY <1>1, <1>2, <1>3, PTL DEF Spec

(* The validator finds nothing wrong with the directory of a run whose     *)
(* terminal manifest has a hash.                                           *)
THEOREM TracesValidate == Spec => []TraceValidates
<1> DEFINE I == TypeOK /\ Counted /\ Placed /\ Earned /\ WriterFits /\ EventsFit /\ EndFits
<1>1. Init => I
  <2> SUFFICES ASSUME Init PROVE I
    OBVIOUS
  <2>1. WriterFits /\ EventsFit /\ EndFits
    BY NoLine DEF Init, WriterFits, EventsFit, EndFits, Stages, Untimed, Terminal,
       Success, None
  <2> QED BY <2>1, InitInv, EarnedInit
<1>2. I /\ [Next]_vars => I'
  BY NextInv, EarnedNext, WriterNext, EventsNext, EndNext
<1>3. I => TraceValidates
  <2>1. ~traced => Findings = {}
    BY DEF Findings
  <2> QED BY <2>1, ClosedIsValid DEF EndFits, TraceValidates
<1> QED BY <1>1, <1>2, <1>3, PTL DEF Spec
=============================================================================
