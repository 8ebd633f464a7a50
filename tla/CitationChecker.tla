-------------------------- MODULE CitationChecker --------------------------
(***************************************************************************)
(* The citation checker of the survey (evidence/citation_checker.py): what *)
(* is kept of the references that a model wrote under findings and claims. *)
(* SurveyRun's steps Analysis and CitationCheck, and the check of a        *)
(* generated draft in LiveGeneration, choose among the results that these  *)
(* functions may have; here the functions themselves are written down.     *)
(*                                                                         *)
(* An evidence index is a function from evidence identifiers to papers     *)
(* (_evidence_index refuses a second item of one identifier). A finding or *)
(* claim is its sequence of references; its text, and the order in which   *)
(* retained references are listed, are left out.                           *)
(***************************************************************************)
EXTENDS Integers, Sequences, FiniteSets

CONSTANTS Mine,      \* evidence identifiers with the prefix of this run
          AnyPaper   \* the scope of a claim of the report, which is no paper

Categories == {"contributions", "methods", "experiments", "results", "limitations"}
Sections == {"tldr_claims", "method_taxonomy", "comparisons", "key_findings",
             "limitations", "open_questions"}
Critical == {"tldr_claims", "key_findings"}
-----------------------------------------------------------------------------
(* References.                                                             *)

(* The reference at i names an item of this run, of the paper, for the     *)
(* first time. An identifier seen before was retained before: whatever     *)
(* else is asked of it is the same at each of its places.                  *)
Valid(refs, i, index, paper) ==
  /\ refs[i] \in Mine
  /\ refs[i] \in DOMAIN index
  /\ paper = AnyPaper \/ index[refs[i]] = paper
  /\ \A j \in 1..i - 1 : refs[j] # refs[i]

Places(refs, index, paper) == {i \in DOMAIN refs : Valid(refs, i, index, paper)}
Retained(refs, index, paper) == {refs[i] : i \in Places(refs, index, paper)}
Removed(refs, index, paper) == DOMAIN refs \ Places(refs, index, paper)

(* _sanitize_references.                                                   *)
SupportStatus(refs, index, paper) ==
  IF Retained(refs, index, paper) = {} THEN "unsupported"
  ELSE IF Removed(refs, index, paper) # {} THEN "weakly_supported"
  ELSE "supported"

Checked(refs, index, paper) ==
  [refs |-> Retained(refs, index, paper),
   status |-> SupportStatus(refs, index, paper)]
-----------------------------------------------------------------------------
(* check_paper_analysis: an analysis is a sequence of findings under each  *)
(* category; findings without a retained reference are dropped.            *)

KeptFindings(findings, index, paper) ==
  {k \in DOMAIN findings : Retained(findings[k], index, paper) # {}}

CheckedFindings(findings, index, paper) ==
  [k \in KeptFindings(findings, index, paper) |-> Checked(findings[k], index, paper)]

CheckPaperAnalysis(analysis, index, paper) ==
  [c \in Categories |-> CheckedFindings(analysis[c], index, paper)]

HasSupportedFinding(checked) ==
  \E c \in Categories : \E k \in DOMAIN checked[c] : checked[c][k].status = "supported"

(* sanitized_reference_count or dropped_finding_count is not zero, and the *)
(* pipeline calls the analysis degraded.                                   *)
AnalysisSanitized(analysis, index, paper) ==
  \E c \in Categories : \E k \in DOMAIN analysis[c] :
    \/ Removed(analysis[c][k], index, paper) # {}
    \/ k \notin KeptFindings(analysis[c], index, paper)
-----------------------------------------------------------------------------
(* check_survey_draft: a draft is a sequence of claims under each section; *)
(* a critical claim that is not fully supported is rejected, any other     *)
(* claim stays, whatever is left of its references.                        *)

Rejects(section, claim) == section \in Critical /\ claim.status # "supported"

RejectedClaims(draft, index, s) ==
  {k \in DOMAIN draft[s] : Rejects(s, Checked(draft[s][k], index, AnyPaper))}

ClaimsAt(draft, index, s, places) ==
  [k \in places |-> Checked(draft[s][k], index, AnyPaper)]

CheckSurveyDraft(draft, index) ==
  [claims |-> [s \in Sections |->
     ClaimsAt(draft, index, s, DOMAIN draft[s] \ RejectedClaims(draft, index, s))],
   rejected |-> [s \in Critical |->
     ClaimsAt(draft, index, s, RejectedClaims(draft, index, s))]]

(* What the pipeline counts as sanitized claims of the report.             *)
DraftSanitized(report) ==
  \/ \E s \in Critical : DOMAIN report.rejected[s] # {}
  \/ \E s \in Sections \ Critical : \E k \in DOMAIN report.claims[s] :
       report.claims[s][k].status # "supported"

(* require_publishable_report.                                             *)
Publishable(report) ==
  \A s \in Critical : \E k \in DOMAIN report.claims[s] :
    report.claims[s][k].status = "supported"

(* check_claims, of the legacy report: all references or none, and the     *)
(* same one may be given twice.                                            *)
ClaimSupported(refs, index) ==
  /\ refs # <<>>
  /\ \A i \in DOMAIN refs : refs[i] \in Mine /\ refs[i] \in DOMAIN index
=============================================================================
