SPECIFICATION Spec
CONSTANTS
  StepBudgets = {7, 11}
  MaxToolCalls = 2
  MaxTokens = 2
  RecoveryLimit = 1
  MaxReplays = 1
  RunId = "run:1"
  RunIds <- McRunIds
  ReportIds <- McReportIds
  Outcomes <- McOutcomes
INVARIANTS
  TypeOK
  NeverUnreadable
  RepeatsOnlyTheFailedStage
  CompletedIsEarned
