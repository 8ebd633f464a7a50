SPECIFICATION LiveSpec
CONSTANTS
  StepBudgets = {16}
  MaxToolCalls = 12
  MaxTokens = 30000
  RecoveryLimit = 1
  MaxReplays = 1
  RunId = "run:1"
  RunIds <- McRunIds
  ReportIds <- McReportIds
  Outcomes <- McOutcomes
  Candidates <- McCandidates
  Reviewed <- McReviewed
  Runnable <- McRunnable
  Covered <- McCovered
  Requests <- McRequests
  TheReport = "report:1"
  MaxCrashes = 1
  MaxFaults = 1
INVARIANTS
  RunTypeOK
  MemoryFitsCheckpoint
  RecommendationIsVerified
  EndAgrees
PROPERTIES
  RunEnds
