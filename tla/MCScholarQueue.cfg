SPECIFICATION FairSpec
CONSTANTS
  Runs = {r1, r2}
  Processes = {p1, p2}
  Capacity = 2
  Reports <- McReports
  MaxCrashes = 1
  MaxFaults = 1
  MaxReadFaults = 1
  JoinTimesOut = FALSE
CHECK_DEADLOCK FALSE
INVARIANTS
  TypeOK
  RowAgrees
PROPERTIES
  MovesForward
  UnfinishedRunsEnd
