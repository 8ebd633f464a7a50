SPECIFICATION FairSpec
CONSTANTS
  Runs = {r1, r2}
  Processes = {p1, p2}
  Capacity = 2
  MaxCrashes = 1
  MaxFaults = 1
  JoinTimesOut = FALSE
CHECK_DEADLOCK FALSE
PROPERTY
  UnfinishedRunsEnd
