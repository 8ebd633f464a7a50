SPECIFICATION Spec
CONSTANTS
  Asked <- McAsked
  Runnable <- McRunnable
  Networked = TRUE
  Limit = 2
  RemoveLimit = 1
  FullBudget = 6
  StageBudget = 3
  Deadline = 9
  MaxVisits = 2
  Exits = {"zero", "conflict"}
  MaxCalls = 4
  MaxKills = 1
  MaxFaults = 1
CHECK_DEADLOCK FALSE
INVARIANTS
  TypeOK
  PassedIsEarned
  RunningIsAttended
  WaitsWithinDeadline
