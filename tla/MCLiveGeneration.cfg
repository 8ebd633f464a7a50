SPECIFICATION Spec
CONSTANTS
  l1 = l1
  l2 = l2
  e1 = e1
  e2 = e2
  c1 = c1
  c2 = c2
  Launchers = {l1, l2}
  Executions = {e1, e2}
  Cases = {c1, c2}
  ExecutionOf <- RunsExecution
  Selected <- OrderedCases
  v1 = v1
  v2 = v2
  v3 = v3
  Authorities <- Versions
  Ceiling = 2
  Replies <- Behaviours
  MaxUnits = 5
  MaxSends = 3
  MaxSendsPerCase <- CaseBound
  MaxLaunches <- LaunchBound
SYMMETRY Symmetric
INVARIANTS TypeOK LedgerCoversBill SealedIsWhole
PROPERTIES PaidWorkIsKept
CHECK_DEADLOCK FALSE
