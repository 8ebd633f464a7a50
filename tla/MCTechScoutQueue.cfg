SPECIFICATION Spec
CONSTANTS
  Runs = {r1, r2, r3}
  Processes = {p1, p2}
  Capacity = 2
  MaxCrashes = 1
  MaxFaults = 2
  JoinTimesOut = TRUE
CHECK_DEADLOCK FALSE
SYMMETRY Symmetry
INVARIANTS
  TypeOK
  WorkerOwnsItsRow
  RowAgrees
PROPERTY
  ImplementsLifecycle
