SPECIFICATION Spec
CONSTANTS
  a1 = a1
  a2 = a2
  a3 = a3
  v1 = v1
  v2 = v2
  Inputs <- Ordered
  Matched = {a2}
  Verdicts = {"supported", "unsupported"}
  Versions = {v1, v2}
  MaxAttempts = 2
  MaxSends = 4
  MaxUnits = 7
  Ceiling = 2
  MaxLaunches = 4
SYMMETRY Symmetric
CHECK_DEADLOCK FALSE
INVARIANTS TypeOK SendsCoverBill SealedIsEarned
PROPERTIES DecisionsAreFinal
