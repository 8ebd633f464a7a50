SPECIFICATION Spec
CONSTANT
  MaxPapers = 3
INVARIANTS
  TypeOK
  TraceValidates
  DegradationIsTold
PROPERTIES
  ImplementsDirectory
