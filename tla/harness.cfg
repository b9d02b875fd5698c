SPECIFICATION Spec
CONSTANTS
  N = 3
  Faults = {"lost", "cancel", "ends"}
INVARIANTS
  CleanReturn
  LeftOpenIsReported
PROPERTIES
  ReturnsIfOperationsDo
  KeepsBatch
