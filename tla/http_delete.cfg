SPECIFICATION Spec
CONSTANTS
  Faults = {}
  Probes <- OneDelete
INVARIANTS
  DeletesAreSeen
