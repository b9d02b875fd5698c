SPECIFICATION Spec
CONSTANTS
  Inputs <- EveryInput
INVARIANTS
  DependenciesFirst
  PlanOrError
  Deterministic
PROPERTIES
  Terminates
