SPECIFICATION Spec
CONSTANTS
  N = 3
INVARIANTS
  EveryErrorOnce
  NothingGoesOn
  StartTogether
PROPERTIES
  ReturnsIfProbesDo
