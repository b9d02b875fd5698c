SPECIFICATION Spec
CONSTANTS
  Faults = {"unsent", "lost", "moved", "refused", "error", "garbled"}
  Probes <- SomeProbes
INVARIANTS
  DenialIsEarned
  EffectsAreSeen
  AccessIsReal
  PublishedIsReceived
