SPECIFICATION Spec
CONSTANTS
  Roles = {"login"}
  LoginRole = "login"
  Gucs = {}
  GucValues = {}
  Unset = Unset
  Lines <- EveryLine
  Reports <- EveryReport
  MaxInvocations = 2
INVARIANTS
  ConsentGiven
  ExitTellsTheTruth
  ClaimsMatchVerdict
PROPERTIES
  OnlyOutputIsWritten
CHECK_DEADLOCK FALSE
