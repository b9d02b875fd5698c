SPECIFICATION Spec
CONSTANTS
  login = login  app = app  admin = admin  dba = dba
  user = user  tenant = tenant  alice = alice  bob = bob
  Unset = Unset
  Roles = {login, app, admin, dba}
  LoginRole = login
  Gucs = {user, tenant}
  GucValues = {alice, bob}
  Profiles <- Covering
  Catalogs <- AllTargets
  Hazards = {"error", "lost", "stall"}
INVARIANTS
  TypeOK
  PassMeansUnexposed
  FailIsReal
  EvidenceComplete
  DatabaseUntouched
  LostNeverConcludes
PROPERTIES
  OnlyAuthorisedWrites
  KeepsPromise
  ReturnsUnlessHung
