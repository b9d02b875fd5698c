SPECIFICATION Spec
CONSTANTS
  login = login  app = app  admin = admin  dba = dba
  user = user  tenant = tenant  alice = alice  bob = bob
  Unset = Unset
  Roles = {login, app, admin, dba}
  LoginRole = login
  Gucs = {user, tenant}
  GucValues = {alice, bob}
  Profiles <- Everything
  Catalogs <- AllTargets
  Hazards = {"error", "late", "privilege", "encode", "lost", "stall"}
INVARIANTS
  PassIsEarned
  AttacksRunAsAdversary
  IInv
