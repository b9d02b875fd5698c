SPECIFICATION Spec
CONSTANTS
  login = login  app = app  admin = admin  dba = dba
  Unset = Unset
  Roles = {login, app, admin, dba}
  LoginRole = login
  Gucs = {}
  GucValues = {}
  Profiles <- SomeProfiles
  Catalogs <- SomeCatalogs
  Configs <- SomeConfigs
  MaxChanges = 2
INVARIANTS
  OneStep
  PassSawEverything
  FindingsWereTrue
  UnansweredNeverPasses
