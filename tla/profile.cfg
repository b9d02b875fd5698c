SPECIFICATION Spec
CONSTANTS
  Unset = Unset
  Null = Null
  Roles = {"app"}
  Gucs = {"app.user"}
  GucValues = {"alice", "bob"}
  Identifiers <- GoodNames
  SettingNames <- GoodSettings
  Documents <- SomeDocuments
INVARIANTS
  AcceptedIsProfile
  StatementsBuild
  AttacksPickOneFixture
  RejectedForReason
