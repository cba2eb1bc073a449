\* Two cases of one institution: save, confirm (whole, one, with missing
\* testcases), deactivate, restore, where foreign keys are enforced.
CONSTANTS
  Case = {c1, c2}
  Input = {in1}
  Extra = {x1}
  NoExtra = NoExtra
  NoInput = NoInput
  NoRule = NoRule
  NoRow = NoRow
  NoTc = NoTc
  Deleted = Deleted
  Cascades = TRUE
  Inst = {i1}
  DefaultInst = i1
  i1 = i1
  i2 = i2
  in1 = in1
  in2 = in2
  in3 = in3
  Authored <- AuthoredAlike
  FileRules <- NoFile
  PoolCase = {}
  MaxCaseHist = 2
  MaxTcHist = 1
  MaxDocHist = 1
SYMMETRY Symmetric
SPECIFICATION Spec
CHECK_DEADLOCK FALSE
INVARIANTS
  TypeOK
  DraftFlagsAgree
  DraftTextCoversDrafts
  AppliedTextIsLive
  LiveIsLatestVersion
  NoGhostRows
  NoOrphanVersions
PROPERTIES
  LivesAsPromised
  RestoreIsExact
