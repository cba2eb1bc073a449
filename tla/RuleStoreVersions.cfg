\* One rule and one promoted sample, two contents, without enforced foreign
\* keys: what becomes of drafts, versions and testcases over time.
CONSTANTS
  Case = {c1, p1}
  Input = {in1, in2}
  Extra = {}
  NoExtra = NoExtra
  NoInput = NoInput
  NoRule = NoRule
  NoRow = NoRow
  NoTc = NoTc
  Deleted = Deleted
  Cascades = FALSE
  Inst = {i1}
  DefaultInst = i1
  i1 = i1
  i2 = i2
  in1 = in1
  in2 = in2
  in3 = in3
  Authored <- AuthoredAlike
  FileRules <- OneFile
  PoolCase = {p1}
  MaxCaseHist = 3
  MaxTcHist = 2
  MaxDocHist = 2
SPECIFICATION Spec
CHECK_DEADLOCK FALSE
INVARIANTS
  TestcaseIsLatestVersion
PROPERTIES
  VersionsOnlyGrow
  LivesAsPromised
