\* Activating in an institution that is not the default one.
CONSTANTS
  Case = {c1}
  Input = {in1, in2}
  Extra = {}
  NoExtra = NoExtra
  NoInput = NoInput
  NoRule = NoRule
  NoRow = NoRow
  NoTc = NoTc
  Deleted = Deleted
  Cascades = TRUE
  Inst = {i1, i2}
  DefaultInst = i1
  i1 = i1
  i2 = i2
  in1 = in1
  in2 = in2
  in3 = in3
  Authored <- AuthoredApart
  FileRules <- NoFile
  PoolCase = {}
  MaxCaseHist = 2
  MaxTcHist = 2
  MaxDocHist = 2
SPECIFICATION Spec
CHECK_DEADLOCK FALSE
PROPERTIES
  ActivationIsOwn
