\* One service with two testcases, one scenario, one run.
CONSTANTS
  Case = {c1, c2}
  Service = {v1}
  c1 = c1
  c2 = c2
  v1 = v1
  v2 = v2
  ServiceOf <- OneService
  Input = {in1}
  Extra = {}
  NoExtra = NoExtra
  NoInput = NoInput
  NoRule = NoRule
  NoRow = NoRow
  NoTc = NoTc
  NoService = NoService
  NoCase = NoCase
  NoRun = NoRun
  Cascades = TRUE
  Scenario = {n1}
  Run = {r1}
  MaxSteps = 2
  MaxVersions = 1
SPECIFICATION Spec
CHECK_DEADLOCK FALSE
INVARIANTS
  TypeOK
  StoredRunIsWhole
  PinnedStepsAreRun
  DoneIsStored
PROPERTIES
  RunsEnd
