\* One scenario over two services with two contents; nothing executes.
CONSTANTS
  Case = {c1, c2}
  Service = {v1, v2}
  c1 = c1
  c2 = c2
  v1 = v1
  v2 = v2
  ServiceOf <- TwoServices
  Input = {in1, in2}
  Extra = {}
  NoExtra = NoExtra
  NoInput = NoInput
  NoRule = NoRule
  NoRow = NoRow
  NoTc = NoTc
  NoService = NoService
  NoCase = NoCase
  NoRun = NoRun
  Cascades = TRUE
  Scenario = {n1}
  Run = {}
  MaxSteps = 2
  MaxVersions = 3
SPECIFICATION Spec
CHECK_DEADLOCK FALSE
PROPERTIES
  ChangedPinsExist
  PinnedBodyIsFrozen
