\* One service: two requests between each other's steps, and users between both.
CONSTANTS
  Service = {s1}
  Request = {r1, r2}
  Case <- TwoCases
  Input = {in1}
  Extra = {}
  NoExtra = NoExtra
  NoInput = NoInput
  NoRule = NoRule
  NoRow = NoRow
  Cascades = TRUE
  MaxAdded = 1
SYMMETRY Symmetric
SPECIFICATION Spec
CHECK_DEADLOCK FALSE
INVARIANTS
  TypeOK
PROPERTIES
  ConfirmedSurvives
  UndisturbedMergeKeepsCases
