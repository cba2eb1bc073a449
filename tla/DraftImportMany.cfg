\* Two services: an import that checks some services and writes others.
CONSTANTS
  Service = {s1, s2}
  Request = {r1}
  Case <- OneCase
  Input = {in1}
  Extra = {x1}
  NoExtra = NoExtra
  NoInput = NoInput
  NoRule = NoRule
  NoRow = NoRow
  Cascades = TRUE
  MaxAdded = 1
SYMMETRY Symmetric
SPECIFICATION Spec
CHECK_DEADLOCK FALSE
PROPERTIES
  OldDraftIsAskedFor
