SPECIFICATION Spec
CONSTANTS
  i1 = i1
  i2 = i2
  i3 = i3
  e = e
  revert = revert
  n1 = n1
  n2 = n2
  m = m
  Rows = {i1, i2}
  Errors = {e, revert}
  RevertError = revert
  Ingests = {n1, n2}
  Monitor = m
  Threshold = 1
  Phases <- MCPhases
  None = None
SYMMETRY CallSymmetry
INVARIANTS
  TypeOK
  KeyHasReason
  StormIsHeard
  PassedMeansQuiet
CHECK_DEADLOCK FALSE
