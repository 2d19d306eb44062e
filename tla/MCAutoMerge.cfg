SPECIFICATION Spec
CONSTANTS
  None = None
  o1 = o1
  w1 = w1
  s1 = s1
  s2 = s2
  Session = {o1, s1, s2}
  Legacy = {o1}
  Touched = {s1, s2}
  Writers = {w1}
  Ladder <- MCLadder
  MaxAge = 1
SYMMETRY Symmetry
CHECK_DEADLOCK FALSE
INVARIANTS
  TypeOK
  TrustIsBacked
  FixesAreNeeded
PROPERTY LevelIsEarned
