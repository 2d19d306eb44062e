SPECIFICATION FairSpec
CONSTANTS
  l = l
  s1 = s1
  s2 = s2
  s3 = s3
  Session = {l, s1, s2, s3}
  Proposed = {l}
  Touched = {s1}
  Unlucky = {s1}
  Incident = {1}
  Near = 1
  Patience = 1
  None = None
INVARIANTS
  FixBehindIt
  OnlyErasedAreLeft
PROPERTIES
  WaitsEnd
CHECK_DEADLOCK FALSE
