SPECIFICATION Spec
CONSTANTS
  s1 = s1
  s2 = s2
  s3 = s3
  r1 = r1
  r2 = r2
  r3 = r3
  r4 = r4
  p1 = p1
  p2 = p2
  Sessions = {s1, s2, s3}
  Runs = {r1, r2, r3, r4}
  Projects = {p1, p2}
  SessionOf <- MCSessionOf
  ProjectOf <- MCProjectOf
  PerProject = 2
  Global = 3
CHECK_DEADLOCK FALSE
INVARIANTS
  WithinLimits
