SPECIFICATION BreakerSpec
CONSTANTS
  r1 = r1
  r2 = r2
  r3 = r3
  Runs = {r1, r2, r3}
  Threshold = 3
  MaxFailures = 7
  MaxLost = 1
SYMMETRY Symmetry
CHECK_DEADLOCK FALSE
PROPERTY
  ClosesByProbe
