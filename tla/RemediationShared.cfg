SPECIFICATION Spec
CONSTANTS
  Runs = {r1, r2}
  MaxAttempts = 1
  MaxFlakes = 0
  Checks = {c1}
  Required = {c1}
  Conclusions = {"pass", "fail", "cancelled"}
  Overlap = TRUE
  ManagedAgent = FALSE
  Prepush = FALSE
  HasStaging = FALSE
  HasE2E = TRUE
  Monitored = TRUE
  UserActs = TRUE
  NoPR = NoPR
SYMMETRY RunSymmetry
CHECK_DEADLOCK FALSE
INVARIANTS
  Settled
PROPERTIES
  CompletedIsMerged
