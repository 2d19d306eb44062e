SPECIFICATION FairSpec
CONSTANTS
  Runs = {r1, r2}
  MaxAttempts = 2
  MaxFlakes = 1
  Checks = {c1, c2}
  Required = {c2}
  Conclusions = {"pass", "fail"}
  Overlap = FALSE
  ManagedAgent = TRUE
  Prepush = TRUE
  HasStaging = TRUE
  HasE2E = FALSE
  Monitored = TRUE
  UserActs = FALSE
  NoPR = NoPR
CHECK_DEADLOCK FALSE
INVARIANTS
  PushesBounded
  MergesOnItsVerdict
PROPERTIES
  KeepsPromise
  RunEnds
