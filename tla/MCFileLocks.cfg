SPECIFICATION FairSpec
CONSTANTS
  r1 = r1
  r2 = r2
  r3 = r3
  s1 = s1
  s2 = s2
  s3 = s3
  f1 = f1
  f2 = f2
  NoSession = NoSession
  NoFile = NoFile
  Runs = {r1, r2}
  Sessions = {s1, s2, s3}
  SessionOf <- Shared
  Files = {f1, f2}
  TTL = 1
  Wait = 1
  Poll = 1
  Flaky = {r1}
INVARIANTS
  Exclusive
PROPERTIES
  ValidLockStays
  LeaseSpec
  LockingEnds
CHECK_DEADLOCK FALSE
