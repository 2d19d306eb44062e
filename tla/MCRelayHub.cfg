SPECIFICATION FairSpec
CONSTANTS
  u1 = u1
  c1 = c1
  c2 = c2
  r1 = r1
  NoConn = NoConn
  NoReq = NoReq
  Users = {u1}
  UserOf <- MCUserOf
  Target <- MCTarget
  Conns = {c1, c2}
  Reqs = {r1}
  BufCap = 1
  Hasty = {c1}
INVARIANTS
  TypeOK
  LiveIsReachable
  HubNotStale
  NoPendingLeak
  WaiterCanBeWoken
PROPERTIES
  ServiceSpec
  EveryDispatchAnswered
  GoneIsForgotten
CHECK_DEADLOCK FALSE
