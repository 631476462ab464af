SPECIFICATION FairSpec
CONSTANTS
  Conns = {c1, c2}
  Workers = {w1, w2}
  Requests <- AllRequests
  Silent = {c1}
  MaxCrashes = 1
  NoConn = NoConn
  c1 = c1
  c2 = c2
  w1 = w1
  w2 = w2
INVARIANTS
  TypeOK
  SilentCloseIsHarmless
  NoShortBody
  ExclusiveService
PROPERTIES
  CooperativeClientsServed
CHECK_DEADLOCK FALSE
