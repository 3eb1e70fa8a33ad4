SPECIFICATION FairSpec
CONSTANTS
  Processes = {p1, p2}
  Requests = {r1, r2, r3}
  None = None
  PoolSize = 2
  MaxSessions = 1
  TTL = 2
  MaxClock = 2
  MaxStops = 1
INVARIANTS
  TypeOK
  ServingHasAgent
  ConnectionsAccounted
PROPERTIES
  AcceptedOnlyInTime
  RequestsEnd
  ComesUp
CHECK_DEADLOCK FALSE
