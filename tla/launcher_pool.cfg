CONSTANTS
  MAX_CONNECTIONS = 3
  INIT_CLIENTS = 1
  Pids = {p1, p2, p3, p4}
  NoPid = NoPid
  Commands <- MCGentle
  ChildMayExit = FALSE
  ClientMayDie = TRUE
  PidReuse = TRUE
SPECIFICATION FairSpec
INVARIANTS
  TypeOK
  ReservationsMatch
  BoundRuntimeRuns
  BindAlwaysFindsFree
PROPERTIES
  ImplementsPool
  SessionsServed
  SessionsReleased
