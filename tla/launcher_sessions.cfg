CONSTANTS
  MAX_CONNECTIONS = 3
  INIT_CLIENTS = 1
  Pids = {p1, p2, p3, p4}
  NoPid = NoPid
  Commands <- MCNone
  ChildMayExit = TRUE
  ClientMayDie = FALSE
  PidReuse = FALSE
SPECIFICATION Spec
SYMMETRY MCSymmetry
INVARIANTS
  ReservationsMatch
  PoolTracksSessions
