CONSTANTS
  MAX_CONNECTIONS = 2
  INIT_CLIENTS = 1
  Pids = {p1, p2, p3}
  NoPid = NoPid
  Commands <- MCUpdates
  ChildMayExit = FALSE
  ClientMayDie = FALSE
  PidReuse = TRUE
SPECIFICATION Spec
INVARIANT UpdateReplyTruthful
