CONSTANTS
  MAX_CONNECTIONS = 2
  INIT_CLIENTS = 1
  Pids = {p1, p2, p3}
  NoPid = NoPid
  Commands <- MCAll
  ChildMayExit = TRUE
  ClientMayDie = FALSE
  PidReuse = TRUE
SPECIFICATION Spec
INVARIANT StatusReplyTruthful
