CONSTANTS
  MAX_CONNECTIONS = 2
  INIT_CLIENTS = 1
  Pids = {p1, p2, p3, p4, p5}
  NoPid = NoPid
  Commands <- MCAll
  ChildMayExit = TRUE
  ClientMayDie = TRUE
  PidReuse = FALSE
SPECIFICATION Spec
SYMMETRY MCSymmetry
INVARIANTS
  RuntimeCount
  NoOrphan
  StopReplyTruthful
  DistinctBindings
  BindAlwaysFindsFree
PROPERTY ServingEndsOnlyByStop
