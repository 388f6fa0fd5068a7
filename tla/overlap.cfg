CONSTANTS
  MAX_CONNECTIONS = 2
  MaxLaunchers = 2
  Pids = {1, 2, 3, 4}
  NoPid = NoPid
  Overlap = TRUE
  Redeployments = {"shutdown", "launcher"}
SPECIFICATION Spec
INVARIANTS
  TypeOK
  NoSharedRuntime
  RegisteredIsVisible
PROPERTIES
  ServingEndsOnlyByPkill
CHECK_DEADLOCK FALSE
