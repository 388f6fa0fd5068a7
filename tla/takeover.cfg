CONSTANTS
  MAX_CONNECTIONS = 2
  MaxLaunchers = 3
  Pids = {1, 2, 3, 4, 5, 6}
  NoPid = NoPid
  Overlap = FALSE
  Redeployments = {"shutdown", "launcher"}
SPECIFICATION FairSpec
INVARIANTS
  TakeoverIsClean
PROPERTIES
  DeploymentServes
CHECK_DEADLOCK FALSE
