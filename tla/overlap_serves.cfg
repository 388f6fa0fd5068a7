CONSTANTS
  MAX_CONNECTIONS = 1
  MaxLaunchers = 2
  Pids = {1, 2}
  NoPid = NoPid
  Overlap = TRUE
  Redeployments = {"shutdown"}
SPECIFICATION FairSpec
PROPERTIES
  DeploymentServes
CHECK_DEADLOCK FALSE
