CONSTANTS
  Clients = {c1, c2, c3}
  NoClient = NoClient
  Backlog = 1
  MaxWrites = 2
  ClientMayDie = TRUE
CHECK_DEADLOCK FALSE
SPECIFICATION FairSpec
INVARIANTS
  DiesOnlyOfLateWrite
  CommandsAnswered
PROPERTIES
  PollingGoesOn
  ClientsReturn
