CONSTANTS
  MAX_CONNECTIONS = 2
  WINDOW = 3
  THRESHOLD = 2
  MaxExec = 1
  Skew = 1
  Burst = 2
SPECIFICATION FairVerdictSpec
INVARIANTS
  TypeOK
  BadVerdictHasCause
  VerdictIsRight
PROPERTIES
  ImplementsWindow
  BypassIsNoticed
