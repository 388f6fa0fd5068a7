CONSTANTS
  HalfBits = 2
  PageBits = 1
  Thresholds = {{0, 1}, {0, 2}}
  MaxVersion = 2
SPECIFICATION Spec
INVARIANTS
  FittingReportIsExact
  ThresholdNeverUnderstated
PROPERTY ImplementsRecord
