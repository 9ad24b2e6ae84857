CONSTANTS
  Names <- MCNames
  Times <- MCTimes
  MaxDocs = 2
SPECIFICATION ReportsSpec
INVARIANT OverallIsMeanOfRatios
CHECK_DEADLOCK FALSE
