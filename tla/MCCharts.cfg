CONSTANTS
  Archives <- MCArchives
  Lengths <- MCLengths
  Inserted <- MCInserted
  Pixels = {1, 2, 4, 8}
  BLOCK = 4
  BYTE = 4
  Files <- MCFiles
  WINDOW = 2
  SCAN = 3
  BLOCKS = 2
  MIN_MATCH = 2
  MaxLength = 4
  DistCaps <- MCDistCaps
  LenCaps <- MCLenCaps
  Results <- MCResults
  Filters <- MCFilters
  SERIES = 10
  Ladders <- MCLadders
  Kept <- MCKept
  ALL = ALL
  Pairs <- MCPairs
  Calls <- MCCalls
  NOISE_FLOOR = 1
  NOISE_CVS = 3
  Slots <- MCSlots
  Dots <- MCDots
  STEP = 5
  TOL = 3
  NEAR = 4
  NULL = NULL
SPECIFICATION Spec
INVARIANTS MapAddsUp ParseAccounts SameInputs NothingHidden NothingMissing ChartIsWritten RingsSound
CHECK_DEADLOCK FALSE
