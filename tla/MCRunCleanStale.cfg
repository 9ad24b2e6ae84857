CONSTANTS
  Names = {"level:1", "level:1/rle"}
  Longer <- MCLonger
  MaxRetries = 1
  MaxPolls = 2
  MaxCalls = 2
  Missing = Missing  Broken = Broken
SPECIFICATION Spec
INVARIANTS RowsAreFresh
CHECK_DEADLOCK FALSE
