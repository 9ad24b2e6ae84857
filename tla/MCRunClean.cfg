CONSTANTS
  Names = {"level:1", "level:1/rle"}
  Longer <- MCLonger
  MaxRetries = 2
  MaxPolls = 2
  MaxCalls = 2
  Missing = Missing  Broken = Broken
SPECIFICATION Spec
INVARIANTS OutputIsOwn OneRunPerName DirtyOnlyWithReason
PROPERTIES OnlyDirtyReplaced Terminates
CHECK_DEADLOCK FALSE
