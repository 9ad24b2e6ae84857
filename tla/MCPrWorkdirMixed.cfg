CONSTANTS
  MaxDevelop = 1
  MaxPushes = 2
  MaxCalls = 3
  Missing = Missing  Broken = Broken  NULL = NULL
SPECIFICATION Spec
INVARIANT BuiltOfOneRevision
CHECK_DEADLOCK FALSE
