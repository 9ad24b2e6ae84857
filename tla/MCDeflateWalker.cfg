CONSTANTS
  InLen = 8
  CodeLens = {7}
  Hlits = {0}  Hdists = {0}  Hclens = {0}
  LenSyms = {0, 20, 28}
  DistSyms = {0, 3, 5, 8, 10, 12}
  Extras <- MCExtras
  StoredLens = {0, 1, 65535}
SPECIFICATION Spec
INVARIANTS TypeOK BitsAccounted MatchesPartitioned OutputBounded
PROPERTY Terminates
CHECK_DEADLOCK FALSE
