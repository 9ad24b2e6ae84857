CONSTANTS
  in <- MCIn
  InLen = 3
  Needs = {0, 1, 2, 5, 13}
  Fail = Fail
  NSyms = 4
  MaxLen = 4
  Reading = Reading  NoCode = NoCode  NoInput = NoInput
SPECIFICATION SymbolSpec
INVARIANTS NoBitLost DecodesTheCode
PROPERTY ImplementsBitSource
CHECK_DEADLOCK FALSE
