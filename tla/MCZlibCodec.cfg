CONSTANTS
  Blocks = {a1, a2}
  MaxBytes = 2
  MaxOut = 4
  Width = 4
SPECIFICATION ZlibSpec
INVARIANTS MemIsExact ChunkedAgrees StaysInside
PROPERTIES CallReturns
