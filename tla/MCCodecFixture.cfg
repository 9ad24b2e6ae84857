CONSTANTS
  f1 = f1  d1 = d1  d2 = d2  i1 = i1  i2 = i2  k1 = k1
  Files = {f1}
  Benches = {d1, d2, i1, i2, k1}
  Kind <- MCKind
  Cf <- MCCf
  Size <- MCSize
  Width = 4
  MaxVer = 1
  NULL = NULL  Junk = Junk  None = None
SPECIFICATION Spec
INVARIANTS HeapBalanced OnlyCorporaStay SetupFailureIsReal ReportedIsWhole
PROPERTIES CorpusIsStable ImplementsMeasurement
