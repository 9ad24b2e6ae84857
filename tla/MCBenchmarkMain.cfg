CONSTANTS
  Codecs <- MCCodecs
  Dirs <- MCDirs
  Names <- MCNames
  Trees <- MCTrees
  Options <- MCOptions
  Sizes <- MCSizes
  Chunks <- MCChunks
  InflateDists <- MCInflateDists
  DeflateDists <- MCDeflateDists
  MAX_HOOKS = 8
  NULL = NULL
  Patterns <- MCPatterns
  MaxReps = 3
SPECIFICATION MainSpec
INVARIANTS OnePlaceEach SelectionExact CorpusComplete EveryBenchmarkShown LaterBenchmarksRested
CHECK_DEADLOCK FALSE
