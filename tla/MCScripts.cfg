CONSTANTS
  MaxDevelop = 1
  MaxPushes = 2
  MaxCalls = 3
  Missing = Missing  Broken = Broken  NULL = NULL
  Names <- MCNames
  Times <- MCTimes
  MaxDocs = 2
SPECIFICATION ScriptsSpec
INVARIANTS RowsPartition RerunWins OverallOfGoodRuns ComparedAsFetched TracedAsFetched
CHECK_DEADLOCK FALSE
