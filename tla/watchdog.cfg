SPECIFICATION Spec
CONSTANTS
  ChunkTokens = 2
  OverlapTokens = 1
  RecursionLimit = 2
  Names <- MCNames
  Sizes = {1, 4}
  WatchChunk = 3
  Densities = {0, 3}
  MaxEvents = 2
  MaxStarts = 2
INVARIANTS
  OwnWindowsAnswered
  OneRowPerArrival
  SkippedOnlyIfSeeded
PROPERTIES
  LowDensityFlagged
  NewFilesAnalysed
CHECK_DEADLOCK FALSE
