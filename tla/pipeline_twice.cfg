SPECIFICATION Spec
CONSTANTS
  None = None
  NaN = NaN
  Threshold = 2
  MinedGraphs <- MCMinedGraphs
INVARIANT SecondRunChangesNothing
CHECK_DEADLOCK FALSE
