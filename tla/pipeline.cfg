SPECIFICATION Spec
CONSTANTS
  None = None
  NaN = NaN
  Threshold = 2
  MinedGraphs <- MCMinedGraphs
INVARIANTS
  FanOutStaysRepaired
  PassesAreIdempotent
  MatchGuardsApproval
  PaymentNeedsMatch
  ExtractionFailuresRouted
  LeavesProductionGraph
CHECK_DEADLOCK FALSE
