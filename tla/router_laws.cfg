SPECIFICATION Spec
CONSTANTS
  None = None
  NaN = NaN
  RoutableStates <- MCStates
  EdgePool <- MCEdges
  MaxEdges = 3
INVARIANTS OrderIndependent ReasonAgreesWithSelection
PROPERTIES AppendedEdgeOnlyCompetes
CHECK_DEADLOCK FALSE
