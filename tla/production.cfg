SPECIFICATION Spec
CONSTANTS
  None = None
  NaN = NaN
  Threshold = 2
  Amounts <- MCAmounts
  PoMatchInputs = {TRUE, FALSE}
  LegacyInputs = {None}
  Nodes <- ProductionNodes
  StartNode = "n1"
  EndNodes = {"n35"}
  Gateways <- ProductionGateways
  Intent <- ProductionIntent
  ReviewReason <- ProductionReviewReason
  Outgoing <- ProductionOutgoing
  StationMap <- ProductionStationMap
INVARIANTS TypeOK ApprovalJustified OutcomeJustified UnverifiedFieldsStayDefault DiversionLogged ExceptionExplained RetryExplained
PROPERTIES CriticOnlyAfterVerifierFailure RecordedDecisionFollowed RetryAnswered ImplementsDecision
CHECK_DEADLOCK FALSE
