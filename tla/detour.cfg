SPECIFICATION Spec
CONSTANTS
  None = None
  NaN = NaN
  Nodes <- DetourNodes
  StartNode = "start"
  EndNodes = {"finish"}
  Gateways = {"decide"}
  Intent <- DetourIntent
  ReviewReason <- DetourReason
  Outgoing <- DetourOutgoing
  StationMap <- DetourStations
  Amounts = {0, 1, 2}
  PoMatchInputs = {TRUE, FALSE, None}
  LegacyInputs = {TRUE, FALSE, None}
INVARIANTS FailsClosed PaymentMatched
CHECK_DEADLOCK FALSE
