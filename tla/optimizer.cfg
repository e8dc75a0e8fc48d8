SPECIFICATION Spec
CONSTANTS
  Invoices = {"a", "b"}
  Reports <- MCReports
  Compact = {"po_re", "amount"}
  Wrapped = {"verify"}
  Retries = 1
  Edited = {"po_re", "rest"}
  MaxStarts = 2
  MaxEdits = 1
INVARIANTS
  RequestsWereTested
  OnePatchPerRequest
  ExistingBranchesKept
  SandboxRestored
PROPERTIES
  SweepEnds
CHECK_DEADLOCK FALSE
