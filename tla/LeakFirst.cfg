SPECIFICATION Spec
CONSTANTS
  NSXT3 = TRUE
  ExternalT1 = FALSE
  Faults = {"crash"}
  MaxFaults = 1
  DeleteReportsMissing = TRUE
  ExtT1Id = 5
  ShootContext = TRUE
  Name = {1, 2}
  Changeable = {}
  Losable = {}
  Others <- MCOthers
INVARIANTS
  NothingLeftBehindEver
