SPECIFICATION Spec
CONSTANTS
  NSXT3 = FALSE
  ExternalT1 = TRUE
  Faults = {"get", "write", "lost", "unrealized", "delete", "version", "connect", "status", "statusLost", "crash", "finalizer", "deleteLost"}
  MaxFaults = 3
  DeleteReportsMissing = TRUE
  ExtT1Id = 5
  ShootContext = TRUE
  Name = {1, 2}
  Changeable = {}
  Losable = {}
  Others <- MCOthersExternal
INVARIANTS
  OthersUntouched
  NothingLeftBehind
