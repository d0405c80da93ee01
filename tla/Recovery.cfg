SPECIFICATION FairSpec
CONSTANTS
  NSXT3 = TRUE
  ExternalT1 = FALSE
  Faults = {"get", "write", "lost", "unrealized", "delete", "version", "connect", "status", "statusLost", "crash", "finalizer", "deleteLost", "lb", "credentials"}
  MaxFaults = 3
  DeleteReportsMissing = FALSE
  ExtT1Id = 5
  ShootContext = TRUE
  Name = {1, 2}
  Changeable = {}
  Losable = {}
  Others <- MCOthers
INVARIANTS
  TypeOK
  StartedBeforeCreated
  NoDuplicates
  NothingLeftBehind
PROPERTIES
  Promise
  Converges
  DeletionEnds
  DeletableWithoutCredentials
