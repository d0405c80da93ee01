SPECIFICATION Spec
CONSTANTS
  NSXT3 = TRUE
  ExternalT1 = FALSE
  Faults = {"get", "write", "lost", "unrealized", "delete", "version", "connect", "status", "crash", "lb"}
  MaxFaults = 2
  DeleteReportsMissing = TRUE
  ExtT1Id = 5
  ShootContext = FALSE
  StateVersions = {FALSE}
  NoFile = NoFile
  MaxCommands = 3
  Others <- MCOthers
INVARIANTS
  NoDuplicates
PROPERTIES
  CreateIsComplete
  DestroyIsComplete
  DestroyForgetsNothing
