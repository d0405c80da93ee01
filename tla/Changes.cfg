SPECIFICATION FairSpec
CONSTANTS
  NSXT3 = TRUE
  ExternalT1 = FALSE
  Faults = {"get", "write", "unrealized", "delete", "version", "connect", "lookup", "inputs", "loss", "lb"}
  MaxFaults = 3
  DeleteReportsMissing = TRUE
  ExtT1Id = 5
  ShootContext = TRUE
  Name = {1, 2}
  Changeable = {"t0", "ec", "net"}
  Losable = {"dhcp", "seg", "alloc", "rule"}
  Others <- MCOthers
INVARIANTS
  NoOrphans
PROPERTIES
  SuccessMeansComplete
  Converges
