SPECIFICATION FairSpec
CONSTANTS
  NSXT3 = TRUE
  ExternalT1 = FALSE
  Faults = {"loss"}
  MaxFaults = 1
  DeleteReportsMissing = TRUE
  ExtT1Id = 5
  ShootContext = TRUE
  Name = {1, 2}
  Changeable = {}
  Losable = {"ls"}
  Others <- MCOthers
PROPERTIES
  Converges
