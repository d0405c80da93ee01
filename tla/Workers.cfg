SPECIFICATION FairSpec
CONSTANTS
  PoolName = {"a", "b", "c"}
  Zone = {"z1", "z2"}
  Image = {"i", "j"}
  Types <- MCTypes
  Scenarios <- MCScenarios
  MaxFailures = 1
CHECK_DEADLOCK FALSE
INVARIANTS
  MachinesAreInTheirZone
  ClassesOfDeploymentsExist
  CapacityKept
  ImagesStayKnown
PROPERTIES
  Converges
  DeletionEnds
