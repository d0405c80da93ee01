SPECIFICATION Spec
CONSTANTS
  ClassName = {"default", "private"}
  Pool = {"p1", "p2"}
  DefaultName = "default"
  Unset = "unset"
  DummyPool = "dummy"
  GardenID = "g"
  Shoot = "s"
  ScopeGarden = "garden"
  ScopeAuthorizedShoots = "authorized-shoots"
  TagLists <- MCTagLists
  None = None
  ProfileClasses <- MCProfiles
  ShootConfigs <- MCConfigs
  MaxChanges = 2
  MaxFailures = 1
INVARIANT CCMRunsItsConfig
