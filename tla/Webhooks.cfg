SPECIFICATION Spec
CONSTANTS
    Kind <- MCKind
    Registered <- MCRegistered
    GardenletManagesMCM = TRUE
    ETCDStorage <- MCETCDStorage
    ProxyConf = {"proxy1", "proxy2"}
    Registries = {"r1", "r2"}
INVARIANTS Idempotent UnitHasScript FollowsProfile KeepsForeign
