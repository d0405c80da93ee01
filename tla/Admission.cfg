SPECIFICATION PSpec
CONSTANTS
    Account = {"set", "other", "wrong"}
    Rejected = {"wrong"}
    World <- MCWorld
    ConfigFiles <- MCConfigFiles
INVARIANTS
  AdmittedReconciles BuiltFromShoot ZonesArePlaced AddressesFit ClientsAlike
