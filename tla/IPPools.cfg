SPECIFICATION FairSpec
CONSTANTS
  PageSize = 1
  PoolName = {1, 2, 3}
  SNATPool = 3
  Client = {c1, c2}
  MaxCommands = 2
  MaxAllocations = 1
INVARIANTS
  SearchFinds
  HalfPoolsAreReported
PROPERTIES
  SearchEnds
