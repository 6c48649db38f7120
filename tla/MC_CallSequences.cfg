SPECIFICATION CallsSpec
CONSTANTS
  Ops <- AllOps
  Types <- AllTypes
  Leaky <- LeakyOps
  Unbound <- UnboundOps
  Orphans <- OrphanTypes
INVARIANTS
  NothingLost
  AtHome
  NoOrphan
