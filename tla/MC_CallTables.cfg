\* The tables of the call_sequences run satisfy the hypotheses of the theorems.
SPECIFICATION CallsSpec
CONSTANTS
  Ops <- AllOps
  Types <- AllTypes
  Leaky <- LeakyOps
  Unbound <- UnboundOps
  Orphans <- OrphanTypes
INVARIANT TablesFit
