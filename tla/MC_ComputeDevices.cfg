\* Every API, four calls, every failure after which nothing is left behind.
SPECIFICATION FairSpec
CONSTANTS
  c1 = c1
  c2 = c2
  Apis <- AllApis
  CallersOf <- OneOrShared
  Buffers = {b1, b2}
  Pipelines = {p}
  Data = {d}
  Uninit = Uninit
  MaxCalls = 4
  MayFail <- SafeFailures
  None = None
INVARIANTS
  NothingReleasedInFlight
  AwaitedComes
  BindingKept
PROPERTIES
  ImplementsContract
  CallsReturn
\* All calls may have been made.
CHECK_DEADLOCK FALSE
