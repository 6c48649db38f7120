SPECIFICATION Spec
CONSTANTS
  Threads = {t1, t2}
  Devices = {gpu0, gpu1}
  Shapes = {n1024}
  Binding = {cudnn}
  Passing = {cublaslt}
  Raws = {r1, r2}
  MaxStreams = 3
  MaxMade = 3
  None = None
INVARIANTS
  SameHandle
  RebindOnBorrow
  PlanOnOwnStream
SYMMETRY Interchangeable
CHECK_DEADLOCK FALSE
