SPECIFICATION Spec
CONSTANTS
  Threads = {t1, t2}
  Devices = {gpu0}
  Shapes = {}
  Binding = {cudnn}
  Passing = {}
  Raws = {r1, r2}
  MaxStreams = 2
  MaxMade = 2
  None = None
INVARIANT OperationOnOwnStream
CHECK_DEADLOCK FALSE
