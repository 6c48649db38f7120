\* Two threads of one process and one of another ask for functions of one source on
\* devices of two architectures; a process may die at any step.
SPECIFICATION Spec
CONSTANTS
  p1 = p1
  p2 = p2
  t1 = t1
  t2 = t2
  t3 = t3
  d1 = d1
  d2 = d2
  source = source
  f = f
  g = g
  Processes = {p1, p2}
  Threads = {t1, t2, t3}
  ProcessOf <- TwoAndOne
  Devices = {d1, d2}
  ArchOf <- TwoArchs
  Requests <- SomeRequests
  MaxCalls = 1
  MaxCrashes = 1
  NoFile = NoFile
  NoArch = NoArch
  NoResult = NoResult
INVARIANTS
  SameModule
  RightImage
  TornOnlyByOverlap
PROPERTY EntriesStay
SYMMETRY ThreadSymmetry
\* Every thread may have made all its requests.
CHECK_DEADLOCK FALSE
