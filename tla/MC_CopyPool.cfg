\* Both callers copy twice, and the second worker may be gone.
SPECIFICATION FairSpec
CONSTANTS
  Callers = {c1, c2}
  NWorkers = 2
  Page = 2
  ParallelMin = 2
  Lengths <- ShortEvenOdd
  MaxCalls = 2
  MayExit <- LastWorker
  NoJob = NoJob
  Nobody = Nobody
  Twice = Twice
INVARIANTS
  NoJobOutlivesCall
  ReturnsCopied
  PagesDisjoint
  SleeperAwaited
PROPERTY CallsReturn
\* Every caller may have made all its calls.
CHECK_DEADLOCK FALSE
