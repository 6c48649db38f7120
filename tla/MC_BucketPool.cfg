\* Two threads, three blocks, lists of one block.
SPECIFICATION Spec
CONSTANTS
  t1 = t1
  t2 = t2
  Threads = {t1, t2}
  Blocks = {b1, b2, b3}
  Kinds <- BothKinds
  RequestsOf <- Elements
  NumBuckets = 2
  MinBytes = 2
  Word = 256
  MaxPerBucket = 1
  None = None
INVARIANTS
  EachBlockOnce
  BlockCoversRequest
PROPERTY ImplementsAllocator
SYMMETRY Symmetry
\* The pool and its buffers may all be gone.
CHECK_DEADLOCK FALSE
