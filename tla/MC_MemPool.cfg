\* Two threads, one cached block per front and per shared bucket, so that every
\* tier is found empty, filled and full.
SPECIFICATION Spec
CONSTANTS
  Threads = {t1, t2}
  Shared = Shared
  Blocks = {b1, b2, b3, b4}
  NoBuf = NoBuf
  NoReq = NoReq
  Requests <- PrimitiveRequests
  MinBucketLog2 = 1
  MaxBucketLog2 = 2
  FrontCap = 1
  MaxPerBucket = 1
SYMMETRY Symmetric
INVARIANTS
  UniqueOwner
  NothingLost
  CacheBound
  BlockCoversRequest
PROPERTY ImplementsAllocator
\* After the pool is dropped and its last DeviceBuf freed nothing is left to do.
CHECK_DEADLOCK FALSE
