\* Two callers share a ring of two slots: a write of three chunks wraps the ring,
\* waits for the GPU in it and meets the slots of the other caller.  Each caller
\* makes one writing call and any number of blocking reads.
SPECIFICATION FairSpec
CONSTANTS
  Callers = {c1, c2}
  NSlots = 2
  Chunks = 3
  MaxCalls = 1
  MayFail <- AllButRecord
  NoCaller = NoCaller
  NoSlot = NoSlot
  Blank = Blank
  Torn = Torn
INVARIANTS
  SlotIntact
  TransferInProgramOrder
  SyncCopyArrived
  AwaitedIsUnderWay
PROPERTY CallsReturn
