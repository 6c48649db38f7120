\* cuEventRecord may fail too: the chunk is on the stream and its slot not armed.
SPECIFICATION Spec
CONSTANTS
  Callers = {c1, c2}
  NSlots = 2
  Chunks = 2
  MaxCalls = 2
  MayFail <- RecordToo
  NoCaller = NoCaller
  NoSlot = NoSlot
  Blank = Blank
  Torn = Torn
SYMMETRY Symmetric
INVARIANT SlotIntact
