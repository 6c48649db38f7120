\* Enough commands to allocate a buffer, write it, wait on the other stream for
\* its event and read it there, or to capture and replay with one to spare.
SPECIFICATION Spec
CONSTANTS
  s1 = s1
  s2 = s2
  e1 = e1
  own = own
  pool = pool
  slab = slab
  Streams = {s1, s2}
  Events = {e1}
  Owned = {own}
  Pooled = {pool}
  Slabs = {slab}
  Home <- MCHome
  MaxIssued = 4
  None = None
  Unmapped = Unmapped
INVARIANT ProgramOrder
\* All commands may have been issued.
CHECK_DEADLOCK FALSE
