\* A buffer of two or three events, two GPU spans, two clears.
SPECIFICATION ProfilerSpec
CONSTANTS
  Threads = {t1, t2}
  Capacities = {2, 3}
  Durations = {1, 2}
  MaxSpans = 2
  MaxOffered = 3
  MaxClears = 2
  Nothing = Nothing
INVARIANTS
  LostOnlyToClear
  TraceProper
SYMMETRY Symmetry
