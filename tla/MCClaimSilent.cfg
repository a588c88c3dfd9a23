SPECIFICATION Spec
CONSTANTS
  c1 = c1
  c2 = c2
  Sids = {s1}
  Streams = {c1, c2}
  MaxObjects = 1
  MaxWork = 0
  MaxRuns = 1
  MaxCancels = 1
  None = None
CHECK_DEADLOCK FALSE
PROPERTY ClosedByVerdict
