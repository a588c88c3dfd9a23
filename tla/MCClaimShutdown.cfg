SPECIFICATION Spec
CONSTANTS
  Files = {f1}
  MaxRuns = 1
  Streams = {c1}
  Pages = 1
  Batches = 1
  MaxFaults = 1
  MaxEdits = 0
  None = None
CHECK_DEADLOCK FALSE
PROPERTY SuccessIsWhole
