SPECIFICATION FairSpec
CONSTANTS
  Files = {f1, f2}
  MaxRuns = 2
  Streams = {c1}
  Pages = 1
  Batches = 2
  MaxFaults = 1
  MaxEdits = 1
  None = None
CHECK_DEADLOCK FALSE
INVARIANTS TypeOK RunHoldsLock StreamTold
PROPERTIES VerdictIsTrue LockReleased StreamEnds
