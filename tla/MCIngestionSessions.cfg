SPECIFICATION FairSpec
CONSTANTS
  c1 = c1
  c2 = c2
  Sids = {s1}
  Streams = {c1, c2}
  MaxObjects = 1
  MaxWork = 1
  MaxRuns = 2
  MaxCancels = 1
  None = None
CHECK_DEADLOCK FALSE
CONSTRAINT Bounds
INVARIANTS TypeOK NothingMissed
PROPERTIES EndsWithVerdict CancelWins PausedHolds StreamEnds
