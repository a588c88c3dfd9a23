SPECIFICATION FairSpec
CONSTANTS
  s1 = s1
  s2 = s2
  Streams = {s1, s2}
  Workers = 1
  QueueSize = 1
  PipeSize = 1
  MaxOutput = 2
CHECK_DEADLOCK FALSE
CONSTRAINT Bounds
INVARIANTS TypeOK EndIsWhole
PROPERTIES StreamEnds WorkersReturn
