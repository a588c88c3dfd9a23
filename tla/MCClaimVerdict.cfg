SPECIFICATION Spec
CONSTANTS
  s1 = s1
  s2 = s2
  Streams = {s1}
  Workers = 1
  QueueSize = 1
  PipeSize = 1
  MaxOutput = 1
CHECK_DEADLOCK FALSE
INVARIANT VerdictIsEarned
