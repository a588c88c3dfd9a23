SPECIFICATION FairSpec
CONSTANTS
  c1 = c1
  c2 = c2
  c3 = c3
  s1 = s1
  s2 = s2
  Sids = {s1, s2}
  Conns = {c1, c2, c3}
  MaxObjects = 2
  SessionMax = 2
  RingSize = 1
  MaxOutput = 2
  None = None
CHECK_DEADLOCK FALSE
CONSTRAINT Bounds
INVARIANTS TypeOK RunningIsRegistered NothingRepeated NothingLost
PROPERTY ExitedIsForgotten
