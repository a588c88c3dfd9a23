SPECIFICATION Spec
CONSTANTS
  Files = {f1, f2}
  Cmds = {k1, k2}
  u1 = u1
  u2 = u2
  k1 = k1
  k2 = k2
  Uis = {u1, u2}
  Owner <- TwoStoryboards
  Jobs = {j1, j2}
  MaxFaults = 1
  MaxEdits = 1
  None = None
SYMMETRY Symmetric
CHECK_DEADLOCK FALSE
INVARIANTS OkHasFrame OneDispatch JoinedIsAnswered
