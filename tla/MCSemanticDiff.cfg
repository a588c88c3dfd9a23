SPECIFICATION Spec
CONSTANTS
  p1 = p1  p2 = p2  x1 = x1  x2 = x2  y1 = y1
  Proposals = {p1, p2}
  Ids <- MCIds
  Name <- MCName
  Values <- MCValues
  ToText <- MCToText
  Items <- MCItems
  Diffs <- MCDiffs
  Start <- MCStart
  MaxFaults = 2
  Null = "null"  None = None  Base = Base
SYMMETRY Symmetric
INVARIANTS TypeOK RevokeRestores RevokeTidies
CHECK_DEADLOCK FALSE
