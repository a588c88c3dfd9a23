SPECIFICATION Spec
CONSTANTS
  MaxProposals = 2
  Longer <- OneLonger
  Commits = {c1, c2}
  Runs = {}
  Retries = {}
  MaxCopies = 1
  Faults = {}
SYMMETRY Symmetry
PROPERTY OwnMergeIsReverted
