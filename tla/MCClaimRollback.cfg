SPECIFICATION Spec
CONSTANTS
  MaxProposals = 1
  Longer <- NoLonger
  Commits = {c1}
  Runs = {}
  Retries = {}
  MaxCopies = 1
  Faults = {"item"}
SYMMETRY Symmetry
INVARIANT FailedMergeIsRolledBack
