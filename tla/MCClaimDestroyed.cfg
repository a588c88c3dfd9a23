SPECIFICATION Spec
CONSTANTS
  MaxProposals = 1
  Longer <- NoLonger
  Commits = {c1}
  Runs = {v1}
  Retries = {}
  MaxCopies = 1
  Faults = {}
SYMMETRY Symmetry
PROPERTY DestroyedIsFinal
