SPECIFICATION Spec
CONSTANTS
  MaxProposals = 1
  Longer <- MCLonger
  Commits = {c1, c2}
  Runs = {v1}
  Retries = {r1}
  MaxCopies = 2
  Faults = {"crash", "conflict", "refused", "item", "graph", "worktree"}
SYMMETRY Symmetry
INVARIANTS TypeOK AcceptedIsMerged NoVerdictWhileWorking EffectsHaveNodes FailedVerdictNeedsForce
PROPERTIES GraphFollowsCode RollbackIsVoid ImplementsAtomicAcceptance
