SPECIFICATION FairSpec
CONSTANTS
  MaxProposals = 2
  Longer <- MCLonger
  Commits = {c1, c2}
  Runs = {}
  Retries = {}
  MaxCopies = 1
  Faults = {"conflict", "refused"}
PROPERTIES RevokeKeepsOthersCode AcceptDecides
