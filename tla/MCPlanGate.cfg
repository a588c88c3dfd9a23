SPECIFICATION Spec
CONSTANTS
  Proposals = {p1}
  Tasks = {t1, t2}
  Texts = {1, 2}
  Revisions = {1, 2}
  MaxVersion = 3
  Edits = {"diff", "staged", "oda"}
INVARIANTS TypeOK OldConstitutionIsStale
PROPERTY ImplementsCurrentPlan
SYMMETRY Symmetry
