----------------------------- MODULE MCPlanGate -----------------------------
EXTENDS PlanGate, TLC
Symmetry == Permutations(Tasks) \union Permutations(Proposals)
=============================================================================
