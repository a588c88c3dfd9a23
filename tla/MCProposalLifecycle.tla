------------------------- MODULE MCProposalLifecycle -------------------------
EXTENDS ProposalLifecycle, TLC
Symmetry == Permutations(Commits)

\* The second proposal's id begins with the first one's.
MCLonger == [p \in Proposals |-> IF p = 1 /\ MaxProposals > 1 THEN {2} ELSE {}]
=============================================================================
