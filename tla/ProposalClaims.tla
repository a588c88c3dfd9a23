--------------------------- MODULE ProposalClaims ---------------------------
(***************************************************************************)
(* What the repository's documents and docstrings say of the proposal      *)
(* lifecycle and the code does not keep.                                   *)
(***************************************************************************)
EXTENDS ProposalLifecycle, TLC

Symmetry == Permutations(Commits)

\* Ids none of which begins with another; and PRO-100 with PRO-1000.
NoLonger  == [p \in Proposals |-> {}]
OneLonger == [p \in Proposals |-> IF p = 1 THEN {2} ELSE {}]

\* "Git 메인 브랜치에 샌드박스 구현 코드가 반영되어 있고" (US6 scenario 1), with revoke's
\* "재accept 가능": the code of an ACCEPTED proposal is in main's files.
AcceptedCodeIsOnMain ==
  \A p \in Proposals :
    Quiet /\ status[p] = "ACCEPTED" => accepted[p] \subseteq repo.tree

\* "실패 시 각각 롤백" (dual_merge.py), "코드 머지가 롤백되고" (US6 scenario 2): a proposal
\* that was never accepted and whose acceptance failed has no code on main.
FailedMergeIsRolledBack ==
  \A p \in Proposals :
    Quiet /\ status[p] = "MERGE_FAILED" /\ accepted[p] = {}
      => offered[p] \intersect repo.tree = {}

\* "'Accept {proposal_id}' 메시지의 머지 커밋을 찾아" (revert_merge_commit): revoking one
\* proposal's code leaves the accepted code of all others in main's files.
OwnMergeIsReverted ==
  [][\A p, q \in Proposals :
       p # q /\ At("r_code", p) => accepted[q] \intersect repo.tree \subseteq repo'.tree]_vars

\* "DESTROYED --> [*]" (the stages in the README): a destroyed proposal stays so
\* until it is deleted.
DestroyedIsFinal ==
  [][\A p \in Proposals :
       status[p] = "DESTROYED" => status'[p] \in {"DESTROYED", NoNode}]_vars
=============================================================================
