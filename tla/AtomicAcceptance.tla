-------------------------- MODULE AtomicAcceptance --------------------------
(***************************************************************************)
(* What acceptance promises, without its steps: a proposal's change is in  *)
(* the live model exactly while the proposal is accepted.  Acceptance and  *)
(* its revocation move the verdict and the model in one step, and an       *)
(* acceptance that fails changes nothing in the model                      *)
(* (api/features/proposal_lifecycle/services/dual_merge.py).  Some faults  *)
(* tear the two apart for good; then nothing is promised of that proposal, *)
(* and still everything of the others.  That these moves keep the promise, *)
(* and that the proposal lifecycle makes no other ones, is proved in       *)
(* ProposalLifecycle_proofs.                                               *)
(***************************************************************************)
CONSTANT Proposals

VARIABLES phase,    \* [Proposals -> Phases]
          inModel,  \* [Proposals -> BOOLEAN]
          torn      \* [Proposals -> BOOLEAN]

Phases == {"open", "failed", "accepted"}

Init == /\ phase = [p \in Proposals |-> "open"]
        /\ inModel = [p \in Proposals |-> FALSE]
        /\ torn = [p \in Proposals |-> FALSE]

Move(p, from, to, present) ==
  /\ ~torn[p]
  /\ UNCHANGED torn
  /\ phase[p] \in from
  /\ phase' = [phase EXCEPT ![p] = to]
  /\ inModel' = [inModel EXCEPT ![p] = present]

Accept(p) == Move(p, {"open", "failed"}, "accepted", TRUE)

Fail(p) == Move(p, {"open", "failed"}, "failed", FALSE)

\* A failed proposal is implemented again, destroyed or deleted.
Rework(p) == Move(p, {"failed"}, "open", FALSE)

Revoke(p) == Move(p, {"accepted"}, "open", FALSE)

\* Verdict and model of one proposal come apart, or go on apart.
Tear(p) == \E to \in Phases, present \in BOOLEAN :
  /\ torn' = [torn EXCEPT ![p] = TRUE]
  /\ phase' = [phase EXCEPT ![p] = to]
  /\ inModel' = [inModel EXCEPT ![p] = present]

Next == \E p \in Proposals : Accept(p) \/ Fail(p) \/ Rework(p) \/ Revoke(p) \/ Tear(p)

Spec == Init /\ [][Next]_<<phase, inModel, torn>>

\* The promise: the model holds the change exactly while it is accepted.
Consistent == \A p \in Proposals : ~torn[p] => (inModel[p] <=> phase[p] = "accepted")

TypeOK == /\ phase \in [Proposals -> Phases]
          /\ inModel \in [Proposals -> BOOLEAN]
          /\ torn \in [Proposals -> BOOLEAN]
=============================================================================
