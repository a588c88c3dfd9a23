--------------------------- MODULE PlanGate_proofs ---------------------------
(***************************************************************************)
(* Proofs about PlanGate for every number of proposals, skill runs, texts  *)
(* and revisions.                                                          *)
(*                                                                         *)
(* OldConstitutionIsStale and the gate are not inductive: they compare a   *)
(* plan's stamps with what the proposal has seen, and say nothing about    *)
(* how the stamps relate to the texts.  VersionsTell and MarksArrive do;   *)
(* NothingFromNothing is what VersionsTell needs of the first intent run,  *)
(* which starts at version 1 instead of counting up.                       *)
(***************************************************************************)
EXTENDS PlanGate, TLAPS

\* A version that has not moved since the confirmation means the same text.
VersionsTell ==
  \A p \in Proposals :
    plan[p] # NoPlan /\ ~edited[p] =>
      /\ plan[p].version <= strategic[p].version
      /\ plan[p].version = strategic[p].version => plan[p].text = strategic[p].text

\* Every proposal with a stamped plan has the hash of the current constitution.
MarksArrive ==
  Quiet /\ ~unmarked /\ root # NoHash =>
    \A p \in Proposals :
      plan[p] # NoPlan /\ plan[p].hash # NoHash => seen[p] = root

\* There is no plan, drafted or under way, without a strategic diff.
NothingFromNothing ==
  \A p \in Proposals :
    strategic[p].text = NoText =>
      /\ plan[p] = NoPlan /\ draft[p] = NoText
      /\ \A t \in Tasks : tasks[t].kind = "plan" => tasks[t].p # p

IInv == TypeOK /\ VersionsTell /\ MarksArrive /\ NothingFromNothing

-----------------------------------------------------------------------------

LEMMA TaskTypes ==
  ASSUME TypeOK, NEW t \in Tasks
  PROVE  /\ tasks[t].kind = "intent" => tasks[t].p \in Proposals
         /\ tasks[t].kind = "plan" => tasks[t].p \in Proposals /\ tasks[t].made \in Texts
  BY DEF TypeOK, Idle

LEMMA InitIInv == Init => IInv
<1> SUFFICES ASSUME Init PROVE IInv
  OBVIOUS
<1> USE DEF Init
<1>1. TypeOK
  <2>1. 1 \in 1 .. MaxVersion
    BY ConstantsAssumption
  <2> QED BY <2>1 DEF TypeOK, Statuses, Hashes, Plans
<1>2. VersionsTell /\ MarksArrive
  BY DEF VersionsTell, MarksArrive
<1>3. NothingFromNothing
  BY DEF NothingFromNothing, Idle
<1> QED BY <1>1, <1>2, <1>3 DEF IInv

LEMMA ConstitutionStep ==
  ASSUME IInv,
         (\E r \in Hashes : WriteRoot(r)) \/ WriteMemory \/ MarkProposalsStale \/ Crash
  PROVE  IInv'
<1> USE ConstantsAssumption DEF IInv
<1>1. CASE \E r \in Hashes : WriteRoot(r)
  BY <1>1 DEF WriteRoot, TypeOK, VersionsTell, MarksArrive, NothingFromNothing,
                Quiet, planning
<1>2. CASE WriteMemory
  BY <1>2 DEF WriteMemory, TypeOK, VersionsTell, MarksArrive, NothingFromNothing,
                Quiet, planning
<1>3. CASE MarkProposalsStale
  <2>1. TypeOK'
    BY <1>3 DEF MarkProposalsStale, TypeOK, Hashes
  <2>2. VersionsTell' /\ NothingFromNothing'
    BY <1>3 DEF MarkProposalsStale, VersionsTell, NothingFromNothing
  <2>3. MarksArrive'
    BY <1>3 DEF MarkProposalsStale, MarksArrive, TypeOK
  <2> QED BY <2>1, <2>2, <2>3
<1>4. CASE Crash
  <2>1. TypeOK'
    BY <1>4 DEF Crash, TypeOK, planning
  <2>2. VersionsTell' /\ MarksArrive'
    BY <1>4 DEF Crash, TypeOK, VersionsTell, MarksArrive, Quiet, planning
  <2>3. NothingFromNothing'
    BY <1>4 DEF Crash, NothingFromNothing, Idle, planning
  <2> QED BY <2>1, <2>2, <2>3
<1> QED BY <1>1, <1>2, <1>3, <1>4

LEMMA StageStep ==
  ASSUME IInv, NEW p \in Proposals, Stage(p)
  PROVE  IInv'
<1> USE ConstantsAssumption DEF IInv
<1>1. CASE Submit(p) \/ Implement(p) \/ Reimplement(p)
  <2>1. /\ \E s \in Statuses : status' = [status EXCEPT ![p] = s]
        /\ UNCHANGED << strategic, planning, constitution, tasks, edited >>
    BY <1>1 DEF Submit, Implement, Reimplement, Statuses
  <2>2. TypeOK'
    BY <2>1 DEF TypeOK, planning, constitution
  <2>3. VersionsTell' /\ MarksArrive' /\ NothingFromNothing'
    BY <2>1 DEF VersionsTell, MarksArrive, NothingFromNothing, Quiet, planning,
                constitution
  <2> QED BY <2>2, <2>3
<1>2. CASE ConfirmPlan(p)
  <2>1. PICK made \in {draft[p], plan[p].made} \ {NoText} :
          plan' = [plan EXCEPT ![p] =
            [made |-> made, hash |-> root, version |-> strategic[p].version,
             text |-> strategic[p].text]]
    BY <1>2 DEF ConfirmPlan
  <2>2. made \in Texts /\ strategic[p].text # NoText
    BY <2>1 DEF TypeOK, NoPlan, Plans, NothingFromNothing
  <2>3. TypeOK'
    BY <1>2, <2>1, <2>2 DEF ConfirmPlan, TypeOK, Plans, Hashes, constitution
  <2>4. VersionsTell'
    BY <1>2, <2>1 DEF ConfirmPlan, TypeOK, VersionsTell, constitution
  <2>5. MarksArrive'
    BY <1>2, <2>1 DEF ConfirmPlan, TypeOK, MarksArrive, Quiet, constitution
  <2>6. NothingFromNothing'
    BY <1>2, <2>1, <2>2 DEF ConfirmPlan, TypeOK, NothingFromNothing
  <2> QED BY <2>3, <2>4, <2>5, <2>6
<1> QED BY <1>1, <1>2 DEF Stage

LEMMA EditStep ==
  ASSUME IInv, NEW p \in Proposals, NEW text \in Texts, Edit(p, text)
  PROVE  IInv'
<1>1. /\ \E version \in 1 .. MaxVersion :
           strategic' = [strategic EXCEPT ![p] = [text |-> text, version |-> version]]
      /\ edited' = [edited EXCEPT ![p] = TRUE]
      /\ UNCHANGED << status, planning, constitution, tasks >>
  <2>1. CASE \E version \in 1 .. MaxVersion : UpdateDiff(p, text, version)
    BY <2>1 DEF UpdateDiff
  <2>2. CASE Consolidate(p, text)
    <3>1. strategic[p].version \in 1 .. MaxVersion
      BY DEF IInv, TypeOK
    <3>2. [strategic[p] EXCEPT !.text = text] = [text |-> text, version |-> strategic[p].version]
      BY DEF IInv, TypeOK
    <3>3. strategic' = [strategic EXCEPT ![p] =
                         [text |-> text, version |-> strategic[p].version]]
      BY <2>2, <3>2 DEF Consolidate
    <3> QED BY <2>2, <3>1, <3>3 DEF Consolidate
  <2>3. CASE SaveOdaIntent(p, text)
    <3>1. 1 \in 1 .. MaxVersion
      BY ConstantsAssumption
    <3> QED BY <2>3, <3>1 DEF SaveOdaIntent
  <2> QED BY <2>1, <2>2, <2>3 DEF Edit, UpdateDiff, Consolidate, SaveOdaIntent
<1>2. TypeOK'
  BY <1>1 DEF IInv, TypeOK, planning, constitution
<1>3. VersionsTell'
  BY <1>1 DEF IInv, TypeOK, VersionsTell, planning
<1>4. MarksArrive'
  BY <1>1 DEF IInv, MarksArrive, Quiet, planning, constitution
<1>5. NothingFromNothing'
  BY <1>1, ConstantsAssumption DEF IInv, TypeOK, NothingFromNothing, NoText, planning
<1> QED BY <1>2, <1>3, <1>4, <1>5 DEF IInv

LEMMA TaskStepKeeps ==
  ASSUME IInv, NEW t \in Tasks, TaskStep(t)
  PROVE  IInv'
<1> USE ConstantsAssumption DEF IInv
<1>1. CASE EndTask(t) \/ \E p \in Proposals : StartIntent(t, p) \/ StartPlan(t, p)
  <2>1. UNCHANGED << status, strategic, planning, constitution, edited >>
    BY <1>1 DEF EndTask, StartIntent, StartPlan
  <2>2. PICK task \in {Idle} \union [kind: {"intent"}, p: Proposals, version: 1 .. MaxVersion]
                      \union [kind: {"plan"}, p: Proposals, made: Texts] :
          /\ tasks' = [tasks EXCEPT ![t] = task]
          /\ task.kind = "plan" => strategic[task.p].text # NoText
    BY <1>1 DEF EndTask, StartIntent, StartPlan, TypeOK, Idle, NoText
  <2>3. TypeOK'
    BY <2>1, <2>2 DEF TypeOK, planning, constitution
  <2>4. VersionsTell' /\ MarksArrive'
    BY <2>1 DEF VersionsTell, MarksArrive, Quiet, planning, constitution
  <2>5. NothingFromNothing'
    BY <2>1, <2>2 DEF NothingFromNothing, TypeOK, planning
  <2> QED BY <2>3, <2>4, <2>5
<1>2. CASE \E text \in Texts : SaveIntent(t, text)
  <2>1. PICK text \in Texts : SaveIntent(t, text)
    BY <1>2
  <2> DEFINE q == tasks[t].p
  <2>2. q \in Proposals
    BY <2>1, TaskTypes DEF SaveIntent
  <2>3. /\ text # NoText
        /\ strategic' = [strategic EXCEPT ![q] =
             [text |-> text, version |-> IF @.text = NoText THEN 1 ELSE @.version + 1]]
        /\ tasks' = [tasks EXCEPT ![t] = Idle]
        /\ strategic[q].version \in 1 .. MaxVersion /\ strategic[q].version < MaxVersion
    BY <2>1, <2>2 DEF SaveIntent, TypeOK, NoText
  <2>4. UNCHANGED << status, planning, constitution, edited >>
    BY <2>1 DEF SaveIntent
  <2> HIDE DEF q
  <2>5. TypeOK'
    BY <2>2, <2>3, <2>4 DEF TypeOK, planning, constitution
  <2>6. VersionsTell'
    <3> SUFFICES ASSUME NEW p \in Proposals, plan[p] # NoPlan, ~edited[p]
                 PROVE  /\ plan[p].version <= strategic'[p].version
                        /\ plan[p].version = strategic'[p].version =>
                             plan[p].text = strategic'[p].text
      BY <2>4 DEF VersionsTell, planning
    <3>1. CASE p # q
      BY <2>2, <2>3, <3>1 DEF VersionsTell, TypeOK
    <3>2. CASE p = q
      <4>1. strategic[p].text # NoText
        BY DEF NothingFromNothing
      <4>2. strategic'[p].version = strategic[p].version + 1
        BY <2>2, <2>3, <3>2, <4>1 DEF TypeOK
      <4>3. plan[p].version \in Nat /\ plan[p].version <= strategic[p].version
        BY DEF TypeOK, Plans, VersionsTell
      <4> QED BY <2>3, <3>2, <4>2, <4>3
    <3> QED BY <3>1, <3>2
  <2>7. MarksArrive'
    BY <2>4 DEF MarksArrive, Quiet, planning, constitution
  <2>8. NothingFromNothing'
    BY <2>2, <2>3, <2>4 DEF NothingFromNothing, TypeOK, Idle, planning
  <2> QED BY <2>5, <2>6, <2>7, <2>8
<1>3. CASE SavePlanDraft(t)
  <2>1. tasks[t].p \in Proposals /\ tasks[t].made \in Texts
    BY <1>3, TaskTypes DEF SavePlanDraft
  <2>2. TypeOK'
    BY <1>3, <2>1 DEF SavePlanDraft, TypeOK, constitution
  <2>3. VersionsTell' /\ MarksArrive'
    BY <1>3 DEF SavePlanDraft, VersionsTell, MarksArrive, Quiet, constitution
  <2>4. NothingFromNothing'
    BY <1>3, <2>1 DEF SavePlanDraft, NothingFromNothing, TypeOK, Idle
  <2> QED BY <2>2, <2>3, <2>4
<1> QED BY <1>1, <1>2, <1>3 DEF TaskStep

LEMMA NextIInv == IInv /\ [Next]_vars => IInv'
<1> SUFFICES ASSUME IInv, [Next]_vars PROVE IInv'
  OBVIOUS
<1>1. CASE Next
  BY <1>1, ConstitutionStep, StageStep, EditStep, TaskStepKeeps DEF Next
<1>2. CASE UNCHANGED vars
  BY <1>2 DEF vars, IInv, TypeOK, VersionsTell, MarksArrive, NothingFromNothing, Quiet
<1> QED BY <1>1, <1>2

\* The invariant that carries the results below.
THEOREM Invariance == Spec => []IInv
BY InitIInv, NextIInv, PTL DEF Spec

\* Type correctness of the plan gate's state, for every value of the constants.
THEOREM TypeCorrect == Spec => []TypeOK
BY Invariance, PTL DEF IInv

\* A finished change of the constitution makes every plan stamped with another
\* one stale, for any number of proposals and revisions and across crashes.
THEOREM ChangesArrive == Spec => []OldConstitutionIsStale
<1>1. IInv => OldConstitutionIsStale
  BY DEF IInv, TypeOK, MarksArrive, OldConstitutionIsStale, PlanStale, Quiet, NoHash
<1> QED BY <1>1, Invariance, PTL

\* The only step to IMPLEMENTING from SUBMITTED is the gate's.
LEMMA OnlyTheGate ==
  ASSUME IInv, Next, NEW p \in Proposals,
         status[p] = "SUBMITTED", status'[p] = "IMPLEMENTING"
  PROVE  Implement(p)
<1>1. status' # status
  OBVIOUS
<1>2. PICK q \in Proposals : Submit(q) \/ Implement(q) \/ Reimplement(q)
  BY <1>1 DEF Next, WriteRoot, WriteMemory, MarkProposalsStale, Stage, Edit, TaskStep,
              UpdateDiff, Consolidate, SaveOdaIntent, StartIntent, StartPlan, SaveIntent,
              SavePlanDraft, EndTask, Crash, ConfirmPlan
<1>3. p = q
  BY <1>2 DEF Submit, Implement, Reimplement, IInv, TypeOK
<1> QED BY <1>2, <1>3 DEF Submit, Reimplement, IInv, TypeOK

\* The gate lets through only a plan that was confirmed against the strategic
\* diff and the constitution of that moment.
THEOREM GateHolds == Spec => ImplementsCurrentPlan
<1> DEFINE Gated == ~unmarked =>
      \A p \in Proposals :
        status[p] = "SUBMITTED" /\ status'[p] = "IMPLEMENTING" =>
          /\ plan[p] # NoPlan
          /\ edited[p] \/ plan[p].text = strategic[p].text
          /\ root # NoHash => plan[p].hash \in {NoHash, root}
<1>1. IInv /\ [Next]_vars => [Gated]_vars
  <2> SUFFICES ASSUME IInv, Next, ~unmarked, NEW p \in Proposals,
                      status[p] = "SUBMITTED", status'[p] = "IMPLEMENTING"
               PROVE  /\ plan[p] # NoPlan
                      /\ edited[p] \/ plan[p].text = strategic[p].text
                      /\ root # NoHash => plan[p].hash \in {NoHash, root}
    OBVIOUS
  <2>1. Quiet /\ plan[p] # NoPlan /\ ~PlanStale(p)
    BY OnlyTheGate DEF Implement
  <2>2. edited[p] \/ plan[p].text = strategic[p].text
    <3>1. plan[p].version \in Nat /\ strategic[p].version \in Nat
      BY <2>1 DEF IInv, TypeOK, Plans
    <3>2. ~(strategic[p].version > plan[p].version)
      BY <2>1 DEF PlanStale
    <3>3. edited[p] \/ /\ plan[p].version <= strategic[p].version
                       /\ plan[p].version = strategic[p].version =>
                            plan[p].text = strategic[p].text
      BY <2>1 DEF IInv, VersionsTell
    <3> QED BY <3>1, <3>2, <3>3
  <2>3. root # NoHash => plan[p].hash \in {NoHash, root}
    BY <2>1 DEF IInv, MarksArrive, PlanStale
  <2> QED BY <2>1, <2>2, <2>3
<1>2. Spec => [][Gated]_vars
  BY <1>1, Invariance, PTL DEF Spec
<1> QED BY <1>2 DEF ImplementsCurrentPlan

=============================================================================
