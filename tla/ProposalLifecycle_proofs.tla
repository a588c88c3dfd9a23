---------------------- MODULE ProposalLifecycle_proofs ----------------------
(***************************************************************************)
(* Theorems about ProposalLifecycle, for any number of proposals, commits, *)
(* validations and retries and for any set of faults.  An inductive        *)
(* invariant, IInv, carries most of them: beside the invariants themselves *)
(* it says what the handler under way has established at each of its       *)
(* steps.  OwnInv adds whose work each commit is, for the revert of code.  *)
(* AtomicInv says of every proposal that is not torn how status, graph     *)
(* and EFFECT relations fit together at each step; it carries the          *)
(* refinement of AtomicAcceptance.  No theorem restricts the faults.       *)
(***************************************************************************)
EXTENDS ProposalLifecycle, TLAPS

(* The repository *)

\* The worktree operations of SandboxManager keep the repository's shape.
LEMMA WorktreeTypes ==
  ASSUME NEW r \in Git!Repo, NEW p \in Proposals
  PROVE  /\ Git!WorktreeCreated(r, p) \in Git!Repo
         /\ Git!WorktreeNotCreated(r, p) \subseteq Git!Repo
         /\ Git!WorktreeRemoved(r, p) \in Git!Repo
         /\ Git!WorktreeCleaned(r, p) \in Git!Repo
<1>1. Git!WorktreeCreated(r, p) \in Git!Repo
  BY DEF Git!Repo, Git!WorktreeCreated
<1>2. Git!WorktreeNotCreated(r, p) \subseteq Git!Repo
  <2> DEFINE i == [r EXCEPT !.isRepo = TRUE]
  <2>1. i \in Git!Repo
    BY DEF Git!Repo
  <2>2. [i EXCEPT !.worktrees = @ \ {p}, !.dirty = @ \ {p}] \in Git!Repo
    <3> HIDE DEF i
    <3> QED BY <2>1 DEF Git!Repo
  <2> QED BY <2>1, <2>2 DEF Git!WorktreeNotCreated
<1>3. Git!WorktreeRemoved(r, p) \in Git!Repo
  BY DEF Git!Repo, Git!WorktreeRemoved
<1>4. Git!WorktreeCleaned(r, p) \in Git!Repo
  BY DEF Git!Repo, Git!WorktreeCleaned
<1> QED BY <1>1, <1>2, <1>3, <1>4

\* A new commit on main is noted as a record of its kind.
LEMMA NotedType ==
  ASSUME NEW r \in Git!Repo, NEW p \in Proposals, NEW kind \in {"merge", "revert"}
  PROVE  Git!Noted(r, kind, p) \in [Proposals -> [kind: {"none", "merge", "revert"}, of: Proposals]]
BY DEF Git!Repo, Git!Noted

\* So do the merge, its reset and the revert.
LEMMA MergeTypes ==
  ASSUME NEW r \in Git!Repo, NEW p \in Proposals
  PROVE  /\ Git!Incoming(r, p) \subseteq Commits
         /\ Git!Merged(r, p) \in Git!Repo
         /\ Git!MergeConflicted(r, p) \in Git!Repo
         /\ Git!ResetMerge(r) \in Git!Repo
         /\ Git!Reverted(r, p) \in Git!Repo
<1>1. Git!Incoming(r, p) \subseteq Commits
  BY DEF Git!Repo, Git!Incoming
<1>2. Git!Merged(r, p) \in Git!Repo
  BY <1>1, NotedType DEF Git!Repo, Git!Merged
<1>3. Git!MergeConflicted(r, p) \in Git!Repo
  BY <1>1 DEF Git!Repo, Git!MergeConflicted
<1>4. Git!ResetMerge(r) \in Git!Repo
  BY DEF Git!Repo, Git!ResetMerge
<1>5. Git!Reverted(r, p) \in Git!Repo
  <2>1. r.newest[p].of \in Proposals
    BY DEF Git!Repo
  <2> QED BY <2>1, NotedType DEF Git!Repo, Git!Reverted
<1> QED BY <1>1, <1>2, <1>3, <1>4, <1>5

\* And what the cell and the user do.
LEMMA OutsideTypes ==
  ASSUME NEW r \in Git!Repo, NEW p \in Proposals
  PROVE  /\ Git!Edited(r, p) \in Git!Repo
         /\ \A c \in Git!Unused(r) : Git!Committed(r, p, c) \in Git!Repo
         /\ Git!MergeAborted(r) \in Git!Repo
         /\ Git!MergeConcluded(r, p) \in Git!Repo
<1>1. Git!Edited(r, p) \in Git!Repo
  BY DEF Git!Repo, Git!Edited
<1>2. ASSUME NEW c \in Git!Unused(r)
      PROVE  Git!Committed(r, p, c) \in Git!Repo
  <2>1. c \in Commits
    BY DEF Git!Unused
  <2> QED BY <2>1 DEF Git!Repo, Git!Committed
<1>3. Git!MergeAborted(r) \in Git!Repo
  BY DEF Git!Repo, Git!MergeAborted
<1>4. Git!MergeConcluded(r, p) \in Git!Repo
  BY NotedType DEF Git!Repo, Git!MergeConcluded
<1> QED BY <1>1, <1>2, <1>3, <1>4

\* A merge brings in all the branch holds (merge_to_main).
LEMMA MergeBringsAll ==
  ASSUME NEW r \in Git!Repo, NEW p \in Proposals
  PROVE  /\ r.history \subseteq Git!Merged(r, p).history
         /\ r.work[p] \subseteq Git!Merged(r, p).history
         /\ Git!AlreadyUpToDate(r, p) => r.work[p] \subseteq r.history
BY DEF Git!Repo, Git!Merged, Git!Incoming, Git!AlreadyUpToDate

\* `git reset --merge` where no merge is under way changes nothing.
LEMMA ResetWithoutMerge ==
  ASSUME NEW r \in Git!Repo, r.merging = {}, r.mergeHead = {}
  PROVE  Git!ResetMerge(r) = r
BY DEF Git!Repo, Git!ResetMerge

-----------------------------------------------------------------------------
(* The inductive invariant *)

\* While a worktree is being made the proposal shows no verdict: implement
\* found it SUBMITTED or reset it.
NoVerdictInJob ==
  job.step \in {"i_create", "i_draft", "i_status", "i_meta"} => results[job.p] = "none"

MergeSteps == {"m_create", "m_effect", "m_check", "m_commit", "m_rollback"}

\* Past a successful merge: no merge is unfinished, and what the branch was
\* offered with is in main's history.
MergedInJob ==
  job.step \in MergeSteps =>
    repo.merging = {} /\ offered[job.p] \subseteq repo.history

\* Nobody has come to a dual merge past a failed verdict unknowingly.
DualMergeSteps == MergeSteps \union {"m_merge", "m_failed"}

VerdictOverridden ==
  job.step \in DualMergeSteps => (results[job.p] = "fail" => forced[job.p])

\* A merge head belongs to an unfinished merge.
HeadNeedsMerge == repo.merging = {} => repo.mergeHead = {}

\* Between a node and its EFFECT relation there is a node without one.
NodeBeforeEffect == job.step = "m_effect" => effects[job.p] < live[job.p]

IInv == /\ TypeOK
        /\ AcceptedIsMerged
        /\ NoVerdictWhileWorking
        /\ EffectsHaveNodes
        /\ FailedVerdictNeedsForce
        /\ NoVerdictInJob
        /\ VerdictOverridden
        /\ MergedInJob
        /\ HeadNeedsMerge
        /\ NodeBeforeEffect

-----------------------------------------------------------------------------
(* What the parts of a step leave alone *)

\* A request only opens a handler, or changes proposals and tasks: the
\* repository, the graph and what was merged stay.
LEMMA RequestFrame ==
  ASSUME NEW p \in Proposals, Request(p)
  PROVE  UNCHANGED << repo, live, effects >>
<1>1. CASE Create(p) \/ Submit(p) \/ Delete(p) \/ Destroy(p) \/ CompleteImplementation(p)
  BY <1>1 DEF Create, Submit, Delete, Destroy, CompleteImplementation, graph
<1>2. ASSUME NEW flag \in BOOLEAN, Implement(p, flag) \/ Accept(p, flag) \/ Revoke(p, flag)
      PROVE  UNCHANGED << repo, live, effects >>
  BY <1>2 DEF Implement, Accept, Revoke, graph
<1>3. ASSUME NEW t \in Retries, AdmitRetry(t, p)
      PROVE  UNCHANGED << repo, live, effects >>
  BY <1>3 DEF AdmitRetry, graph
<1>4. ASSUME NEW t \in Runs, NEW kind \in {"queued", "running"}, Validate(t, p, kind)
      PROVE  UNCHANGED << repo, live, effects >>
  BY <1>4 DEF Validate, graph
<1> QED BY <1>1, <1>2, <1>3, <1>4 DEF Request

\* Neither does a task, nor a crash.
LEMMA TaskFrame ==
  ASSUME NEW t \in Tasks, TaskStep(t)
  PROVE  UNCHANGED << repo, live, effects >>
BY DEF TaskStep, LoadForTest, RunRetry, EndTask, SaveResults, graph

\* Every step leaves a repository.
LEMMA RepoStep == TypeOK /\ [Next]_vars => repo' \in Git!Repo
<1> SUFFICES ASSUME TypeOK, [Next]_vars PROVE repo' \in Git!Repo
  OBVIOUS
<1>0. repo \in Git!Repo
  BY DEF TypeOK
<1>1. ASSUME NEW p \in Proposals, Request(p) PROVE repo' \in Git!Repo
  BY <1>0, <1>1, RequestFrame
<1>2. ASSUME NEW p \in Proposals, HandlerStep(p) PROVE repo' \in Git!Repo
  <2>1. CASE MergeCode(p)
    BY <1>0, <2>1, MergeTypes DEF MergeCode
  <2>2. CASE RollBackMerge(p)
    BY <1>0, <2>2, MergeTypes DEF RollBackMerge
  <2>3. CASE RevertCode(p)
    BY <1>0, <2>3, MergeTypes DEF RevertCode
  <2>4. CASE CleanUpWorktree(p)
    BY <1>0, <2>4, WorktreeTypes DEF CleanUpWorktree
  <2>5. CASE RemoveWorktree(p)
    BY <1>0, <2>5, WorktreeTypes DEF RemoveWorktree
  <2>6. CASE CreateWorktree(p)
    BY <1>0, <2>6, WorktreeTypes DEF CreateWorktree
  <2>7. CASE \/ CreateGraphNode(p) \/ RecordEffect(p) \/ ValidateProjection(p)
             \/ AcceptNode(p) \/ SetMergeFailed(p)
    BY <1>0, <2>7 DEF CreateGraphNode, RecordEffect, ValidateProjection, AcceptNode, SetMergeFailed
  <2>8. CASE \/ ResetForReimplement(p) \/ BackToDraft(p) \/ StartImplementing(p)
             \/ RecordSandbox(p) \/ ClearResults(p) \/ DestroyNode(p) \/ DeleteNode(p)
    BY <1>0, <2>8 DEF ResetForReimplement, BackToDraft, StartImplementing, RecordSandbox, ClearResults,
                      DestroyNode, DeleteNode
  <2>9. CASE RevertGraph(p) \/ Reopen(p) \/ StatementRaises(p)
    BY <1>0, <2>9 DEF RevertGraph, Reopen, StatementRaises
  <2> QED BY <1>2, <2>1, <2>2, <2>3, <2>4, <2>5, <2>6, <2>7, <2>8, <2>9
          DEF HandlerStep, DualMerge
<1>3. ASSUME NEW p \in Proposals, Environment(p) PROVE repo' \in Git!Repo
  <2>1. CASE CellEdits(p)
    BY <1>0, <2>1, OutsideTypes DEF CellEdits
  <2>2. CASE CellCommits(p)
    BY <1>0, <2>2, OutsideTypes DEF CellCommits
  <2>3. CASE UserEndsMerge(p)
    BY <1>0, <2>3, OutsideTypes DEF UserEndsMerge
  <2> QED BY <1>3, <2>1, <2>2, <2>3 DEF Environment
<1>4. ASSUME NEW t \in Tasks, TaskStep(t) PROVE repo' \in Git!Repo
  BY <1>0, <1>4, TaskFrame
<1>5. CASE Crash
  BY <1>0, <1>5 DEF Crash
<1>6. CASE UNCHANGED vars
  BY <1>0, <1>6 DEF vars
<1> QED BY <1>1, <1>2, <1>3, <1>4, <1>5, <1>6 DEF Next

\* The idle handler and the free task are values of their types (ids start at 1).
LEMMA IdleTypes ==
  /\ Idle \in [step: Steps, p: Proposals, flag: BOOLEAN]
  /\ FreeTask \in [kind: {"free", "queued", "running", "retry"}, p: Proposals]
BY ConstantsAssumption DEF Idle, FreeTask, Steps, Proposals

JobType == [step: Steps, p: Proposals, flag: BOOLEAN]

\* The four ways the control flow moves keep a handler at one of its steps.
LEMMA ControlTypes ==
  ASSUME job \in JobType
  PROVE  /\ \A step \in Steps, p \in Proposals, flag \in BOOLEAN :
              Begin(step, p, flag) => job' \in JobType
         /\ \A step \in Steps : Goto(step) => job' \in JobType
         /\ \A step \in Steps :
              job' = [job EXCEPT !.step = step, !.flag = TRUE] => job' \in JobType
         /\ Return => job' \in JobType
<1>1. ASSUME NEW step \in Steps, NEW p \in Proposals, NEW flag \in BOOLEAN, Begin(step, p, flag)
      PROVE  job' \in JobType
  BY <1>1 DEF JobType, Begin
<1>2. ASSUME NEW step \in Steps, Goto(step) PROVE job' \in JobType
  BY <1>2 DEF JobType, Goto
<1>3. ASSUME NEW step \in Steps, job' = [job EXCEPT !.step = step, !.flag = TRUE]
      PROVE  job' \in JobType
  BY <1>3 DEF JobType
<1>4. ASSUME Return PROVE job' \in JobType
  BY <1>4, IdleTypes DEF JobType, Return
<1> QED BY <1>1, <1>2, <1>3, <1>4

\* Every step leaves a handler at one of its steps, or none.
LEMMA JobStep == TypeOK /\ [Next]_vars => job' \in JobType
<1> SUFFICES ASSUME TypeOK, [Next]_vars PROVE job' \in JobType
  OBVIOUS
<1>0. job \in JobType
  BY DEF TypeOK, JobType
<1> USE <1>0, ControlTypes
<1>1. ASSUME NEW p \in Proposals, Request(p) PROVE job' \in JobType
  <2>1. CASE Create(p) \/ Submit(p)
    BY <2>1 DEF Create, Submit
  <2>8. CASE CompleteImplementation(p)
    BY <2>8 DEF CompleteImplementation, Steps
  <2>2. CASE Delete(p)
    BY <2>2 DEF Delete, Steps
  <2>3. CASE Destroy(p)
    BY <2>3 DEF Destroy, Steps
  <2>4. ASSUME NEW flag \in BOOLEAN, Implement(p, flag) PROVE job' \in JobType
    BY <2>4 DEF Implement, Steps
  <2>5. ASSUME NEW flag \in BOOLEAN, Accept(p, flag) \/ Revoke(p, flag) PROVE job' \in JobType
    BY <2>5 DEF Accept, Revoke, Steps
  <2>6. ASSUME NEW t \in Retries, AdmitRetry(t, p) PROVE job' \in JobType
    BY <2>6 DEF AdmitRetry
  <2>7. ASSUME NEW t \in Runs, NEW kind \in {"queued", "running"}, Validate(t, p, kind)
        PROVE  job' \in JobType
    BY <2>7 DEF Validate
  <2> QED BY <1>1, <2>1, <2>2, <2>3, <2>4, <2>5, <2>6, <2>7, <2>8 DEF Request
<1>2. ASSUME NEW p \in Proposals, HandlerStep(p) PROVE job' \in JobType
  <2>1. CASE MergeCode(p) \/ CreateGraphNode(p)
    BY <2>1 DEF MergeCode, CreateGraphNode, Steps
  <2>2. CASE RecordEffect(p)
    BY <2>2 DEF RecordEffect, Steps
  <2>3. CASE ValidateProjection(p) \/ AcceptNode(p) \/ RollBackMerge(p)
    BY <2>3 DEF ValidateProjection, AcceptNode, RollBackMerge, Steps
  <2>4. CASE SetMergeFailed(p) \/ CleanUpWorktree(p)
    BY <2>4 DEF SetMergeFailed, CleanUpWorktree
  <2>5. CASE RemoveWorktree(p)
    BY <2>5 DEF RemoveWorktree, Steps
  <2>6. CASE ResetForReimplement(p) \/ CreateWorktree(p)
    BY <2>6 DEF ResetForReimplement, CreateWorktree, Steps
  <2>7. CASE BackToDraft(p) \/ StartImplementing(p) \/ RecordSandbox(p) \/ ClearResults(p)
    BY <2>7 DEF BackToDraft, StartImplementing, RecordSandbox, ClearResults, Steps
  <2>8. CASE DestroyNode(p) \/ DeleteNode(p) \/ Reopen(p) \/ StatementRaises(p)
    BY <2>8 DEF DestroyNode, DeleteNode, Reopen, StatementRaises
  <2>9. CASE RevertGraph(p) \/ RevertCode(p)
    BY <2>9 DEF RevertGraph, RevertCode, Steps
  <2> QED BY <1>2, <2>1, <2>2, <2>3, <2>4, <2>5, <2>6, <2>7, <2>8, <2>9
          DEF HandlerStep, DualMerge
<1>3. ASSUME NEW p \in Proposals, Environment(p) PROVE job' \in JobType
  BY <1>3 DEF Environment, CellEdits, CellCommits, UserEndsMerge
<1>4. ASSUME NEW t \in Tasks, TaskStep(t) PROVE job' \in JobType
  <2>1. CASE LoadForTest(t) \/ EndTask(t)
    BY <2>1 DEF LoadForTest, EndTask
  <2>2. CASE RunRetry(t)
    <3>1. tasks[t].p \in Proposals
      BY DEF TypeOK
    <3> QED BY <2>2, <3>1 DEF RunRetry, Steps
  <2>3. ASSUME NEW verdict \in {"pass", "fail"}, SaveResults(t, verdict) PROVE job' \in JobType
    BY <2>3 DEF SaveResults
  <2> QED BY <1>4, <2>1, <2>2, <2>3 DEF TaskStep
<1>5. CASE Crash
  BY <1>5, IdleTypes DEF Crash, JobType
<1>6. CASE UNCHANGED vars
  BY <1>6 DEF vars
<1> QED BY <1>1, <1>2, <1>3, <1>4, <1>5, <1>6 DEF Next

\* What is left of the type invariant: proposals, graph, tasks, history.
RestType ==
  /\ status \in [Proposals -> Statuses \union {NoNode}]
  /\ results \in [Proposals -> Verdicts]
  /\ rooted \in [Proposals -> BOOLEAN]
  /\ boxed \in [Proposals -> BOOLEAN]
  /\ live \in [Proposals -> Nat]
  /\ effects \in [Proposals -> Nat]
  /\ tasks \in [Tasks -> [kind: {"free", "queued", "running", "retry"}, p: Proposals]]
  /\ forced \in [Proposals -> BOOLEAN]
  /\ offered \in [Proposals -> SUBSET Commits]
  /\ accepted \in [Proposals -> SUBSET Commits]
  /\ torn \in [Proposals -> BOOLEAN]

\* What the steps of a handler that can tear a proposal do beside that.
LEMMA TearingFrame ==
  ASSUME NEW p \in Proposals
  PROVE  /\ RecordEffect(p) =>
              /\ effects' = effects \/ effects' = [effects EXCEPT ![p] = @ + 1]
              /\ UNCHANGED << node, repo, live, tasks, forced, offered, accepted >>
         /\ RevertGraph(p) =>
              /\ At("r_graph", p)
              /\ live' = [live EXCEPT ![p] = @ - effects[p]] \/ live' = live
              /\ effects' = [effects EXCEPT ![p] = 0]
              /\ Goto(IF job.flag THEN "r_code" ELSE "r_status")
              /\ UNCHANGED << node, repo, tasks, forced, offered, accepted >>
         /\ StatementRaises(p) =>
              /\ Return
              /\ UNCHANGED << node, repo, graph, tasks, forced, offered, accepted >>
<1>1. RecordEffect(p) =>
        /\ effects' = effects \/ effects' = [effects EXCEPT ![p] = @ + 1]
        /\ UNCHANGED << node, repo, live, tasks, forced, offered, accepted >>
  BY Zenon DEF RecordEffect
<1>2. RevertGraph(p) =>
        /\ At("r_graph", p)
        /\ live' = [live EXCEPT ![p] = @ - effects[p]] \/ live' = live
        /\ effects' = [effects EXCEPT ![p] = 0]
        /\ Goto(IF job.flag THEN "r_code" ELSE "r_status")
        /\ UNCHANGED << node, repo, tasks, forced, offered, accepted >>
  BY Zenon DEF RevertGraph
<1>3. StatementRaises(p) =>
        /\ Return
        /\ UNCHANGED << node, repo, graph, tasks, forced, offered, accepted >>
  BY Zenon DEF StatementRaises
<1> QED BY <1>1, <1>2, <1>3

\* The history of torn proposals stays one of Booleans.
LEMMA TearTypes ==
  ASSUME torn \in [Proposals -> BOOLEAN], NEW p \in Proposals
  PROVE  /\ \A cond \in BOOLEAN : Tear(p, cond) => torn' \in [Proposals -> BOOLEAN]
         /\ CutOff(p) => torn' \in [Proposals -> BOOLEAN]
<1>1. ASSUME NEW cond \in BOOLEAN, Tear(p, cond) PROVE torn' \in [Proposals -> BOOLEAN]
  BY <1>1 DEF Tear
<1>2. ((Undecided(p) /\ live[p] > 0) \/ Revoked(p)) \in BOOLEAN
  OBVIOUS
<1> QED BY <1>1, <1>2 DEF CutOff

\* Every step keeps the types of proposals, graph, tasks and history; revoke
\* subtracts no more nodes than there are.
LEMMA RestStep == TypeOK /\ EffectsHaveNodes /\ [Next]_vars => RestType'
<1> SUFFICES ASSUME TypeOK, EffectsHaveNodes, [Next]_vars PROVE RestType'
  OBVIOUS
<1>0. RestType
  BY DEF TypeOK, RestType
<1> USE <1>0
<1>1. ASSUME NEW p \in Proposals, Request(p) PROVE RestType'
  <2>1. CASE Create(p)
    <3>1. UNCHANGED << rooted, boxed, live, effects, tasks >>
      BY <2>1 DEF Create, graph
    <3>2. /\ status' \in [Proposals -> Statuses \union {NoNode}]
          /\ results' \in [Proposals -> Verdicts]
      BY <2>1 DEF Create, RestType, Statuses, Verdicts
    <3>3. /\ forced' \in [Proposals -> BOOLEAN]
          /\ offered' \in [Proposals -> SUBSET Commits]
          /\ accepted' \in [Proposals -> SUBSET Commits]
          /\ torn' \in [Proposals -> BOOLEAN]
      BY <2>1 DEF Create, RestType
    <3> QED BY <3>1, <3>2, <3>3 DEF RestType
  <2>7. CASE Submit(p) \/ CompleteImplementation(p)
    BY <2>7 DEF Submit, CompleteImplementation, Begin, RestType, graph, ghost, Statuses
  <2>2. CASE Delete(p) \/ Destroy(p)
    BY <2>2 DEF Delete, Destroy, RestType, node, graph, ghost
  <2>3. ASSUME NEW flag \in BOOLEAN, Implement(p, flag) \/ Revoke(p, flag) PROVE RestType'
    BY <2>3 DEF Implement, Revoke, RestType, node, graph, ghost
  <2>4. ASSUME NEW flag \in BOOLEAN, Accept(p, flag) PROVE RestType'
    BY <2>4 DEF Accept, RestType, node, graph
  <2>5. ASSUME NEW t \in Retries, AdmitRetry(t, p) PROVE RestType'
    BY <2>5 DEF AdmitRetry, RestType, node, graph, ghost
  <2>6. ASSUME NEW t \in Runs, NEW kind \in {"queued", "running"}, Validate(t, p, kind)
        PROVE  RestType'
    BY <2>6 DEF Validate, RestType, graph, ghost, Statuses, Verdicts
  <2> QED BY <1>1, <2>1, <2>2, <2>3, <2>4, <2>5, <2>6, <2>7 DEF Request
<1>2. ASSUME NEW p \in Proposals, HandlerStep(p) PROVE RestType'
  <2>1. CASE MergeCode(p)
    <3>1. repo.work[p] \subseteq Commits
      BY DEF TypeOK, Git!Repo
    <3> QED BY <2>1, <3>1 DEF MergeCode, RestType, node, graph
  <2>2. CASE CreateGraphNode(p)
    BY <2>2 DEF CreateGraphNode, RestType, node, ghost
  <2>11. CASE RecordEffect(p)
    <3>1. torn' \in [Proposals -> BOOLEAN]
      BY <2>11, TearTypes DEF RecordEffect, RestType
    <3>2. effects' \in [Proposals -> Nat]
      BY <2>11, TearingFrame DEF RestType
    <3> QED BY <2>11, <3>1, <3>2, TearingFrame DEF RestType, node
  <2>12. CASE ValidateProjection(p)
    <3>1. torn' \in [Proposals -> BOOLEAN]
      BY <2>12, TearTypes DEF ValidateProjection, RestType
    <3> QED BY <2>12, <3>1 DEF ValidateProjection, RestType, node, graph
  <2>3. CASE RollBackMerge(p) \/ CleanUpWorktree(p)
    BY <2>3 DEF RollBackMerge, CleanUpWorktree, RestType, node, graph, ghost
  <2>4. CASE AcceptNode(p)
    <3>1. torn' \in [Proposals -> BOOLEAN]
      BY <2>4, TearTypes DEF AcceptNode, RestType
    <3>2. accepted' \in [Proposals -> SUBSET Commits]
      BY <2>4 DEF AcceptNode, RestType
    <3>3. status' \in [Proposals -> Statuses \union {NoNode}]
      BY <2>4 DEF AcceptNode, SetStatus, RestType, Statuses
    <3> QED BY <2>4, <3>1, <3>2, <3>3 DEF AcceptNode, RestType, graph
  <2>5. CASE SetMergeFailed(p) \/ Reopen(p)
    BY <2>5 DEF SetMergeFailed, Reopen, RestType, SetStatus, graph, ghost, Statuses
  <2>6. CASE RemoveWorktree(p) \/ CreateWorktree(p) \/ RevertCode(p)
    BY <2>6 DEF RemoveWorktree, CreateWorktree, RevertCode, RestType, node, graph, ghost
  <2>10. CASE StatementRaises(p)
    <3>1. torn' \in [Proposals -> BOOLEAN]
      BY <2>10, TearTypes DEF StatementRaises, RestType
    <3> QED BY <2>10, <3>1 DEF StatementRaises, RestType, node, graph
  <2>7. CASE ResetForReimplement(p) \/ BackToDraft(p) \/ StartImplementing(p)
             \/ RecordSandbox(p) \/ ClearResults(p) \/ DestroyNode(p)
    BY <2>7 DEF ResetForReimplement, BackToDraft, StartImplementing, RecordSandbox, ClearResults,
                DestroyNode, RestType, graph, ghost, Statuses, Verdicts
  <2>8. CASE DeleteNode(p)
    BY <2>8 DEF DeleteNode, RestType, ghost, Verdicts
  <2>9. CASE RevertGraph(p)
    <3>1. live[p] - effects[p] \in Nat
      BY DEF RestType, EffectsHaveNodes
    <3>2. torn' \in [Proposals -> BOOLEAN]
      BY <2>9, TearTypes DEF RevertGraph, RestType
    <3>3. live' \in [Proposals -> Nat] /\ effects' \in [Proposals -> Nat]
      BY <2>9, <3>1, TearingFrame DEF RestType
    <3> QED BY <2>9, <3>2, <3>3, TearingFrame DEF RestType, node
  <2> QED BY <1>2, <2>1, <2>2, <2>3, <2>4, <2>5, <2>6, <2>7, <2>8, <2>9, <2>10, <2>11, <2>12
          DEF HandlerStep, DualMerge
<1>3. ASSUME NEW p \in Proposals, Environment(p) PROVE RestType'
  BY <1>3 DEF Environment, CellEdits, CellCommits, UserEndsMerge, RestType, node, graph, ghost
<1>4. ASSUME NEW t \in Tasks, TaskStep(t) PROVE RestType'
  <2>1. CASE LoadForTest(t)
    BY <2>1, IdleTypes DEF LoadForTest, RestType, node, graph, ghost
  <2>3. CASE EndTask(t)
    BY <2>3, IdleTypes DEF EndTask, RestType, node, graph, ghost
  <2>0. tasks[t].p \in Proposals
    BY DEF RestType
  <2>4. CASE RunRetry(t)
    <3>1. torn' \in [Proposals -> BOOLEAN]
      <4>1. (status[tasks[t].p] \in {NoNode, "ACCEPTED"}) \in BOOLEAN
        OBVIOUS
      <4>2. Tear(tasks[t].p, status[tasks[t].p] \in {NoNode, "ACCEPTED"})
        BY <2>4 DEF RunRetry
      <4> QED BY <2>0, <4>1, <4>2, TearTypes DEF RestType
    <3>2. forced' \in [Proposals -> BOOLEAN]
      BY <2>0, <2>4 DEF RunRetry, RestType
    <3> QED BY <2>4, <3>1, <3>2, IdleTypes DEF RunRetry, RestType, node, graph
  <2>2. ASSUME NEW verdict \in {"pass", "fail"}, SaveResults(t, verdict) PROVE RestType'
    <3>1. torn' \in [Proposals -> BOOLEAN]
      BY <2>0, <2>2, TearTypes DEF SaveResults, RestType
    <3>2. /\ results' \in [Proposals -> Verdicts]
          /\ forced' \in [Proposals -> BOOLEAN]
      BY <2>0, <2>2 DEF SaveResults, RestType, Verdicts
    <3>3. status' \in [Proposals -> Statuses \union {NoNode}]
      BY <2>0, <2>2 DEF SaveResults, SetStatus, RestType, Statuses
    <3> QED BY <2>2, <3>1, <3>2, <3>3, IdleTypes DEF SaveResults, RestType, graph
  <2> QED BY <1>4, <2>1, <2>2, <2>3, <2>4 DEF TaskStep
<1>5. CASE Crash
  <2>1. torn' \in [Proposals -> BOOLEAN]
    BY <1>5, TearTypes DEF Crash, RestType, TypeOK
  <2> QED BY <1>5, <2>1, IdleTypes DEF Crash, RestType, node, graph
<1>6. CASE UNCHANGED vars
  BY <1>6 DEF vars, RestType
<1> QED BY <1>1, <1>2, <1>3, <1>4, <1>5, <1>6 DEF Next

\* Type correctness is preserved.
LEMMA TypeStep == TypeOK /\ EffectsHaveNodes /\ [Next]_vars => TypeOK'
BY RepoStep, JobStep, RestStep DEF TypeOK, RestType, JobType

-----------------------------------------------------------------------------
(* Effects and nodes *)

\* A node comes before its EFFECT relation and goes with it: CreateGraphNode
\* leaves a node without one for RecordEffect, RevertGraph drops both.
LEMMA EffectsStep ==
  TypeOK /\ EffectsHaveNodes /\ NodeBeforeEffect /\ [Next]_vars
    => EffectsHaveNodes' /\ NodeBeforeEffect'
<1> SUFFICES ASSUME TypeOK, EffectsHaveNodes, NodeBeforeEffect, [Next]_vars
             PROVE  EffectsHaveNodes' /\ NodeBeforeEffect'
  OBVIOUS
<1>0. /\ live \in [Proposals -> Nat] /\ effects \in [Proposals -> Nat]
      /\ job \in JobType
      /\ \A q \in Proposals : effects[q] <= live[q]
  BY DEF TypeOK, JobType, EffectsHaveNodes
<1> DEFINE Good == EffectsHaveNodes' /\ NodeBeforeEffect'
<1>a. ASSUME UNCHANGED << live, effects >>, job'.step # "m_effect" \/ UNCHANGED job PROVE Good
  BY <1>a DEF EffectsHaveNodes, NodeBeforeEffect
<1>1. ASSUME NEW p \in Proposals, Request(p) PROVE Good
  <2>1. job'.step # "m_effect" \/ UNCHANGED job
    BY <1>1 DEF Request, Create, Submit, Delete, Destroy, CompleteImplementation, Implement,
                Accept, Revoke, AdmitRetry, Validate, Begin
  <2> QED BY <1>1, <1>a, <2>1, RequestFrame
<1>2. ASSUME NEW p \in Proposals, HandlerStep(p) PROVE Good
  <2>1. CASE CreateGraphNode(p)
    BY <1>0, <2>1 DEF CreateGraphNode, Goto, At, JobType, EffectsHaveNodes, NodeBeforeEffect
  <2>2. CASE RecordEffect(p)
    <3>1. effects[p] < live[p] /\ live' = live /\ job'.step = "m_check"
      BY <1>0, <2>2 DEF RecordEffect, Goto, At, JobType, NodeBeforeEffect
    <3>2. effects' = effects \/ effects' = [effects EXCEPT ![p] = @ + 1]
      BY <2>2, TearingFrame
    <3> QED BY <1>0, <3>1, <3>2 DEF EffectsHaveNodes, NodeBeforeEffect
  <2>3. CASE RevertGraph(p)
    BY <1>0, <2>3, TearingFrame DEF Goto, At, JobType, EffectsHaveNodes, NodeBeforeEffect
  <2>4. CASE DeleteNode(p)
    BY <1>0, <2>4 DEF DeleteNode, Return, Idle, EffectsHaveNodes, NodeBeforeEffect
  <2>5. CASE \/ MergeCode(p) \/ ValidateProjection(p) \/ AcceptNode(p) \/ RollBackMerge(p)
             \/ SetMergeFailed(p) \/ CleanUpWorktree(p)
    BY <1>0, <1>a, <2>5 DEF MergeCode, ValidateProjection, AcceptNode, RollBackMerge,
                SetMergeFailed, CleanUpWorktree, Goto, Return, Idle, JobType, graph
  <2>6. CASE \/ RemoveWorktree(p) \/ ResetForReimplement(p) \/ CreateWorktree(p)
             \/ BackToDraft(p) \/ StartImplementing(p) \/ RecordSandbox(p) \/ ClearResults(p)
    BY <1>0, <1>a, <2>6 DEF RemoveWorktree, ResetForReimplement, CreateWorktree, BackToDraft,
                StartImplementing, RecordSandbox, ClearResults, Goto, Return, Idle, JobType, graph
  <2>7. CASE \/ DestroyNode(p) \/ RevertCode(p) \/ Reopen(p) \/ StatementRaises(p)
    BY <1>0, <1>a, <2>7 DEF DestroyNode, RevertCode, Reopen, StatementRaises, Goto, Return,
                Idle, JobType, graph
  <2> QED BY <1>2, <2>1, <2>2, <2>3, <2>4, <2>5, <2>6, <2>7 DEF HandlerStep, DualMerge
<1>3. ASSUME NEW p \in Proposals, Environment(p) PROVE Good
  BY <1>3, <1>a DEF Environment, CellEdits, CellCommits, UserEndsMerge, graph
<1>4. ASSUME NEW t \in Tasks, TaskStep(t) PROVE Good
  BY <1>4, <1>a, TaskFrame DEF TaskStep, LoadForTest, RunRetry, EndTask, SaveResults, Begin
<1>5. CASE Crash
  BY <1>5, <1>a DEF Crash, Idle, graph
<1>6. CASE UNCHANGED vars
  BY <1>6, <1>a DEF vars
<1> QED BY <1>1, <1>2, <1>3, <1>4, <1>5, <1>6 DEF Next

-----------------------------------------------------------------------------
(* Verdicts *)

\* No step puts a proposal that shows a verdict into a stage of drafting,
\* implementing or testing: whoever moves it there resets the verdict first.
LEMMA VerdictStep ==
  TypeOK /\ NoVerdictWhileWorking /\ NoVerdictInJob /\ [Next]_vars
    => NoVerdictWhileWorking' /\ NoVerdictInJob'
<1> SUFFICES ASSUME TypeOK, NoVerdictWhileWorking, NoVerdictInJob, [Next]_vars
             PROVE  NoVerdictWhileWorking' /\ NoVerdictInJob'
  OBVIOUS
<1>0. /\ status \in [Proposals -> Statuses \union {NoNode}]
      /\ results \in [Proposals -> Verdicts]
      /\ job \in JobType
  BY DEF TypeOK, JobType
<1> DEFINE Good == NoVerdictWhileWorking' /\ NoVerdictInJob'
           Making == {"i_create", "i_draft", "i_status", "i_meta"}
<1>a. ASSUME UNCHANGED << status, results >>, job'.step \notin Making \/ UNCHANGED job
      PROVE  Good
  BY <1>a DEF NoVerdictWhileWorking, NoVerdictInJob
<1>1. ASSUME NEW p \in Proposals, Request(p) PROVE Good
  <2>1. CASE Create(p)
    BY <1>0, <2>1 DEF Create, Quiet, Idle, NoVerdictWhileWorking, NoVerdictInJob
  <2>2. CASE Submit(p)
    BY <1>0, <2>2 DEF Submit, Quiet, Idle, NoVerdictWhileWorking, NoVerdictInJob
  <2>3. CASE CompleteImplementation(p)
    BY <1>0, <2>3 DEF CompleteImplementation, Begin, NoVerdictWhileWorking, NoVerdictInJob
  <2>4. CASE Delete(p) \/ Destroy(p)
    BY <1>a, <2>4 DEF Delete, Destroy, Begin, node
  <2>5. ASSUME NEW flag \in BOOLEAN, Implement(p, flag) PROVE Good
    <3>1. status[p] = "SUBMITTED" => results[p] = "none"
      BY DEF NoVerdictWhileWorking
    <3> QED BY <2>5, <3>1 DEF Implement, Begin, node, NoVerdictWhileWorking, NoVerdictInJob
  <2>6. ASSUME NEW flag \in BOOLEAN, Accept(p, flag) \/ Revoke(p, flag) PROVE Good
    BY <1>a, <2>6 DEF Accept, Revoke, Begin, node
  <2>7. ASSUME NEW t \in Retries, AdmitRetry(t, p) PROVE Good
    BY <1>a, <2>7 DEF AdmitRetry, node
  <2>8. ASSUME NEW t \in Runs, NEW kind \in {"queued", "running"}, Validate(t, p, kind)
        PROVE  Good
    BY <1>0, <2>8 DEF Validate, Quiet, Idle, NoVerdictWhileWorking, NoVerdictInJob
  <2> QED BY <1>1, <2>1, <2>2, <2>3, <2>4, <2>5, <2>6, <2>7, <2>8 DEF Request
<1>2. ASSUME NEW p \in Proposals, HandlerStep(p) PROVE Good
  <2>1. CASE MergeCode(p)
    BY <1>0, <1>a, <2>1 DEF MergeCode, Goto, JobType, node
  <2>11. CASE CreateGraphNode(p) \/ RecordEffect(p) \/ ValidateProjection(p)
    BY <1>0, <1>a, <2>11 DEF CreateGraphNode, RecordEffect, ValidateProjection, Goto, JobType, node
  <2>12. CASE RollBackMerge(p) \/ CleanUpWorktree(p)
    BY <1>0, <1>a, <2>12 DEF RollBackMerge, CleanUpWorktree, Goto, Return, Idle, JobType, node
  <2>2. CASE AcceptNode(p)
    BY <1>0, <2>2 DEF AcceptNode, SetStatus, Goto, At, JobType, NoVerdictWhileWorking, NoVerdictInJob
  <2>3. CASE SetMergeFailed(p) \/ Reopen(p)
    BY <1>0, <2>3 DEF SetMergeFailed, Reopen, SetStatus, Return, Idle, NoVerdictWhileWorking,
                NoVerdictInJob
  <2>4. CASE ResetForReimplement(p)
    BY <1>0, <2>4 DEF ResetForReimplement, Goto, At, JobType, NoVerdictWhileWorking, NoVerdictInJob
  <2>5. CASE CreateWorktree(p)
    BY <1>0, <2>5 DEF CreateWorktree, Goto, Return, Idle, At, JobType, node,
                NoVerdictWhileWorking, NoVerdictInJob
  <2>6. CASE BackToDraft(p)
    BY <1>0, <2>6 DEF BackToDraft, Return, Idle, At, NoVerdictWhileWorking, NoVerdictInJob
  <2>7. CASE StartImplementing(p)
    BY <1>0, <2>7 DEF StartImplementing, Goto, At, JobType, NoVerdictWhileWorking, NoVerdictInJob
  <2>8. CASE RecordSandbox(p)
    BY <1>0, <2>8 DEF RecordSandbox, Goto, Return, Idle, At, JobType,
                NoVerdictWhileWorking, NoVerdictInJob
  <2>13. CASE ClearResults(p)
    BY <1>0, <2>13 DEF ClearResults, Return, Idle, NoVerdictWhileWorking, NoVerdictInJob
  <2>9. CASE DestroyNode(p) \/ DeleteNode(p)
    BY <1>0, <2>9 DEF DestroyNode, DeleteNode, Return, Idle, NoVerdictWhileWorking, NoVerdictInJob
  <2>10. CASE \/ RemoveWorktree(p) \/ RevertGraph(p) \/ RevertCode(p) \/ StatementRaises(p)
    BY <1>0, <1>a, <2>10, TearingFrame DEF RemoveWorktree, RevertCode,
                Goto, Return, Idle, JobType, node
  <2> QED BY <1>2, <2>1, <2>2, <2>3, <2>4, <2>5, <2>6, <2>7, <2>8, <2>9, <2>10, <2>11, <2>12,
             <2>13 DEF HandlerStep, DualMerge
<1>3. ASSUME NEW p \in Proposals, Environment(p) PROVE Good
  BY <1>3, <1>a DEF Environment, CellEdits, CellCommits, UserEndsMerge, node
<1>4. ASSUME NEW t \in Tasks, TaskStep(t) PROVE Good
  <2>1. CASE LoadForTest(t) \/ RunRetry(t) \/ EndTask(t)
    BY <1>a, <2>1 DEF LoadForTest, RunRetry, EndTask, Begin, node
  <2>2. ASSUME NEW verdict \in {"pass", "fail"}, SaveResults(t, verdict) PROVE Good
    <3>1. tasks[t].p \in Proposals
      BY DEF TypeOK
    <3> QED BY <1>0, <2>2, <3>1 DEF SaveResults, SetStatus, Quiet, Idle,
                NoVerdictWhileWorking, NoVerdictInJob
  <2> QED BY <1>4, <2>1, <2>2 DEF TaskStep
<1>5. CASE Crash
  BY <1>5, <1>a DEF Crash, Idle, node
<1>6. CASE UNCHANGED vars
  BY <1>6, <1>a DEF vars
<1> QED BY <1>1, <1>2, <1>3, <1>4, <1>5, <1>6 DEF Next

\* A failed verdict that is shown beside ACCEPTED or MERGE_FAILED was decided
\* on: it was there when the dual merge began, for nothing writes one during it,
\* and a later one comes with PENDING_ACCEPTANCE.
LEMMA OverrideStep ==
  TypeOK /\ NoVerdictWhileWorking /\ FailedVerdictNeedsForce /\ VerdictOverridden /\ [Next]_vars
    => FailedVerdictNeedsForce' /\ VerdictOverridden'
<1> SUFFICES ASSUME TypeOK, NoVerdictWhileWorking, FailedVerdictNeedsForce, VerdictOverridden,
                    [Next]_vars
             PROVE  FailedVerdictNeedsForce' /\ VerdictOverridden'
  OBVIOUS
<1>0. /\ status \in [Proposals -> Statuses \union {NoNode}]
      /\ results \in [Proposals -> Verdicts]
      /\ forced \in [Proposals -> BOOLEAN]
      /\ job \in JobType
  BY DEF TypeOK, JobType
<1> DEFINE Good == FailedVerdictNeedsForce' /\ VerdictOverridden'
<1> USE DEF DualMergeSteps, MergeSteps
<1>a. ASSUME UNCHANGED << status, results, forced >>,
             \/ job'.step \notin DualMergeSteps
             \/ job.step \in DualMergeSteps /\ job'.p = job.p
             \/ UNCHANGED job
      PROVE  Good
  BY <1>a DEF FailedVerdictNeedsForce, VerdictOverridden
<1>b. Quiet => job.step \notin DualMergeSteps
  BY DEF Quiet, Idle
<1>1. ASSUME NEW p \in Proposals, Request(p) PROVE Good
  <2>1. CASE Create(p)
    BY <1>0, <1>b, <2>1 DEF Create, FailedVerdictNeedsForce, VerdictOverridden
  <2>2. CASE Submit(p)
    BY <1>0, <1>b, <2>2 DEF Submit, ghost, FailedVerdictNeedsForce, VerdictOverridden
  <2>8. CASE CompleteImplementation(p)
    BY <1>0, <2>8 DEF CompleteImplementation, Begin, ghost, FailedVerdictNeedsForce,
                VerdictOverridden
  <2>3. CASE Delete(p) \/ Destroy(p)
    BY <1>a, <2>3 DEF Delete, Destroy, Begin, node, ghost
  <2>4. ASSUME NEW flag \in BOOLEAN, Implement(p, flag) \/ Revoke(p, flag) PROVE Good
    BY <1>a, <2>4 DEF Implement, Revoke, Begin, node, ghost
  <2>5. ASSUME NEW flag \in BOOLEAN, Accept(p, flag) PROVE Good
    BY <1>0, <2>5 DEF Accept, Begin, node, FailedVerdictNeedsForce, VerdictOverridden
  <2>6. ASSUME NEW t \in Retries, AdmitRetry(t, p) PROVE Good
    BY <1>a, <2>6 DEF AdmitRetry, node, ghost
  <2>7. ASSUME NEW t \in Runs, NEW kind \in {"queued", "running"}, Validate(t, p, kind)
        PROVE  Good
    BY <1>0, <1>b, <2>7 DEF Validate, ghost, FailedVerdictNeedsForce, VerdictOverridden
  <2> QED BY <1>1, <2>1, <2>2, <2>3, <2>4, <2>5, <2>6, <2>7, <2>8 DEF Request
<1>2. ASSUME NEW p \in Proposals, HandlerStep(p) PROVE Good
  <2>1. CASE MergeCode(p)
    BY <1>0, <1>a, <2>1 DEF MergeCode, Goto, At, JobType, node
  <2>2. CASE CreateGraphNode(p) \/ RecordEffect(p) \/ ValidateProjection(p) \/ RollBackMerge(p)
    BY <1>0, <1>a, <2>2 DEF CreateGraphNode, RecordEffect, ValidateProjection, RollBackMerge,
                Goto, At, JobType, node, ghost
  <2>3. CASE AcceptNode(p)
    BY <1>0, <2>3 DEF AcceptNode, SetStatus, Goto, At, JobType, FailedVerdictNeedsForce,
                VerdictOverridden
  <2>4. CASE SetMergeFailed(p)
    BY <1>0, <2>4 DEF SetMergeFailed, SetStatus, Return, Idle, At, ghost,
                FailedVerdictNeedsForce, VerdictOverridden
  <2>5. CASE Reopen(p)
    BY <1>0, <2>5 DEF Reopen, SetStatus, Return, Idle, ghost,
                FailedVerdictNeedsForce, VerdictOverridden
  <2>6. CASE ResetForReimplement(p)
    BY <1>0, <2>6 DEF ResetForReimplement, Goto, JobType, ghost,
                FailedVerdictNeedsForce, VerdictOverridden
  <2>7. CASE CreateWorktree(p) \/ CleanUpWorktree(p)
    BY <1>0, <1>a, <2>7 DEF CreateWorktree, CleanUpWorktree, Goto, Return, Idle, JobType,
                node, ghost
  <2>8. CASE BackToDraft(p)
    BY <1>0, <2>8 DEF BackToDraft, Return, Idle, ghost, FailedVerdictNeedsForce, VerdictOverridden
  <2>9. CASE StartImplementing(p)
    BY <1>0, <2>9 DEF StartImplementing, Goto, JobType, ghost,
                FailedVerdictNeedsForce, VerdictOverridden
  <2>10. CASE RecordSandbox(p)
    BY <1>0, <1>a, <2>10 DEF RecordSandbox, Goto, Return, Idle, JobType, ghost
  <2>14. CASE ClearResults(p)
    BY <1>0, <2>14 DEF ClearResults, Return, Idle, ghost, FailedVerdictNeedsForce,
                VerdictOverridden
  <2>11. CASE DestroyNode(p) \/ DeleteNode(p)
    BY <1>0, <2>11 DEF DestroyNode, DeleteNode, Return, Idle, ghost, NoNode,
                FailedVerdictNeedsForce, VerdictOverridden
  <2>12. CASE RemoveWorktree(p)
    BY <1>0, <1>a, <2>12 DEF RemoveWorktree, Goto, JobType, node, ghost
  <2>13. CASE RevertGraph(p) \/ RevertCode(p) \/ StatementRaises(p)
    BY <1>0, <1>a, <2>13, TearingFrame DEF RevertCode, Goto, Return, Idle, JobType, node, ghost
  <2> QED BY <1>2, <2>1, <2>2, <2>3, <2>4, <2>5, <2>6, <2>7, <2>8, <2>9, <2>10, <2>11, <2>12,
             <2>13, <2>14 DEF HandlerStep, DualMerge
<1>3. ASSUME NEW p \in Proposals, Environment(p) PROVE Good
  BY <1>3, <1>a DEF Environment, CellEdits, CellCommits, UserEndsMerge, node, ghost
<1>4. ASSUME NEW t \in Tasks, TaskStep(t) PROVE Good
  <2>0. tasks[t].p \in Proposals
    BY DEF TypeOK
  <2>1. CASE LoadForTest(t) \/ EndTask(t)
    BY <1>a, <2>1 DEF LoadForTest, EndTask, node, ghost
  <2>2. CASE RunRetry(t)
    BY <1>0, <2>0, <2>2 DEF RunRetry, Begin, node, FailedVerdictNeedsForce, VerdictOverridden
  <2>3. ASSUME NEW verdict \in {"pass", "fail"}, SaveResults(t, verdict) PROVE Good
    BY <1>0, <1>b, <2>0, <2>3 DEF SaveResults, SetStatus, FailedVerdictNeedsForce,
                VerdictOverridden
  <2> QED BY <1>4, <2>1, <2>2, <2>3 DEF TaskStep
<1>5. CASE Crash
  BY <1>5, <1>a DEF Crash, Idle, node, ghost
<1>6. CASE UNCHANGED vars
  BY <1>6, <1>a DEF vars
<1> QED BY <1>1, <1>2, <1>3, <1>4, <1>5, <1>6 DEF Next

-----------------------------------------------------------------------------
(* Merged code *)

\* Main's history never loses a commit, and outside of a merge no merge head
\* appears: a revert takes work out of the files, not out of the history.
LEMMA RepoMoves ==
  ASSUME TypeOK, HeadNeedsMerge, [Next]_vars
  PROVE  repo.history \subseteq repo'.history /\ HeadNeedsMerge'
<1>0. repo \in Git!Repo
  BY DEF TypeOK
<1> DEFINE Good == repo.history \subseteq repo'.history /\ HeadNeedsMerge'
<1>a. ASSUME UNCHANGED repo PROVE Good
  BY <1>a DEF HeadNeedsMerge
<1>1. ASSUME NEW p \in Proposals, Request(p) PROVE Good
  BY <1>1, <1>a, RequestFrame
<1>2. ASSUME NEW p \in Proposals, HandlerStep(p) PROVE Good
  <2>1. CASE MergeCode(p)
    <3>1. CASE repo' = Git!Merged(repo, p)
      <4>1. repo'.history = repo.history \union Git!Incoming(repo, p)
        BY <1>0, <3>1 DEF Git!Repo, Git!Merged
      <4>2. repo'.merging = repo.merging /\ repo'.mergeHead = repo.mergeHead
        BY <1>0, <3>1 DEF Git!Repo, Git!Merged
      <4> QED BY <4>1, <4>2 DEF HeadNeedsMerge
    <3>2. CASE repo' = Git!MergeConflicted(repo, p)
      <4>1. repo'.history = repo.history /\ repo'.merging = {p}
        BY <1>0, <3>2 DEF Git!Repo, Git!MergeConflicted
      <4> QED BY <4>1 DEF HeadNeedsMerge
    <3> QED BY <1>a, <2>1, <3>1, <3>2 DEF MergeCode
  <2>2. CASE RollBackMerge(p)
    BY <1>0, <2>2 DEF RollBackMerge, Git!Repo, Git!ResetMerge, HeadNeedsMerge
  <2>3. CASE RevertCode(p)
    BY <1>0, <1>a, <2>3 DEF RevertCode, Git!Repo, Git!Reverted, HeadNeedsMerge
  <2>4. CASE CleanUpWorktree(p)
    BY <1>0, <1>a, <2>4 DEF CleanUpWorktree, Git!Repo, Git!WorktreeCleaned, HeadNeedsMerge
  <2>5. CASE RemoveWorktree(p)
    BY <1>0, <1>a, <2>5 DEF RemoveWorktree, Git!Repo, Git!WorktreeRemoved, HeadNeedsMerge
  <2>6. CASE CreateWorktree(p)
    BY <1>0, <1>a, <2>6 DEF CreateWorktree, Git!Repo, Git!WorktreeCreated,
                            Git!WorktreeNotCreated, HeadNeedsMerge
  <2>7. CASE \/ CreateGraphNode(p) \/ RecordEffect(p) \/ ValidateProjection(p)
             \/ AcceptNode(p) \/ SetMergeFailed(p)
    BY <1>a, <2>7 DEF CreateGraphNode, RecordEffect, ValidateProjection, AcceptNode, SetMergeFailed
  <2>8. CASE \/ ResetForReimplement(p) \/ BackToDraft(p) \/ StartImplementing(p)
             \/ RecordSandbox(p) \/ ClearResults(p) \/ DestroyNode(p) \/ DeleteNode(p)
    BY <1>a, <2>8 DEF ResetForReimplement, BackToDraft, StartImplementing, RecordSandbox, ClearResults,
                      DestroyNode, DeleteNode
  <2>9. CASE RevertGraph(p) \/ Reopen(p) \/ StatementRaises(p)
    BY <1>a, <2>9 DEF RevertGraph, Reopen, StatementRaises
  <2> QED BY <1>2, <2>1, <2>2, <2>3, <2>4, <2>5, <2>6, <2>7, <2>8, <2>9
          DEF HandlerStep, DualMerge
<1>3. ASSUME NEW p \in Proposals, Environment(p) PROVE Good
  <2>1. CASE CellEdits(p)
    BY <1>0, <2>1 DEF CellEdits, Git!Repo, Git!Edited, HeadNeedsMerge
  <2>2. CASE CellCommits(p)
    BY <1>0, <2>2 DEF CellCommits, Git!Repo, Git!Committed, HeadNeedsMerge
  <2>3. CASE UserEndsMerge(p)
    <3>1. CASE repo' = Git!MergeAborted(repo)
      BY <1>0, <3>1 DEF Git!Repo, Git!MergeAborted, HeadNeedsMerge
    <3>2. CASE repo' = Git!MergeConcluded(repo, p)
      BY <1>0, <3>2 DEF Git!Repo, Git!MergeConcluded, HeadNeedsMerge
    <3> QED BY <2>3, <3>1, <3>2 DEF UserEndsMerge
  <2> QED BY <1>3, <2>1, <2>2, <2>3 DEF Environment
<1>4. ASSUME NEW t \in Tasks, TaskStep(t) PROVE Good
  BY <1>4, <1>a, TaskFrame
<1>5. CASE Crash
  BY <1>5, <1>a DEF Crash
<1>6. CASE UNCHANGED vars
  BY <1>6, <1>a DEF vars
<1> QED BY <1>1, <1>2, <1>3, <1>4, <1>5, <1>6 DEF Next

\* From a successful merge to the end of the graph phase main keeps what the
\* branch offered, although the cell and the user go on working: a merge that is
\* refused or conflicts never gets there, and no other handler runs.
LEMMA MergedStep ==
  TypeOK /\ MergedInJob /\ HeadNeedsMerge /\ [Next]_vars => MergedInJob'
<1> SUFFICES ASSUME TypeOK, MergedInJob, HeadNeedsMerge, [Next]_vars PROVE MergedInJob'
  OBVIOUS
<1>0. /\ repo \in Git!Repo
      /\ offered \in [Proposals -> SUBSET Commits]
      /\ job \in JobType
  BY DEF TypeOK, JobType
<1>a. ASSUME job'.step \notin MergeSteps PROVE MergedInJob'
  BY <1>a DEF MergedInJob
<1>b. ASSUME job'.step \in MergeSteps => job.step \in MergeSteps,
             job'.p = job.p, UNCHANGED << repo, offered >>
      PROVE  MergedInJob'
  BY <1>b DEF MergedInJob
<1>1. ASSUME NEW p \in Proposals, Request(p) PROVE MergedInJob'
  <2>1. job'.step \notin MergeSteps
    BY <1>1 DEF Request, Create, Submit, Delete, Destroy, CompleteImplementation, Implement,
                Accept, Revoke, AdmitRetry, Validate, Begin, Quiet, Idle, MergeSteps
  <2> QED BY <1>a, <2>1
<1>2. ASSUME NEW p \in Proposals, HandlerStep(p) PROVE MergedInJob'
  <2>1. CASE MergeCode(p)
    <3>1. CASE rooted[p] /\ Git!AlreadyUpToDate(repo, p) /\ UNCHANGED repo /\ Goto("m_create")
      <4>1. repo.merging = {} /\ repo.work[p] \subseteq repo.history
        BY <1>0, <3>1, MergeBringsAll DEF Git!AlreadyUpToDate, Git!MergeRefused
      <4> QED BY <1>0, <2>1, <3>1, <4>1 DEF MergeCode, At, Goto, JobType, MergedInJob
    <3>2. CASE rooted[p] /\ Git!CanMerge(repo, p) /\ repo' = Git!Merged(repo, p) /\ Goto("m_create")
      <4>1. repo'.merging = {} /\ repo.work[p] \subseteq repo'.history
        BY <1>0, <3>2, MergeBringsAll DEF Git!CanMerge, Git!MergeRefused, Git!Merged, Git!Repo
      <4> QED BY <1>0, <2>1, <3>2, <4>1 DEF MergeCode, At, Goto, JobType, MergedInJob
    <3>3. CASE Goto("m_failed")
      BY <1>0, <1>a, <3>3 DEF Goto, JobType, MergeSteps
    <3> QED BY <2>1, <3>1, <3>2, <3>3 DEF MergeCode
  <2>2. CASE CreateGraphNode(p) \/ RecordEffect(p) \/ ValidateProjection(p) \/ AcceptNode(p)
    BY <1>0, <1>a, <1>b, <2>2 DEF CreateGraphNode, RecordEffect, ValidateProjection, AcceptNode,
                At, Goto, JobType, MergeSteps, ghost
  <2>3. CASE RollBackMerge(p) \/ SetMergeFailed(p) \/ CleanUpWorktree(p)
    BY <1>0, <1>a, <2>3 DEF RollBackMerge, SetMergeFailed, CleanUpWorktree,
                Goto, Return, Idle, JobType, MergeSteps
  <2>4. CASE \/ RemoveWorktree(p) \/ ResetForReimplement(p) \/ CreateWorktree(p)
             \/ BackToDraft(p) \/ StartImplementing(p) \/ RecordSandbox(p) \/ ClearResults(p)
    BY <1>0, <1>a, <2>4 DEF RemoveWorktree, ResetForReimplement, CreateWorktree, BackToDraft,
                StartImplementing, RecordSandbox, ClearResults, Goto, Return, Idle, JobType, MergeSteps
  <2>5. CASE \/ DestroyNode(p) \/ DeleteNode(p) \/ RevertGraph(p) \/ RevertCode(p)
             \/ Reopen(p) \/ StatementRaises(p)
    BY <1>0, <1>a, <2>5, TearingFrame DEF DestroyNode, DeleteNode, RevertCode, Reopen, Goto, Return, Idle, JobType, MergeSteps
  <2> QED BY <1>2, <2>1, <2>2, <2>3, <2>4, <2>5 DEF HandlerStep, DualMerge
<1>3. ASSUME NEW p \in Proposals, Environment(p) PROVE MergedInJob'
  <2>1. CASE CellEdits(p)
    BY <1>0, <2>1 DEF CellEdits, Git!Repo, Git!Edited, MergedInJob, ghost
  <2>2. CASE CellCommits(p)
    BY <1>0, <2>2 DEF CellCommits, Git!Repo, Git!Committed, MergedInJob, ghost
  <2>3. CASE UserEndsMerge(p)
    BY <1>0, <1>a, <2>3 DEF UserEndsMerge, MergedInJob
  <2> QED BY <1>3, <2>1, <2>2, <2>3 DEF Environment
<1>4. ASSUME NEW t \in Tasks, TaskStep(t) PROVE MergedInJob'
  BY <1>4, <1>a DEF TaskStep, LoadForTest, RunRetry, EndTask, SaveResults, Begin, Quiet, Idle,
                    MergeSteps
<1>5. CASE Crash
  BY <1>5, <1>a DEF Crash, Idle, MergeSteps
<1>6. CASE UNCHANGED vars
  BY <1>6, <1>b DEF vars
<1> QED BY <1>1, <1>2, <1>3, <1>4, <1>5, <1>6 DEF Next

\* Only AcceptNode makes a proposal ACCEPTED, past a merge; and history never
\* shrinks under one that is.
LEMMA AcceptedStep ==
  TypeOK /\ AcceptedIsMerged /\ MergedInJob /\ HeadNeedsMerge /\ [Next]_vars
    => AcceptedIsMerged'
<1> SUFFICES ASSUME TypeOK, AcceptedIsMerged, MergedInJob, HeadNeedsMerge, [Next]_vars
             PROVE  AcceptedIsMerged'
  OBVIOUS
<1>0. /\ status \in [Proposals -> Statuses \union {NoNode}]
      /\ accepted \in [Proposals -> SUBSET Commits]
      /\ job \in JobType
      /\ repo.history \subseteq repo'.history
  BY RepoMoves DEF TypeOK, JobType
<1>a. ASSUME accepted' = accepted,
             \A q \in Proposals : status'[q] = "ACCEPTED" => status[q] = "ACCEPTED"
      PROVE  AcceptedIsMerged'
  BY <1>0, <1>a DEF AcceptedIsMerged
<1>1. ASSUME NEW p \in Proposals, Request(p) PROVE AcceptedIsMerged'
  <2>1. CASE Create(p)
    BY <1>0, <2>1 DEF Create, AcceptedIsMerged
  <2>2. CASE Submit(p) \/ CompleteImplementation(p)
    BY <1>0, <1>a, <2>2 DEF Submit, CompleteImplementation, ghost
  <2>3. CASE Delete(p) \/ Destroy(p)
    BY <1>a, <2>3 DEF Delete, Destroy, node, ghost
  <2>4. ASSUME NEW flag \in BOOLEAN, Implement(p, flag) \/ Accept(p, flag) \/ Revoke(p, flag)
        PROVE  AcceptedIsMerged'
    BY <1>a, <2>4 DEF Implement, Accept, Revoke, node, ghost
  <2>5. ASSUME NEW t \in Retries, AdmitRetry(t, p) PROVE AcceptedIsMerged'
    BY <1>a, <2>5 DEF AdmitRetry, node, ghost
  <2>6. ASSUME NEW t \in Runs, NEW kind \in {"queued", "running"}, Validate(t, p, kind)
        PROVE  AcceptedIsMerged'
    BY <1>0, <1>a, <2>6 DEF Validate, ghost
  <2> QED BY <1>1, <2>1, <2>2, <2>3, <2>4, <2>5, <2>6 DEF Request
<1>2. ASSUME NEW p \in Proposals, HandlerStep(p) PROVE AcceptedIsMerged'
  <2>1. CASE AcceptNode(p)
    <3>1. offered[p] \subseteq repo.history
      BY <2>1 DEF AcceptNode, At, MergedInJob, MergeSteps
    <3> QED BY <1>0, <2>1, <3>1 DEF AcceptNode, SetStatus, AcceptedIsMerged
  <2>2. CASE SetMergeFailed(p) \/ Reopen(p)
    BY <1>0, <1>a, <2>2 DEF SetMergeFailed, Reopen, SetStatus, ghost
  <2>3. CASE ResetForReimplement(p) \/ BackToDraft(p) \/ StartImplementing(p)
    BY <1>0, <1>a, <2>3 DEF ResetForReimplement, BackToDraft, StartImplementing, ghost
  <2>4. CASE DestroyNode(p) \/ DeleteNode(p)
    BY <1>0, <1>a, <2>4 DEF DestroyNode, DeleteNode, NoNode, ghost
  <2>5. CASE \/ MergeCode(p) \/ CreateGraphNode(p) \/ RecordEffect(p) \/ ValidateProjection(p)
             \/ RollBackMerge(p) \/ CleanUpWorktree(p)
    BY <1>a, <2>5 DEF MergeCode, CreateGraphNode, RecordEffect, ValidateProjection,
                RollBackMerge, CleanUpWorktree, node, ghost
  <2>6. CASE \/ RemoveWorktree(p) \/ CreateWorktree(p) \/ RecordSandbox(p) \/ ClearResults(p)
             \/ RevertGraph(p) \/ RevertCode(p) \/ StatementRaises(p)
    BY <1>a, <2>6, TearingFrame DEF RemoveWorktree, CreateWorktree, RecordSandbox, ClearResults,
                RevertCode, node, ghost
  <2> QED BY <1>2, <2>1, <2>2, <2>3, <2>4, <2>5, <2>6 DEF HandlerStep, DualMerge
<1>3. ASSUME NEW p \in Proposals, Environment(p) PROVE AcceptedIsMerged'
  BY <1>3, <1>a DEF Environment, CellEdits, CellCommits, UserEndsMerge, node, ghost
<1>4. ASSUME NEW t \in Tasks, TaskStep(t) PROVE AcceptedIsMerged'
  <2>1. CASE LoadForTest(t) \/ RunRetry(t) \/ EndTask(t)
    BY <1>a, <2>1 DEF LoadForTest, RunRetry, EndTask, node, ghost
  <2>2. ASSUME NEW verdict \in {"pass", "fail"}, SaveResults(t, verdict) PROVE AcceptedIsMerged'
    <3>1. tasks[t].p \in Proposals
      BY DEF TypeOK
    <3> QED BY <1>0, <1>a, <2>2, <3>1 DEF SaveResults, SetStatus
  <2> QED BY <1>4, <2>1, <2>2 DEF TaskStep
<1>5. CASE Crash
  BY <1>5, <1>a DEF Crash, node, ghost
<1>6. CASE UNCHANGED vars
  BY <1>6, <1>a DEF vars
<1> QED BY <1>1, <1>2, <1>3, <1>4, <1>5, <1>6 DEF Next

-----------------------------------------------------------------------------
(* Whose work is whose *)

\* The work the repository holds for a proposal: on its branch, brought in by
\* its last merge, or in a merge of it that is unfinished.
Held(r, p) == r.work[p] \union r.brought[p] \union (IF p \in r.merging THEN r.mergeHead ELSE {})

\* A change of the repository that gives nobody work, brings nothing in beside
\* the history and takes nothing out of the files.
Keeps(r, s) ==
  /\ \A q \in Proposals : Held(s, q) \subseteq Held(r, q)
  /\ (\A q \in Proposals : r.brought[q] \subseteq r.history)
       => \A q \in Proposals : s.brought[q] \subseteq s.history

\* Every git operation of SandboxManager, and what the user does with a merge,
\* moves a proposal's work around among what is held for that proposal.
LEMMA OperationsKeep ==
  ASSUME NEW r \in Git!Repo, NEW p \in Proposals
  PROVE  /\ Keeps(r, Git!WorktreeCreated(r, p))
         /\ \A s \in Git!WorktreeNotCreated(r, p) : Keeps(r, s)
         /\ Keeps(r, Git!WorktreeRemoved(r, p))
         /\ Keeps(r, Git!WorktreeCleaned(r, p))
         /\ Keeps(r, Git!Merged(r, p))
         /\ Keeps(r, Git!MergeConflicted(r, p))
         /\ Keeps(r, Git!ResetMerge(r))
         /\ Keeps(r, Git!Reverted(r, p))
         /\ Keeps(r, Git!Edited(r, p))
         /\ Keeps(r, Git!MergeAborted(r))
         /\ p \in r.merging => Keeps(r, Git!MergeConcluded(r, p))
<1> USE DEF Git!Repo
<1>1. Keeps(r, Git!WorktreeCreated(r, p))
  BY DEF Keeps, Held, Git!WorktreeCreated
<1>2. \A s \in Git!WorktreeNotCreated(r, p) : Keeps(r, s)
  BY ZenonT(60) DEF Keeps, Held, Git!WorktreeNotCreated
<1>3. Keeps(r, Git!WorktreeRemoved(r, p))
  BY DEF Keeps, Held, Git!WorktreeRemoved
<1>4. Keeps(r, Git!WorktreeCleaned(r, p))
  BY DEF Keeps, Held, Git!WorktreeCleaned
<1>5. Keeps(r, Git!Merged(r, p))
  BY DEF Keeps, Held, Git!Merged, Git!Incoming
<1>6. Keeps(r, Git!MergeConflicted(r, p))
  BY DEF Keeps, Held, Git!MergeConflicted, Git!Incoming
<1>7. Keeps(r, Git!ResetMerge(r))
  BY DEF Keeps, Held, Git!ResetMerge
<1>8. Keeps(r, Git!Reverted(r, p))
  BY DEF Keeps, Held, Git!Reverted
<1>9. Keeps(r, Git!Edited(r, p))
  BY DEF Keeps, Held, Git!Edited
<1>10. Keeps(r, Git!MergeAborted(r))
  BY DEF Keeps, Held, Git!MergeAborted
<1>11. p \in r.merging => Keeps(r, Git!MergeConcluded(r, p))
  BY DEF Keeps, Held, Git!MergeConcluded
<1> QED BY <1>1, <1>2, <1>3, <1>4, <1>5, <1>6, <1>7, <1>8, <1>9, <1>10, <1>11

LEMMA KeepsItself == ASSUME NEW r \in Git!Repo PROVE Keeps(r, r)
BY DEF Keeps

\* Only a commit of the implementation cell adds work.
LEMMA StepKeeps ==
  ASSUME TypeOK, [Next]_vars, \A p \in Proposals : ~CellCommits(p)
  PROVE  Keeps(repo, repo')
<1>0. repo \in Git!Repo
  BY DEF TypeOK
<1>a. ASSUME repo' = repo PROVE Keeps(repo, repo')
  BY <1>0, <1>a, KeepsItself
<1>1. ASSUME NEW p \in Proposals, Request(p) PROVE Keeps(repo, repo')
  BY <1>a, <1>1, RequestFrame
<1>2. ASSUME NEW p \in Proposals, HandlerStep(p) PROVE Keeps(repo, repo')
  <2>1. CASE MergeCode(p)
    BY <1>0, <1>a, <2>1, OperationsKeep DEF MergeCode
  <2>2. CASE RollBackMerge(p)
    BY <1>0, <2>2, OperationsKeep DEF RollBackMerge
  <2>3. CASE RevertCode(p)
    BY <1>0, <1>a, <2>3, OperationsKeep DEF RevertCode
  <2>4. CASE CleanUpWorktree(p)
    BY <1>0, <1>a, <2>4, OperationsKeep DEF CleanUpWorktree
  <2>5. CASE RemoveWorktree(p)
    BY <1>0, <1>a, <2>5, OperationsKeep DEF RemoveWorktree
  <2>6. CASE CreateWorktree(p)
    BY <1>0, <1>a, <2>6, OperationsKeep DEF CreateWorktree
  <2>7. CASE \/ CreateGraphNode(p) \/ RecordEffect(p) \/ ValidateProjection(p)
             \/ AcceptNode(p) \/ SetMergeFailed(p)
    BY <1>a, <2>7 DEF CreateGraphNode, RecordEffect, ValidateProjection, AcceptNode, SetMergeFailed
  <2>8. CASE \/ ResetForReimplement(p) \/ BackToDraft(p) \/ StartImplementing(p)
             \/ RecordSandbox(p) \/ ClearResults(p) \/ DestroyNode(p) \/ DeleteNode(p)
    BY <1>a, <2>8 DEF ResetForReimplement, BackToDraft, StartImplementing, RecordSandbox, ClearResults,
                      DestroyNode, DeleteNode
  <2>9. CASE RevertGraph(p) \/ Reopen(p) \/ StatementRaises(p)
    BY <1>a, <2>9 DEF RevertGraph, Reopen, StatementRaises
  <2> QED BY <1>2, <2>1, <2>2, <2>3, <2>4, <2>5, <2>6, <2>7, <2>8, <2>9
          DEF HandlerStep, DualMerge
<1>3. ASSUME NEW p \in Proposals, CellEdits(p) PROVE Keeps(repo, repo')
  BY <1>0, <1>3, OperationsKeep DEF CellEdits
<1>4. ASSUME NEW p \in Proposals, UserEndsMerge(p) PROVE Keeps(repo, repo')
  BY <1>0, <1>4, OperationsKeep DEF UserEndsMerge
<1>5. ASSUME NEW t \in Tasks, TaskStep(t) PROVE Keeps(repo, repo')
  BY <1>a, <1>5, TaskFrame
<1>6. CASE Crash
  BY <1>a, <1>6 DEF Crash
<1>7. CASE UNCHANGED vars
  BY <1>a, <1>7 DEF vars
<1> QED BY <1>1, <1>2, <1>3, <1>4, <1>5, <1>6, <1>7 DEF Next, Environment

\* Beside that a proposal has what it was accepted with, and, past a successful
\* merge, what it was offered with.
Mine(p) ==
  Held(repo, p) \union accepted[p]
    \union (IF job.p = p /\ job.step \in MergeSteps THEN offered[p] ELSE {})

\* No commit is the work of two proposals.
NothingShared ==
  \A p, q \in Proposals : p # q => Mine(p) \intersect Mine(q) = {}

\* What merges brought in, and what proposals were accepted with, is in main's
\* history for good: also after a revocation, which leaves the history alone.
KnownToMain ==
  \A p \in Proposals : repo.brought[p] \subseteq repo.history /\ accepted[p] \subseteq repo.history

\* A handler moves a proposal's work around among that proposal's own.
LEMMA MineMoves ==
  ASSUME TypeOK, [Next]_vars, \A p \in Proposals : ~CellCommits(p)
  PROVE  \A p \in Proposals : Mine(p)' \subseteq Mine(p)
<1>0. /\ offered \in [Proposals -> SUBSET Commits]
      /\ accepted \in [Proposals -> SUBSET Commits]
      /\ job \in JobType
  BY DEF TypeOK, JobType
<1>k. \A q \in Proposals : Held(repo', q) \subseteq Held(repo, q)
  BY StepKeeps DEF Keeps
<1> DEFINE Good == \A q \in Proposals : Mine(q)' \subseteq Mine(q)
<1>a. ASSUME \A q \in Proposals : accepted'[q] \subseteq accepted[q],
             \/ job'.step \notin MergeSteps
             \/ job.step \in MergeSteps /\ job'.p = job.p /\ offered' = offered
      PROVE  Good
  BY <1>k, <1>a DEF Mine
<1>1. ASSUME NEW p \in Proposals, Request(p) PROVE Good
  <2>1. job'.step \notin MergeSteps
    BY <1>1 DEF Request, Create, Submit, Delete, Destroy, CompleteImplementation, Implement,
                Accept, Revoke, AdmitRetry, Validate, Begin, Quiet, Idle, MergeSteps
  <2>2. \A q \in Proposals : accepted'[q] \subseteq accepted[q]
    BY <1>0, <1>1 DEF Request, Create, Submit, Delete, Destroy, CompleteImplementation, Implement,
                Accept, Revoke, AdmitRetry, Validate, ghost
  <2> QED BY <1>a, <2>1, <2>2
<1>2. ASSUME NEW p \in Proposals, HandlerStep(p) PROVE Good
  <2>1. CASE MergeCode(p)
    <3>1. CASE Goto("m_failed")
      BY <1>0, <1>a, <2>1, <3>1 DEF MergeCode, Goto, JobType, MergeSteps
    <3>2. CASE Goto("m_create")
      <4>1. /\ job'.step = "m_create" /\ job'.p = p
            /\ accepted' = accepted
            /\ offered' = [offered EXCEPT ![p] = repo.work[p]]
        BY <1>0, <2>1, <3>2 DEF MergeCode, At, Goto, JobType
      <4>2. offered'[p] \subseteq Held(repo, p)
        BY <1>0, <4>1 DEF Held
      <4> QED BY <1>k, <4>1, <4>2 DEF Mine, MergeSteps
    <3> QED BY <2>1, <3>1, <3>2 DEF MergeCode
  <2>2. CASE AcceptNode(p)
    <3>1. CASE Goto("m_cleanup") /\ accepted' = [accepted EXCEPT ![p] = offered[p]]
      <4>1. job'.step \notin MergeSteps
        BY <1>0, <3>1 DEF Goto, JobType, MergeSteps
      <4>2. offered[p] \subseteq Mine(p)
        BY <2>2 DEF AcceptNode, At, Mine, MergeSteps
      <4>3. \A q \in Proposals : accepted'[q] \subseteq Mine(q)
        BY <1>0, <3>1, <4>2 DEF Mine
      <4> QED BY <1>k, <4>1, <4>3 DEF Mine
    <3>2. CASE UNCHANGED accepted
      BY <1>0, <1>a, <2>2, <3>2 DEF AcceptNode, At, Goto, JobType, MergeSteps
    <3> QED BY <2>2, <3>1, <3>2 DEF AcceptNode
  <2>3. CASE CreateGraphNode(p) \/ RecordEffect(p) \/ ValidateProjection(p)
    BY <1>0, <1>a, <2>3 DEF CreateGraphNode, RecordEffect, ValidateProjection,
                At, Goto, JobType, MergeSteps, ghost
  <2>4. CASE RollBackMerge(p) \/ SetMergeFailed(p) \/ CleanUpWorktree(p)
    BY <1>0, <1>a, <2>4 DEF RollBackMerge, SetMergeFailed, CleanUpWorktree,
                Goto, Return, Idle, JobType, MergeSteps, ghost
  <2>5. CASE \/ RemoveWorktree(p) \/ ResetForReimplement(p) \/ CreateWorktree(p)
             \/ BackToDraft(p) \/ StartImplementing(p) \/ RecordSandbox(p) \/ ClearResults(p)
    BY <1>0, <1>a, <2>5 DEF RemoveWorktree, ResetForReimplement, CreateWorktree, BackToDraft,
                StartImplementing, RecordSandbox, ClearResults, Goto, Return, Idle, JobType, MergeSteps, ghost
  <2>6. CASE \/ DestroyNode(p) \/ DeleteNode(p) \/ RevertGraph(p) \/ RevertCode(p)
             \/ Reopen(p) \/ StatementRaises(p)
    BY <1>0, <1>a, <2>6, TearingFrame DEF DestroyNode, DeleteNode, RevertCode, Reopen, Goto, Return, Idle, JobType, MergeSteps, ghost
  <2> QED BY <1>2, <2>1, <2>2, <2>3, <2>4, <2>5, <2>6 DEF HandlerStep, DualMerge
<1>b. ASSUME UNCHANGED << job, offered, accepted >> PROVE Good
  BY <1>k, <1>b DEF Mine
<1>3. ASSUME NEW p \in Proposals, Environment(p) PROVE Good
  BY <1>3, <1>b DEF Environment, CellEdits, CellCommits, UserEndsMerge, ghost
<1>4. ASSUME NEW t \in Tasks, TaskStep(t) PROVE Good
  BY <1>4, <1>a DEF TaskStep, LoadForTest, RunRetry, EndTask, SaveResults, Begin, Quiet, Idle,
                    MergeSteps, ghost
<1>5. CASE Crash
  BY <1>5, <1>a DEF Crash, Idle, MergeSteps, ghost
<1>6. CASE UNCHANGED vars
  BY <1>6, <1>b DEF vars
<1> QED BY <1>1, <1>2, <1>3, <1>4, <1>5, <1>6 DEF Next

\* A proposal is accepted with what its branch was offered with, which the
\* merge has put into the history.
LEMMA AcceptedKnown ==
  ASSUME TypeOK, MergedInJob, HeadNeedsMerge, KnownToMain, [Next]_vars
  PROVE  \A q \in Proposals : accepted'[q] \subseteq repo'.history
<1>0. /\ accepted \in [Proposals -> SUBSET Commits]
      /\ repo.history \subseteq repo'.history
      /\ \A q \in Proposals : accepted[q] \subseteq repo.history
  BY RepoMoves DEF TypeOK, KnownToMain
<1> DEFINE Good == \A q \in Proposals : accepted'[q] \subseteq repo'.history
<1>a. ASSUME \A q \in Proposals : accepted'[q] \subseteq accepted[q] PROVE Good
  BY <1>0, <1>a
<1>1. ASSUME NEW p \in Proposals, Request(p) PROVE Good
  <2>1. \A q \in Proposals : accepted'[q] \subseteq accepted[q]
    BY <1>0, <1>1 DEF Request, Create, Submit, Delete, Destroy, CompleteImplementation, Implement,
                Accept, Revoke, AdmitRetry, Validate, ghost
  <2> QED BY <1>a, <2>1
<1>2. ASSUME NEW p \in Proposals, HandlerStep(p) PROVE Good
  <2>1. CASE AcceptNode(p)
    <3>1. offered[p] \subseteq repo.history
      BY <2>1 DEF AcceptNode, At, MergedInJob, MergeSteps
    <3> QED BY <1>0, <2>1, <3>1 DEF AcceptNode
  <2>2. CASE \/ MergeCode(p) \/ CreateGraphNode(p) \/ RecordEffect(p) \/ ValidateProjection(p)
             \/ RollBackMerge(p) \/ SetMergeFailed(p) \/ CleanUpWorktree(p)
    BY <1>a, <2>2 DEF MergeCode, CreateGraphNode, RecordEffect, ValidateProjection, RollBackMerge,
                SetMergeFailed, CleanUpWorktree, ghost
  <2>3. CASE \/ RemoveWorktree(p) \/ ResetForReimplement(p) \/ CreateWorktree(p)
             \/ BackToDraft(p) \/ StartImplementing(p) \/ RecordSandbox(p) \/ ClearResults(p)
    BY <1>a, <2>3 DEF RemoveWorktree, ResetForReimplement, CreateWorktree, BackToDraft,
                StartImplementing, RecordSandbox, ClearResults, ghost
  <2>4. CASE \/ DestroyNode(p) \/ DeleteNode(p) \/ RevertGraph(p) \/ RevertCode(p)
             \/ Reopen(p) \/ StatementRaises(p)
    BY <1>a, <2>4 DEF DestroyNode, DeleteNode, RevertGraph, RevertCode, Reopen,
                StatementRaises, ghost
  <2> QED BY <1>2, <2>1, <2>2, <2>3, <2>4 DEF HandlerStep, DualMerge
<1>3. ASSUME NEW p \in Proposals, Environment(p) PROVE Good
  BY <1>3, <1>a DEF Environment, CellEdits, CellCommits, UserEndsMerge, ghost
<1>4. ASSUME NEW t \in Tasks, TaskStep(t) PROVE Good
  BY <1>4, <1>a DEF TaskStep, LoadForTest, RunRetry, EndTask, SaveResults, ghost
<1>5. CASE Crash
  BY <1>5, <1>a DEF Crash, ghost
<1>6. CASE UNCHANGED vars
  BY <1>6, <1>a DEF vars
<1> QED BY <1>1, <1>2, <1>3, <1>4, <1>5, <1>6 DEF Next

\* What a cell commits is nobody's yet: the repository holds it for no
\* proposal, and it is not in main's history, where all else is.
LEMMA CommitIsNew ==
  ASSUME TypeOK, MergedInJob, KnownToMain, NothingShared,
         NEW p \in Proposals, CellCommits(p)
  PROVE  NothingShared' /\ KnownToMain'
<1>0. /\ repo \in Git!Repo
      /\ job \in JobType
      /\ UNCHANGED << job, offered, accepted >>
  BY DEF TypeOK, JobType, CellCommits, ghost
<1>1. PICK c \in Git!Unused(repo) : repo' = Git!Committed(repo, p, c)
  BY DEF CellCommits
<1>2. /\ c \notin repo.history /\ c \notin repo.mergeHead
      /\ \A q \in Proposals : c \notin repo.work[q]
  BY <1>1 DEF Git!Unused
<1>3. /\ UNCHANGED << repo.history, repo.mergeHead, repo.merging, repo.brought >>
      /\ repo'.work = [repo.work EXCEPT ![p] = @ \union {c}]
  BY <1>0, <1>1 DEF Git!Repo, Git!Committed
<1>4. KnownToMain'
  BY <1>0, <1>3 DEF KnownToMain
<1>5. \A q \in Proposals : c \notin Mine(q)
  <2> SUFFICES ASSUME NEW q \in Proposals PROVE c \notin Mine(q)
    OBVIOUS
  <2>1. c \notin Held(repo, q) /\ c \notin accepted[q]
    BY <1>2 DEF Held, KnownToMain
  <2>2. job.p = q /\ job.step \in MergeSteps => c \notin offered[q]
    BY <1>2 DEF MergedInJob
  <2> QED BY <2>1, <2>2 DEF Mine
<1>6. \A q \in Proposals : Mine(q)' = IF q = p THEN Mine(q) \union {c} ELSE Mine(q)
  <2> SUFFICES ASSUME NEW q \in Proposals
               PROVE  Mine(q)' = IF q = p THEN Mine(q) \union {c} ELSE Mine(q)
    OBVIOUS
  <2>1. repo.work \in [Proposals -> SUBSET Commits]
    BY <1>0 DEF Git!Repo
  <2>2. repo'.work[q] = IF q = p THEN repo.work[q] \union {c} ELSE repo.work[q]
    BY <1>3, <2>1
  <2>3. Held(repo', q) = IF q = p THEN Held(repo, q) \union {c} ELSE Held(repo, q)
    BY <1>3, <2>2 DEF Held
  <2> QED BY <1>0, <2>3 DEF Mine
<1>7. NothingShared'
  BY <1>5, <1>6 DEF NothingShared
<1> QED BY <1>4, <1>7

OwnInv == IInv /\ NothingShared /\ KnownToMain

LEMMA OwnStep == OwnInv /\ IInv' /\ [Next]_vars => OwnInv'
<1> SUFFICES ASSUME OwnInv, [Next]_vars PROVE NothingShared' /\ KnownToMain'
  BY DEF OwnInv
<1>0. /\ TypeOK /\ MergedInJob /\ HeadNeedsMerge
      /\ NothingShared /\ KnownToMain
  BY DEF OwnInv, IInv
<1>1. ASSUME NEW p \in Proposals, CellCommits(p) PROVE NothingShared' /\ KnownToMain'
  BY <1>0, <1>1, CommitIsNew
<1>2. ASSUME \A p \in Proposals : ~CellCommits(p) PROVE NothingShared' /\ KnownToMain'
  <2>1. \A p \in Proposals : Mine(p)' \subseteq Mine(p)
    BY <1>0, <1>2, MineMoves
  <2>2. NothingShared'
    BY <1>0, <2>1 DEF NothingShared
  <2>3. \A p \in Proposals : repo'.brought[p] \subseteq repo'.history
    BY <1>0, <1>2, StepKeeps DEF Keeps, KnownToMain
  <2>4. \A p \in Proposals : accepted'[p] \subseteq repo'.history
    BY <1>0, AcceptedKnown DEF KnownToMain
  <2> QED BY <2>2, <2>3, <2>4 DEF KnownToMain
<1> QED BY <1>1, <1>2

-----------------------------------------------------------------------------
(* Revoking code *)

\* The handler that stands before the revert is the only one there is: another
\* step of another proposal, of the cell or of the user takes nothing out.
LEMMA TreeAtRevert ==
  ASSUME TypeOK, [Next]_vars, job.step = "r_code"
  PROVE  \/ repo.tree \subseteq repo'.tree
         \/ repo' = Git!Reverted(repo, job.p)
<1>0. repo \in Git!Repo
  BY DEF TypeOK
<1>q. ~Quiet
  BY DEF Quiet, Idle
<1> DEFINE Good == \/ repo.tree \subseteq repo'.tree
                   \/ repo' = Git!Reverted(repo, job.p)
<1>a. ASSUME UNCHANGED repo PROVE Good
  BY <1>a
<1>1. ASSUME NEW p \in Proposals, Request(p) PROVE Good
  BY <1>1, <1>a, RequestFrame
<1>2. ASSUME NEW p \in Proposals, HandlerStep(p) PROVE Good
  <2>1. CASE RevertCode(p)
    BY <1>a, <2>1 DEF RevertCode, At
  <2>2. CASE StatementRaises(p)
    BY <1>a, <2>2 DEF StatementRaises
  <2>3. ~DualMerge(p)
    BY DEF DualMerge, MergeCode, CreateGraphNode, RecordEffect, ValidateProjection, AcceptNode,
           RollBackMerge, SetMergeFailed, CleanUpWorktree, At
  <2>4. ~(\/ RemoveWorktree(p) \/ ResetForReimplement(p) \/ CreateWorktree(p)
          \/ BackToDraft(p) \/ StartImplementing(p) \/ RecordSandbox(p) \/ ClearResults(p))
    BY DEF RemoveWorktree, ResetForReimplement, CreateWorktree, BackToDraft,
           StartImplementing, RecordSandbox, ClearResults, At
  <2>5. ~(DestroyNode(p) \/ DeleteNode(p) \/ RevertGraph(p) \/ Reopen(p))
    BY DEF DestroyNode, DeleteNode, RevertGraph, Reopen, At
  <2> QED BY <1>2, <2>1, <2>2, <2>3, <2>4, <2>5 DEF HandlerStep
<1>3. ASSUME NEW p \in Proposals, Environment(p) PROVE Good
  <2>1. CASE CellEdits(p)
    BY <1>0, <2>1 DEF CellEdits, Git!Repo, Git!Edited
  <2>2. CASE CellCommits(p)
    BY <1>0, <2>2 DEF CellCommits, Git!Repo, Git!Committed
  <2>3. CASE UserEndsMerge(p)
    <3>1. CASE repo' = Git!MergeAborted(repo)
      BY <1>0, <3>1 DEF Git!Repo, Git!MergeAborted
    <3>2. CASE repo' = Git!MergeConcluded(repo, p)
      BY <1>0, <3>2 DEF Git!Repo, Git!MergeConcluded
    <3> QED BY <2>3, <3>1, <3>2 DEF UserEndsMerge
  <2> QED BY <1>3, <2>1, <2>2, <2>3 DEF Environment
<1>4. ASSUME NEW t \in Tasks, TaskStep(t) PROVE Good
  BY <1>4, <1>a, TaskFrame
<1>5. CASE Crash
  BY <1>5, <1>a DEF Crash
<1>6. CASE UNCHANGED vars
  BY <1>6, <1>a DEF vars
<1> QED BY <1>1, <1>2, <1>3, <1>4, <1>5, <1>6 DEF Next

-----------------------------------------------------------------------------
(* Acceptance and revocation are atomic, of all proposals that are not torn *)

\* Outside of the graph phase the graph has a proposal's nodes exactly while it
\* is accepted, up to the graph's reversal.
HeldIffAccepted(p) ==
  ~Undecided(p) => (live[p] > 0 <=> status[p] = "ACCEPTED" /\ ~Revoked(p))

\* Each of them has its EFFECT relation, so that reversal misses none; the one
\* just made is about to get it.
Traced(p) ==
  IF At("m_effect", p) THEN live[p] = effects[p] + 1 ELSE live[p] = effects[p]

ReworkSteps == { "i_remove", "i_reset", "i_create", "i_draft", "i_status", "i_meta",
                 "d_remove", "d_set", "x_remove", "x_set" }
UndecidedSteps == { "m_merge", "m_create", "m_effect", "m_check", "m_commit",
                    "m_rollback", "m_failed" }
AcceptedSteps == {"m_cleanup", "r_graph", "r_code", "r_status"}

\* The handler's proposal has the status the handler found or gave it.
JobFits(p) ==
  job.p = p =>
    /\ job.step \in ReworkSteps => status[p] # "ACCEPTED"
    /\ job.step \in UndecidedSteps => status[p] \notin {"ACCEPTED", NoNode}
    /\ job.step \in AcceptedSteps => status[p] = "ACCEPTED"

Sound(p) == ~torn[p] => HeldIffAccepted(p) /\ Traced(p) /\ JobFits(p)

AtomicInv == \A p \in Proposals : Sound(p)

\* How the abstract variables show in the concrete ones.
LEMMA Views ==
  ASSUME NEW p \in Proposals
  PROVE  /\ Phase[p] = IF status[p] = "ACCEPTED" /\ ~Revoked(p) THEN "accepted"
                       ELSE IF status[p] = "MERGE_FAILED" THEN "failed" ELSE "open"
         /\ InModel[p] = (live[p] > 0 /\ ~Undecided(p))
         /\ Phase'[p] = IF status'[p] = "ACCEPTED" /\ ~Revoked(p)' THEN "accepted"
                        ELSE IF status'[p] = "MERGE_FAILED" THEN "failed" ELSE "open"
         /\ InModel'[p] = (live'[p] > 0 /\ ~Undecided(p)')
BY DEF Phase, InModel

SameView(q) == Phase'[q] = Phase[q] /\ InModel'[q] = InModel[q] /\ torn'[q] = torn[q]

\* What may become of the one proposal a step is about.
OwnMove(p) ==
  \/ SameView(p)
  \/ Phase[p] \in {"open", "failed"} /\ Phase'[p] = "accepted" /\ InModel'[p] = TRUE
  \/ Phase[p] \in {"open", "failed"} /\ Phase'[p] = "failed" /\ InModel'[p] = FALSE
  \/ Phase[p] \in {"failed"} /\ Phase'[p] = "open" /\ InModel'[p] = FALSE
  \/ Phase[p] \in {"accepted"} /\ Phase'[p] = "open" /\ InModel'[p] = FALSE

\* Every step but a stutter is about one proposal.
StepOf(p) ==
  \/ Request(p) \/ HandlerStep(p) \/ Environment(p)
  \/ \E t \in Tasks : tasks[t].p = p /\ TaskStep(t)
  \/ job.p = p /\ Crash

\* The actions of Next are those of one proposal each.
LEMMA SomeSubject ==
  ASSUME TypeOK, Next
  PROVE  \E p \in Proposals : StepOf(p)
<1>1. job.p \in Proposals /\ \A t \in Tasks : tasks[t].p \in Proposals
  BY DEF TypeOK
<1> QED BY <1>1 DEF Next, StepOf

\* It leaves the others alone, and the handler is that proposal's, if there is one.
LEMMA OthersStay ==
  ASSUME TypeOK, NEW p \in Proposals, StepOf(p)
  PROVE  /\ \A q \in Proposals \ {p} :
              UNCHANGED << status[q], live[q], effects[q], torn[q] >>
         /\ \/ UNCHANGED job
            \/ job = Idle /\ job'.p = p
            \/ job.p = p /\ (job' = Idle \/ job'.p = p)
<1> DEFINE Others == \A q \in Proposals \ {p} :
                       UNCHANGED << status[q], live[q], effects[q], torn[q] >>
           Job == \/ UNCHANGED job
                  \/ job = Idle /\ job'.p = p
                  \/ job.p = p /\ (job' = Idle \/ job'.p = p)
<1>0. /\ status \in [Proposals -> Statuses \union {NoNode}]
      /\ live \in [Proposals -> Nat] /\ effects \in [Proposals -> Nat]
      /\ torn \in [Proposals -> BOOLEAN]
      /\ job \in JobType
  BY DEF TypeOK, JobType
<1>a. ASSUME job.p = p, job'.p = p \/ job' = Idle PROVE Job
  BY <1>a
<1>b. ASSUME NEW step, NEW flag, Begin(step, p, flag) PROVE Job
  BY <1>b DEF Begin, Quiet
<1>c. ASSUME NEW step, Goto(step), job.p = p PROVE job'.p = p
  BY <1>0, <1>c DEF Goto, JobType
<1>t. ASSUME NEW cond, Tear(p, cond) PROVE \A q \in Proposals \ {p} : torn'[q] = torn[q]
  BY <1>0, <1>t DEF Tear
<1>u. ASSUME CutOff(p) PROVE \A q \in Proposals \ {p} : torn'[q] = torn[q]
  BY <1>0, <1>u DEF CutOff, Tear
<1>1. ASSUME Request(p) PROVE Others /\ Job
  <2>1. CASE Create(p) \/ Submit(p)
    BY <1>0, <2>1 DEF Create, Submit, graph, ghost
  <2>2. CASE CompleteImplementation(p)
    BY <1>0, <1>b, <2>2 DEF CompleteImplementation, graph, ghost
  <2>3. CASE Delete(p) \/ Destroy(p)
    BY <1>b, <2>3 DEF Delete, Destroy, node, graph, ghost
  <2>4. ASSUME NEW flag \in BOOLEAN, Implement(p, flag) \/ Accept(p, flag) \/ Revoke(p, flag)
        PROVE  Others /\ Job
    BY <1>b, <2>4 DEF Implement, Accept, Revoke, node, graph, ghost
  <2>5. ASSUME NEW t \in Retries, AdmitRetry(t, p) PROVE Others /\ Job
    BY <2>5 DEF AdmitRetry, node, graph, ghost
  <2>6. ASSUME NEW t \in Runs, NEW kind \in {"queued", "running"}, Validate(t, p, kind)
        PROVE  Others /\ Job
    BY <1>0, <2>6 DEF Validate, graph, ghost
  <2> QED BY <1>1, <2>1, <2>2, <2>3, <2>4, <2>5, <2>6 DEF Request
<1>2. ASSUME HandlerStep(p) PROVE Others /\ Job
  <2>0. job.p = p
    BY <1>2 DEF HandlerStep, DualMerge, MergeCode, CreateGraphNode, RecordEffect,
                ValidateProjection, AcceptNode, RollBackMerge, SetMergeFailed, CleanUpWorktree,
                RemoveWorktree, ResetForReimplement, CreateWorktree, BackToDraft,
                StartImplementing, RecordSandbox, ClearResults, DestroyNode, DeleteNode,
                RevertGraph, RevertCode, Reopen, StatementRaises, At
  <2>1. CASE MergeCode(p) \/ RollBackMerge(p) \/ CleanUpWorktree(p)
    BY <1>a, <1>c, <2>0, <2>1 DEF MergeCode, RollBackMerge, CleanUpWorktree, Return, node, graph,
                ghost
  <2>2. CASE CreateGraphNode(p)
    BY <1>0, <1>a, <1>c, <2>0, <2>2 DEF CreateGraphNode, node, ghost
  <2>3. CASE RecordEffect(p)
    <3>1. job'.p = p
      BY <1>0, <1>c, <2>0, <2>3 DEF RecordEffect, JobType
    <3>2. \A q \in Proposals \ {p} : torn'[q] = torn[q] /\ effects'[q] = effects[q]
      BY <1>0, <1>t, <2>3, TearingFrame DEF RecordEffect
    <3> QED BY <1>a, <2>0, <2>3, <3>1, <3>2, TearingFrame DEF node
  <2>4. CASE ValidateProjection(p)
    <3>1. \A q \in Proposals \ {p} : torn'[q] = torn[q]
      BY <1>u, <2>4 DEF ValidateProjection
    <3> QED BY <1>a, <1>c, <2>0, <2>4, <3>1 DEF ValidateProjection, node, graph
  <2>5. CASE AcceptNode(p)
    <3>1. \A q \in Proposals \ {p} : torn'[q] = torn[q]
      BY <1>t, <1>u, <2>5 DEF AcceptNode
    <3>2. \A q \in Proposals \ {p} : status'[q] = status[q]
      BY <1>0, <2>5 DEF AcceptNode, SetStatus
    <3>3. job'.p = p
      BY <1>c, <2>0, <2>5 DEF AcceptNode
    <3> QED BY <1>a, <2>0, <2>5, <3>1, <3>2, <3>3 DEF AcceptNode, graph
  <2>6. CASE SetMergeFailed(p) \/ Reopen(p)
    BY <1>0, <1>a, <2>0, <2>6 DEF SetMergeFailed, Reopen, SetStatus, Return, graph, ghost
  <2>7. CASE ResetForReimplement(p) \/ BackToDraft(p) \/ StartImplementing(p) \/ DestroyNode(p)
             \/ DeleteNode(p)
    BY <1>0, <1>a, <1>c, <2>0, <2>7 DEF ResetForReimplement, BackToDraft, StartImplementing,
                DestroyNode, DeleteNode, Return, graph, ghost
  <2>8. CASE RemoveWorktree(p) \/ CreateWorktree(p) \/ RecordSandbox(p) \/ ClearResults(p)
             \/ RevertCode(p)
    BY <1>a, <1>c, <2>0, <2>8 DEF RemoveWorktree, CreateWorktree, RecordSandbox, ClearResults,
                RevertCode, Return, node, graph, ghost
  <2>9. CASE RevertGraph(p)
    <3>1. \A q \in Proposals \ {p} : torn'[q] = torn[q]
      BY <1>t, <2>9 DEF RevertGraph
    <3>2. \A q \in Proposals \ {p} : live'[q] = live[q] /\ effects'[q] = effects[q]
      BY <1>0, <2>9, TearingFrame
    <3> QED BY <1>a, <1>c, <2>0, <2>9, <3>1, <3>2, TearingFrame DEF node
  <2>10. CASE StatementRaises(p)
    <3>1. \A q \in Proposals \ {p} : torn'[q] = torn[q]
      BY <1>u, <2>10 DEF StatementRaises
    <3> QED BY <1>a, <2>0, <2>10, <3>1, TearingFrame DEF Return, node, graph
  <2> QED BY <1>2, <2>1, <2>2, <2>3, <2>4, <2>5, <2>6, <2>7, <2>8, <2>9, <2>10
          DEF HandlerStep, DualMerge
<1>3. ASSUME Environment(p) PROVE Others /\ Job
  BY <1>3 DEF Environment, CellEdits, CellCommits, UserEndsMerge, node, graph, ghost
<1>4. ASSUME NEW t \in Tasks, tasks[t].p = p, TaskStep(t) PROVE Others /\ Job
  <2>1. CASE LoadForTest(t) \/ EndTask(t)
    BY <2>1 DEF LoadForTest, EndTask, node, graph, ghost
  <2>2. CASE RunRetry(t)
    <3>1. \A q \in Proposals \ {p} : torn'[q] = torn[q]
      BY <1>4, <1>t, <2>2 DEF RunRetry
    <3> QED BY <1>4, <1>b, <2>2, <3>1 DEF RunRetry, node, graph
  <2>3. ASSUME NEW verdict \in {"pass", "fail"}, SaveResults(t, verdict) PROVE Others /\ Job
    <3>1. \A q \in Proposals \ {p} : torn'[q] = torn[q]
      BY <1>4, <1>t, <2>3 DEF SaveResults
    <3>2. \A q \in Proposals \ {p} : status'[q] = status[q]
      BY <1>0, <1>4, <2>3 DEF SaveResults, SetStatus
    <3> QED BY <2>3, <3>1, <3>2 DEF SaveResults, graph
  <2> QED BY <1>4, <2>1, <2>2, <2>3 DEF TaskStep
<1>5. ASSUME job.p = p, Crash PROVE Others /\ Job
  <2>1. \A q \in Proposals \ {p} : torn'[q] = torn[q]
    BY <1>5, <1>u DEF Crash
  <2> QED BY <1>5, <2>1 DEF Crash, node, graph
<1> QED BY <1>1, <1>2, <1>3, <1>4, <1>5 DEF StepOf

\* So whoever reads the others sees no change, and what holds of them goes on to.
LEMMA OthersSound ==
  ASSUME TypeOK, NEW p \in Proposals, StepOf(p), NEW q \in Proposals \ {p}
  PROVE  SameView(q) /\ (Sound(q) => Sound(q)')
<1>1. /\ UNCHANGED << status[q], live[q], effects[q], torn[q] >>
      /\ \/ UNCHANGED job
         \/ job = Idle /\ job'.p = p
         \/ job.p = p /\ (job' = Idle \/ job'.p = p)
  BY OthersStay
<1>2. /\ Undecided(q)' <=> Undecided(q)
      /\ Revoked(q)' <=> Revoked(q)
      /\ At("m_effect", q)' <=> At("m_effect", q)
  BY <1>1 DEF Undecided, Revoked, At, Idle
<1>3. JobFits(q) => JobFits(q)'
  BY <1>1 DEF JobFits, Idle, ReworkSteps, UndecidedSteps, AcceptedSteps
<1>4. SameView(q)
  <2> HIDE DEF Undecided, Revoked
  <2> QED BY <1>1, <1>2, Views DEF SameView
<1>5. Sound(q) => Sound(q)'
  BY <1>1, <1>2, <1>3 DEF Sound, HeldIffAccepted, Traced
<1> QED BY <1>4, <1>5

\* What is torn stays torn.
LEMMA TornStays ==
  ASSUME TypeOK, NEW p \in Proposals, StepOf(p), torn[p]
  PROVE  torn'[p]
<1>0. torn \in [Proposals -> BOOLEAN]
  BY DEF TypeOK
<1>t. ASSUME NEW cond, Tear(p, cond) PROVE torn'[p]
  BY <1>0, <1>t DEF Tear
<1>u. ASSUME CutOff(p) PROVE torn'[p]
  BY <1>0, <1>u DEF CutOff, Tear
<1>1. ASSUME Request(p) PROVE torn'[p]
  BY <1>1 DEF Request, Create, Submit, Delete, Destroy, CompleteImplementation, Implement,
              Accept, Revoke, AdmitRetry, Validate, ghost
<1>2. ASSUME HandlerStep(p) PROVE torn'[p]
  <2>1. CASE MergeCode(p) \/ CreateGraphNode(p) \/ RollBackMerge(p) \/ SetMergeFailed(p)
             \/ CleanUpWorktree(p)
    BY <2>1 DEF MergeCode, CreateGraphNode, RollBackMerge, SetMergeFailed, CleanUpWorktree, ghost
  <2>2. CASE RecordEffect(p)
    BY <1>t, <2>2 DEF RecordEffect
  <2>3. CASE ValidateProjection(p)
    BY <1>u, <2>3 DEF ValidateProjection
  <2>4. CASE AcceptNode(p)
    BY <1>t, <1>u, <2>4 DEF AcceptNode
  <2>5. CASE \/ RemoveWorktree(p) \/ ResetForReimplement(p) \/ CreateWorktree(p)
             \/ BackToDraft(p) \/ StartImplementing(p) \/ RecordSandbox(p) \/ ClearResults(p)
    BY <2>5 DEF RemoveWorktree, ResetForReimplement, CreateWorktree, BackToDraft,
                StartImplementing, RecordSandbox, ClearResults, ghost
  <2>6. CASE DestroyNode(p) \/ DeleteNode(p) \/ RevertCode(p) \/ Reopen(p)
    BY <2>6 DEF DestroyNode, DeleteNode, RevertCode, Reopen, ghost
  <2>7. CASE RevertGraph(p)
    BY <1>t, <2>7 DEF RevertGraph
  <2>8. CASE StatementRaises(p)
    BY <1>u, <2>8 DEF StatementRaises
  <2> QED BY <1>2, <2>1, <2>2, <2>3, <2>4, <2>5, <2>6, <2>7, <2>8 DEF HandlerStep, DualMerge
<1>3. ASSUME Environment(p) PROVE torn'[p]
  BY <1>3 DEF Environment, CellEdits, CellCommits, UserEndsMerge, ghost
<1>4. ASSUME NEW t \in Tasks, tasks[t].p = p, TaskStep(t) PROVE torn'[p]
  <2>1. CASE LoadForTest(t) \/ EndTask(t)
    BY <2>1 DEF LoadForTest, EndTask, ghost
  <2>2. CASE RunRetry(t)
    BY <1>4, <1>t, <2>2 DEF RunRetry
  <2>3. ASSUME NEW verdict \in {"pass", "fail"}, SaveResults(t, verdict) PROVE torn'[p]
    BY <1>4, <1>t, <2>3 DEF SaveResults
  <2> QED BY <1>4, <2>1, <2>2, <2>3 DEF TaskStep
<1>5. ASSUME job.p = p, Crash PROVE torn'[p]
  BY <1>5, <1>u DEF Crash
<1> QED BY <1>1, <1>2, <1>3, <1>4, <1>5 DEF StepOf

\* The proposal the step is about, when nothing tears it: it moves in both
\* stores at once, or nothing of it shows.
LEMMA SubjectMoves ==
  ASSUME TypeOK, TypeOK', NEW p \in Proposals, StepOf(p), Sound(p), ~torn[p], ~torn'[p]
  PROVE  Sound(p)' /\ OwnMove(p)
<1>0. /\ status \in [Proposals -> Statuses \union {NoNode}]
      /\ live \in [Proposals -> Nat] /\ effects \in [Proposals -> Nat]
      /\ torn \in [Proposals -> BOOLEAN]
      /\ job \in JobType
      /\ HeldIffAccepted(p) /\ Traced(p) /\ JobFits(p)
  BY DEF TypeOK, JobType, Sound
<1> DEFINE Good == Sound(p)' /\ OwnMove(p)
<1> USE DEF Undecided, Revoked, At, Goto, Return, Begin, Quiet, Idle, SetStatus, node, graph, ghost
<1> USE DEF ReworkSteps, UndecidedSteps, AcceptedSteps, JobType
<1>t. torn'[p] = torn[p]
  <2>1. torn[p] \in BOOLEAN /\ torn'[p] \in BOOLEAN
    BY DEF TypeOK
  <2> QED BY <2>1
<1>a. ASSUME UNCHANGED << status[p], live[p], effects[p], job >> PROVE Good
  <2>1. Sound(p)'
    BY <1>0, <1>a DEF Sound, HeldIffAccepted, Traced, JobFits
  <2> QED BY <1>a, <1>t, <2>1, Views DEF SameView, OwnMove
\* A handler goes on, among steps that mean the same to a reader.
<1> DEFINE Special == {"m_effect", "m_check", "m_commit", "r_code", "r_status"}
           Alike(s, t) == \/ s \notin Special /\ t \notin Special
                          \/ s \in {"m_check", "m_commit"} /\ t \in {"m_check", "m_commit"}
                          \/ s \in {"r_code", "r_status"} /\ t \in {"r_code", "r_status"}
<1>b. ASSUME UNCHANGED << status[p], live[p], effects[p] >>, Alike(job.step, job'.step),
             job.p = p \/ job.step = "idle", job'.p = p \/ job'.step = "idle", JobFits(p)'
      PROVE  Good
  <2>1. (Undecided(p)' <=> Undecided(p)) /\ (Revoked(p)' <=> Revoked(p))
        /\ (At("m_effect", p)' <=> At("m_effect", p))
    BY <1>b
  <2>2. Sound(p)'
    BY <1>0, <1>b, <2>1 DEF Sound, HeldIffAccepted, Traced
  <2>3. SameView(p)
    BY <1>b, <1>t, <2>1, Views DEF SameView
  <2> QED BY <2>2, <2>3 DEF OwnMove
\* It writes a status that has no part in the promise, onto one that had none.
<1>c. ASSUME ~Undecided(p), ~Revoked(p), status[p] # "ACCEPTED", ~Undecided(p)', ~Revoked(p)',
             status'[p] \notin {"ACCEPTED", "MERGE_FAILED"},
             live'[p] = live[p], effects'[p] \in {effects[p], 0}, JobFits(p)'
      PROVE  Good
  <2>1. live[p] = 0 /\ effects[p] = 0
    BY <1>0, <1>c DEF HeldIffAccepted, Traced
  <2>2. Sound(p)'
    BY <1>c, <2>1 DEF Sound, HeldIffAccepted, Traced
  <2>3. /\ Phase'[p] = "open" /\ InModel'[p] = FALSE /\ InModel[p] = FALSE
        /\ Phase[p] = "open" \/ Phase[p] = "failed"
    <3>1. ~(live[p] > 0) /\ ~(live'[p] > 0)
      BY <1>c, <2>1
    <3> HIDE DEF Undecided, Revoked
    <3> QED BY <1>c, <3>1, Views
  <2>4. OwnMove(p)
    BY <1>t, <2>3 DEF OwnMove, SameView
  <2> QED BY <2>2, <2>4
<1>1. ASSUME Request(p) PROVE Good
  <2>1. CASE Create(p)
    <3>1. status[p] = "NONE"
      <4>1. ~(p < p)
        BY ConstantsAssumption DEF Proposals
      <4> QED BY <2>1, <4>1 DEF Create, NoNode
    <3> QED BY <1>0, <1>c, <2>1, <3>1 DEF Create, JobFits
  <2>2. CASE Submit(p)
    BY <1>0, <1>c, <2>2 DEF Submit, JobFits
  <2>3. CASE CompleteImplementation(p)
    BY <1>0, <1>c, <2>3 DEF CompleteImplementation, JobFits
  <2>4. CASE Delete(p)
    BY <1>0, <1>b, <2>4 DEF Delete, JobFits
  <2>5. CASE Destroy(p)
    BY <1>0, <1>b, <2>5 DEF Destroy, JobFits
  <2>6. ASSUME NEW flag \in BOOLEAN, Implement(p, flag) PROVE Good
    BY <1>0, <1>b, <2>6 DEF Implement, Reimplementable, JobFits
  <2>7. ASSUME NEW flag \in BOOLEAN, Accept(p, flag) PROVE Good
    BY <1>0, <1>b, <2>7 DEF Accept, Acceptable, JobFits, NoNode
  <2>8. ASSUME NEW flag \in BOOLEAN, Revoke(p, flag) PROVE Good
    BY <1>0, <1>b, <2>8 DEF Revoke, JobFits
  <2>9. ASSUME NEW t \in Retries, AdmitRetry(t, p) PROVE Good
    BY <1>a, <2>9 DEF AdmitRetry
  <2>10. ASSUME NEW t \in Runs, NEW kind \in {"queued", "running"}, Validate(t, p, kind) PROVE Good
    BY <1>0, <1>c, <2>10 DEF Validate, Validatable, JobFits
  <2> QED BY <1>1, <2>1, <2>2, <2>3, <2>4, <2>5, <2>6, <2>7, <2>8, <2>9, <2>10 DEF Request
<1>2. ASSUME HandlerStep(p) PROVE Good
  <2>1. CASE MergeCode(p)
    BY <1>0, <1>b, <2>1 DEF MergeCode, JobFits
  <2>2. CASE CreateGraphNode(p)
    <3>0. /\ status'[p] = status[p] /\ effects'[p] = effects[p]
          /\ job.step = "m_create" /\ job.p = p /\ job'.p = p
          /\ status[p] \notin {"ACCEPTED", NoNode}
          /\ live[p] = 0 /\ effects[p] = 0
      BY <1>0, <2>2 DEF CreateGraphNode, HeldIffAccepted, Traced, JobFits
    <3>1. \/ job'.step = "m_effect" /\ live'[p] = 1
          \/ job'.step = "m_check" /\ live'[p] = 0
      BY <1>0, <2>2, <3>0 DEF CreateGraphNode
    <3>2. Sound(p)'
      BY <3>0, <3>1 DEF Sound, HeldIffAccepted, Traced, JobFits
    <3>3. Undecided(p)' /\ ~Undecided(p) /\ ~Revoked(p) /\ ~Revoked(p)' /\ ~(live[p] > 0)
      BY <3>0, <3>1
    <3>4. SameView(p)
      <4> HIDE DEF Undecided, Revoked
      <4> QED BY <1>t, <3>0, <3>3, Views DEF SameView
    <3> QED BY <3>2, <3>4 DEF OwnMove
  <2>3. CASE RecordEffect(p)
    <3>0. /\ status'[p] = status[p] /\ live'[p] = live[p]
          /\ effects'[p] = effects[p] + 1
          /\ job.step = "m_effect" /\ job.p = p /\ job'.step = "m_check" /\ job'.p = p
          /\ status[p] \notin {"ACCEPTED", NoNode}
          /\ live[p] = effects[p] + 1
      <4>1. effects' = [effects EXCEPT ![p] = @ + 1]
        BY <1>0, <2>3 DEF RecordEffect, Tear
      <4>2. job.step = "m_effect" /\ job.p = p /\ job'.step = "m_check" /\ job'.p = p
        BY <1>0, <2>3 DEF RecordEffect
      <4>3. UNCHANGED << status, live >>
        BY <2>3 DEF RecordEffect
      <4> QED BY <1>0, <4>1, <4>2, <4>3 DEF Traced, JobFits
    <3>1. Sound(p)'
      BY <3>0 DEF Sound, HeldIffAccepted, Traced, JobFits
    <3>2. SameView(p)
      BY <1>t, <3>0, Views DEF SameView
    <3> QED BY <3>1, <3>2 DEF OwnMove
  <2>4. CASE ValidateProjection(p)
    <3>0. /\ UNCHANGED << status, live, effects >>
          /\ job.step = "m_check" /\ job.p = p /\ job'.p = p
          /\ \/ job'.step = "m_commit"
             \/ job'.step = "m_rollback" /\ CutOff(p)
      BY <1>0, <2>4 DEF ValidateProjection
    <3>1. CASE job'.step = "m_commit"
      BY <1>0, <1>b, <3>0, <3>1 DEF JobFits
    <3>2. CASE job'.step = "m_rollback" /\ CutOff(p)
      <4>1. ~(live[p] > 0)
        BY <1>0, <3>0, <3>2 DEF CutOff, Tear
      <4>2. Sound(p)'
        BY <1>0, <3>0, <3>2, <4>1 DEF Sound, HeldIffAccepted, Traced, JobFits
      <4>3. SameView(p)
        BY <1>t, <3>0, <3>2, <4>1, Views DEF SameView
      <4> QED BY <4>2, <4>3 DEF OwnMove
    <3> QED BY <3>0, <3>1, <3>2
  <2>5. CASE AcceptNode(p)
    <3>0. /\ UNCHANGED << live, effects >>
          /\ job.step = "m_commit" /\ job.p = p /\ job'.p = p
          /\ status[p] \notin {"ACCEPTED", NoNode}
          /\ \/ job'.step = "m_cleanup" /\ Tear(p, live[p] = 0) /\ status'[p] = "ACCEPTED"
             \/ job'.step = "m_rollback" /\ CutOff(p) /\ status'[p] = status[p]
      BY <1>0, <2>5 DEF AcceptNode, JobFits
    <3>1. CASE job'.step = "m_cleanup" /\ Tear(p, live[p] = 0) /\ status'[p] = "ACCEPTED"
      <4>0. ~(live[p] = 0)
        BY <1>0, <3>1, Zenon DEF Tear
      <4>1. live'[p] > 0
        BY <1>0, <3>0, <4>0
      <4>2. Sound(p)'
        BY <1>0, <3>0, <3>1, <4>1 DEF Sound, HeldIffAccepted, Traced, JobFits
      <4>3. Phase[p] \in {"open", "failed"} /\ Phase'[p] = "accepted" /\ InModel'[p] = TRUE
        BY <3>0, <3>1, <4>1, Views
      <4> QED BY <4>2, <4>3 DEF OwnMove
    <3>2. CASE job'.step = "m_rollback" /\ CutOff(p) /\ status'[p] = status[p]
      <4>1. ~(live[p] > 0)
        BY <1>0, <3>0, <3>2 DEF CutOff, Tear
      <4>2. Sound(p)'
        BY <1>0, <3>0, <3>2, <4>1 DEF Sound, HeldIffAccepted, Traced, JobFits
      <4>3. SameView(p)
        BY <1>t, <3>0, <3>2, <4>1, Views DEF SameView
      <4> QED BY <4>2, <4>3 DEF OwnMove
    <3> QED BY <3>0, <3>1, <3>2
  <2>6. CASE RollBackMerge(p)
    BY <1>0, <1>b, <2>6 DEF RollBackMerge, JobFits
  <2>7. CASE SetMergeFailed(p)
    <3>0. /\ status'[p] = "MERGE_FAILED" /\ UNCHANGED << live, effects >>
          /\ job' = Idle /\ job.step = "m_failed" /\ job.p = p
          /\ status[p] \notin {"ACCEPTED", NoNode}
      BY <1>0, <2>7 DEF SetMergeFailed, JobFits
    <3>1. ~(live[p] > 0) /\ ~(live'[p] > 0)
      BY <1>0, <3>0 DEF HeldIffAccepted
    <3>2. Sound(p)'
      BY <1>0, <3>0, <3>1 DEF Sound, HeldIffAccepted, Traced, JobFits
    <3>3. Phase[p] \in {"open", "failed"} /\ Phase'[p] = "failed" /\ InModel'[p] = FALSE
      BY <3>0, <3>1, Views
    <3> QED BY <3>2, <3>3 DEF OwnMove
  <2>8. CASE CleanUpWorktree(p)
    BY <1>0, <1>b, <2>8 DEF CleanUpWorktree, JobFits
  <2>9. CASE RemoveWorktree(p)
    BY <1>0, <1>b, <2>9 DEF RemoveWorktree, JobFits
  <2>10. CASE CreateWorktree(p)
    BY <1>0, <1>b, <2>10 DEF CreateWorktree, JobFits
  <2>11. CASE RecordSandbox(p) \/ ClearResults(p)
    BY <1>0, <1>b, <2>11 DEF RecordSandbox, ClearResults, JobFits
  <2>12. CASE ResetForReimplement(p)
    BY <1>0, <1>c, <2>12 DEF ResetForReimplement, JobFits
  <2>13. CASE BackToDraft(p)
    BY <1>0, <1>c, <2>13 DEF BackToDraft, JobFits
  <2>14. CASE StartImplementing(p)
    BY <1>0, <1>b, <1>c, <2>14 DEF StartImplementing, JobFits
  <2>15. CASE DestroyNode(p)
    BY <1>0, <1>c, <2>15 DEF DestroyNode, JobFits
  <2>16. CASE DeleteNode(p)
    BY <1>0, <1>c, <2>16 DEF DeleteNode, JobFits, NoNode
  <2>17. CASE RevertGraph(p)
    <3>0. /\ status'[p] = status[p]
          /\ effects'[p] = 0 /\ live'[p] = live[p] - effects[p]
          /\ job.step = "r_graph" /\ job.p = p
          /\ job'.step \in {"r_code", "r_status"} /\ job'.p = p
          /\ status[p] = "ACCEPTED"
          /\ live[p] = effects[p]
      <4>1. live' = [live EXCEPT ![p] = @ - effects[p]]
        BY <1>0, <2>17 DEF RevertGraph, Tear
      <4>2. effects' = [effects EXCEPT ![p] = 0] /\ status' = status
        BY <2>17 DEF RevertGraph
      <4>3. /\ job.step = "r_graph" /\ job.p = p
            /\ job'.step \in {"r_code", "r_status"} /\ job'.p = p
        BY <1>0, <2>17 DEF RevertGraph
      <4> QED BY <1>0, <4>1, <4>2, <4>3 DEF Traced, JobFits
    <3>1. live'[p] = 0 /\ ~(live'[p] > 0)
      BY <1>0, <3>0
    <3>2. Sound(p)'
      BY <3>0, <3>1 DEF Sound, HeldIffAccepted, Traced, JobFits
    <3>3. Phase[p] \in {"accepted"} /\ Phase'[p] = "open" /\ InModel'[p] = FALSE
      BY <3>0, <3>1, Views
    <3> QED BY <3>2, <3>3 DEF OwnMove
  <2>18. CASE RevertCode(p)
    BY <1>0, <1>b, <2>18 DEF RevertCode, JobFits
  <2>19. CASE Reopen(p)
    <3>0. /\ status'[p] = "PENDING_ACCEPTANCE" /\ UNCHANGED << live, effects >>
          /\ job' = Idle /\ job.step = "r_status" /\ job.p = p
          /\ status[p] = "ACCEPTED"
      BY <1>0, <2>19 DEF Reopen, JobFits, NoNode
    <3>1. ~(live[p] > 0) /\ ~(live'[p] > 0)
      BY <1>0, <3>0 DEF HeldIffAccepted
    <3>2. Sound(p)'
      BY <1>0, <3>0, <3>1 DEF Sound, HeldIffAccepted, Traced, JobFits
    <3>3. SameView(p)
      BY <1>t, <3>0, <3>1, Views DEF SameView
    <3> QED BY <3>2, <3>3 DEF OwnMove
  <2>20. CASE StatementRaises(p)
    <3>1. /\ UNCHANGED << status, live, effects >> /\ job' = Idle
          /\ job.p = p /\ job.step \in Unguarded /\ CutOff(p)
      BY <2>20 DEF StatementRaises
    <3>2. job.step \notin Special
      BY <1>0, <3>1 DEF CutOff, Tear, Unguarded
    <3> QED BY <1>0, <1>b, <3>1, <3>2 DEF JobFits
  <2> HIDE DEF Good
  <2> QED BY <1>2, <2>1, <2>2, <2>3, <2>4, <2>5, <2>6, <2>7, <2>8, <2>9, <2>10, <2>11, <2>12,
             <2>13, <2>14, <2>15, <2>16, <2>17, <2>18, <2>19, <2>20 DEF HandlerStep, DualMerge
<1>3. ASSUME Environment(p) PROVE Good
  BY <1>3, <1>a DEF Environment, CellEdits, CellCommits, UserEndsMerge
<1>4. ASSUME NEW t \in Tasks, tasks[t].p = p, TaskStep(t) PROVE Good
  <2>1. CASE LoadForTest(t) \/ EndTask(t)
    BY <1>a, <2>1 DEF LoadForTest, EndTask
  <2>2. CASE RunRetry(t)
    <3>1. status[p] \notin {NoNode, "ACCEPTED"}
      BY <1>0, <1>4, <2>2 DEF RunRetry, Tear
    <3> QED BY <1>0, <1>4, <1>b, <2>2, <3>1 DEF RunRetry, JobFits
  <2>3. ASSUME NEW verdict \in {"pass", "fail"}, SaveResults(t, verdict) PROVE Good
    <3>1. status[p] # "ACCEPTED"
      BY <1>0, <1>4, <2>3 DEF SaveResults, Tear
    <3>2. /\ status'[p] \in {"PENDING_ACCEPTANCE", NoNode}
          /\ UNCHANGED << live, effects, job >> /\ job = Idle
      BY <1>0, <1>4, <2>3 DEF SaveResults
    <3> QED BY <1>0, <1>c, <3>1, <3>2 DEF JobFits, NoNode
  <2> QED BY <1>4, <2>1, <2>2, <2>3 DEF TaskStep
<1>5. ASSUME job.p = p, Crash PROVE Good
  <2>1. /\ UNCHANGED << status, live, effects >> /\ job' = Idle /\ CutOff(p)
    BY <1>5 DEF Crash
  <2>2. ~(Undecided(p) /\ live[p] > 0) /\ ~Revoked(p)
    BY <1>0, <2>1 DEF CutOff, Tear
  <2>3. Sound(p)'
    BY <1>0, <1>5, <2>1, <2>2 DEF Sound, HeldIffAccepted, Traced, JobFits
  <2>4. SameView(p)
    BY <1>0, <1>5, <1>t, <2>1, <2>2, Views DEF SameView
  <2> QED BY <2>3, <2>4 DEF OwnMove
<1> HIDE DEF Good
<1>6. Good
  BY <1>1, <1>2, <1>3, <1>4, <1>5 DEF StepOf
<1> QED BY <1>6 DEF Good

\* A step that shows in no proposal is a stutter.
LEMMA Stutter ==
  ASSUME torn \in [Proposals -> BOOLEAN], torn' \in [Proposals -> BOOLEAN],
         \A q \in Proposals : SameView(q)
  PROVE  UNCHANGED << Phase, InModel, torn >>
BY DEF SameView, Phase, InModel

\* A step about p changes the abstract variables at p only.
LEMMA OneView ==
  ASSUME NEW p \in Proposals, \A q \in Proposals \ {p} : SameView(q)
  PROVE  /\ Phase' = [Phase EXCEPT ![p] = Phase'[p]]
         /\ InModel' = [InModel EXCEPT ![p] = InModel'[p]]
<1>1. Phase' = [Phase EXCEPT ![p] = Phase'[p]]
  <2>1. /\ Phase' = [q \in Proposals |-> Phase'[q]]
        /\ Phase = [q \in Proposals |-> Phase[q]]
    BY DEF Phase
  <2> QED BY <2>1 DEF SameView
<1>2. InModel' = [InModel EXCEPT ![p] = InModel'[p]]
  <2>1. /\ InModel' = [q \in Proposals |-> InModel'[q]]
        /\ InModel = [q \in Proposals |-> InModel[q]]
    BY DEF InModel
  <2> QED BY <2>1 DEF SameView
<1> QED BY <1>1, <1>2

\* With p's phase and place in the model it is a move of p.
LEMMA MoveOne ==
  ASSUME NEW p \in Proposals, NEW from, NEW to, NEW present,
         \A q \in Proposals \ {p} : SameView(q), ~torn[p], torn' = torn,
         Phase[p] \in from, Phase'[p] = to, InModel'[p] = present
  PROVE  Atomic!Move(p, from, to, present)
BY OneView DEF Atomic!Move

\* Every step is a move of one proposal, the tearing of one, or a stutter.
LEMMA AtomicStep ==
  ASSUME TypeOK, TypeOK', AtomicInv, [Next]_vars
  PROVE  AtomicInv' /\ [Atomic!Next]_<<Phase, InModel, torn>>
<1>0. torn \in [Proposals -> BOOLEAN] /\ torn' \in [Proposals -> BOOLEAN]
  BY DEF TypeOK
<1>1. CASE UNCHANGED vars
  <2>1. AtomicInv'
    BY <1>1 DEF vars, AtomicInv, Sound, HeldIffAccepted, Traced, JobFits, Undecided, Revoked, At
  <2>2. \A q \in Proposals : SameView(q)
    BY <1>1, Views DEF vars, SameView, Undecided, Revoked
  <2> QED BY <1>0, <2>1, <2>2, Stutter
<1>2. CASE Next
  <2>1. PICK p \in Proposals : StepOf(p)
    BY <1>2, SomeSubject
  <2>2. \A q \in Proposals \ {p} : SameView(q) /\ Sound(q)'
    BY <2>1, OthersSound DEF AtomicInv
  <2>v. /\ Phase' = [Phase EXCEPT ![p] = Phase'[p]]
        /\ InModel' = [InModel EXCEPT ![p] = InModel'[p]]
    BY <2>2, OneView
  <2>3. CASE torn'[p]
    <3>1. AtomicInv'
      BY <2>2, <2>3 DEF AtomicInv, Sound
    <3>2. torn' = [torn EXCEPT ![p] = TRUE]
      BY <1>0, <2>2, <2>3 DEF SameView
    <3>3. Phase'[p] \in Atomic!Phases /\ InModel'[p] \in BOOLEAN
      BY Views DEF Atomic!Phases
    <3>4. Atomic!Tear(p)
      BY <2>v, <3>2, <3>3 DEF Atomic!Tear
    <3> QED BY <3>1, <3>4 DEF Atomic!Next
  <2>4. CASE ~torn'[p]
    <3>0. ~torn[p]
      BY <2>1, <2>4, TornStays
    <3>1. Sound(p)' /\ OwnMove(p)
      BY <2>1, <2>4, <3>0, SubjectMoves DEF AtomicInv
    <3>2. AtomicInv'
      BY <2>2, <3>1 DEF AtomicInv
    <3>3. torn' = torn
      BY <1>0, <2>2, <2>4, <3>0 DEF SameView
    <3>4. CASE SameView(p)
      BY <1>0, <2>2, <3>2, <3>4, Stutter
    <3>6. CASE Phase[p] \in {"open", "failed"} /\ Phase'[p] = "accepted" /\ InModel'[p] = TRUE
      <4>1. Atomic!Accept(p)
        BY <2>2, <3>0, <3>3, <3>6, MoveOne DEF Atomic!Accept
      <4> QED BY <3>2, <4>1 DEF Atomic!Next
    <3>7. CASE Phase[p] \in {"open", "failed"} /\ Phase'[p] = "failed" /\ InModel'[p] = FALSE
      <4>1. Atomic!Fail(p)
        BY <2>2, <3>0, <3>3, <3>7, MoveOne DEF Atomic!Fail
      <4> QED BY <3>2, <4>1 DEF Atomic!Next
    <3>8. CASE Phase[p] \in {"failed"} /\ Phase'[p] = "open" /\ InModel'[p] = FALSE
      <4>1. Atomic!Rework(p)
        BY <2>2, <3>0, <3>3, <3>8, MoveOne DEF Atomic!Rework
      <4> QED BY <3>2, <4>1 DEF Atomic!Next
    <3>9. CASE Phase[p] \in {"accepted"} /\ Phase'[p] = "open" /\ InModel'[p] = FALSE
      <4>1. Atomic!Revoke(p)
        BY <2>2, <3>0, <3>3, <3>9, MoveOne DEF Atomic!Revoke
      <4> QED BY <3>2, <4>1 DEF Atomic!Next
    <3> QED BY <3>1, <3>4, <3>6, <3>7, <3>8, <3>9 DEF OwnMove
  <2> QED BY <2>3, <2>4
<1> QED BY <1>1, <1>2

\* In the beginning nothing is accepted and the graph holds nothing.
LEMMA AtomicInit ==
  ASSUME Init
  PROVE  AtomicInv /\ Atomic!Init
<1>1. AtomicInv
  BY DEF Init, Idle, NoNode, AtomicInv, Sound, HeldIffAccepted, Traced, JobFits, Undecided,
         Revoked, At, ReworkSteps, UndecidedSteps, AcceptedSteps
<1>2. \A p \in Proposals : status[p] = "NONE" /\ ~(live[p] > 0)
  BY DEF Init, NoNode
<1>3. Phase = [p \in Proposals |-> "open"] /\ InModel = [p \in Proposals |-> FALSE]
  BY <1>2 DEF Phase, InModel
<1> QED BY <1>1, <1>3 DEF Init, Atomic!Init

-----------------------------------------------------------------------------
(* The theorems *)

\* The inductive invariant holds in every behaviour, whatever the faults.
THEOREM Invariance == Spec => []IInv
<1>1. Init => IInv
  <2> SUFFICES ASSUME Init PROVE IInv
    OBVIOUS
  <2>1. repo \in Git!Repo /\ repo.merging = {} /\ repo.mergeHead = {}
    <3>1. PICK isRepo \in BOOLEAN : repo = Git!NewRepo(isRepo)
      BY DEF Init
    <3> QED BY <3>1 DEF Git!NewRepo, Git!Repo
  <2>2. TypeOK
    <3>1. job \in [step: Steps, p: Proposals, flag: BOOLEAN]
      BY IdleTypes DEF Init
    <3>2. tasks \in [Tasks -> [kind: {"free", "queued", "running", "retry"}, p: Proposals]]
      BY IdleTypes DEF Init
    <3> QED BY <2>1, <3>1, <3>2 DEF Init, TypeOK, Verdicts
  <2>3. AcceptedIsMerged /\ NoVerdictWhileWorking /\ EffectsHaveNodes /\ FailedVerdictNeedsForce
    BY DEF Init, AcceptedIsMerged, NoVerdictWhileWorking, EffectsHaveNodes,
           FailedVerdictNeedsForce, NoNode
  <2>4. NoVerdictInJob /\ VerdictOverridden /\ MergedInJob /\ HeadNeedsMerge /\ NodeBeforeEffect
    BY <2>1 DEF Init, Idle, NoVerdictInJob, VerdictOverridden, DualMergeSteps, MergedInJob,
                MergeSteps, HeadNeedsMerge, NodeBeforeEffect
  <2> QED BY <2>2, <2>3, <2>4 DEF IInv
<1>2. IInv /\ [Next]_vars => IInv'
  BY TypeStep, EffectsStep, VerdictStep, OverrideStep, MergedStep, AcceptedStep, RepoMoves DEF IInv
<1> QED BY <1>1, <1>2, PTL DEF Spec

\* Every variable keeps its type.
THEOREM TypeCorrect == Spec => []TypeOK
<1>1. IInv => TypeOK
  BY DEF IInv
<1> QED BY <1>1, Invariance, PTL

\* An ACCEPTED proposal's branch, as it was when merged, is in main's history
\* (execute_dual_merge), with any number of proposals and under every fault.
THEOREM AcceptedCodeMerged == Spec => []AcceptedIsMerged
<1>1. IInv => AcceptedIsMerged
  BY DEF IInv
<1> QED BY <1>1, Invariance, PTL

\* No verdict shows on a proposal that is being worked on, with any number of
\* validations under way (_save_results writes whenever it is resumed).
THEOREM NoStaleVerdict == Spec => []NoVerdictWhileWorking
<1>1. IInv => NoVerdictWhileWorking
  BY DEF IInv
<1> QED BY <1>1, Invariance, PTL

\* No failed verdict stands beside a merge that nobody decided on in spite of it
\* (accept_proposal's gate), however many validations end meanwhile.
THEOREM GateIsKept == Spec => []FailedVerdictNeedsForce
<1>1. IInv => FailedVerdictNeedsForce
  BY DEF IInv
<1> QED BY <1>1, Invariance, PTL

\* Revoke never misses its nodes: every EFFECT relation leads to a node in the
\* live graph (_record_effect, revoke_accepted_proposal).
THEOREM EffectsSound == Spec => []EffectsHaveNodes
<1>1. IInv => EffectsHaveNodes
  BY DEF IInv
<1> QED BY <1>1, Invariance, PTL

\* A node reaches the live graph only after the code did (execute_dual_merge:
\* step 1 before step 2).
THEOREM CodeFirst == Spec => GraphFollowsCode
<1> DEFINE Follows == \A p \in Proposals :
                        live'[p] > live[p] => offered[p] \subseteq repo.history
<1>1. IInv /\ [Next]_vars => [Follows]_vars
  <2> SUFFICES ASSUME IInv, Next PROVE Follows
    BY DEF vars
  <2>0. /\ live \in [Proposals -> Nat] /\ effects \in [Proposals -> Nat]
        /\ MergedInJob /\ EffectsHaveNodes
    BY DEF IInv, TypeOK
  <2>a. ASSUME live' = live PROVE Follows
    BY <2>0, <2>a
  <2>1. ASSUME NEW p \in Proposals, Request(p) PROVE Follows
    BY <2>1, <2>a, RequestFrame
  <2>2. ASSUME NEW p \in Proposals, HandlerStep(p) PROVE Follows
    <3>1. CASE CreateGraphNode(p)
      <4>1. offered[p] \subseteq repo.history
        BY <2>0, <3>1 DEF CreateGraphNode, At, MergedInJob, MergeSteps
      <4>2. \A q \in Proposals : q # p => live'[q] = live[q]
        BY <2>0, <3>1 DEF CreateGraphNode
      <4> QED BY <2>0, <4>1, <4>2
    <3>2. CASE RevertGraph(p)
      <4>1. \A q \in Proposals : live'[q] <= live[q]
        BY <2>0, <3>2, TearingFrame DEF EffectsHaveNodes
      <4>2. \A q \in Proposals : live'[q] \in Nat
        BY <2>0, <3>2, TearingFrame DEF EffectsHaveNodes
      <4> QED BY <2>0, <4>1, <4>2
    <3>3. CASE \/ MergeCode(p) \/ RecordEffect(p) \/ ValidateProjection(p) \/ AcceptNode(p)
               \/ RollBackMerge(p) \/ SetMergeFailed(p) \/ CleanUpWorktree(p)
      BY <2>a, <3>3 DEF MergeCode, RecordEffect, ValidateProjection, AcceptNode, RollBackMerge,
                        SetMergeFailed, CleanUpWorktree, graph
    <3>4. CASE \/ RemoveWorktree(p) \/ ResetForReimplement(p) \/ CreateWorktree(p)
               \/ BackToDraft(p) \/ StartImplementing(p) \/ RecordSandbox(p) \/ ClearResults(p)
      BY <2>a, <3>4 DEF RemoveWorktree, ResetForReimplement, CreateWorktree, BackToDraft,
                        StartImplementing, RecordSandbox, ClearResults, graph
    <3>5. CASE \/ DestroyNode(p) \/ DeleteNode(p) \/ RevertCode(p) \/ Reopen(p)
               \/ StatementRaises(p)
      BY <2>a, <3>5 DEF DestroyNode, DeleteNode, RevertCode, Reopen, StatementRaises, graph
    <3> QED BY <2>2, <3>1, <3>2, <3>3, <3>4, <3>5 DEF HandlerStep, DualMerge
  <2>3. ASSUME NEW p \in Proposals, Environment(p) PROVE Follows
    BY <2>3, <2>a DEF Environment, CellEdits, CellCommits, UserEndsMerge, graph
  <2>4. ASSUME NEW t \in Tasks, TaskStep(t) PROVE Follows
    BY <2>4, <2>a, TaskFrame
  <2>5. CASE Crash
    BY <2>5, <2>a DEF Crash, graph
  <2> QED BY <2>1, <2>2, <2>3, <2>4, <2>5 DEF Next
<1> QED BY <1>1, Invariance, PTL DEF Spec, GraphFollowsCode

\* The "compensating" reset of a failed graph phase never changes the
\* repository: the merge it means to undo is a finished commit (reset_merge).
THEOREM NothingRolledBack == Spec => RollbackIsVoid
<1> DEFINE Void == \A p \in Proposals : RollBackMerge(p) => repo' = repo
<1>1. IInv /\ [Next]_vars => [Void]_vars
  <2> SUFFICES ASSUME IInv, NEW p \in Proposals, RollBackMerge(p) PROVE repo' = repo
    BY DEF vars
  <2>1. repo \in Git!Repo /\ repo.merging = {} /\ repo.mergeHead = {}
    BY DEF IInv, TypeOK, RollBackMerge, At, MergedInJob, MergeSteps, HeadNeedsMerge
  <2> QED BY <2>1, ResetWithoutMerge DEF RollBackMerge
<1> QED BY <1>1, Invariance, PTL DEF Spec, RollbackIsVoid

\* No commit is ever the work of two proposals, and what was merged or accepted
\* stays in main's history.
THEOREM Ownership == Spec => []OwnInv
<1>1. Init => NothingShared /\ KnownToMain
  <2> SUFFICES ASSUME Init PROVE NothingShared /\ KnownToMain
    OBVIOUS
  <2>1. PICK isRepo \in BOOLEAN : repo = Git!NewRepo(isRepo)
    BY DEF Init
  <2>2. \A p \in Proposals : repo.work[p] = {} /\ repo.brought[p] = {} /\ accepted[p] = {}
    BY <2>1 DEF Init, Git!NewRepo
  <2>3. repo.mergeHead = {} /\ job.step \notin MergeSteps
    BY <2>1 DEF Init, Git!NewRepo, Idle, MergeSteps
  <2> QED BY <2>2, <2>3 DEF NothingShared, KnownToMain, Mine, Held
<1>2. Init /\ IInv => OwnInv
  BY <1>1 DEF OwnInv
<1> QED BY <1>2, OwnStep, Invariance, PTL DEF Spec

\* Revoking a proposal's code takes out of main's files what the merge it finds
\* by its message brought in, and no accepted work of a proposal other than the
\* one that merge was of, whatever is merged, committed, aborted or concluded by
\* hand meanwhile, and under every fault (revert_merge_commit).  The merge found is
\* the proposal's own unless a longer id begins with this one's.
THEOREM OthersCodeKept == Spec => RevokeKeepsOthersCode
<1> DEFINE Kept == \A p, q \in Proposals :
                     p # q /\ At("r_code", p) /\ repo.newest[p].of # q =>
                       accepted[q] \intersect repo.tree \subseteq repo'.tree
<1>1. OwnInv /\ [Next]_vars => [Kept]_vars
  <2> SUFFICES ASSUME OwnInv, Next, NEW p \in Proposals, NEW q \in Proposals,
                      p # q, At("r_code", p), repo.newest[p].of # q
               PROVE  accepted[q] \intersect repo.tree \subseteq repo'.tree
    BY DEF vars
  <2>0. TypeOK /\ repo \in Git!Repo /\ NothingShared
    BY DEF OwnInv, IInv, TypeOK
  <2>1. CASE repo.tree \subseteq repo'.tree
    BY <2>1
  <2>2. CASE repo' = Git!Reverted(repo, p)
    <3> DEFINE found == repo.newest[p].of
    <3>1. found \in Proposals /\ found # q /\ repo'.tree = repo.tree \ repo.brought[found]
      BY <2>0, <2>2 DEF Git!Repo, Git!Reverted
    <3>2. repo.brought[found] \subseteq Mine(found) /\ accepted[q] \subseteq Mine(q)
      BY DEF Mine, Held
    <3>3. repo.brought[found] \intersect accepted[q] = {}
      BY <2>0, <3>1, <3>2 DEF NothingShared
    <3> QED BY <3>1, <3>3
  <2> QED BY <2>0, <2>1, <2>2, TreeAtRevert DEF At
<1> QED BY <1>1, Ownership, PTL DEF Spec, RevokeKeepsOthersCode

\* A step of the abstract specification keeps its promise.
LEMMA MoveKeeps ==
  ASSUME Atomic!TypeOK, Atomic!Consistent, NEW p \in Proposals, NEW from,
         NEW to \in Atomic!Phases, NEW present \in BOOLEAN, present <=> to = "accepted",
         Atomic!Move(p, from, to, present)
  PROVE  Atomic!TypeOK' /\ Atomic!Consistent'
<1>1. Atomic!TypeOK'
  BY DEF Atomic!TypeOK, Atomic!Move
<1>2. ASSUME NEW q \in Proposals, ~torn'[q] PROVE InModel'[q] <=> Phase'[q] = "accepted"
  <2>1. CASE q = p
    BY <2>1 DEF Atomic!TypeOK, Atomic!Move
  <2>2. CASE q # p
    BY <1>2, <2>2 DEF Atomic!TypeOK, Atomic!Move, Atomic!Consistent
  <2> QED BY <2>1, <2>2
<1> QED BY <1>1, <1>2 DEF Atomic!Consistent

\* So does one that tears a proposal: it says nothing of the others.
LEMMA TearKeeps ==
  ASSUME Atomic!TypeOK, Atomic!Consistent, NEW p \in Proposals, Atomic!Tear(p)
  PROVE  Atomic!TypeOK' /\ Atomic!Consistent'
<1>1. Atomic!TypeOK'
  BY DEF Atomic!TypeOK, Atomic!Tear
<1>2. ASSUME NEW q \in Proposals, ~torn'[q] PROVE InModel'[q] <=> Phase'[q] = "accepted"
  <2>1. q # p
    BY <1>2 DEF Atomic!TypeOK, Atomic!Tear
  <2> QED BY <1>2, <2>1 DEF Atomic!TypeOK, Atomic!Tear, Atomic!Consistent
<1> QED BY <1>1, <1>2 DEF Atomic!Consistent

\* The abstract specification keeps its promise: the model holds a proposal's
\* change exactly while the proposal is accepted, through every acceptance,
\* failure, rework and revocation; so does whatever implements it.
THEOREM Consistency == Atomic!Spec => []Atomic!Consistent
<1>1. Atomic!Init => Atomic!TypeOK /\ Atomic!Consistent
  BY DEF Atomic!Init, Atomic!TypeOK, Atomic!Consistent, Atomic!Phases
<1>2. Atomic!TypeOK /\ Atomic!Consistent /\ [Atomic!Next]_<<Phase, InModel, torn>>
        => Atomic!TypeOK' /\ Atomic!Consistent'
  <2> SUFFICES ASSUME Atomic!TypeOK, Atomic!Consistent, [Atomic!Next]_<<Phase, InModel, torn>>
               PROVE  Atomic!TypeOK' /\ Atomic!Consistent'
    OBVIOUS
  <2>1. CASE UNCHANGED << Phase, InModel, torn >>
    BY <2>1 DEF Atomic!TypeOK, Atomic!Consistent
  <2>2. ASSUME NEW p \in Proposals,
               Atomic!Accept(p) \/ Atomic!Fail(p) \/ Atomic!Rework(p) \/ Atomic!Revoke(p)
        PROVE  Atomic!TypeOK' /\ Atomic!Consistent'
    <3>1. "open" \in Atomic!Phases /\ "failed" \in Atomic!Phases /\ "accepted" \in Atomic!Phases
      BY DEF Atomic!Phases
    <3>2. CASE Atomic!Accept(p)
      BY <3>1, <3>2, MoveKeeps DEF Atomic!Accept
    <3>3. CASE Atomic!Fail(p)
      BY <3>1, <3>3, MoveKeeps DEF Atomic!Fail
    <3>4. CASE Atomic!Rework(p)
      BY <3>1, <3>4, MoveKeeps DEF Atomic!Rework
    <3>5. CASE Atomic!Revoke(p)
      BY <3>1, <3>5, MoveKeeps DEF Atomic!Revoke
    <3> QED BY <2>2, <3>2, <3>3, <3>4, <3>5
  <2>3. ASSUME NEW p \in Proposals, Atomic!Tear(p) PROVE Atomic!TypeOK' /\ Atomic!Consistent'
    BY <2>3, TearKeeps
  <2> QED BY <2>1, <2>2, <2>3 DEF Atomic!Next
<1> QED BY <1>1, <1>2, PTL DEF Atomic!Spec

\* Dual merge and revoke implement AtomicAcceptance, for any number of proposals
\* and under every fault: to whoever reads status and graph between the steps of a
\* handler, verdict and model of a proposal move together, until one of the events
\* recorded in `torn` befalls it (execute_dual_merge, execute_revoke).  A crash, a
\* raised statement, a lost item, a late validation or a late retry tears the one
\* proposal it hits, at the points CutOff and Tear name, and no other.
THEOREM DualMergeIsAtomic == Spec => ImplementsAtomicAcceptance
<1>1. Init => AtomicInv /\ Atomic!Init
  BY AtomicInit
<1>2. AtomicInv /\ TypeOK /\ TypeOK' /\ [Next]_vars
        => AtomicInv' /\ [Atomic!Next]_<<Phase, InModel, torn>>
  BY AtomicStep
<1> QED BY <1>1, <1>2, TypeCorrect, PTL DEF Spec, ImplementsAtomicAcceptance, Atomic!Spec

\* ... so the live model holds the change of every proposal that is not torn exactly
\* while that proposal is accepted, whatever befalls the others.
THEOREM ModelHoldsAccepted == Spec => []Atomic!Consistent
<1> QED BY DualMergeIsAtomic, Consistency, PTL DEF ImplementsAtomicAcceptance
=============================================================================
