-------------------------- MODULE ProposalLifecycle --------------------------
(***************************************************************************)
(* The life of proposals from creation to acceptance, with the three       *)
(* stores their handlers write: the Proposal node (status, sandbox fields, *)
(* test results), the target project's git repository and the live graph.  *)
(*                                                                         *)
(* Execution model.  The backend is one asyncio process.  The handlers     *)
(* that change a proposal's stage never await anything, so a handler runs  *)
(* to its end before another one starts: `job` is the handler under way,   *)
(* and there is at most one.  Every Neo4j statement commits by itself and  *)
(* every git command is durable when it returns, so a handler is a         *)
(* sequence of durable steps between which the process may crash.          *)
(* Coroutines that do suspend -- a validation waiting for its skill, a     *)
(* retry-merge stream waiting for its first chunk to be sent -- are in     *)
(* `tasks`; between the step that admits one and the step that resumes it  *)
(* every other handler may run.  The implementation cell and the user work *)
(* in the repository at any time.                                          *)
(*                                                                         *)
(* The plan gate of /implement is the subject of module PlanGate; here a   *)
(* SUBMITTED proposal is one whose plan has passed it.                     *)
(***************************************************************************)
EXTENDS Naturals, FiniteSets

CONSTANTS
  MaxProposals,  \* bound on the ids in use at once
  Longer,        \* Longer[p]: the ids that begin with p's (PRO-1000 for PRO-100)
  Commits,       \* the pieces of work the cells can commit
  Runs,          \* validations that can be under way at once
  Retries,       \* retry-merge requests that can be under way at once
  MaxCopies,     \* bound on the graph nodes one proposal's CREATE entry leaves
  Faults         \* the faults of the environment that may occur

FaultKinds == { "crash",      \* the backend process dies
                "conflict",   \* git merge or git revert conflicts
                "refused",    \* git merge refuses (local changes in the way)
                "item",       \* one diff entry fails; the exception is swallowed
                "graph",      \* a Neo4j statement or a check of step 2 raises
                "worktree" }  \* a worktree cannot be created or removed

Proposals == 1 .. MaxProposals

\* The text of an id that begins with another's is that of a greater number.
ASSUME ConstantsAssumption ==
  /\ MaxProposals \in Nat \ {0}
  /\ Longer \in [Proposals -> SUBSET Proposals]
  /\ \A p \in Proposals : \A q \in Longer[p] : p < q
  /\ MaxCopies \in Nat \ {0}
  /\ Faults \subseteq FaultKinds
  /\ Runs \intersect Retries = {}

Tasks == Runs \union Retries

Statuses == { "DRAFT", "SUBMITTED", "IMPLEMENTING", "TESTING",
              "PENDING_ACCEPTANCE", "ACCEPTED", "DESTROYED", "MERGE_FAILED" }
NoNode   == "NONE"                    \* no Proposal node with this id
Verdicts == { "none", "pass", "fail" } \* testResults: null, failed = 0, failed > 0

Git == INSTANCE SandboxGit

VARIABLES
  status,    \* Proposal.status
  results,   \* Proposal.testResults
  rooted,    \* Proposal.projectRoot is set
  boxed,     \* Proposal.sandboxWorktreePath / sandboxBranch are set
  repo,      \* the target project's repository
  live,      \* nodes in the live graph made by the proposal's CREATE entry
  effects,   \* those of them an EFFECT relation of the proposal points to
  tasks,     \* suspended coroutines
  job,       \* the handler under way
  forced,    \* history: the verdict now shown was overridden by forceAcceptWithFailures,
             \*   or by a retry of the merge, which does not look at it
  offered,   \* history: the commits on the branch at the last attempt to merge it
  accepted,  \* history: ... at the merge that led to ACCEPTED
  torn       \* history: an event after which its status and its nodes may disagree

vars == << status, results, rooted, boxed, repo, live, effects, tasks, job,
           forced, offered, accepted, torn >>
node == << status, results, rooted, boxed >>
graph == << live, effects >>
ghost == << forced, offered, accepted, torn >>

Steps == { "idle",
           "i_remove", "i_reset", "i_create", "i_draft", "i_status", "i_meta",
           "m_merge", "m_create", "m_effect", "m_check", "m_commit",
           "m_rollback", "m_failed", "m_cleanup",
           "d_remove", "d_set", "x_remove", "x_set",
           "c_results", "r_graph", "r_code", "r_status" }

Idle     == [step |-> "idle", p |-> 1, flag |-> FALSE]
FreeTask == [kind |-> "free", p |-> 1]

TypeOK ==
  /\ status \in [Proposals -> Statuses \union {NoNode}]
  /\ results \in [Proposals -> Verdicts]
  /\ rooted \in [Proposals -> BOOLEAN]
  /\ boxed \in [Proposals -> BOOLEAN]
  /\ repo \in Git!Repo
  /\ live \in [Proposals -> Nat]
  /\ effects \in [Proposals -> Nat]
  /\ tasks \in [Tasks -> [kind: {"free", "queued", "running", "retry"}, p: Proposals]]
  /\ job \in [step: Steps, p: Proposals, flag: BOOLEAN]
  /\ forced \in [Proposals -> BOOLEAN]
  /\ offered \in [Proposals -> SUBSET Commits]
  /\ accepted \in [Proposals -> SUBSET Commits]
  /\ torn \in [Proposals -> BOOLEAN]

Init ==
  /\ status = [p \in Proposals |-> NoNode]
  /\ results = [p \in Proposals |-> "none"]
  /\ rooted = [p \in Proposals |-> FALSE]
  /\ boxed = [p \in Proposals |-> FALSE]
  /\ \E isRepo \in BOOLEAN : repo = Git!NewRepo(isRepo)
  /\ live = [p \in Proposals |-> 0]
  /\ effects = [p \in Proposals |-> 0]
  /\ tasks = [t \in Tasks |-> FreeTask]
  /\ job = Idle
  /\ forced = [p \in Proposals |-> FALSE]
  /\ offered = [p \in Proposals |-> {}]
  /\ accepted = [p \in Proposals |-> {}]
  /\ torn = [p \in Proposals |-> FALSE]

-----------------------------------------------------------------------------
(* Control flow of the handler under way *)

Quiet == job = Idle

Begin(step, p, flag) == /\ Quiet
                        /\ job' = [step |-> step, p |-> p, flag |-> flag]

At(step, p) == job.step = step /\ job.p = p

Goto(step) == job' = [job EXCEPT !.step = step]

Return == job' = Idle

\* `MATCH (p:Proposal {id: $id}) SET p.status = ...` matches nothing once the
\* node is gone.
SetStatus(p, s) ==
  status' = IF status[p] = NoNode THEN status ELSE [status EXCEPT ![p] = s]

-----------------------------------------------------------------------------
(* Where status and graph are apart *)

\* The nodes of an acceptance under way count once it is decided; a revocation
\* under way counts as done when the graph has been reverted.
Undecided(p) == job.p = p /\ job.step \in {"m_effect", "m_check", "m_commit"}
Revoked(p)   == job.p = p /\ job.step \in {"r_code", "r_status"}

Tear(p, cond) == torn' = [torn EXCEPT ![p] = @ \/ cond]

\* The handler leaves its way here, with a node that nobody will accept or a
\* graph reverted for a proposal that stays ACCEPTED.
CutOff(p) == Tear(p, (Undecided(p) /\ live[p] > 0) \/ Revoked(p))

-----------------------------------------------------------------------------
(* proposals_crud *)

\* next_proposal_id: one more than the greatest id in the graph -- the id of a
\* deleted proposal is given out again when it was the greatest.  The proposals
\* here are some of those there are, in the order of their ids.
Create(p) ==
  /\ Quiet
  /\ \A q \in Proposals : status[q] # NoNode => q < p
  /\ status' = [status EXCEPT ![p] = "DRAFT"]
  /\ results' = [results EXCEPT ![p] = "none"]
  /\ forced' = [forced EXCEPT ![p] = FALSE]
  /\ offered' = [offered EXCEPT ![p] = {}]
  /\ accepted' = [accepted EXCEPT ![p] = {}]
  /\ UNCHANGED << rooted, boxed, repo, graph, tasks, job, torn >>

Submit(p) ==
  /\ Quiet
  /\ status[p] = "DRAFT"
  /\ status' = [status EXCEPT ![p] = "SUBMITTED"]
  /\ UNCHANGED << results, rooted, boxed, repo, graph, tasks, job, ghost >>

\* delete_proposal refuses ACCEPTED only.
Delete(p) ==
  /\ status[p] \notin {NoNode, "ACCEPTED"}
  /\ Begin(IF boxed[p] /\ rooted[p] THEN "x_remove" ELSE "x_set", p, FALSE)
  /\ UNCHANGED << node, repo, graph, tasks, ghost >>

DeleteNode(p) ==
  /\ At("x_set", p)
  /\ status' = [status EXCEPT ![p] = NoNode]
  /\ results' = [results EXCEPT ![p] = "none"]
  /\ rooted' = [rooted EXCEPT ![p] = FALSE]
  /\ boxed' = [boxed EXCEPT ![p] = FALSE]
  /\ effects' = [effects EXCEPT ![p] = 0]     \* DETACH DELETE takes the EFFECTs along
  /\ Return
  /\ UNCHANGED << repo, live, tasks, ghost >>

-----------------------------------------------------------------------------
(* proposals_sandbox *)

Reimplementable == { "IMPLEMENTING", "TESTING", "PENDING_ACCEPTANCE", "MERGE_FAILED" }

Implement(p, initGit) ==
  /\ status[p] \in Reimplementable \union {"SUBMITTED"}
  /\ Begin(IF status[p] = "SUBMITTED" THEN "i_create" ELSE "i_remove", p, initGit)
  /\ UNCHANGED << node, repo, graph, tasks, ghost >>

\* Mutant: re-implementation keeps the last verdict.
ResetForReimplementKeepingResults(p) ==
  /\ At("i_reset", p)
  /\ status' = [status EXCEPT ![p] = "SUBMITTED"]
  /\ boxed' = [boxed EXCEPT ![p] = FALSE]
  /\ Goto("i_create")
  /\ UNCHANGED << rooted, results, repo, graph, tasks, ghost >>

\* Re-implementation goes back to SUBMITTED with the sandbox fields cleared.
ResetForReimplement(p) ==
  /\ At("i_reset", p)
  /\ status' = [status EXCEPT ![p] = "SUBMITTED"]
  /\ boxed' = [boxed EXCEPT ![p] = FALSE]
  /\ results' = [results EXCEPT ![p] = "none"]
  /\ Goto("i_create")
  /\ UNCHANGED << rooted, repo, graph, tasks, ghost >>

CreateWorktree(p) ==
  /\ At("i_create", p)
  /\ \/ /\ Git!NotAGitRepo(repo, job.flag)          \* 409, the status stays
        /\ Return
        /\ UNCHANGED repo
     \/ /\ ~Git!NotAGitRepo(repo, job.flag)
        /\ repo' = Git!WorktreeCreated(repo, p)
        /\ Goto("i_status")
     \/ /\ "worktree" \in Faults
        /\ ~Git!NotAGitRepo(repo, job.flag)
        /\ repo' \in Git!WorktreeNotCreated(repo, p)
        /\ Goto("i_draft")
  /\ UNCHANGED << node, graph, tasks, ghost >>

BackToDraft(p) ==
  /\ At("i_draft", p)
  /\ status' = [status EXCEPT ![p] = "DRAFT"]
  /\ Return
  /\ UNCHANGED << results, rooted, boxed, repo, graph, tasks, ghost >>

\* prepare_implementation: the status first, the sandbox fields in a second
\* statement.  An exception sends the proposal back to DRAFT; the worktree stays.
StartImplementing(p) ==
  /\ At("i_status", p)
  /\ \/ /\ status' = [status EXCEPT ![p] = "IMPLEMENTING"]
        /\ Goto("i_meta")
     \/ /\ "graph" \in Faults
        /\ Goto("i_draft")
        /\ UNCHANGED status
  /\ UNCHANGED << results, rooted, boxed, repo, graph, tasks, ghost >>

RecordSandbox(p) ==
  /\ At("i_meta", p)
  /\ \/ /\ rooted' = [rooted EXCEPT ![p] = TRUE]
        /\ boxed' = [boxed EXCEPT ![p] = TRUE]
        /\ Return
     \/ /\ "graph" \in Faults
        /\ Goto("i_draft")
        /\ UNCHANGED << rooted, boxed >>
  /\ UNCHANGED << status, results, repo, graph, tasks, ghost >>

\* complete_implementation: the status, then the results in a second statement.
CompleteImplementation(p) ==
  /\ status[p] = "IMPLEMENTING"
  /\ Begin("c_results", p, FALSE)
  /\ status' = [status EXCEPT ![p] = "TESTING"]
  /\ UNCHANGED << results, rooted, boxed, repo, graph, tasks, ghost >>

ClearResults(p) ==
  /\ At("c_results", p)
  /\ results' = [results EXCEPT ![p] = "none"]
  /\ Return
  /\ UNCHANGED << status, rooted, boxed, repo, graph, tasks, ghost >>

-----------------------------------------------------------------------------
(* test_runner: POST /validate and the validation stream *)

Validatable == { "TESTING", "PENDING_ACCEPTANCE", "MERGE_FAILED" }

\* reset_for_validation, then create_task(run_tests) (queued) or the stream's
\* own load of the proposal (running).
Validate(t, p, kind) ==
  /\ Quiet
  /\ tasks[t].kind = "free"
  /\ status[p] \in Validatable
  /\ status' = [status EXCEPT ![p] = "TESTING"]
  /\ results' = [results EXCEPT ![p] = "none"]
  /\ tasks' = [tasks EXCEPT ![t] = [kind |-> kind, p |-> p]]
  /\ UNCHANGED << rooted, boxed, repo, graph, job, ghost >>

\* The background run_tests gets its first turn and loads the proposal.
LoadForTest(t) ==
  /\ Quiet
  /\ tasks[t].kind = "queued"
  /\ tasks' = [tasks EXCEPT ![t] = IF status[tasks[t].p] = NoNode THEN FreeTask
                                   ELSE [@ EXCEPT !.kind = "running"]]
  /\ UNCHANGED << node, repo, graph, job, ghost >>

\* _save_results: one statement, whatever the status has become.
SaveResults(t, verdict) ==
  /\ Quiet
  /\ tasks[t].kind = "running"
  /\ LET p == tasks[t].p IN
       /\ SetStatus(p, "PENDING_ACCEPTANCE")
       /\ IF status[p] = NoNode THEN UNCHANGED << results, forced >>
          ELSE /\ results' = [results EXCEPT ![p] = verdict]
               /\ forced' = [forced EXCEPT ![p] = FALSE]
  /\ Tear(tasks[t].p, status[tasks[t].p] = "ACCEPTED")
  /\ tasks' = [tasks EXCEPT ![t] = FreeTask]
  /\ UNCHANGED << rooted, boxed, repo, graph, job, offered, accepted >>

\* The client closes the stream, or the skill raises: the coroutine ends.
EndTask(t) ==
  /\ Quiet
  /\ tasks[t].kind \in {"running", "retry"}
  /\ tasks' = [tasks EXCEPT ![t] = FreeTask]
  /\ UNCHANGED << node, repo, graph, job, ghost >>

-----------------------------------------------------------------------------
(* proposals_acceptance and dual_merge *)

Acceptable == { "TESTING", "PENDING_ACCEPTANCE" }

\* Mutant: the count of failed items is not looked at.
AcceptUngated(p, force) ==
  /\ status[p] \in Acceptable
  /\ live[p] < MaxCopies
  /\ Begin("m_merge", p, FALSE)
  /\ forced' = [forced EXCEPT ![p] = @ \/ (force /\ results[p] = "fail")]
  /\ UNCHANGED << node, repo, graph, tasks, offered, accepted, torn >>


Accept(p, force) ==
  /\ status[p] \in Acceptable
  /\ results[p] = "fail" => force
  /\ live[p] < MaxCopies                                       \* bound
  /\ Begin("m_merge", p, FALSE)
  /\ forced' = [forced EXCEPT ![p] = @ \/ (force /\ results[p] = "fail")]
  /\ UNCHANGED << node, repo, graph, tasks, offered, accepted, torn >>

\* retry_merge looks at the status and returns a StreamingResponse; its
\* generator runs later, on a proposal that may be accepted or gone by then.
AdmitRetry(t, p) ==
  /\ Quiet
  /\ tasks[t].kind = "free"
  /\ status[p] = "MERGE_FAILED"
  /\ tasks' = [tasks EXCEPT ![t] = [kind |-> "retry", p |-> p]]
  /\ UNCHANGED << node, repo, graph, job, ghost >>

RunRetry(t) ==
  /\ tasks[t].kind = "retry"
  /\ live[tasks[t].p] < MaxCopies                              \* bound
  /\ Begin("m_merge", tasks[t].p, FALSE)
  /\ tasks' = [tasks EXCEPT ![t] = FreeTask]
  /\ forced' = [forced EXCEPT ![tasks[t].p] = @ \/ results[tasks[t].p] = "fail"]
  /\ Tear(tasks[t].p, status[tasks[t].p] \in {NoNode, "ACCEPTED"})
  /\ UNCHANGED << node, repo, graph, offered, accepted >>

\* Mutant: the result of merge_to_main is not looked at.
MergeCodeUnchecked(p) ==
  /\ At("m_merge", p)
  /\ offered' = [offered EXCEPT ![p] = repo.work[p]]
  /\ \/ ~Git!CanMerge(repo, p) /\ UNCHANGED repo
     \/ /\ Git!CanMerge(repo, p)
        /\ \/ repo' = Git!Merged(repo, p)
           \/ "conflict" \in Faults /\ repo' = Git!MergeConflicted(repo, p)
  /\ Goto("m_create")
  /\ UNCHANGED << node, graph, tasks, forced, accepted, torn >>

\* Step 1.  No projectRoot, or git says no: nothing of step 2 runs.
MergeCode(p) ==
  /\ At("m_merge", p)
  /\ offered' = [offered EXCEPT ![p] = repo.work[p]]
  /\ \/ /\ ~rooted[p] \/ Git!MergeRefused(repo, p)
        /\ Goto("m_failed")
        /\ UNCHANGED repo
     \/ /\ rooted[p] /\ Git!AlreadyUpToDate(repo, p)
        /\ Goto("m_create")
        /\ UNCHANGED repo
     \/ /\ rooted[p] /\ Git!CanMerge(repo, p)
        /\ repo' = Git!Merged(repo, p)
        /\ Goto("m_create")
     \/ /\ rooted[p] /\ Git!CanMerge(repo, p)
        /\ \/ "conflict" \in Faults /\ repo' = Git!MergeConflicted(repo, p)
           \/ "refused" \in Faults /\ UNCHANGED repo
        /\ Goto("m_failed")
  /\ UNCHANGED << node, graph, tasks, forced, accepted, torn >>

\* Step 2, statement by statement.  A CREATE entry makes a node with a fresh
\* id, then the EFFECT relation that revoke will need; an exception in either
\* is logged and swallowed, and only costs the entry its place in the count.
CreateGraphNode(p) ==
  /\ At("m_create", p)
  /\ \/ /\ live' = [live EXCEPT ![p] = @ + 1]
        /\ Goto("m_effect")
     \/ /\ "item" \in Faults
        /\ Goto("m_check")
        /\ UNCHANGED live
  /\ UNCHANGED << node, repo, effects, tasks, ghost >>

\* Mutant: CREATE of the EFFECT relation in a retried statement, not MERGE.
RecordEffectTwice(p) ==
  /\ At("m_effect", p)
  /\ effects' = [effects EXCEPT ![p] = @ + 2]
  /\ job' = [job EXCEPT !.step = "m_check", !.flag = TRUE]
  /\ UNCHANGED << node, repo, live, tasks, ghost >>


RecordEffect(p) ==
  /\ At("m_effect", p)
  /\ \/ /\ effects' = [effects EXCEPT ![p] = @ + 1]
        /\ job' = [job EXCEPT !.step = "m_check", !.flag = TRUE]
        /\ UNCHANGED torn
     \/ /\ "item" \in Faults
        /\ Goto("m_check")
        /\ Tear(p, TRUE)                    \* a node that no revocation finds
        /\ UNCHANGED effects
  /\ UNCHANGED << node, repo, live, tasks, forced, offered, accepted >>

\* _validate_applied_counts and _validate_live_projection: satisfied by any
\* entry of the diff that was counted and any node the proposal made.
ValidateProjection(p) ==
  /\ At("m_check", p)
  /\ \/ /\ job.flag \/ "item" \in Faults
        /\ Goto("m_commit")
        /\ UNCHANGED torn
     \/ /\ ~job.flag \/ "graph" \in Faults
        /\ Goto("m_rollback")
        /\ CutOff(p)
  /\ UNCHANGED << node, repo, graph, tasks, forced, offered, accepted >>

AcceptNode(p) ==
  /\ At("m_commit", p)
  /\ \/ /\ SetStatus(p, "ACCEPTED")
        /\ accepted' = [accepted EXCEPT ![p] = offered[p]]
        /\ Tear(p, live[p] = 0)              \* every entry was lost
        /\ Goto("m_cleanup")
     \/ /\ "graph" \in Faults
        /\ Goto("m_rollback")
        /\ CutOff(p)
        /\ UNCHANGED << status, accepted >>
  /\ UNCHANGED << results, rooted, boxed, repo, graph, tasks, forced, offered >>

RollBackMerge(p) ==
  /\ At("m_rollback", p)
  /\ repo' = Git!ResetMerge(repo)
  /\ Goto("m_failed")
  /\ UNCHANGED << node, graph, tasks, ghost >>

\* Mutant: the failure is raised without being written down.
SetMergeFailedUnwritten(p) ==
  /\ At("m_failed", p)
  /\ Return
  /\ UNCHANGED << node, repo, graph, tasks, ghost >>

SetMergeFailed(p) ==
  /\ At("m_failed", p)
  /\ SetStatus(p, "MERGE_FAILED")
  /\ Return
  /\ UNCHANGED << results, rooted, boxed, repo, graph, tasks, ghost >>

CleanUpWorktree(p) ==
  /\ At("m_cleanup", p)
  /\ \/ repo' = Git!WorktreeCleaned(repo, p)
     \/ "worktree" \in Faults /\ UNCHANGED repo
  /\ Return
  /\ UNCHANGED << node, graph, tasks, ghost >>

\* destroy_proposal refuses ACCEPTED only.
Destroy(p) ==
  /\ status[p] \notin {NoNode, "ACCEPTED"}
  /\ Begin(IF boxed[p] /\ rooted[p] THEN "d_remove" ELSE "d_set", p, FALSE)
  /\ UNCHANGED << node, repo, graph, tasks, ghost >>

DestroyNode(p) ==
  /\ At("d_set", p)
  /\ status' = [status EXCEPT ![p] = "DESTROYED"]
  /\ Return
  /\ UNCHANGED << results, rooted, boxed, repo, graph, tasks, ghost >>

\* remove_worktree as implement, destroy and delete call it; a failure is not
\* noticed by any of them.
RemoveWorktree(p) ==
  /\ job.p = p
  /\ \E from \in { <<"i_remove", "i_reset">>, <<"d_remove", "d_set">>,
                   <<"x_remove", "x_set">> } :
       job.step = from[1] /\ Goto(from[2])
  /\ \/ repo' = Git!WorktreeRemoved(repo, p)
     \/ "worktree" \in Faults /\ UNCHANGED repo
  /\ UNCHANGED << node, graph, tasks, ghost >>

-----------------------------------------------------------------------------
(* revoke: graph, then optionally code, then status *)

Revoke(p, revertCode) ==
  /\ status[p] = "ACCEPTED"
  /\ Begin("r_graph", p, revertCode)
  /\ UNCHANGED << node, repo, graph, tasks, ghost >>

\* Mutant: the nodes go, their EFFECT relations are kept.
RevertGraphKeepingEffects(p) ==
  /\ At("r_graph", p)
  /\ live' = [live EXCEPT ![p] = @ - effects[p]]
  /\ Goto(IF job.flag THEN "r_code" ELSE "r_status")
  /\ UNCHANGED << node, repo, effects, tasks, ghost >>

\* Mutant: only the EFFECT relations go.
RevertGraphKeepingNodes(p) ==
  /\ At("r_graph", p)
  /\ effects' = [effects EXCEPT ![p] = 0]
  /\ Goto(IF job.flag THEN "r_code" ELSE "r_status")
  /\ UNCHANGED << node, repo, live, tasks, ghost >>

\* revoke_accepted_proposal: nodes with a CREATE EFFECT are deleted; an error
\* on one is collected and reported; all EFFECT relations go in the end.
RevertGraph(p) ==
  /\ At("r_graph", p)
  /\ \/ live' = [live EXCEPT ![p] = @ - effects[p]] /\ UNCHANGED torn
     \/ "item" \in Faults /\ UNCHANGED live /\ Tear(p, TRUE)
  /\ effects' = [effects EXCEPT ![p] = 0]
  /\ Goto(IF job.flag THEN "r_code" ELSE "r_status")
  /\ UNCHANGED << node, repo, tasks, forced, offered, accepted >>

\* A failed revert is logged; the handler goes on.
RevertCode(p) ==
  /\ At("r_code", p)
  /\ \/ /\ rooted[p] /\ Git!CanRevert(repo, p)
        /\ repo' = Git!Reverted(repo, p)
     \/ /\ ~rooted[p] \/ ~Git!CanRevert(repo, p) \/ "conflict" \in Faults
        /\ UNCHANGED repo
  /\ Goto("r_status")
  /\ UNCHANGED << node, graph, tasks, ghost >>

Reopen(p) ==
  /\ At("r_status", p)
  /\ SetStatus(p, "PENDING_ACCEPTANCE")
  /\ Return
  /\ UNCHANGED << results, rooted, boxed, repo, graph, tasks, ghost >>

-----------------------------------------------------------------------------
\* A Neo4j statement raises where no handler catches it: the request ends with
\* an error and what was done before stays done.
Unguarded == { "i_reset", "i_draft", "c_results", "d_set", "x_set",
               "m_merge", "m_failed", "r_graph", "r_code", "r_status" }

StatementRaises(p) ==
  /\ "graph" \in Faults
  /\ job.p = p /\ job.step \in Unguarded
  /\ CutOff(p)
  /\ Return
  /\ UNCHANGED << node, repo, graph, tasks, forced, offered, accepted >>

-----------------------------------------------------------------------------
(* The environment *)

CellEdits(p) ==
  /\ p \in repo.worktrees \ repo.dirty
  /\ repo' = Git!Edited(repo, p)
  /\ UNCHANGED << node, graph, tasks, job, ghost >>

CellCommits(p) ==
  /\ p \in repo.dirty \intersect repo.worktrees
  /\ p \in repo.branches
  /\ \E c \in Git!Unused(repo) : repo' = Git!Committed(repo, p, c)
  /\ UNCHANGED << node, graph, tasks, job, ghost >>

\* The user finishes or aborts the merge that was left behind.
UserEndsMerge(p) ==
  /\ p \in repo.merging
  /\ repo' \in {Git!MergeAborted(repo), Git!MergeConcluded(repo, p)}
  /\ UNCHANGED << node, graph, tasks, job, ghost >>

\* The process dies: what it held in memory is gone, every store keeps what it
\* has.  Start-up repairs nothing (it only prunes git's worktree list).
Crash ==
  /\ "crash" \in Faults
  /\ CutOff(job.p)
  /\ job' = Idle
  /\ tasks' = [t \in Tasks |-> FreeTask]
  /\ UNCHANGED << node, repo, graph, forced, offered, accepted >>

-----------------------------------------------------------------------------

DualMerge(p) ==
  \/ MergeCode(p) \/ CreateGraphNode(p) \/ RecordEffect(p)
  \/ ValidateProjection(p) \/ AcceptNode(p) \/ RollBackMerge(p)
  \/ SetMergeFailed(p) \/ CleanUpWorktree(p)

HandlerStep(p) ==
  \/ DualMerge(p)
  \/ RemoveWorktree(p) \/ ResetForReimplement(p) \/ CreateWorktree(p)
  \/ BackToDraft(p) \/ StartImplementing(p) \/ RecordSandbox(p) \/ ClearResults(p)
  \/ DestroyNode(p) \/ DeleteNode(p)
  \/ RevertGraph(p) \/ RevertCode(p) \/ Reopen(p) \/ StatementRaises(p)

Request(p) ==
  \/ Create(p) \/ Submit(p) \/ Delete(p) \/ Destroy(p)
  \/ CompleteImplementation(p)
  \/ \E flag \in BOOLEAN : Implement(p, flag) \/ Accept(p, flag) \/ Revoke(p, flag)
  \/ \E t \in Retries : AdmitRetry(t, p)
  \/ \E t \in Runs, kind \in {"queued", "running"} : Validate(t, p, kind)

TaskStep(t) ==
  \/ LoadForTest(t) \/ RunRetry(t) \/ EndTask(t)
  \/ \E verdict \in {"pass", "fail"} : SaveResults(t, verdict)

Environment(p) == CellEdits(p) \/ CellCommits(p) \/ UserEndsMerge(p)

Next ==
  \/ \E p \in Proposals : Request(p) \/ HandlerStep(p) \/ Environment(p)
  \/ \E t \in Tasks : TaskStep(t)
  \/ Crash

Spec == Init /\ [][Next]_vars

\* A handler that has begun is never suspended, so it goes on to its end.
FairSpec == Spec /\ WF_vars(\E p \in Proposals : HandlerStep(p))

-----------------------------------------------------------------------------
(* Properties *)

\* What the branch held when the proposal was last merged is in the history of
\* the project's main branch for as long as the proposal is ACCEPTED, whatever
\* crashed, failed or was retried in between (execute_dual_merge: nothing of
\* step 2 after a failed merge).
AcceptedIsMerged ==
  \A p \in Proposals : status[p] = "ACCEPTED" => accepted[p] \subseteq repo.history

\* No verdict shows on a proposal that is being drafted, implemented or tested,
\* although a validation may end at any time after its proposal moved on
\* (the resets in implement, complete_implementation, reset_for_validation).
NoVerdictWhileWorking ==
  \A p \in Proposals :
    results[p] # "none" =>
      status[p] \in {"PENDING_ACCEPTANCE", "ACCEPTED", "MERGE_FAILED", "DESTROYED"}

\* Every EFFECT relation leads to a node that is in the live graph, so revoke
\* can find what acceptance made (_record_effect, revoke_accepted_proposal).
EffectsHaveNodes == \A p \in Proposals : effects[p] <= live[p]

\* The model never runs ahead of the code: a node reaches the live graph only
\* when all the branch was offered with is in main's history.
GraphFollowsCode ==
  [][\A p \in Proposals :
       live'[p] > live[p] => offered[p] \subseteq repo.history]_vars

\* `git reset --merge`, issued when step 2 of one proposal fails, never throws away
\* a merge that another proposal or the user has left unfinished in the checkout:
\* there is none when it runs.  For the same reason it takes back nothing of the
\* merge it is meant to undo, which is a finished commit (FailedMergeIsRolledBack
\* in ProposalClaims; execute_dual_merge, reset_merge).
RollbackIsVoid ==
  [][\A p \in Proposals : RollBackMerge(p) => repo' = repo]_vars

\* Revoking one proposal's code never takes accepted code of another out of the
\* files on main, unless the search for the merge commit came upon that other's,
\* whose id begins with this one's (revert_merge_commit; OwnMergeIsReverted in
\* ProposalClaims).
RevokeKeepsOthersCode ==
  [][\A p, q \in Proposals :
       p # q /\ At("r_code", p) /\ repo.newest[p].of # q =>
         accepted[q] \intersect repo.tree \subseteq repo'.tree]_vars

\* A failed verdict on an accepted proposal was overridden by the one who
\* accepted it, or passed over by a retry of the merge, which does not look at
\* it: no validation that was under way writes one behind the acceptance
\* (accept_proposal's gate, _save_results).
FailedVerdictNeedsForce ==
  \A p \in Proposals :
    results[p] = "fail" /\ status[p] \in {"ACCEPTED", "MERGE_FAILED"} => forced[p]

\* An acceptance that was admitted is decided: the proposal becomes ACCEPTED or
\* MERGE_FAILED (execute_dual_merge; the process does not die and Neo4j answers).
AcceptDecides ==
  \A p \in Proposals :
    At("m_merge", p) /\ status[p] # NoNode ~> status[p] \in {"ACCEPTED", "MERGE_FAILED"}

-----------------------------------------------------------------------------
(* What a reader of the proposals sees between the steps of a handler *)

Phase == [p \in Proposals |->
  IF status[p] = "ACCEPTED" /\ ~Revoked(p) THEN "accepted"
  ELSE IF status[p] = "MERGE_FAILED" THEN "failed" ELSE "open"]

InModel == [p \in Proposals |-> live[p] > 0 /\ ~Undecided(p)]

Atomic == INSTANCE AtomicAcceptance WITH phase <- Phase, inModel <- InModel

\* Under every fault dual merge and revoke implement AtomicAcceptance: a proposal
\* none of the events in `torn` has befallen -- a handler cut off between graph and
\* status, a lost item, a validation or a retry that comes too late -- is accepted,
\* failed and revoked in both stores at once (execute_dual_merge, execute_revoke).
ImplementsAtomicAcceptance == Atomic!Spec

=============================================================================
