----------------------------- MODULE SandboxGit -----------------------------
(***************************************************************************)
(* The target project's git repository as the proposal services drive it   *)
(* (api/features/proposal_lifecycle/services/sandbox_manager.py).  Every   *)
(* method of SandboxManager is an operator from a repository value to a    *)
(* repository value; where git may answer in several ways there is one     *)
(* operator per answer and a predicate that says when it is possible.      *)
(*                                                                         *)
(* A commit is an opaque value: the piece of work it carries.  What the    *)
(* checked-out branch of the project ("main") knows is kept twice, because *)
(* git keeps it twice: `history` are the commits reachable from HEAD,      *)
(* `tree` those whose change is present in HEAD's files.  A revert takes a *)
(* change out of the tree and leaves the commit in the history.            *)
(***************************************************************************)
CONSTANTS
  Proposals,   \* the proposal ids; a proposal owns one branch and one worktree
  Longer,      \* Longer[p]: the ids that begin with p's, as PRO-1000 does with PRO-100
  Commits      \* the pieces of work the implementation cells can commit

\* The proposals whose merge a search for "Accept <id>" of p comes upon: git log
\* --grep looks for the text anywhere in a message.
Matched(p) == {p} \union Longer[p]

Repo == [ isRepo    : BOOLEAN,             \* the project root is a git repository
          history   : SUBSET Commits,      \* reachable from HEAD
          tree      : SUBSET Commits,      \* effective in HEAD's files
          merging   : SUBSET Proposals,    \* the branch of an unfinished merge, if any
          mergeHead : SUBSET Commits,      \* ... and the commits it was bringing in
          branches  : SUBSET Proposals,    \* proposal/<id> exists
          work      : [Proposals -> SUBSET Commits], \* commits on proposal/<id> since it was cut
          worktrees : SUBSET Proposals,    \* .sandbox/proposal/<id> exists
          dirty     : SUBSET Proposals,    \* ... and holds uncommitted edits
          newest    : [Proposals -> [kind: {"none", "merge", "revert"}, of: Proposals]],
                                           \* newest commit whose message holds "Accept <id>",
                                           \* and the proposal whose merge it makes or reverts
          brought   : [Proposals -> SUBSET Commits] ] \* what p's last merge commit brought in

NewRepo(isRepo) ==
  [ isRepo |-> isRepo, history |-> {}, tree |-> {}, merging |-> {}, mergeHead |-> {},
    branches |-> {}, work |-> [p \in Proposals |-> {}],
    worktrees |-> {}, dirty |-> {},
    newest |-> [p \in Proposals |-> [kind |-> "none", of |-> p]],
    brought |-> [p \in Proposals |-> {}] ]

\* Main has a new commit with "Accept <id>" of p in its message.
Noted(r, kind, p) ==
  [q \in Proposals |-> IF p \in Matched(q) THEN [kind |-> kind, of |-> p] ELSE r.newest[q]]

-----------------------------------------------------------------------------
(* create_worktree *)

\* _ensure_git_repo without allow_init raises NotAGitRepoError.
NotAGitRepo(r, allowInit) == ~r.isRepo /\ ~allowInit

\* The stale worktree of the same branch goes, then `git worktree add -B
\* proposal/<id> <path> HEAD` cuts the branch afresh: what it held before is
\* no longer on it.
WorktreeCreated(r, p) ==
  [r EXCEPT !.isRepo = TRUE,
            !.branches = @ \union {p}, !.work[p] = {},
            !.worktrees = @ \union {p}, !.dirty = @ \ {p}]

\* It raised: in `git init`, on the disk check with the stale worktree still
\* there, or in `worktree add` with the stale worktree gone.
WorktreeNotCreated(r, p) ==
  LET initialised == [r EXCEPT !.isRepo = TRUE] IN
  { r, initialised,
    [initialised EXCEPT !.worktrees = @ \ {p}, !.dirty = @ \ {p}] }

-----------------------------------------------------------------------------
(* remove_worktree, cleanup_worktree: return codes are not looked at *)

\* worktree remove --force drops the uncommitted edits; branch -D drops the
\* commits that no other branch holds.
WorktreeRemoved(r, p) ==
  [r EXCEPT !.worktrees = @ \ {p}, !.dirty = @ \ {p},
            !.branches = @ \ {p}, !.work[p] = {}]

\* After an acceptance the branch is kept.
WorktreeCleaned(r, p) ==
  [r EXCEPT !.worktrees = @ \ {p}, !.dirty = @ \ {p}]

-----------------------------------------------------------------------------
(* merge_to_main, reset_merge *)

\* What `git merge --no-ff proposal/<id>` would bring in.
Incoming(r, p) == r.work[p] \ r.history

\* No such branch, or a merge already under way: git refuses, nothing changes.
MergeRefused(r, p) == ~r.isRepo \/ p \notin r.branches \/ r.merging # {}

AlreadyUpToDate(r, p) == ~MergeRefused(r, p) /\ Incoming(r, p) = {}

CanMerge(r, p) == ~MergeRefused(r, p) /\ Incoming(r, p) # {}

\* The merge commit "Accept <id>" is on HEAD.
Merged(r, p) ==
  [r EXCEPT !.history = @ \union Incoming(r, p), !.tree = @ \union Incoming(r, p),
            !.newest = Noted(r, "merge", p), !.brought[p] = Incoming(r, p)]

\* Conflicts: merge_to_main returns success = False and leaves MERGE_HEAD and
\* the conflicted index behind; nothing calls `git merge --abort`.
MergeConflicted(r, p) ==
  [r EXCEPT !.merging = {p}, !.mergeHead = Incoming(r, p)]

\* `git reset --merge` names no commit: it ends an unfinished merge and leaves
\* HEAD where it is.
ResetMerge(r) == [r EXCEPT !.merging = {}, !.mergeHead = {}]

-----------------------------------------------------------------------------
(* revert_merge_commit *)

\* `git log --grep "Accept <id>" -n 1` must find something, and the newest match
\* must be a merge commit for `git revert -m 1`: a previous revert's message
\* (Revert "Accept <id>") matches too, and is none.  Nothing says that the match
\* is p's own.
CanRevert(r, p) == r.newest[p].kind = "merge" /\ r.merging = {}

\* Mutant: the branch is reset instead of the one merge reverted.
RevertedByReset(r, p) == [r EXCEPT !.tree = {}, !.newest = Noted(r, "revert", p)]

Reverted(r, p) ==
  LET found == r.newest[p].of IN
  [r EXCEPT !.tree = @ \ r.brought[found], !.newest = Noted(r, "revert", found)]

-----------------------------------------------------------------------------
(* What happens in the repository outside the services: the implementation *)
(* cell edits and commits in the worktree; the user ends a merge by hand.  *)

Edited(r, p) == [r EXCEPT !.dirty = @ \union {p}]

Committed(r, p, c) ==
  [r EXCEPT !.dirty = @ \ {p}, !.work[p] = @ \union {c}]

MergeAborted(r) == [r EXCEPT !.merging = {}, !.mergeHead = {}]

MergeConcluded(r, p) ==
  [r EXCEPT !.history = @ \union r.mergeHead, !.tree = @ \union r.mergeHead,
            !.merging = {}, !.mergeHead = {},
            !.newest = Noted(r, "merge", p), !.brought[p] = r.mergeHead]

\* A commit nobody holds yet.
Unused(r) ==
  Commits \ (r.history \union r.mergeHead \union UNION {r.work[p] : p \in Proposals})
=============================================================================
