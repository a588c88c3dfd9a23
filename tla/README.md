# robo-architect: models, checks and proofs

TLA+ modules for the stateful core of robo-architect, the TLC configurations
that check them, and the theorems TLAPS proves about them. `PROJECT.json` maps
every definition to the lines it stands for and lists runs, mutants, hazards,
findings and theorems. Paths below are relative to `src/`; `pl/` stands for
`api/features/proposal_lifecycle/`.

    tlc -workers 2 -config MCPlanGate.cfg MCPlanGate     one run
    tlapm PlanGate_proofs.tla                            one proof module

## 1. The system

robo-architect is a FastAPI backend (one process, one asyncio event loop) over a
Neo4j graph, with a Vue frontend, an Electron shell and a Figma plugin. It turns
requirements into an event-storming model and carries changes of that model, as
*proposals*, through planning, implementation by a coding agent in a git
worktree, validation and acceptance.

| Part | State | Operations | Meets |
|---|---|---|---|
| Proposal lifecycle (`pl/routes`, `pl/services/dual_merge.py`, `sandbox_manager.py`, `test_runner.py`, `implement_runner.py`) | the Proposal node: status, sandbox fields, test results, history | create, submit, implement, complete, validate, accept, retry, destroy, revoke, delete | git of the target project; live graph; skill runs |
| Diff application (`pl/services/proposal_apply.py`) | nodes of the live graph, EFFECT relations with the ops applied | apply strategic and tactical entries, reverse them | called by dual merge and revoke |
| Plan gate (`constitution_store.py`, `intent_runner.py`, `plan_runner.py`, `oda_runner.py`, `staged_consolidate.py`) | constitution, strategic memory; per proposal diff, version, draft, confirmed plan, hash | write constitution or memory, run intent and plan skills, confirm, edit, consolidate | gate of /implement |
| Claude terminals (`api/features/claude_code/router.py`) | in-memory registry of sessions: process, scrollback, attached socket | connect, re-attach, close, reap; a reader task per session | frontend cells, worktrees of proposals |
| Ingestion (`api/features/ingestion`) | in-memory sessions: status, events, subscriber queues, pause and cancel flags | upload, stream (starts the workflow), pause, resume, cancel | LLM phases that write the graph |
| Figma sync (`api/features/figma_binding`, `ingestion/figma_plugin_ws.py`) | in the graph: binding with its lock, rows of runs, mappings, sync state of UIs; in memory: progress and followers of runs, claims of retries, futures of plugin calls | connect, replace, disconnect, sync, cancel, follow, retry, recovery at startup | plugin that polls or holds a WebSocket |
| Skill runner (`api/platform/skill_runner.py`) | per run a process, its pipes, a bounded queue, three threads; the event loop's worker threads, which all share | stream, wait, time out, kill | every skill of the lifecycle and the plan gate |
| Staged proposals (`staged_runner.py`, `proposals_staged.py`) | output and state of each DDD stage | run, edit, confirm, consolidate | plan gate |
| Editing features (canvas, contexts, user stories, invariants, read models, model modifier, requirements, change management, CHG) | nodes of the graph | mostly one statement per request | graph |
| Generation (PRD, DDD specification, robo-spec MCP) | none | render text from the graph | graph |
| Platform (`neo4j.py`, LLM clients), desktop, frontend, Figma plugin | processes, drivers, caches, views | | all |

Where it is hard:

* **Two stores, no transaction.** Acceptance merges code with git and then writes
  the graph, statement by statement; any step may fail, and the process may die
  between two of them. Compensation is best effort.
* **Suspended coroutines.** Handlers of a stage change never await and so exclude
  each other; but validations, retries and skill runs are suspended for minutes
  and then write without looking at what the proposal became.
* **Git remembers.** A revert takes a change out of the files and leaves the
  commits in the history; a failed merge stays in the checkout.
* **Stale plans.** Constitution, memory, diff and plan are written by different
  handlers; staleness rests on a hash and a version copied around.
* **Terminals.** Two tasks write to one socket, others close it or kill the
  process behind it.
* **Replay and live events.** Ingestion streams, sync streams and terminals all
  send what was stored and then what comes; each joins the two in its own way.
* **Runs that outlive their reason.** A sync goes on while its file is replaced
  or its server stops; a plugin answers after its caller gave up; a retry joins
  another that breaks off.
* **Threads.** A skill run is a process, three threads and a coroutine that wait
  for one another through two pipes and a queue, and may each end first.

What makes each part correct, in one line: *lifecycle* -- accepted means code and
model are in, and nothing else means that; *plan gate* -- implementation begins
with a plan of what is current; *terminals* -- no orphans, and a screen without
holes or repetitions; *ingestion* -- one workflow, each subscriber sees every
event; *diff application* -- revoke restores what was there; *figma sync* -- one
sync at a time, a true verdict, and what is shown as drawn is drawn; *skill
runner* -- a stream that ends as complete is complete, and nothing waits for ever.

## 2. Modules

| Module | What it is |
|---|---|
| `SandboxGit` | a git repository as SandboxManager drives it: operators from repository to repository, no state |
| `ProposalLifecycle` | proposals, the repository (INSTANCE of `SandboxGit`), the live graph, handlers step by step, suspended tasks, faults |
| `AtomicAcceptance` | what acceptance promises, in four actions, and a fifth for what tears it; implemented by `ProposalLifecycle` |
| `ProposalClaims` | statements of documents the lifecycle does not keep |
| `MCProposalLifecycle` | instances of the lifecycle for TLC |
| `ProposalLifecycle_proofs` | invariants and theorems of the lifecycle, and the refinement |
| `SemanticDiff`, `MCSemanticDiff`, `SemanticDiff_proofs` | what acceptance writes into the live graph and what revoking takes back |
| `PlanGate`, `MCPlanGate`, `PlanGate_proofs` | constitution, strategic diff, plan, staleness, gate |
| `PtySessions`, `MCPtySessions`, `PtySessions_proofs` | terminals |
| `IngestionSessions`, `MCIngestionSessions`, `IngestionSessions_proofs` | ingestion runs and their progress streams |
| `FigmaSync`, `MCFigmaSync`, `FigmaSync_proofs` | lock, row, task and followers of a full synchronisation |
| `FigmaPages`, `MCFigmaPages`, `FigmaPages_proofs` | pages and frames, retries, and the plugin that answers late |
| `SkillStream`, `MCSkillStream`, `SkillStream_proofs` | processes, threads and streams of the skill runner |

In all of them an action of a coroutine is what runs between two awaits, since
the server is one event loop; an action of a thread is what happens between two
calls that may block; a statement on Neo4j commits by itself. The modules meet
where the code does: `SandboxGit` is a part of `ProposalLifecycle`, which
implements `AtomicAcceptance`; `ProposalLifecycle` counts nodes and EFFECTs where
`SemanticDiff` has their contents; `FigmaSync` leaves to `FigmaPages` what a page
and a batch are; `SkillStream` is what the skill runs of the lifecycle and the
plan gate (`tasks` there) stand on.

### ProposalLifecycle

`status`, `results`, `rooted` and `boxed` are the fields of the Proposal node that
guards read (status, testResults, projectRoot, the sandbox fields). `live[p]`
counts the graph nodes p's CREATE entry has made, `effects[p]` those an EFFECT
relation points to. `job` is the handler under way: since the handlers do not
await, there is at most one, and its steps (`m_merge`, `m_create`, ...) are the
durable statements and git commands, between which a crash may come. `tasks` are
the coroutines that are suspended: a validation queued or running, a retry stream
admitted but not read yet. `SandboxGit` keeps main twice, as history and as
files, because a revert sets them apart; commits are opaque pieces of work. The
merge to revert is looked up by the text "Accept <id>", which messages about
longer ids contain as well: `Longer[p]` are the ids that begin with p's, and
`newest[p]` is the newest commit such a search finds, be it p's or not.

`Faults` chooses what the environment does: crash, conflict, refused merge, a
swallowed entry failure, a raising statement, a worktree that cannot be made. The
implementation cell (edits, commits) and the user (finishes or aborts a merge)
act at any time. The gate of /implement is assumed passed here and is the subject of
`PlanGate`.

`offered`, `accepted`, `forced` are history: the commits of the branch at the
last merge and at the merge that led to ACCEPTED, and whether a failed verdict
was overridden. `torn` marks a proposal whose status and nodes may have come apart
for good, by one of these events: a crash or a raising statement between the two
(`CutOff`), a lost EFFECT or entry, a node that could not be deleted, a validation
that ends after the acceptance, a retry that runs on a proposal accepted or gone.
`specs/039`, FR-009 ("All-or-Nothing") has no such exceptions; the code has, and
`AtomicAcceptance` names them in one action, `Tear`.

### PlanGate

A hash is the text it was made from; the version is the counter of the strategic
diff. `plan[p]` carries the two stamps and, as history, the text it was built
from (`made`) and confirmed against (`text`). A writer of the constitution is two
statements, `WriteRoot` or `WriteMemory` and then `MarkProposalsStale`, with
`marking` in between; nothing else runs there, but the process may die.
`tasks` are skill runs. `Edits` chooses which other writers of the diff are used:
PUT /diff, the consolidation of the DDD stages, the ODA intent.

### PtySessions

`registry` is `_sessions`, `sess` the session objects with process and reader,
`conn` one handler of the WebSocket per connection, `doomed` the scheduled
`_destroy_session` tasks. An action is what runs between two awaits. The lock of
a session is held over an await in one place only, while the scrollback is
sent, so it is derived: a connection `replaying`. Output is a count of chunks,
the scrollback the last `RingSize` of them.

### SemanticDiff

A node has one scalar and one list field and one maker (`by`); a diff is a
sequence of entries that create, find or modify a node (by id, or by a name that
two nodes share), change its fields by ops, and hang children on it. One EFFECT
per node and proposal carries what undoes the ops. `job` goes through an
acceptance (`resolve`, `ops`, `effect` per entry, then `commit`) or a revocation
(`rows`, `reverse`, `sweep`, `unlink`, `reopen`); any op, statement or check may
fail, and the process may crash between statements. `ToText` is what `_to_scalar` does to numbers and native
lists. `log` is history: who changed a node, and what it was before; `muddled`
are the nodes for which the code itself has lost that -- reused by name under another
maker, or changed by the same proposal in two attempts.

### IngestionSessions

`sess` are the session objects with the task that runs the workflow (`pc`, the
pause in three states, the cancel flag, the events), `stream` the requests for
/stream: the handler makes the queue (`open`), the generator replays (`replay`),
then takes from the queue (`live`), and its `finally` may delete the session
(`ending`). A client that goes before its generator began leaves its queue behind
for good (`gone`). The workflow is the full one, the one for chosen user stories or the
hybrid one; of what its phases do only the events are kept.

### FigmaSync and FigmaPages

`FigmaSync`: `binding` with `currentRunId` and `row` are in Neo4j and survive a
crash; `task` (the runner and its entry of `_FULL_SYNC_STATE`) and `stream` do
not. `old` are the running rows of more than 30 minutes ago, the only ones the
recovery at startup touches. Statements fail, the server is killed or shuts down
(`faults`), the binding is replaced, lost or marked unreachable (`edits`). Who
follows a run of an earlier server is told from its row and sent away
(`SubscribeLost`); any row that is neither cancelled nor aborted reads as completed.

`FigmaPages`: `pages` and `frames` are what exists in Figma, `mapping` and `ui`
what the graph says of it. An id is unique in its file only: `NodeIds` carry the
file they were given in, which the program does not know, and the plugin looks the
bare id up in the file that is open. A retry is a coroutine that no other interrupts
between two calls of the plugin (`Running`), a run's frames of one batch are
tasks of their own. `sent` and `acks` are messages and answers in any order; a
call that timed out has left its message there. `inflight` and `future` are
`RetryDedupeStore`.

### SkillStream

`proc` is the process with its standard input and output (a pipe of `PipeSize`
chunks), `reader` the thread that starts it and moves its output to `queue`,
`client` the coroutines from the stream to its user, `jobs` and `getting` the
calls of `q.get` that wait for a worker of the default executor, and those that
have one. A process may fail, hang or be killed; a client leaves at any moment,
also before Popen has returned.

## 3. Runs

| Run | Instance | What it shows |
|---|---|---|
| `lifecycle_faults` | 1 proposal, 2 commits, 1 validation, 1 retry, all faults | the invariants of the three stores at every step, crashes included; dual merge and revoke refine `AtomicAcceptance` |
| `lifecycle_two` | 2 proposals, the second one's id begins with the first one's, 2 commits, git's faults; fair | revoking one leaves the other's accepted code, unless the search found its merge; an admitted acceptance is decided |
| `semantic_diff` | 2 proposals, 3 ids of which 2 share a name, 3 diffs, 2 faults | revoking restores what the proposal changed last, and leaves nothing of its own |
| `plan_gate` | 1 proposal, 2 skill runs, 2 texts, 2 constitutions, version up to 3 | stale plans are seen, and only current ones are implemented |
| `pty_sessions` | 2 session ids, 3 connections, 2 sessions at most at a time, scrollback 1 of 2 chunks; fair | no orphaned process, no repeated, reordered or lost output; an ended session is unregistered |
| `ingestion` | 1 session, 2 streams, 2 runs, 1 cancellation, 4 events; fair | streams miss nothing and end with a verdict; pause and cancel are respected |
| `figma_sync` | 2 files, 2 runs, 1 follower, 1 page, 2 batches, 1 fault, 1 edit; fair | one run at a time, a true verdict, the lock given back, followers told |
| `figma_pages` | 2 files, 2 jobs, 2 storyboards with 1 UI each, 1 fault, 1 edit | what is shown as synchronised is in Figma; one dispatch; joined retries are answered |
| `skill_stream` | 2 streams, 1 worker, queue and pipe of 1, 2 chunks; fair | complete streams are whole; streams end and workers come back |
| `claim_rollback`, `claim_reconnect`, `claim_verdict` | the smallest instance that shows it | see section 5 |

Bounds and why they are enough. *Commits*: two, so that a second round of
implementation brings something new after a revert, and a commit can be on one
branch and not on the other. *MaxCopies* 2: a retry after a failed step 2 makes a
second node. *Proposals* of the lifecycle meet only in the repository, so two of
them run with git's faults; the single-proposal run takes the others, and the
refinement of `AtomicAcceptance`, which speaks of each proposal by itself.
*SemanticDiff*: two proposals are the least that can create, find and modify each
other's nodes; the three diffs were chosen to meet in a name, in a node that was
there before, and in both of its fields; two faults are a failure and the crash
of its compensation. *PlanGate*: proposals meet only in the constitution, and
every property speaks of each by itself; two tasks are the least that can overtake
one another; versions to 3 let both of them rewrite an existing diff; two
constitutions allow going back to the first (A, B, A). *PtySessions*: three
connections are one attached, one taking over and one more waiting for its lock;
two session objects with one id are the ended session and its successor, with two
ids they fill the registry (`SessionMax`). *Ingestion*: two streams, so that one
keeps a session alive whose run is over while the other reconnects. *FigmaSync*:
the run under way and the one that would take its lock. *FigmaPages*: a run and a
retry, or two retries of the same UIs; two storyboards, so that an id may be
another one's page in another file; `MaxFaults` counts the calls that time out as
well as the statements that fail. *SkillStream*: one worker and one place in
the queue, so that the second stream waits for the first.

Constraints. `InOrder` gives the names of like streams and connections in the order
they come -- a symmetry, which also holds under fairness since no name is told
apart by anything else. `SecondIsQuiet` (terminals), `SecondRunIsShort` with
`MaxEvents` (ingestion) and `SecondIsShort` (skill streams) keep the second
object, there to compete, from writing as much as the first: behaviours in which
both write more are not checked. The symmetry
sets of the other runs (commits; tasks and proposals; proposals; files, jobs, and
UIs together with their storyboards) are interchangeable in their modules and not
used where liveness is checked.

Fairness, and why the code gives it. *lifecycle_two*: a handler that has begun goes
on, for it never awaits, and that run has no crash. *pty_sessions*: the event loop
resumes what can go on, and a send ends because its client reads or its socket
fails; nothing is assumed of clients, processes or requests; each connection is
made once, so attaching cannot take the lock for ever (`asyncio.Lock` is first
come, first served). *ingestion* and *figma_sync*: the event loop runs
what can run, a page, a batch and a phase end (the plugin's calls and the
language model's have timeouts), and clients read; users need not resume or cancel.
*skill_stream*: threads, event loop, users of a stream and processes that do not
hang go on; the time limit of a stream is an action nothing counts on. No run has
fairness on a fault. Liveness is only checked where fairness is stated.

Every property of a passing run has a mutant in `PROJECT.json`: a definition next
to the original (`MergeCodeUnchecked`, `EndReaderBySid`, `StartRetryAll`, ...) which a
slip in the code could have produced, and under which TLC finds the property
violated. `CHECK_DEADLOCK FALSE` is set where the system does come to rest once
the instance is used up: all connections, streams, runs and jobs are over, or
all ids are taken (`semantic_diff`).

## 4. Theorems

All for every number of proposals, commits, tasks, connections, streams, files,
nodes, jobs, ... and any set or number of faults.

`ProposalLifecycle_proofs` proves `Spec => []IInv`, where `IInv` joins the type
invariant and the four state invariants with what a handler under way knows:
* `NoVerdictInJob` -- a verdict shows during steps of implementation only before the reset, so that
  the write of IMPLEMENTING cannot expose one;
* `MergedInJob` -- between the merge and the verdict, what was offered is in
  main's history. This is why ACCEPTED implies merged although four statements and
  a possible crash lie between; it needs that the cells add to branches and
  nothing takes commits out of the history;
* `HeadNeedsMerge` -- an unfinished merge has commits to bring in, so that a merge that is
  "already up to date" or succeeded leaves none: `RollbackIsVoid`. That is all the
  good that `git reset --merge` can be said to do (`claim_rollback`, section 5);
* `NodeBeforeEffect` -- when the EFFECT is recorded its node is already counted;
* `VerdictOverridden` -- while a merge is under way with a failed verdict on the
  node, somebody decided on it: no validation ends between the gate and the
  status, because the handler does not await (`DualMergeSteps`).

From it: `TypeCorrect`, `AcceptedCodeMerged`, `NoStaleVerdict`, `EffectsSound`,
`GateIsKept`, and the action properties `CodeFirst` and `NothingRolledBack`. The
proof of `IInv'` goes action by action, after frame lemmas that say which of the
stores the requests, tasks and environment leave alone.

`OthersCodeKept` (`RevokeKeepsOthersCode`, under every fault) needs more of the
repository, `OwnInv`: no commit is the work of two proposals (`NothingShared`), and
what was merged or accepted is in main's history (`KnownToMain`). A merge commit then
holds what its own proposal brought in and nothing else, and reverting it cannot
reach another's work -- if it is the one the revocation means: the property leaves out
the searches that came upon the merge of a longer id (`MCClaimRevoke`). A commit is
new when it is made, so that every step of git moves the work of one proposal or
keeps it (`MineMoves`, `StepKeeps`).

`DualMergeIsAtomic` is the refinement, `Spec => ImplementsAtomicAcceptance`, under
every fault and with any number of late validations and retries. The code is not
atomic, and `torn` says exactly where: the proposal to which one of its events
happens takes the abstract action `Tear`, and nothing is promised of it from then on;
every other proposal keeps the whole promise. A handler changes the abstract state
at one of its steps and stutters at the others; the invariant behind
it, `AtomicInv`, says that the graph holds a proposal's nodes from the graph phase
of its acceptance to that of its revocation and at no other time, each with its
EFFECT, unless it is torn, and which statuses a handler under way can meet.
`Consistency` proves of the abstract specification that the model holds a change
exactly while it is accepted, and `ModelHoldsAccepted` brings it down to the code.

`SemanticDiff_proofs` proves the types (`TypeCorrect`), and that a revocation leaves
nothing behind (`RevocationTidies`, with `Swept` and `PartsHaveNodes`). That it
restores what was there (`RevocationRestores`) is the argument in four parts:
* `Explains` -- records lead from a node back to an earlier one when the *first*
  record that names the text, or an item, says what it was, and what no record
  names is unchanged. Nothing done is explained by no records, an op and its record
  keep the explanation (`OpExplained`), undoing the last record leaves one for the
  rest (`RecordUndone`), and when none is left the nodes are the same
  (`AllUndone`). As it does not say how far a reversal has come, one that was cut
  off may start again from its last record (`MoreRecords`);
* `Stacked` -- each proposal has one line in the log of a node, and only the first
  line may have found no node;
* `LogExplained` -- the EFFECT of an accepted proposal leads over its line of the
  log, from what the next line found (or the node, for the last one) to what it
  found itself; a CREATE line found nothing; an EFFECT that an interrupted
  revocation already removed leaves the two the same. For the entry in hand the
  records kept so far do so (`WorkExplained`);
* `RevokeProgress`, `ReverseProgress` -- rows that are done with have their node
  back, and in the row in hand the records after the current one are undone.
A proposal that is accepted under a log goes into it on top, and one that is
revoked on top leaves it; those revoked from below are the case the property leaves
out, as the code does restore something else then (section 5).

`PlanGate_proofs` proves `IInv` = type invariant and
* `VersionsTell` -- a plan whose version is not below the diff's was confirmed
  against this text, or one of the writers that keep versions has been there;
* `MarksArrive` -- unless a writer died, every proposal has seen the current
  hash, or is about to; this is what makes `planStale` right although it compares
  two copies and never the constitution itself;
* `NothingFromNothing` -- plans and drafts come from a diff that existed, and so
  do the inputs of the runs under way;

and from it `TypeCorrect`, `ChangesArrive` (`OldConstitutionIsStale`) and
`GateHolds` (`ImplementsCurrentPlan`), for which `OnlyTheGate` shows that no other
action leads from SUBMITTED to IMPLEMENTING.

`PtySessions_proofs`: `Registers` says where a session is on its way from
creation to the end of its reader and that it is registered until then under its
own id, which gives `NothingUnregistered`; `Screens` says how the scrollback a
connection takes, the chunk the reader is sending and the screen follow one
another, which gives `ShownOnce` and `ShownInFull`. The lock that is held while
the scrollback is sent is what makes them meet.

`IngestionSessions_proofs`: the type invariant ties a session's queues to its open
streams and `running` to its task; `PausedIsHeld` says that a run that told of its
pause holds its next event. `CancelIsKept` and `PauseIsKept` follow. For the streams,
`StreamsInStep` relates what a stream has sent, its queue and the events of its
session while it replays, goes live and ends -- the queue is registered before the
replay starts, and that is why no event falls between the two -- and `StatusIsLast`
says that a session's status is that of its last event: `NothingIsMissed`.
`VerdictIsTold` needs to know which final events were ends: a phase may report an
error and go on, but only in the modes in which a pause or a cancel can hold it, and
`VInv` says that outside the design mode every event with a final status is in
`ends`, and that a stream which sent anything and goes to its end has sent one. It
leaves out design runs, and streams on which nothing was sent (`MCClaimSilent`).

`FigmaSync_proofs`: `RunHoldsLock` is inductive with `Progressed` (how far a task
is, and what failed) and `Follows` (streams and what was told); hence
`LockIsHeld` and, step by step, `VerdictsDeserved`, of every step but a shutdown
(`MCClaimShutdown`). `ToldInOrder` (a run tells first that it began, and last and
once how it ended) and another `StreamsInStep` (what a stream sent since its queue
was made and what is queued are consecutive events up to the newest) give
`StreamsAreTold`; `LostTold` is its part about runs of an earlier server, whose rows
change no more once they are final.

`FigmaPages_proofs`: every message on its way asks for a frame on a page of its
storyboard and every answer names what its message asked for (`Mails`), however
late; a job waits only for what is open (`CallsFit`) and holds only pages of the
right storyboard (`PagesFound`); the store's claims are those of the retries at
work (`Claims`) and a future is settled when its job is past its frames (`Early`).
Hence `ShownIsDrawn`, `DispatchedOnce` and `JoinedAreTold`. `Growth` is why the
late answers do no harm: pages and frames are only added. Of a frame whose page id
came from another file nothing is said but that it is there and the UI's own
(`MCClaimStalePage`).

`SkillStream_proofs`: `Flow` -- what the user was given, what the queue holds and
what the reader has in its hand are consecutive chunks, a sentinel stands behind
them, and the first sentinel is DONE only of a process that exited, did not fail and
whose pipe is empty. Hence `CompleteStreams`.

Assumptions are the ASSUMEs of the modules: bounds are numbers, `None` is none of
the things it stands beside, UIs are not storyboards, `ToText` is idempotent, and the
graph a diff meets first has no proposal's nodes.

Only model-checked: liveness -- `AcceptDecides`, `ExitedIsForgotten`, `LockReleased`,
`StreamEnds`, `WorkersReturn` -- since fairness and ENABLED are beyond the prover.
Every invariant and every action property of the passing runs is a theorem, the
refinement of `AtomicAcceptance` included.

## 5. Where code and documents part

Shown by a run of `PROJECT.json` that TLC ends with a trace:

* `claim_rollback` -- the graph update fails after the code was merged.
  `git reset --merge` names no commit: the code stays on main, where dual_merge.py:5
  and :38 and specs/039 (spec.md:137, FR-010, :229) say that it is rolled back.
  `RollbackIsVoid` says that the command is at least harmless.
* `claim_reconnect` -- a client that reconnects to a session whose run is over
  starts the workflow again, and it clears the graph first; spec 001 says that a
  reconnect never does.
* `claim_verdict` -- a validation whose process never started, failed or timed out
  saves a result with no failures, and the gate of acceptance sees none
  (`test_runner.py:253` does not look at PHASE:error).

The other places where code and documents part, each with the configuration under
which TLC violates the property named. They are not among the runs, which keep one
such disagreement for each kind of actor (stores, clients, processes):

| Configuration, module | Property | What happens, and what says otherwise |
|---|---|---|
| `MCClaimReaccept`, `ProposalClaims` | `AcceptedCodeIsOnMain` | accept, revoke with code, accept again: git finds the branch already merged, and the proposal is ACCEPTED without its code in the files ("재accept 가능", dual_merge.py:231). `AcceptedIsMerged` speaks of the history |
| `MCClaimRevoke`, `ProposalClaims` | `OwnMergeIsReverted` | `git log --grep "Accept PRO-100"` also finds "Accept PRO-1000": revoking the one reverts the code of the other (sandbox_manager.py:286, against the docstring at :281). `RevokeKeepsOthersCode` excepts it |
| `MCClaimDestroyed`, `ProposalClaims` | `DestroyedIsFinal` | a validation that ends late brings a destroyed proposal back (README.md:588 has no way out of DESTROYED) |
| `MCClaimSilent`, `MCIngestionSessions` | `ClosedByVerdict` | a stream whose run is over before its generator began is closed with nothing sent (specs/001, spec.md:22: until a complete or error event closes it). `EndsWithVerdict` excepts it |
| `MCClaimFollow`, `MCFigmaSync` | `FollowedToTheEnd` | after a restart, who follows a run whose row still says running is told that it is completed (specs/020, rest-api.md:48). `StreamTold` excepts it |
| `MCClaimShutdown`, `MCFigmaSync` | `SuccessIsWhole` | a run that a shutdown interrupts is recorded as succeeded (specs/020, data-model.md:130). `VerdictIsTrue` excepts it |
| `MCClaimLock`, `MCFigmaSync` | `LockHasRow` | a statement that fails after the lock was taken leaves a lock without a row, which nothing recovers (data-model.md:52). `LockReleased` excepts it |
| `MCClaimStalePage`, `MCFigmaPages` | `OnItsStoryboard` | connecting another file leaves the mappings of the former one active; the plugin looks their page ids up in the new file, where they may be another storyboard's, and the UI is marked ok (specs/016, spec.md:111). `OkHasFrame` excepts it |
| `MCClaimProcess`, `MCSkillStream` | `NoProcessLeft` | a skill process whose Popen has not returned when its stream ends is never killed (skill_runner.py:567). `WorkersReturn` excepts it |

In the models, without a configuration of their own:

* A merge is retried over a failed verdict.
* A plan is stamped with the version current at its confirmation, not the one it
  was built against (spec 041). `ImplementsCurrentPlan` has two exceptions in its
  text: a writer of the constitution that died between its statements
  (`unmarked`), and a diff rewritten by a writer that does not raise the version
  (`edited`). The code detects neither.
* Writing a bounded context's memory is meant to make plans stale; they are given
  the unchanged hash of the project.
* A CREATE that finds a node of its name takes it for its own, and revoking it
  deletes what another proposal made; a retry forgets what was there before the
  first attempt; revoked in the order of acceptance, two proposals leave the older
  one's value. `RevokeRestores` speaks of nodes on top and not `muddled`.
* reap-detached is said to leave on-screen cells alone; a connection taking a
  session over is unattached for two awaits. The limit of sessions is checked
  right after the reaping was scheduled, and so never sees its effect
  (`claude_code/router.py:1010`).
* The lock of a Figma sync killed less than 30 minutes before the restart stays. A
  binding disconnected during a sync may be marked unreachable, and so come back.
* With mappings of a former file left active, pushes to storyboards whose page id is
  none in the new file fail (specs/016, FR-006).
* Waiting for a shared worker counts toward the time limit of a skill stream.

Seen while reading: a conflicting merge stays in the checkout and blocks other
acceptances; uncommitted work in a worktree goes with `--force` when it is
cleaned up; a crash between IMPLEMENTING and the sandbox fields hides the
worktree from destroy; a node without EFFECT stays after revoke; of two
connections that attach at the same time the loser stays open without output; the
reader thread of a skill may stay in `q.put` on a full queue after its client
left; kill -9 by the system is taken for a normal end; defining and connecting
contexts in the staged proposals overwrites the strategic memory without the
conflict detection of specs/042, FR-019, and confirming an earlier stage again
does not invalidate later ones; in the plugin channel, a WebSocket that was
replaced removes its successor's registration when it ends, a queue of 100
messages drops the oldest, and a plugin that once announced itself counts as
polling for ever. The hazards in `PROJECT.json` give the lines.

## 6. Left out, and why

In modelled parts: `statusHistory`, clarification and comments (they gate
nothing); prompts; the ODA conformance gate and the overrides of a bounded
context; deletion of proposals in `PlanGate` (it is in the lifecycle); relations
between nodes other than EFFECT, and more than two fields of a node; token counts
of an ingestion; component scan, updates and exports of single frames and the
generation of scene graphs in the Figma sync; file endpoints next to the
terminals; splitting of UTF-8 sequences; terminal input and sizes; the line
splitter, standard error and the OpenAI-compatible strategy of the skill runner. A
handler cancelled by its client while it awaits nothing cannot be interrupted and
is not modelled.

### Not modelled

The phases of ingestion, the agents and the generators -- by far most of the lines of
this repository -- are prompts and queries whose result is what a language model
answers: there is little control in them to keep, and the data is their point. The editing features
write one statement per request; desktop, frontend and plugin enter as requests
in any order. `PROJECT.json` lists each with its reason. Of what could be
modelled next, the following have control of their own:

1. `StagedProposal` -- order of the stages, edits, skips, consolidation; composed
   with `PlanGate` through `Consolidate`. What the code does with later stages when an
   earlier one changes is known from reading (section 5).
2. The plugin's channel (`figma_plugin_ws.py`: registration, queue, polling) under
   `FigmaPages`, where messages are now a set.
3. The model modifier chat: approved changes written statement by statement.
4. The desktop's start and stop of the backend.
5. An abstract specification of what a progress stream promises, with the streams of
   `IngestionSessions` and `FigmaSync` shown to implement it.
