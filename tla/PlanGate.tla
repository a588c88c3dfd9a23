------------------------------ MODULE PlanGate ------------------------------
(***************************************************************************)
(* What an implementation plan was made from, and how the system notices   *)
(* that it changed since.  A confirmed plan is stamped with the hash of    *)
(* the project constitution and the version of the strategic diff; writing *)
(* the constitution copies its new hash to every proposal; planStale       *)
(* compares the stamps with the proposal's own hash and version; and       *)
(* /implement lets a SUBMITTED proposal through when its plan is not stale.*)
(*                                                                         *)
(* Handlers run to their end one after another (none of them awaits), so   *)
(* only the skill runs behind the intent and plan streams are suspended:   *)
(* they are `tasks`.  The writers of the constitution make two statements, *)
(* and the process may die between them: `marking` is the writer between.  *)
(*                                                                         *)
(* A hash stands for the text it was made from: 0 is "no hash".  Deleting  *)
(* proposals and the ODA conformance gate are left out.                    *)
(***************************************************************************)
EXTENDS Integers

CONSTANTS
  Proposals,
  Tasks,        \* skill runs that can be under way at once
  Texts,        \* contents of a strategic diff
  Revisions,    \* contents of the project constitution and its memory
  MaxVersion,   \* bound on strategicDiff.version
  Edits         \* the other writers of the strategic diff that are used

EditKinds == { "diff",         \* PUT /diff: the client sends text and version
               "staged",       \* consolidation of the DDD stages: version kept
               "oda" }         \* ODA intent: version 1

ASSUME ConstantsAssumption ==
  /\ Texts \subseteq Nat \ {0} /\ Revisions \subseteq Nat \ {0}
  /\ MaxVersion \in Nat \ {0}
  /\ Edits \subseteq EditKinds

NoText  == 0                             \* no strategic diff yet
NoHash  == 0                             \* no constitution, or an empty one
BcMemoryChanged == -1                    \* the literal "BC-MEMORY-CHANGED"
Hashes  == Revisions \union {NoHash}
NoPlan  == [made |-> NoText]

VARIABLES
  status,     \* Proposal.status
  strategic,  \* Proposal.strategicDiff
  draft,      \* Proposal.planDraft: the text it was built from
  plan,       \* Proposal.implementationPlan
  seen,       \* Proposal.constitutionHash
  root,       \* the project's constitution and strategic memory
  marking,    \* a writer of the constitution between its two statements
  tasks,      \* skill runs under way
  unmarked,   \* history: a writer died there, and none has finished since
  edited      \* history: since the plan was confirmed, the diff was rewritten,
              \*   but not by SaveIntent

vars == << status, strategic, draft, plan, seen, root, marking, tasks,
           unmarked, edited >>
constitution == << root, marking, unmarked >>
planning == << draft, plan, seen >>

Statuses == {"DRAFT", "SUBMITTED", "IMPLEMENTING"}
Idle     == [kind |-> "idle"]

\* made and text are history: the strategic diff the plan was built from, and
\* the one it was confirmed against.
Plans == [made: Texts, hash: Hashes, version: 1 .. MaxVersion, text: Texts \union {NoText}]

TypeOK ==
  /\ status \in [Proposals -> Statuses]
  /\ strategic \in [Proposals -> [text: Texts \union {NoText}, version: 1 .. MaxVersion]]
  /\ draft \in [Proposals -> Texts \union {NoText}]
  /\ plan \in [Proposals -> Plans \union {NoPlan}]
  /\ seen \in [Proposals -> Hashes \union {BcMemoryChanged}]
  /\ root \in Hashes
  /\ marking \in {"no", "root", "memory"}
  /\ unmarked \in BOOLEAN
  /\ edited \in [Proposals -> BOOLEAN]
  /\ tasks \in [Tasks -> {Idle} \union [kind: {"intent"}, p: Proposals, version: 1 .. MaxVersion]
                               \union [kind: {"plan"}, p: Proposals, made: Texts]]

Init ==
  /\ status = [p \in Proposals |-> "DRAFT"]
  /\ strategic = [p \in Proposals |-> [text |-> NoText, version |-> 1]]
  /\ draft = [p \in Proposals |-> NoText]
  /\ plan = [p \in Proposals |-> NoPlan]
  /\ seen = [p \in Proposals |-> NoHash]
  /\ root = NoHash
  /\ marking = "no" /\ unmarked = FALSE
  /\ edited = [p \in Proposals |-> FALSE]
  /\ tasks = [t \in Tasks |-> Idle]

Quiet == marking = "no"

-----------------------------------------------------------------------------
(* constitution_store: write, then mark *)

\* upsert_project_constitution, upsert_project_strategic_memory; the text may
\* be empty.
WriteRoot(r) ==
  /\ Quiet
  /\ root' = r
  /\ marking' = "root"
  /\ UNCHANGED << status, strategic, planning, unmarked, tasks, edited >>

\* upsert_bc_strategic_memory.
WriteMemory ==
  /\ Quiet
  /\ marking' = "memory"
  /\ UNCHANGED << status, strategic, planning, root, unmarked, tasks, edited >>

\* Mutant: proposals whose implementation has begun are passed over.
MarkDraftsStale ==
  /\ ~Quiet
  /\ seen' = [p \in Proposals |-> IF status[p] = "DRAFT" THEN root ELSE seen[p]]
  /\ marking' = "no"
  /\ unmarked' = FALSE
  /\ UNCHANGED << status, strategic, draft, plan, root, tasks, edited >>

\* _mark_proposals_stale, with the hash of the project's constitution even when
\* only a bounded context's memory was written.
MarkProposalsStale ==
  /\ ~Quiet
  /\ seen' = IF root # NoHash THEN [p \in Proposals |-> root]
             ELSE IF marking = "memory" THEN [p \in Proposals |-> BcMemoryChanged]
             ELSE seen
  /\ marking' = "no"
  /\ unmarked' = FALSE
  /\ UNCHANGED << status, strategic, draft, plan, root, tasks, edited >>

-----------------------------------------------------------------------------
(* intent_runner, plan_runner: skill runs *)

\* Neither stream looks at the proposal's status.
StartIntent(t, p) ==
  /\ Quiet
  /\ tasks[t] = Idle
  /\ tasks' = [tasks EXCEPT ![t] = [kind |-> "intent", p |-> p,
                                    version |-> strategic[p].version]]
  /\ UNCHANGED << status, strategic, planning, constitution, edited >>

\* Mutant: the version is counted from the one the run started with.
SaveIntentFromStart(t, text) ==
  /\ Quiet
  /\ tasks[t].kind = "intent"
  /\ tasks[t].version < MaxVersion
  /\ LET p == tasks[t].p IN
       strategic' = [strategic EXCEPT ![p] =
         [text |-> text, version |-> IF @.text = NoText THEN 1 ELSE tasks[t].version + 1]]
  /\ tasks' = [tasks EXCEPT ![t] = Idle]
  /\ UNCHANGED << status, planning, constitution, edited >>

\* _save_intent_result loads the previous diff again when the skill has ended.  The
\* version of a first diff, which the skill may choose, is taken as 1.
SaveIntent(t, text) ==
  /\ Quiet
  /\ tasks[t].kind = "intent"
  /\ LET p == tasks[t].p IN
       /\ strategic[p].version < MaxVersion                     \* bound
       /\ strategic' = [strategic EXCEPT ![p] =
            [text |-> text, version |-> IF @.text = NoText THEN 1 ELSE @.version + 1]]
  /\ tasks' = [tasks EXCEPT ![t] = Idle]
  /\ UNCHANGED << status, planning, constitution, edited >>

\* Mutant: without the precheck, a plan can be asked for before any diff.
StartPlanUnchecked(t, p) ==
  /\ Quiet
  /\ tasks[t] = Idle
  /\ root # NoHash
  /\ tasks' = [tasks EXCEPT ![t] =
       [kind |-> "plan", p |-> p, made |-> strategic[p].text]]
  /\ UNCHANGED << status, strategic, planning, constitution, edited >>

\* stream_plan: precheck, then the inputs of the prompt.
StartPlan(t, p) ==
  /\ Quiet
  /\ tasks[t] = Idle
  /\ strategic[p].text # NoText
  /\ root # NoHash
  /\ tasks' = [tasks EXCEPT ![t] =
       [kind |-> "plan", p |-> p, made |-> strategic[p].text]]
  /\ UNCHANGED << status, strategic, planning, constitution, edited >>

\* _save_plan_draft, whatever was confirmed or rewritten since the start.
SavePlanDraft(t) ==
  /\ Quiet
  /\ tasks[t].kind = "plan"
  /\ draft' = [draft EXCEPT ![tasks[t].p] = tasks[t].made]
  /\ tasks' = [tasks EXCEPT ![t] = Idle]
  /\ UNCHANGED << status, strategic, plan, seen, constitution, edited >>

\* The stream is closed, the skill fails, its answer is refused or asks back.
EndTask(t) ==
  /\ Quiet
  /\ tasks[t] # Idle
  /\ tasks' = [tasks EXCEPT ![t] = Idle]
  /\ UNCHANGED << status, strategic, planning, constitution, edited >>

\* confirm_plan: the client sends the plan it shows -- the draft, or the plan
\* confirmed before -- and it is stamped with what is current now.
ConfirmPlan(p) ==
  /\ Quiet
  /\ \E made \in {draft[p], plan[p].made} \ {NoText} :
       plan' = [plan EXCEPT ![p] =
         [made |-> made, hash |-> root, version |-> strategic[p].version,
          text |-> strategic[p].text]]
  /\ draft' = [draft EXCEPT ![p] = NoText]
  /\ seen' = IF root # NoHash THEN [seen EXCEPT ![p] = root] ELSE seen
  /\ edited' = [edited EXCEPT ![p] = FALSE]
  /\ UNCHANGED << status, strategic, constitution, tasks >>

-----------------------------------------------------------------------------
(* The other writers of the strategic diff *)

\* update_diff stores the body as it is: its version is that of the copy the
\* client edited.
UpdateDiff(p, text, version) ==
  /\ "diff" \in Edits
  /\ Quiet
  /\ version <= strategic[p].version
  /\ strategic' = [strategic EXCEPT ![p] = [text |-> text, version |-> version]]
  /\ edited' = [edited EXCEPT ![p] = TRUE]
  /\ UNCHANGED << status, planning, constitution, tasks >>

Consolidate(p, text) ==
  /\ "staged" \in Edits
  /\ Quiet
  /\ strategic' = [strategic EXCEPT ![p].text = text]
  /\ edited' = [edited EXCEPT ![p] = TRUE]
  /\ UNCHANGED << status, planning, constitution, tasks >>

SaveOdaIntent(p, text) ==
  /\ "oda" \in Edits
  /\ Quiet
  /\ strategic' = [strategic EXCEPT ![p] = [text |-> text, version |-> 1]]
  /\ edited' = [edited EXCEPT ![p] = TRUE]
  /\ UNCHANGED << status, planning, constitution, tasks >>

-----------------------------------------------------------------------------
(* Stages *)

Submit(p) ==
  /\ Quiet
  /\ status[p] = "DRAFT"
  /\ strategic[p].text # NoText
  /\ status' = [status EXCEPT ![p] = "SUBMITTED"]
  /\ UNCHANGED << strategic, planning, constitution, tasks, edited >>

\* ProposalResponse.from_neo4j: planStale.  A missing hash is not compared.
PlanStale(p) ==
  /\ plan[p] # NoPlan
  /\ \/ plan[p].hash # NoHash /\ seen[p] # NoHash /\ plan[p].hash # seen[p]
     \/ strategic[p].version > plan[p].version

\* Mutant: the gate asks for a confirmed plan only.
ImplementUngated(p) ==
  /\ Quiet
  /\ status[p] = "SUBMITTED"
  /\ plan[p] # NoPlan
  /\ status' = [status EXCEPT ![p] = "IMPLEMENTING"]
  /\ UNCHANGED << strategic, planning, constitution, tasks, edited >>

\* The gate of /implement.  Preparing the sandbox may fail: back to DRAFT.
Implement(p) ==
  /\ Quiet
  /\ status[p] = "SUBMITTED"
  /\ plan[p] # NoPlan /\ ~PlanStale(p)
  /\ \E next \in {"IMPLEMENTING", "DRAFT"} : status' = [status EXCEPT ![p] = next]
  /\ UNCHANGED << strategic, planning, constitution, tasks, edited >>

\* From any later stage the gate is passed over: the proposal is put back to
\* SUBMITTED and goes on at once; it stays there when git says no.
Reimplement(p) ==
  /\ Quiet
  /\ status[p] = "IMPLEMENTING"
  /\ \E next \in Statuses : status' = [status EXCEPT ![p] = next]
  /\ UNCHANGED << strategic, planning, constitution, tasks, edited >>

Crash ==
  /\ marking' = "no"
  /\ unmarked' = (unmarked \/ ~Quiet)
  /\ tasks' = [t \in Tasks |-> Idle]
  /\ UNCHANGED << status, strategic, planning, root, edited >>

-----------------------------------------------------------------------------

Edit(p, text) ==
  \/ \E version \in 1 .. MaxVersion : UpdateDiff(p, text, version)
  \/ Consolidate(p, text)
  \/ SaveOdaIntent(p, text)

Stage(p) == Submit(p) \/ ConfirmPlan(p) \/ Implement(p) \/ Reimplement(p)

TaskStep(t) ==
  \/ \E p \in Proposals : StartIntent(t, p) \/ StartPlan(t, p)
  \/ \E text \in Texts : SaveIntent(t, text)
  \/ SavePlanDraft(t)
  \/ EndTask(t)

Next ==
  \/ \E r \in Hashes : WriteRoot(r)
  \/ WriteMemory
  \/ MarkProposalsStale
  \/ \E p \in Proposals : Stage(p) \/ \E text \in Texts : Edit(p, text)
  \/ \E t \in Tasks : TaskStep(t)
  \/ Crash

Spec == Init /\ [][Next]_vars

-----------------------------------------------------------------------------
(* Properties *)

\* Once a writer of the constitution has finished, every plan that carries the
\* hash of another constitution is stale, whichever of them were confirmed,
\* emptied or written again in between; a writer that died is made up for by
\* the next (_mark_proposals_stale, planStale).
OldConstitutionIsStale ==
  Quiet /\ ~unmarked /\ root # NoHash =>
    \A p \in Proposals :
      plan[p] # NoPlan /\ plan[p].hash \notin {NoHash, root} => PlanStale(p)

\* Implementation begins with a plan confirmed against the strategic diff and
\* the constitution of that moment, although intent runs may end at any time
\* and in any order; the text is not covered once a writer that keeps or lowers
\* the version has been at it (the gate of implement_proposal,
\* _save_intent_result).
ImplementsCurrentPlan ==
  [][ ~unmarked =>
        \A p \in Proposals :
          status[p] = "SUBMITTED" /\ status'[p] = "IMPLEMENTING" =>
            /\ plan[p] # NoPlan
            /\ edited[p] \/ plan[p].text = strategic[p].text
            /\ root # NoHash => plan[p].hash \in {NoHash, root} ]_vars
=============================================================================
