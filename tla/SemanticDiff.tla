---------------------------- MODULE SemanticDiff ----------------------------
(***************************************************************************)
(* What accepting a proposal writes into the live graph, and what revoking *)
(* it takes back (proposal_apply.py).  A diff is a sequence of entries;    *)
(* each one creates a node, or finds one, changes its fields with ops,     *)
(* hangs children on it and leaves one EFFECT relation from the proposal   *)
(* to it, which carries what is needed to undo the ops.                    *)
(*                                                                         *)
(* The handlers await nothing, so one `job` runs at a time; each of its    *)
(* statements commits by itself, and the process may crash between two.    *)
(*                                                                         *)
(* A node has one scalar field and one list field, whose elements are a    *)
(* set: order and duplicates are left out, and so are the relations other  *)
(* than EFFECT.  ops on named objects, on native lists and on the items of *)
(* an enumeration are one kind of list op.                                 *)
(***************************************************************************)
EXTENDS Naturals, Sequences

CONSTANTS
  Proposals,
  Ids,        \* the node ids at hand, generated ones included
  Name,       \* the name a node of this id has: a function on Ids
  Values,     \* scalars: Null, texts, and numbers or lists kept natively
  ToText,     \* _to_scalar, a function on Values
  Items,      \* elements of the list field
  Diffs,      \* the diffs a proposal may have
  Start,      \* the graph before the first proposal
  MaxFaults,  \* bound on the faults of the environment
  Null, None, Base

NoNode  == [by |-> None, text |-> Null, list |-> {}]
Nodes   == [by: Proposals \union {Base}, text: Values, list: SUBSET Items]
Ops     == [op: {"set"}, value: Values] \union
           [op: {"append", "remove"}, items: SUBSET Items]
Recs    == [op: {"set"}, from: Values] \union
           [op: {"append", "remove"}, items: SUBSET Items]
Entries == [kind: {"create", "ensure", "modify"}, id: Ids \union {None},
            name: {Name[n] : n \in Ids}, ops: Seq(Ops), children: BOOLEAN]
Effects == [change: {"CREATE", "MODIFY"}, ops: Seq(Recs)]
NoEffect == [change |-> None, ops |-> << >>]
Children == [kind: {"part", "screen", "journey"}, on: Ids \union {None},
             by: Proposals \union {Base}]

ASSUME ConstantsAssumption ==
  /\ Null \in Values
  /\ ToText \in [Values -> Values]
  /\ \A v \in Values : ToText[ToText[v]] = ToText[v]
  /\ Start \in [Ids -> Nodes \union {NoNode}]
  /\ \A n \in Ids : Start[n] = NoNode \/ Start[n].by = Base
  /\ \A d \in Diffs : d \in [entries: Seq(Entries), journeys: BOOLEAN]
  /\ MaxFaults \in Nat
  /\ None \notin Ids \union Proposals \union {Base} \union {"CREATE", "MODIFY"}
  /\ Base \notin Proposals

VARIABLES
  diff,      \* strategicDiff and tacticalDiff of each proposal, in order,
             \* and whether it has journeys
  status,    \* "accepted", or "open": any status that admits an acceptance
  node,      \* the live graph
  children,  \* Property, Given/When/Then, Invariant ("part"), UI ("screen"),
             \* and the journeys with their steps
  effects,   \* the EFFECT relations
  job,       \* the handler under way
  faults,    \* how many faults there were
  log,       \* history: per node, who changed it and what it was before
  muddled    \* history: nodes for which the log is broken off (see Muddle)

vars == << diff, status, node, children, effects, job, faults, log, muddled >>

Steps == { "idle", "resolve", "ops", "effect", "commit",
           "rows", "reverse", "sweep", "unlink", "reopen" }

\* job.n is the node of the entry or row in hand, job.k the next op (or the
\* next record to reverse), job.hit the nodes of the entries that counted.
Idle == [step |-> "idle", p |-> None, i |-> 1, n |-> None, k |-> 1,
         recs |-> << >>, hits |-> 0, rows |-> {}]

TypeOK ==
  /\ diff \in [Proposals -> Diffs]
  /\ status \in [Proposals -> {"open", "accepted"}]
  /\ node \in [Ids -> Nodes \union {NoNode}]
  /\ children \subseteq Children
  /\ effects \in [Proposals -> [Ids -> Effects \union {NoEffect}]]
  /\ job \in [step: Steps, p: Proposals \union {None}, i: Nat, n: Ids \union {None}, k: Nat,
              recs: Seq(Recs), hits: Nat, rows: SUBSET Ids]
  /\ log \in [Ids -> Seq([by: Proposals, before: Nodes \union {NoNode}])]
  /\ muddled \subseteq Ids
  /\ faults \in 0 .. MaxFaults

Init ==
  /\ diff \in [Proposals -> Diffs]
  /\ status = [p \in Proposals |-> "open"]
  /\ node = Start
  /\ children = {[kind |-> "part", on |-> n, by |-> Base] :
                    n \in {m \in Ids : Start[m] # NoNode}}
  /\ effects = [p \in Proposals |-> [n \in Ids |-> NoEffect]]
  /\ job = Idle
  /\ faults = 0
  /\ log = [n \in Ids |-> << >>]
  /\ muddled = {}

-----------------------------------------------------------------------------
(* The history *)

Logged(p, n) == \E h \in 1 .. Len(log[n]) : log[n][h].by = p
OnTop(p, n)  == log[n] # << >> /\ log[n][Len(log[n])].by = p
Before(n)    == log[n][Len(log[n])].before

\* The log of these nodes says no more how they come back.
Muddle(S) == /\ muddled' = muddled \union S
             /\ log' = [n \in Ids |-> IF n \in S THEN << >> ELSE log[n]]

\* p is about to change n.  A second change by p is not told from the first,
\* for the EFFECT of the first is overwritten.
Touch(p, n) ==
  IF Logged(p, n) THEN Muddle({n})
  ELSE /\ log' = IF n \in muddled THEN log
                 ELSE [log EXCEPT ![n] = Append(@, [by |-> p, before |-> node[n]])]
       /\ UNCHANGED muddled

Unlogged == UNCHANGED << log, muddled >>

\* The process dies, or a statement raises.
Fault == faults < MaxFaults /\ faults' = faults + 1

-----------------------------------------------------------------------------
(* Control flow of the handler under way *)

At(step) == job.step = step
Goto(step) == job' = [job EXCEPT !.step = step]
Return == job' = Idle

Entry == diff[job.p].entries[job.i]

\* The entry in hand is over; c tells whether it counts as applied.
NextEntry(c) == job' = [job EXCEPT !.step = "resolve", !.i = @ + 1, !.n = None, !.k = 1,
                                   !.recs = << >>, !.hits = @ + c]

-----------------------------------------------------------------------------
(* Acceptance *)

\* A retry starts again at the first entry; what an attempt that did not end
\* left behind is not taken back first.
StartAccept(p) ==
  /\ At("idle") /\ status[p] = "open"
  /\ job' = [Idle EXCEPT !.step = "resolve", !.p = p]
  /\ Muddle({n \in Ids : Logged(p, n)})
  /\ UNCHANGED << faults, diff, status, node, children, effects >>

Named(x) == {n \in Ids : node[n] # NoNode /\ Name[n] = x}

\* _gen_node_id: an id that was not used before.
Fresh(x) == {n \in Ids : /\ node[n] = NoNode /\ Name[n] = x
                         /\ log[n] = << >>}

\* _create_user_story, _create_generic_strategic, and a tactical CREATE that
\* finds no node of its name.
CreateNode ==
  /\ At("resolve") /\ job.i <= Len(diff[job.p].entries)
  /\ \/ Entry.kind = "create"
     \/ Entry.kind = "ensure" /\ Named(Entry.name) = {}
  /\ \E n \in Fresh(Entry.name) :
       /\ node' = [node EXCEPT ![n] = [by |-> job.p, text |-> Null, list |-> {}]]
       /\ Touch(job.p, n)
       /\ job' = [job EXCEPT !.step = "ops", !.n = n]
  /\ UNCHANGED << faults, diff, status, children, effects >>

\* A tactical CREATE uses the node it finds by name.
ReuseNode ==
  /\ At("resolve") /\ job.i <= Len(diff[job.p].entries)
  /\ Entry.kind = "ensure"
  /\ \E n \in Named(Entry.name) :
       /\ Muddle({n})
       /\ job' = [job EXCEPT !.step = "ops", !.n = n]
  /\ UNCHANGED << faults, diff, status, node, children, effects >>

\* MODIFY by id, or by name when it has none.
FindNode ==
  /\ At("resolve") /\ job.i <= Len(diff[job.p].entries)
  /\ Entry.kind = "modify"
  /\ \E n \in IF Entry.id # None THEN {Entry.id} ELSE Named(Entry.name) :
       /\ IF node[n] = NoNode THEN Unlogged ELSE Touch(job.p, n)
       /\ job' = [job EXCEPT !.step = "ops", !.n = n]
  /\ UNCHANGED << faults, diff, status, node, children, effects >>

\* No node of the name: the entry is skipped and does not count.
SkipEntry ==
  /\ At("resolve") /\ job.i <= Len(diff[job.p].entries)
  /\ Entry.kind = "modify" /\ Entry.id = None /\ Named(Entry.name) = {}
  /\ NextEntry(0)
  /\ Unlogged
  /\ UNCHANGED << faults, diff, status, node, children, effects >>

\* What an op makes of a node, and what it records to be undone.
Applied(o, m) ==
  CASE o.op = "set"    -> [m EXCEPT !.text = o.value]
    [] o.op = "append" -> [m EXCEPT !.list = @ \union o.items]
    [] o.op = "remove" -> [m EXCEPT !.list = @ \ o.items]

\* Mutant: all items of an append are recorded, those that were there too.
RecordedAll(o, m) ==
  CASE o.op = "set"    -> [op |-> "set", from |-> ToText[m.text]]
    [] o.op = "append" -> [op |-> "append", items |-> o.items]
    [] o.op = "remove" -> [op |-> "remove", items |-> o.items \intersect m.list]

Recorded(o, m) ==
  CASE o.op = "set"    -> [op |-> "set", from |-> ToText[m.text]]
    [] o.op = "append" -> [op |-> "append", items |-> o.items \ m.list]
    [] o.op = "remove" -> [op |-> "remove", items |-> o.items \intersect m.list]

\* Mutant: the op makes the node it does not find.
ApplyOpByMerge ==
  /\ At("ops") /\ job.k <= Len(Entry.ops)
  /\ LET o == Entry.ops[job.k]
         m == node[job.n]
     IN  /\ node' = [node EXCEPT ![job.n] = Applied(o, m)]
         /\ job' = [job EXCEPT !.k = @ + 1, !.recs = Append(@, Recorded(o, m))]
  /\ Unlogged
  /\ UNCHANGED << faults, diff, status, children, effects >>

\* _apply_ops, one op.  A SET on a node that is not there does nothing, and
\* what is read from it is Null.
ApplyOp ==
  /\ At("ops") /\ job.k <= Len(Entry.ops)
  /\ LET o == Entry.ops[job.k]
         m == node[job.n]
     IN  /\ node' = IF m = NoNode THEN node ELSE [node EXCEPT ![job.n] = Applied(o, m)]
         /\ job' = [job EXCEPT !.k = @ + 1, !.recs = Append(@, Recorded(o, m))]
  /\ Unlogged
  /\ UNCHANGED << faults, diff, status, children, effects >>

OpFails ==
  /\ Fault
  /\ At("ops") /\ job.k <= Len(Entry.ops)
  /\ job' = [job EXCEPT !.k = @ + 1]
  /\ Unlogged
  /\ UNCHANGED << diff, status, node, children, effects >>

\* _create_properties, _create_gwt, _create_invariants, _create_ui: made anew
\* by each attempt, and only when the parent is there.
AddChildren ==
  /\ At("ops") /\ job.k > Len(Entry.ops)
  /\ children' = IF ~ Entry.children \/ node[job.n] = NoNode THEN children
                 ELSE children \union [kind: {"part", "screen"}, on: {job.n}, by: {job.p}]
  /\ Goto("effect")
  /\ Unlogged
  /\ UNCHANGED << faults, diff, status, node, effects >>

Change(e) == IF e.kind = "modify" THEN "MODIFY" ELSE "CREATE"

\* MERGE: one EFFECT for a proposal and a node, whatever it said before.
RecordEffect ==
  /\ At("effect")
  /\ effects' = IF node[job.n] = NoNode THEN effects
                ELSE [effects EXCEPT ![job.p][job.n] =
                        [change |-> Change(Entry), ops |-> job.recs]]
  /\ NextEntry(1)
  /\ Unlogged
  /\ UNCHANGED << faults, diff, status, node, children >>

\* An exception outside of the ops: logged, and the next entry is taken.
EntryFails ==
  /\ Fault
  /\ job.step \in {"resolve", "ops", "effect"} /\ job.i <= Len(diff[job.p].entries)
  /\ At("ops") => job.k > Len(Entry.ops)
  /\ NextEntry(0)
  /\ IF job.n = None THEN Unlogged ELSE Muddle({job.n})
  /\ UNCHANGED << diff, status, node, children, effects >>

\* apply_journeys, when the proposal has any; then _validate_applied_counts.
EndEntries ==
  /\ At("resolve") /\ job.i > Len(diff[job.p].entries)
  /\ children' = IF ~ diff[job.p].journeys THEN children
                 ELSE children \union {[kind |-> "journey", on |-> None, by |-> job.p]}
  /\ IF diff[job.p].entries # << >> /\ job.hits = 0 THEN Return ELSE Goto("commit")
  /\ Unlogged
  /\ UNCHANGED << faults, diff, status, node, effects >>

CheckFails ==
  /\ Fault
  /\ At("commit")
  /\ Return
  /\ Unlogged
  /\ UNCHANGED << diff, status, node, children, effects >>

Commit ==
  /\ At("commit")
  /\ status' = [status EXCEPT ![job.p] = "accepted"]
  /\ Return
  /\ Unlogged
  /\ UNCHANGED << faults, diff, node, children, effects >>

-----------------------------------------------------------------------------
(* Revocation *)

StartRevoke(p) ==
  /\ At("idle") /\ status[p] = "accepted"
  /\ job' = [Idle EXCEPT !.step = "rows", !.p = p,
                         !.rows = {n \in Ids : effects[p][n] # NoEffect}]
  /\ Unlogged
  /\ UNCHANGED << faults, diff, status, node, children, effects >>

\* DETACH DELETE of the node and its children, whoever made them; the EFFECT
\* relations of other proposals to it go as well.
DeleteNode(n) ==
  /\ At("rows") /\ n \in job.rows
  /\ effects[job.p][n].change = "CREATE"
  /\ node' = [node EXCEPT ![n] = NoNode]
  /\ children' = {c \in children : c.on = n => c.kind = "screen"}
  /\ effects' = [p \in Proposals |-> [effects[p] EXCEPT ![n] = NoEffect]]
  /\ job' = [job EXCEPT !.rows = @ \ {n}]
  /\ IF OnTop(job.p, n) THEN Unlogged ELSE Muddle({n})
  /\ UNCHANGED << faults, diff, status >>

ReverseFirst(n) ==
  /\ At("rows") /\ n \in job.rows
  /\ effects[job.p][n].change = "MODIFY"
  /\ job' = [job EXCEPT !.step = "reverse", !.n = n, !.k = Len(effects[job.p][n].ops)]
  /\ IF OnTop(job.p, n) THEN Unlogged ELSE Muddle({n})
  /\ UNCHANGED << faults, diff, status, node, children, effects >>

Reversed(r, m) ==
  CASE r.op = "set"    -> [m EXCEPT !.text = r.from]
    [] r.op = "append" -> [m EXCEPT !.list = @ \ r.items]
    [] r.op = "remove" -> [m EXCEPT !.list = @ \union r.items]

\* _reverse_ops, one record, from the last to the first.
ReverseOp ==
  /\ At("reverse") /\ job.k > 0
  /\ node' = [node EXCEPT ![job.n] = Reversed(effects[job.p][job.n].ops[job.k], @)]
  /\ job' = [job EXCEPT !.k = @ - 1]
  /\ Unlogged
  /\ UNCHANGED << faults, diff, status, children, effects >>

ReverseFails ==
  /\ Fault
  /\ At("reverse") /\ job.k > 0
  /\ job' = [job EXCEPT !.k = @ - 1]
  /\ Muddle({job.n})
  /\ UNCHANGED << diff, status, node, children, effects >>

\* An exception elsewhere in a row goes to "errors", and the next row is taken;
\* its EFFECT will go as well.
RowFails(n) ==
  /\ Fault
  /\ At("rows") /\ n \in job.rows
  /\ job' = [job EXCEPT !.rows = @ \ {n}]
  /\ Muddle({n})
  /\ UNCHANGED << diff, status, node, children, effects >>

ReverseEnds ==
  /\ At("reverse") /\ job.k = 0
  /\ job' = [job EXCEPT !.step = "rows", !.rows = @ \ {job.n}, !.n = None, !.k = 1]
  /\ Unlogged
  /\ UNCHANGED << faults, diff, status, node, children, effects >>

\* Mutant: the journeys are forgotten.
SweepParts ==
  /\ At("rows") /\ job.rows = {}
  /\ children' = {c \in children : c.by = job.p => c.kind = "journey"}
  /\ Goto("unlink")
  /\ Unlogged
  /\ UNCHANGED << faults, diff, status, node, effects >>

\* The children the proposal made that are left, of nodes it modified too.
SweepChildren ==
  /\ At("rows") /\ job.rows = {}
  /\ children' = {c \in children : c.by # job.p}
  /\ Goto("unlink")
  /\ Unlogged
  /\ UNCHANGED << faults, diff, status, node, effects >>

Unlink ==
  /\ At("unlink")
  /\ effects' = [effects EXCEPT ![job.p] = [n \in Ids |-> NoEffect]]
  /\ Goto("reopen")
  /\ Unlogged
  /\ UNCHANGED << faults, diff, status, node, children >>

\* execute_revoke: PENDING_ACCEPTANCE again.
Reopen ==
  /\ At("reopen")
  /\ status' = [status EXCEPT ![job.p] = "open"]
  /\ log' = [n \in Ids |-> IF OnTop(job.p, n) THEN SubSeq(log[n], 1, Len(log[n]) - 1)
                           ELSE log[n]]
  /\ Return
  /\ UNCHANGED << faults, diff, node, children, effects, muddled >>

-----------------------------------------------------------------------------

Crash ==
  /\ Fault
  /\ ~ At("idle")
  /\ Return
  /\ Unlogged
  /\ UNCHANGED << diff, status, node, children, effects >>

Next ==
  \/ \E p \in Proposals : StartAccept(p) \/ StartRevoke(p)
  \/ CreateNode \/ ReuseNode \/ FindNode \/ SkipEntry
  \/ ApplyOp \/ OpFails \/ AddChildren \/ RecordEffect \/ EntryFails
  \/ EndEntries \/ CheckFails \/ Commit
  \/ \E n \in Ids : DeleteNode(n) \/ ReverseFirst(n) \/ RowFails(n)
  \/ ReverseOp \/ ReverseFails \/ ReverseEnds
  \/ SweepChildren \/ Unlink \/ Reopen
  \/ Crash

Spec == Init /\ [][Next]_vars

-----------------------------------------------------------------------------
(* Properties *)

\* Numbers and native lists come back as texts.
Same(m1, m2) == /\ m1.by = m2.by
                /\ m1.list = m2.list
                /\ ToText[m1.text] = ToText[m2.text]

\* Revoking a proposal gives every node it changed, and which nobody changed
\* after it, what the node was before -- or takes it away, if it was not there
\* -- whatever ops failed, in whatever order the EFFECT rows come, and when
\* the revocation itself was cut off by a crash and started again.
RevokeRestores ==
  At("reopen") => \A n \in Ids : OnTop(job.p, n) => Same(node[n], Before(n))

\* Revoking leaves no child and no EFFECT of the proposal, and no Property,
\* scenario or invariant ever hangs on a node that is gone, whoever made it.
RevokeTidies ==
  /\ At("reopen") => /\ \A c \in children : c.by # job.p
                     /\ \A n \in Ids : effects[job.p][n] = NoEffect
  /\ \A c \in children : c.kind = "part" => node[c.on] # NoNode
=============================================================================
