------------------------ MODULE SemanticDiff_proofs ------------------------
(***************************************************************************)
(* What SemanticDiff promises, for all proposals, diffs, nodes, values and *)
(* faults: the stores keep their types; a revocation that comes to its end *)
(* leaves no child, no EFFECT and no part without a node; and it gives     *)
(* every node the proposal was the last to change back as it was.          *)
(*                                                                         *)
(* The last one rests on what the history of a node says at every moment:  *)
(* each line of its log is led back over by the EFFECT of its proposal     *)
(* (LogExplained).  A sequence of records leads back when the first record *)
(* that names the text, or an item, says what it was, and what no record   *)
(* names is unchanged (Explains); that is kept by an op, and it is what    *)
(* makes a reversal that was cut off safe to start again from its end.     *)
(***************************************************************************)
EXTENDS SemanticDiff, SequenceTheorems, TLAPS

(* Nodes, ops and records *)

AnyNode == Nodes \union {NoNode}

LEMMA NodeFields ==
  ASSUME NEW m \in AnyNode
  PROVE  /\ m.by \in Proposals \union {Base, None}
         /\ m.text \in Values
         /\ m.list \subseteq Items
         /\ m \in Nodes <=> m # NoNode
<1>1. CASE m \in Nodes
  <2>1. m.by \in Proposals \union {Base} /\ m.text \in Values /\ m.list \subseteq Items
    BY <1>1 DEF Nodes
  <2>2. m # NoNode
    BY <2>1, ConstantsAssumption DEF NoNode
  <2> QED BY <1>1, <2>1, <2>2
<1>2. CASE m = NoNode
  <2>1. m \notin Nodes
    BY <1>2, ConstantsAssumption DEF Nodes, NoNode
  <2> QED BY <1>2, <2>1, ConstantsAssumption DEF NoNode
<1> QED BY <1>1, <1>2 DEF AnyNode

\* An op is a SET of the scalar or a change of the list.
LEMMA OpCases ==
  ASSUME NEW o \in Ops
  PROVE  \/ o.op = "set" /\ o.value \in Values
         \/ o.op = "append" /\ o.items \subseteq Items
         \/ o.op = "remove" /\ o.items \subseteq Items
BY DEF Ops

LEMMA RecCases ==
  ASSUME NEW r \in Recs
  PROVE  \/ r.op = "set" /\ r.from \in Values
         \/ r.op = "append" /\ r.items \subseteq Items
         \/ r.op = "remove" /\ r.items \subseteq Items
BY DEF Recs

\* An op turns a node into a node, is recorded by a record, and a record turns
\* a node into a node again.
LEMMA AppliedType ==
  ASSUME NEW o \in Ops, NEW m \in Nodes
  PROVE  Applied(o, m) \in Nodes
BY OpCases DEF Applied, Nodes

LEMMA RecordedType ==
  ASSUME NEW o \in Ops, NEW m \in AnyNode
  PROVE  Recorded(o, m) \in Recs
<1>1. m.text \in Values /\ m.list \subseteq Items
  BY NodeFields
<1>2. ToText[m.text] \in Values
  BY <1>1, ConstantsAssumption
<1> QED BY <1>1, <1>2, OpCases DEF Recorded, Recs

LEMMA ReversedType ==
  ASSUME NEW r \in Recs, NEW m \in Nodes
  PROVE  Reversed(r, m) \in Nodes
BY RecCases DEF Reversed, Nodes

-----------------------------------------------------------------------------
(* Types *)

EffectType == Effects \union {NoEffect}
LogType == Seq([by: Proposals, before: AnyNode])
JobType == [step: Steps, p: Proposals \union {None}, i: Nat, n: Ids \union {None}, k: Nat,
            recs: Seq(Recs), hits: Nat, rows: SUBSET Ids]

LEMMA EffectFields ==
  ASSUME NEW e \in EffectType
  PROVE  /\ e # NoEffect => e.change \in {"CREATE", "MODIFY"} /\ e.ops \in Seq(Recs)
         /\ e.change \in {"CREATE", "MODIFY"} => e # NoEffect
         /\ e # NoEffect => e \in Effects
<1>1. NoEffect.change = None
  BY DEF NoEffect
<1>2. None \notin {"CREATE", "MODIFY"}
  BY ConstantsAssumption
<1> QED BY <1>1, <1>2 DEF EffectType, Effects

Accepting == job.step \in {"resolve", "ops", "effect", "commit"}
Working   == job.step \in {"ops", "effect"}
Revoking  == job.step \in {"rows", "reverse", "unlink", "reopen"}

\* What a handler has in hand at its steps.
JobSound ==
  /\ job.step # "idle" => job.p \in Proposals
  /\ job.step \in {"ops", "effect", "reverse"} => job.n \in Ids
  /\ Working => job.i <= Len(diff[job.p].entries)
  /\ Accepting => job.i > 0 /\ job.k > 0
  /\ job.step # "sweep"

\* The row that is being reversed is a MODIFY, and the record in hand one of it.
RowInHand ==
  job.step = "reverse" =>
    /\ effects[job.p][job.n].change = "MODIFY"
    /\ job.k <= Len(effects[job.p][job.n].ops)

\* An EFFECT relation has its node: DETACH DELETE takes it along.
EffectsHaveNodes ==
  \A p \in Proposals, n \in Ids : effects[p][n] # NoEffect => node[n] # NoNode

\* The stores, and the history.
DataOK ==
  /\ diff \in [Proposals -> Diffs]
  /\ status \in [Proposals -> {"open", "accepted"}]
  /\ node \in [Ids -> AnyNode]
  /\ children \subseteq Children
  /\ effects \in [Proposals -> [Ids -> EffectType]]
  /\ faults \in 0 .. MaxFaults
HistoryOK == log \in [Ids -> LogType] /\ muddled \subseteq Ids

TInv == /\ DataOK /\ HistoryOK /\ job \in JobType
        /\ JobSound /\ RowInHand /\ EffectsHaveNodes

LEMMA TInvTypes == TInv => TypeOK
BY DEF TInv, DataOK, HistoryOK, TypeOK, JobType, LogType, EffectType, AnyNode

LEMMA IdleType == Idle \in JobType /\ Idle.step = "idle"
BY EmptySeq DEF Idle, JobType, Steps

\* The entry in hand is one of the diff's.
LEMMA EntryType ==
  ASSUME TInv, job.p \in Proposals, job.i > 0, job.i <= Len(diff[job.p].entries)
  PROVE  Entry \in Entries
<1>1. diff[job.p].entries \in Seq(Entries)
  <2>1. diff[job.p] \in [entries: Seq(Entries), journeys: BOOLEAN]
    BY ConstantsAssumption DEF TInv, DataOK
  <2> QED BY <2>1
<1>2. job.i \in Nat
  BY DEF TInv, JobType
<1>3. job.i \in 1 .. Len(diff[job.p].entries)
  BY <1>1, <1>2, LenProperties
<1> QED BY <1>1, <1>3, ElementOfSeq DEF Entry

\* Breaking the log off, and writing it on, keeps its type.
LEMMA MuddleType ==
  ASSUME HistoryOK, NEW S \in SUBSET Ids, Muddle(S)
  PROVE  HistoryOK'
BY EmptySeq DEF HistoryOK, Muddle, LogType

LEMMA TouchType ==
  ASSUME HistoryOK, node \in [Ids -> AnyNode], NEW p \in Proposals, NEW n \in Ids, Touch(p, n)
  PROVE  HistoryOK'
<1>1. CASE Logged(p, n)
  BY <1>1, MuddleType DEF Touch
<1>2. CASE ~ Logged(p, n)
  <2>1. [by |-> p, before |-> node[n]] \in [by: Proposals, before: AnyNode]
    OBVIOUS
  <2>2. Append(log[n], [by |-> p, before |-> node[n]]) \in LogType
    BY <2>1, AppendProperties DEF HistoryOK, LogType
  <2>3. log' \in [Ids -> LogType] /\ muddled' = muddled
    BY <1>2, <2>2 DEF Touch, HistoryOK
  <2> QED BY <2>3 DEF HistoryOK
<1> QED BY <1>1, <1>2

LEMMA UnloggedType == ASSUME HistoryOK, Unlogged PROVE HistoryOK'
BY DEF HistoryOK, Unlogged

\* A step that leaves the stores alone.
LEMMA QuietData ==
  ASSUME TInv, UNCHANGED << diff, status, node, children, effects >>, faults' = faults \/ Fault
  PROVE  DataOK' /\ EffectsHaveNodes'
<1>1. faults' \in 0 .. MaxFaults
  BY ConstantsAssumption DEF TInv, DataOK, Fault
<1> QED BY <1>1 DEF TInv, DataOK, EffectsHaveNodes

JobOK == job \in JobType /\ JobSound /\ RowInHand

LEMMA ReturnType == ASSUME Return PROVE JobOK'
BY IdleType DEF Return, JobOK, JobSound, RowInHand, Accepting, Working

LEMMA NextEntryType ==
  ASSUME TInv, NEW c \in {0, 1}, job.step \in {"resolve", "ops", "effect"}, NextEntry(c)
  PROVE  JobOK'
<1>1. job \in JobType /\ job.p \in Proposals
  BY DEF TInv, JobSound
<1>2. job' \in JobType
  <2>1. << >> \in Seq(Recs)
    BY EmptySeq
  <2>2. job.i + 1 \in Nat /\ job.hits + c \in Nat /\ "resolve" \in Steps
    BY <1>1 DEF JobType, Steps
  <2>3. job' = [job EXCEPT !.step = "resolve", !.i = job.i + 1, !.n = None, !.k = 1,
                           !.recs = << >>, !.hits = job.hits + c]
    BY <1>1 DEF NextEntry, JobType
  <2> QED BY <1>1, <2>1, <2>2, <2>3 DEF JobType
<1>3. /\ job'.step = "resolve" /\ job'.p = job.p
      /\ job'.i = job.i + 1 /\ job'.k = 1
  BY <1>1 DEF NextEntry, JobType
<1>4. JobSound'
  BY <1>1, <1>3 DEF JobSound, Working, JobType
<1> QED BY <1>2, <1>3, <1>4 DEF JobOK, RowInHand

\* The handler goes on to another step, with the same in hand.
LEMMA GotoType ==
  ASSUME TInv, NEW s \in Steps, Goto(s), UNCHANGED << diff, effects >>,
         s # "sweep", s # "reverse", job.step # "idle",
         s \in {"ops", "effect"} => Working,
         s \in {"resolve", "commit"} => Accepting
  PROVE  JobOK'
<1>1. job \in JobType /\ JobSound
  BY DEF TInv
<1>2. job' = [job EXCEPT !.step = s]
  BY DEF Goto
<1>3. job' \in JobType
  BY <1>1, <1>2 DEF JobType
<1>4. /\ job'.step = s /\ job'.p = job.p /\ job'.n = job.n
      /\ job'.i = job.i /\ job'.k = job.k
  BY <1>1, <1>2 DEF JobType
<1>5. JobSound'
  BY <1>1, <1>4 DEF JobSound, Working, Accepting
<1> QED BY <1>3, <1>4, <1>5 DEF JobOK, RowInHand

-----------------------------------------------------------------------------
(* Types: acceptance *)

LEMMA StartAcceptType ==
  ASSUME TInv, NEW p \in Proposals, StartAccept(p)
  PROVE  TInv'
<1>1. DataOK' /\ EffectsHaveNodes'
  BY QuietData DEF StartAccept
<1>2. HistoryOK'
  BY MuddleType DEF StartAccept, TInv
<1>3. job' \in JobType /\ job'.step = "resolve" /\ job'.p = p /\ job'.i = 1 /\ job'.k = 1
  BY EmptySeq DEF StartAccept, Idle, JobType, Steps
<1>4. JobSound' /\ RowInHand'
  BY <1>3 DEF JobSound, RowInHand, Working
<1> QED BY <1>1, <1>2, <1>3, <1>4 DEF TInv

\* An entry of the diff is taken up with the node n.
LEMMA TakeUpType ==
  ASSUME TInv, At("resolve"), job.i <= Len(diff[job.p].entries), NEW n \in Ids,
         job' = [job EXCEPT !.step = "ops", !.n = n], UNCHANGED << diff, effects >>
  PROVE  JobOK'
<1>1. job \in JobType /\ job.p \in Proposals /\ job.i > 0 /\ job.k > 0
  BY DEF TInv, At, JobSound, Accepting
<1>2. job' \in JobType
  BY <1>1 DEF JobType, Steps
<1>3. /\ job'.step = "ops" /\ job'.p = job.p /\ job'.n = n
      /\ job'.i = job.i /\ job'.k = job.k
  BY <1>1 DEF JobType
<1>4. JobSound'
  BY <1>1, <1>3 DEF JobSound, Working, Accepting, At
<1> QED BY <1>2, <1>3, <1>4 DEF JobOK, RowInHand

LEMMA CreateNodeType ==
  ASSUME TInv, CreateNode
  PROVE  TInv'
<1>0. /\ node \in [Ids -> AnyNode] /\ HistoryOK /\ DataOK /\ EffectsHaveNodes
      /\ job.p \in Proposals
  BY DEF TInv, DataOK, CreateNode, At, JobSound
<1>1. PICK n \in Fresh(Entry.name) :
        /\ node' = [node EXCEPT ![n] = [by |-> job.p, text |-> Null, list |-> {}]]
        /\ Touch(job.p, n)
        /\ job' = [job EXCEPT !.step = "ops", !.n = n]
  BY DEF CreateNode
<1>2. n \in Ids
  BY DEF Fresh
<1>3. [by |-> job.p, text |-> Null, list |-> {}] \in Nodes
  BY <1>0, ConstantsAssumption DEF Nodes
<1>4. DataOK'
  BY <1>0, <1>1, <1>2, <1>3 DEF CreateNode, DataOK, AnyNode
<1>5. EffectsHaveNodes'
  <2>1. node'[n] # NoNode
    BY <1>0, <1>1, <1>2, <1>3, NodeFields DEF AnyNode
  <2>2. \A m \in Ids : m # n => node'[m] = node[m]
    BY <1>0, <1>1, <1>2
  <2> QED BY <1>0, <2>1, <2>2 DEF EffectsHaveNodes, CreateNode
<1>6. HistoryOK'
  BY <1>0, <1>1, <1>2, TouchType
<1>7. JobOK'
  BY <1>1, <1>2, TakeUpType DEF CreateNode
<1> QED BY <1>4, <1>5, <1>6, <1>7 DEF TInv, JobOK

LEMMA ReuseNodeType ==
  ASSUME TInv, ReuseNode
  PROVE  TInv'
<1>1. PICK n \in Named(Entry.name) :
        Muddle({n}) /\ job' = [job EXCEPT !.step = "ops", !.n = n]
  BY DEF ReuseNode
<1>2. n \in Ids
  BY DEF Named
<1>3. DataOK' /\ EffectsHaveNodes'
  BY QuietData DEF ReuseNode
<1>4. HistoryOK'
  BY <1>1, <1>2, MuddleType DEF TInv
<1>5. JobOK'
  BY <1>1, <1>2, TakeUpType DEF ReuseNode
<1> QED BY <1>3, <1>4, <1>5 DEF TInv, JobOK

LEMMA FindNodeType ==
  ASSUME TInv, FindNode
  PROVE  TInv'
<1>0. job.p \in Proposals /\ job.i > 0 /\ HistoryOK /\ node \in [Ids -> AnyNode]
  BY DEF TInv, FindNode, At, JobSound, Accepting, DataOK
<1>1. PICK n \in (IF Entry.id # None THEN {Entry.id} ELSE Named(Entry.name)) :
        /\ IF node[n] = NoNode THEN Unlogged ELSE Touch(job.p, n)
        /\ job' = [job EXCEPT !.step = "ops", !.n = n]
  BY DEF FindNode
<1>2. n \in Ids
  <2>1. Entry \in Entries
    BY <1>0, EntryType DEF FindNode
  <2> QED BY <2>1 DEF Entries, Named
<1>3. DataOK' /\ EffectsHaveNodes'
  BY QuietData DEF FindNode
<1>4. HistoryOK'
  BY <1>0, <1>1, <1>2, TouchType, UnloggedType
<1>5. JobOK'
  BY <1>1, <1>2, TakeUpType DEF FindNode
<1> QED BY <1>3, <1>4, <1>5 DEF TInv, JobOK

LEMMA SkipEntryType ==
  ASSUME TInv, SkipEntry
  PROVE  TInv'
<1>1. DataOK' /\ EffectsHaveNodes'
  BY QuietData DEF SkipEntry
<1>2. HistoryOK'
  BY UnloggedType DEF SkipEntry, TInv
<1>3. JobOK'
  BY NextEntryType DEF SkipEntry, At
<1> QED BY <1>1, <1>2, <1>3 DEF TInv, JobOK

\* The op in hand is one of the entry's.
LEMMA OpInHand ==
  ASSUME TInv, At("ops"), job.k <= Len(Entry.ops)
  PROVE  Entry.ops[job.k] \in Ops
<1>1. /\ job.p \in Proposals /\ job.i > 0 /\ job.k > 0 /\ job.k \in Nat
      /\ job.i <= Len(diff[job.p].entries)
  BY DEF TInv, At, JobSound, Accepting, Working, JobType
<1>2. Entry.ops \in Seq(Ops)
  BY <1>1, EntryType DEF Entries
<1>3. job.k \in 1 .. Len(Entry.ops)
  BY <1>1, <1>2, LenProperties
<1> QED BY <1>2, <1>3, ElementOfSeq

\* The next op is taken, with these records.
LEMMA NextOpType ==
  ASSUME TInv, At("ops"), NEW recs \in Seq(Recs),
         job' = [job EXCEPT !.k = @ + 1, !.recs = recs], UNCHANGED << diff, effects >>
  PROVE  JobOK'
<1>1. job \in JobType /\ JobSound /\ job.step = "ops" /\ job.k > 0
  BY DEF TInv, At, JobSound, Accepting
<1>2. job' \in JobType
  <2>1. job.k + 1 \in Nat /\ job' = [job EXCEPT !.k = job.k + 1, !.recs = recs]
    BY <1>1 DEF JobType
  <2> QED BY <1>1, <2>1 DEF JobType
<1>3. /\ job'.step = "ops" /\ job'.p = job.p /\ job'.n = job.n
      /\ job'.i = job.i /\ job'.k > 0
  BY <1>1 DEF JobType
<1>4. JobSound'
  BY <1>1, <1>3 DEF JobSound, Working, Accepting
<1> QED BY <1>2, <1>3, <1>4 DEF JobOK, RowInHand

LEMMA ApplyOpType ==
  ASSUME TInv, ApplyOp
  PROVE  TInv'
<1> DEFINE o == Entry.ops[job.k]
           m == node[job.n]
<1>0. /\ job.n \in Ids /\ job.recs \in Seq(Recs) /\ DataOK /\ EffectsHaveNodes
      /\ node \in [Ids -> AnyNode] /\ HistoryOK
  BY DEF TInv, ApplyOp, At, JobSound, DataOK, JobType
<1>1. o \in Ops /\ m \in AnyNode
  BY <1>0, OpInHand DEF ApplyOp
<1>2. /\ node' = IF m = NoNode THEN node ELSE [node EXCEPT ![job.n] = Applied(o, m)]
      /\ job' = [job EXCEPT !.k = @ + 1, !.recs = Append(@, Recorded(o, m))]
  BY DEF ApplyOp
<1>3. m # NoNode => Applied(o, m) \in Nodes /\ Applied(o, m) # NoNode
  <2> SUFFICES ASSUME m # NoNode PROVE Applied(o, m) \in Nodes /\ Applied(o, m) # NoNode
    OBVIOUS
  <2>1. m \in Nodes
    BY <1>1, NodeFields
  <2>2. Applied(o, m) \in Nodes
    BY <1>1, <2>1, AppliedType
  <2> QED BY <2>2, NodeFields DEF AnyNode
<1> HIDE DEF o, m
<1>4. node' \in [Ids -> AnyNode]
  BY <1>0, <1>2, <1>3 DEF AnyNode
<1>5. DataOK'
  BY <1>0, <1>4 DEF ApplyOp, DataOK
<1>6. EffectsHaveNodes'
  <2>1. \A n \in Ids : node[n] # NoNode => node'[n] # NoNode
    BY <1>0, <1>2, <1>3
  <2> QED BY <1>0, <2>1 DEF EffectsHaveNodes, ApplyOp
<1>7. HistoryOK'
  BY <1>0, UnloggedType DEF ApplyOp
<1>8. Append(job.recs, Recorded(o, m)) \in Seq(Recs)
  BY <1>0, <1>1, RecordedType, AppendProperties
<1>9. JobOK'
  <2>1. job' = [job EXCEPT !.k = @ + 1, !.recs = Append(job.recs, Recorded(o, m))]
    BY <1>2
  <2> QED BY <1>8, <2>1, NextOpType DEF ApplyOp
<1> QED BY <1>5, <1>6, <1>7, <1>9 DEF TInv, JobOK

LEMMA OpFailsType ==
  ASSUME TInv, OpFails
  PROVE  TInv'
<1>1. DataOK' /\ EffectsHaveNodes'
  BY QuietData DEF OpFails
<1>2. HistoryOK'
  BY UnloggedType DEF OpFails, TInv
<1>3. JobOK'
  <2>1. job.recs \in Seq(Recs) /\ job' = [job EXCEPT !.k = @ + 1, !.recs = job.recs]
    BY DEF OpFails, TInv, JobType
  <2> QED BY <2>1, NextOpType DEF OpFails
<1> QED BY <1>1, <1>2, <1>3 DEF TInv, JobOK

LEMMA AddChildrenType ==
  ASSUME TInv, AddChildren
  PROVE  TInv'
<1>0. job.n \in Ids /\ job.p \in Proposals /\ DataOK /\ EffectsHaveNodes /\ HistoryOK
  BY DEF TInv, AddChildren, At, JobSound
<1>1. [kind: {"part", "screen"}, on: {job.n}, by: {job.p}] \subseteq Children
  BY <1>0 DEF Children
<1>2. DataOK' /\ EffectsHaveNodes'
  BY <1>0, <1>1 DEF AddChildren, DataOK, EffectsHaveNodes
<1>3. HistoryOK'
  BY <1>0, UnloggedType DEF AddChildren
<1>4. JobOK'
  BY GotoType DEF AddChildren, At, Working, Steps
<1> QED BY <1>2, <1>3, <1>4 DEF TInv, JobOK

LEMMA RecordEffectType ==
  ASSUME TInv, RecordEffect
  PROVE  TInv'
<1>0. /\ job.n \in Ids /\ job.p \in Proposals /\ DataOK /\ EffectsHaveNodes /\ HistoryOK
      /\ job.recs \in Seq(Recs) /\ effects \in [Proposals -> [Ids -> EffectType]]
  BY DEF TInv, RecordEffect, At, JobSound, JobType, DataOK
<1> DEFINE e == [change |-> Change(Entry), ops |-> job.recs]
<1>1. e \in EffectType
  BY <1>0 DEF Change, EffectType, Effects
<1> HIDE DEF e
<1>2. effects' = IF node[job.n] = NoNode THEN effects
                 ELSE [effects EXCEPT ![job.p][job.n] = e]
  BY DEF RecordEffect, e
<1>3. effects' \in [Proposals -> [Ids -> EffectType]]
  BY <1>0, <1>1, <1>2
<1>4. DataOK'
  BY <1>0, <1>3 DEF RecordEffect, DataOK
<1>5. EffectsHaveNodes'
  <2>1. \A p \in Proposals, n \in Ids :
          effects'[p][n] = effects[p][n] \/ (n = job.n /\ node[n] # NoNode)
    BY <1>0, <1>2
  <2> QED BY <1>0, <2>1 DEF EffectsHaveNodes, RecordEffect
<1>6. HistoryOK'
  BY <1>0, UnloggedType DEF RecordEffect
<1>7. JobOK'
  BY NextEntryType DEF RecordEffect, At
<1> QED BY <1>4, <1>5, <1>6, <1>7 DEF TInv, JobOK

LEMMA EntryFailsType ==
  ASSUME TInv, EntryFails
  PROVE  TInv'
<1>1. DataOK' /\ EffectsHaveNodes'
  BY QuietData DEF EntryFails
<1>2. HistoryOK'
  BY UnloggedType, MuddleType DEF EntryFails, TInv, JobType
<1>3. JobOK'
  BY NextEntryType DEF EntryFails
<1> QED BY <1>1, <1>2, <1>3 DEF TInv, JobOK

LEMMA EndEntriesType ==
  ASSUME TInv, EndEntries
  PROVE  TInv'
<1>0. job.p \in Proposals /\ DataOK /\ EffectsHaveNodes /\ HistoryOK
  BY DEF TInv, EndEntries, At, JobSound
<1>1. [kind |-> "journey", on |-> None, by |-> job.p] \in Children
  BY <1>0 DEF Children
<1>2. DataOK' /\ EffectsHaveNodes'
  BY <1>0, <1>1 DEF EndEntries, DataOK, EffectsHaveNodes
<1>3. HistoryOK'
  BY <1>0, UnloggedType DEF EndEntries
<1>4. JobOK'
  BY GotoType, ReturnType DEF EndEntries, At, Accepting, Steps
<1> QED BY <1>2, <1>3, <1>4 DEF TInv, JobOK

LEMMA AcceptEndsType ==
  ASSUME TInv, CheckFails \/ Commit
  PROVE  TInv'
<1>1. DataOK' /\ EffectsHaveNodes'
  BY QuietData DEF CheckFails, Commit, TInv, DataOK, EffectsHaveNodes
<1>2. HistoryOK'
  BY UnloggedType DEF CheckFails, Commit, TInv
<1>3. JobOK'
  BY ReturnType DEF CheckFails, Commit
<1> QED BY <1>1, <1>2, <1>3 DEF TInv, JobOK

-----------------------------------------------------------------------------
(* Types: revocation *)

LEMMA StartRevokeType ==
  ASSUME TInv, NEW p \in Proposals, StartRevoke(p)
  PROVE  TInv'
<1>1. DataOK' /\ EffectsHaveNodes'
  BY QuietData DEF StartRevoke
<1>2. HistoryOK'
  BY UnloggedType DEF StartRevoke, TInv
<1>3. job' \in JobType /\ job'.step = "rows" /\ job'.p = p
  <2>1. {n \in Ids : effects[p][n] # NoEffect} \in SUBSET Ids
    OBVIOUS
  <2>2. Idle \in JobType
    BY IdleType
  <2> QED BY <2>1, <2>2 DEF StartRevoke, JobType, Steps
<1>4. JobSound' /\ RowInHand'
  BY <1>3 DEF JobSound, RowInHand, Working, Accepting
<1> QED BY <1>1, <1>2, <1>3, <1>4 DEF TInv

\* A row is done with.
LEMMA RowDoneType ==
  ASSUME TInv, At("rows"), NEW n \in Ids, job' = [job EXCEPT !.rows = @ \ {n}]
  PROVE  JobOK'
<1>1. job \in JobType /\ job.p \in Proposals /\ job.step = "rows"
  BY DEF TInv, At, JobSound
<1>2. job' \in JobType /\ job'.step = "rows" /\ job'.p = job.p
  BY <1>1 DEF JobType
<1> QED BY <1>1, <1>2 DEF JobOK, JobSound, RowInHand, Working, Accepting

LEMMA DeleteNodeType ==
  ASSUME TInv, NEW n \in Ids, DeleteNode(n)
  PROVE  TInv'
<1>0. DataOK /\ EffectsHaveNodes /\ HistoryOK
  BY DEF TInv
<1>1. /\ node' = [node EXCEPT ![n] = NoNode]
      /\ effects' = [p \in Proposals |-> [effects[p] EXCEPT ![n] = NoEffect]]
      /\ children' \subseteq children
      /\ UNCHANGED << faults, diff, status >>
  BY DEF DeleteNode
<1>2. effects' \in [Proposals -> [Ids -> EffectType]]
  BY <1>0, <1>1 DEF DataOK, EffectType
<1>3. DataOK'
  BY <1>0, <1>1, <1>2 DEF DataOK, AnyNode
<1>4. EffectsHaveNodes'
  <2> SUFFICES ASSUME NEW p \in Proposals, NEW m \in Ids, effects'[p][m] # NoEffect
               PROVE  node'[m] # NoNode
    BY DEF EffectsHaveNodes
  <2>1. m # n /\ effects'[p][m] = effects[p][m]
    BY <1>0, <1>1 DEF DataOK
  <2> QED BY <1>0, <1>1, <2>1 DEF EffectsHaveNodes, DataOK
<1>5. HistoryOK'
  BY <1>0, UnloggedType, MuddleType DEF DeleteNode
<1>6. JobOK'
  BY RowDoneType DEF DeleteNode
<1> QED BY <1>3, <1>4, <1>5, <1>6 DEF TInv, JobOK

LEMMA ReverseFirstType ==
  ASSUME TInv, NEW n \in Ids, ReverseFirst(n)
  PROVE  TInv'
<1>0. /\ effects \in [Proposals -> [Ids -> EffectType]] /\ HistoryOK
      /\ job \in JobType /\ job.p \in Proposals
  BY DEF TInv, DataOK, ReverseFirst, At, JobSound
<1>1. DataOK' /\ EffectsHaveNodes'
  BY QuietData DEF ReverseFirst
<1>2. HistoryOK'
  BY <1>0, UnloggedType, MuddleType DEF ReverseFirst
<1>3. Len(effects[job.p][n].ops) \in Nat
  <2>1. effects[job.p][n].ops \in Seq(Recs)
    BY <1>0, EffectFields DEF ReverseFirst
  <2> QED BY <2>1, LenProperties
<1>4. job' \in JobType
  BY <1>0, <1>3 DEF ReverseFirst, JobType, Steps
<1>5. /\ job'.step = "reverse" /\ job'.p = job.p /\ job'.n = n
      /\ job'.k = Len(effects[job.p][n].ops)
  BY <1>0 DEF ReverseFirst, JobType
<1>6. JobSound' /\ RowInHand'
  BY <1>0, <1>3, <1>5 DEF JobSound, RowInHand, Working, Accepting, ReverseFirst
<1> QED BY <1>1, <1>2, <1>4, <1>6 DEF TInv

\* The records of the row in hand are records, and its node is there.
LEMMA RowFacts ==
  ASSUME TInv, At("reverse")
  PROVE  /\ job.p \in Proposals /\ job.n \in Ids
         /\ effects[job.p][job.n].ops \in Seq(Recs)
         /\ job.k > 0 => effects[job.p][job.n].ops[job.k] \in Recs
         /\ node[job.n] \in Nodes
<1>1. /\ job.p \in Proposals /\ job.n \in Ids /\ job.k \in Nat
      /\ effects[job.p][job.n] \in EffectType /\ node[job.n] \in AnyNode
      /\ effects[job.p][job.n].change = "MODIFY"
      /\ job.k <= Len(effects[job.p][job.n].ops)
  BY DEF TInv, At, JobSound, JobType, RowInHand, DataOK
<1>2. effects[job.p][job.n] # NoEffect /\ effects[job.p][job.n].ops \in Seq(Recs)
  BY <1>1, EffectFields
<1>3. node[job.n] # NoNode
  BY <1>1, <1>2 DEF TInv, EffectsHaveNodes
<1>4. job.k > 0 => job.k \in 1 .. Len(effects[job.p][job.n].ops)
  BY <1>1, <1>2, LenProperties
<1> QED BY <1>1, <1>2, <1>3, <1>4, NodeFields, ElementOfSeq

\* The record before is taken.
LEMMA NextRecType ==
  ASSUME TInv, At("reverse"), job.k > 0, job' = [job EXCEPT !.k = @ - 1],
         UNCHANGED << diff, effects >>
  PROVE  JobOK'
<1>1. job \in JobType /\ JobSound /\ RowInHand /\ job.step = "reverse"
  BY DEF TInv, At
<1>2. job' = [job EXCEPT !.k = job.k - 1] /\ job.k - 1 \in Nat
  BY <1>1 DEF JobType
<1>3. job' \in JobType
  BY <1>1, <1>2 DEF JobType
<1>4. /\ job'.step = "reverse" /\ job'.p = job.p /\ job'.n = job.n
      /\ job'.k = job.k - 1
  BY <1>1, <1>2 DEF JobType
<1>5. JobSound'
  BY <1>1, <1>4 DEF JobSound, Working, Accepting
<1>6. effects[job.p][job.n].ops \in Seq(Recs)
  BY RowFacts
<1>7. RowInHand'
  <2> DEFINE l == Len(effects[job.p][job.n].ops)
  <2>1. l \in Nat /\ job.k \in Nat /\ job.k <= l
    BY <1>1, <1>6, LenProperties DEF RowInHand, JobType
  <2> HIDE DEF l
  <2>2. job.k - 1 <= l
    BY <2>1
  <2> QED BY <1>1, <1>4, <2>2 DEF RowInHand, l
<1> QED BY <1>3, <1>5, <1>7 DEF JobOK

LEMMA ReverseOpType ==
  ASSUME TInv, ReverseOp
  PROVE  TInv'
<1>0. DataOK /\ EffectsHaveNodes /\ HistoryOK /\ node \in [Ids -> AnyNode] /\ At("reverse")
  BY DEF TInv, DataOK, ReverseOp
<1> DEFINE m == Reversed(effects[job.p][job.n].ops[job.k], node[job.n])
<1>1. job.n \in Ids /\ m \in Nodes
  BY <1>0, RowFacts, ReversedType DEF ReverseOp
<1>2. node' = [node EXCEPT ![job.n] = m]
  BY <1>0, <1>1 DEF ReverseOp
<1> HIDE DEF m
<1>3. m \in AnyNode /\ m # NoNode
  BY <1>1, NodeFields DEF AnyNode
<1>4. DataOK'
  BY <1>0, <1>1, <1>2, <1>3 DEF DataOK, ReverseOp
<1>5. EffectsHaveNodes'
  BY <1>0, <1>1, <1>2, <1>3 DEF EffectsHaveNodes, ReverseOp
<1>6. HistoryOK'
  BY <1>0, UnloggedType DEF ReverseOp
<1>7. JobOK'
  BY NextRecType DEF ReverseOp
<1> QED BY <1>4, <1>5, <1>6, <1>7 DEF TInv, JobOK

LEMMA ReverseFailsType ==
  ASSUME TInv, ReverseFails
  PROVE  TInv'
<1>1. DataOK' /\ EffectsHaveNodes'
  BY QuietData DEF ReverseFails
<1>2. HistoryOK'
  BY RowFacts, MuddleType DEF ReverseFails, TInv
<1>3. JobOK'
  BY NextRecType DEF ReverseFails
<1> QED BY <1>1, <1>2, <1>3 DEF TInv, JobOK

LEMMA RowFailsType ==
  ASSUME TInv, NEW n \in Ids, RowFails(n)
  PROVE  TInv'
<1>1. DataOK' /\ EffectsHaveNodes'
  BY QuietData DEF RowFails
<1>2. HistoryOK'
  BY MuddleType DEF RowFails, TInv
<1>3. JobOK'
  BY RowDoneType DEF RowFails
<1> QED BY <1>1, <1>2, <1>3 DEF TInv, JobOK

LEMMA ReverseEndsType ==
  ASSUME TInv, ReverseEnds
  PROVE  TInv'
<1>1. DataOK' /\ EffectsHaveNodes'
  BY QuietData DEF ReverseEnds
<1>2. HistoryOK'
  BY UnloggedType DEF ReverseEnds, TInv
<1>3. job \in JobType /\ job.p \in Proposals
  BY DEF ReverseEnds, At, TInv, JobSound
<1>4. job' \in JobType /\ job'.step = "rows" /\ job'.p = job.p
  BY <1>3 DEF ReverseEnds, JobType, Steps
<1>5. JobSound' /\ RowInHand'
  BY <1>3, <1>4 DEF JobSound, RowInHand, Working, Accepting
<1> QED BY <1>1, <1>2, <1>4, <1>5 DEF TInv

LEMMA SweepType ==
  ASSUME TInv, SweepChildren \/ Unlink
  PROVE  TInv'
<1>0. DataOK /\ EffectsHaveNodes /\ HistoryOK
  BY DEF TInv
<1>1. effects' \in [Proposals -> [Ids -> EffectType]]
  BY <1>0 DEF SweepChildren, Unlink, DataOK, EffectType
<1>2. DataOK'
  BY <1>0, <1>1 DEF SweepChildren, Unlink, DataOK
<1>3. EffectsHaveNodes'
  <2>1. \A p \in Proposals, n \in Ids : effects'[p][n] \in {effects[p][n], NoEffect}
    BY <1>0 DEF SweepChildren, Unlink, DataOK
  <2>2. node' = node
    BY DEF SweepChildren, Unlink
  <2> QED BY <1>0, <2>1, <2>2 DEF EffectsHaveNodes
<1>4. HistoryOK'
  BY <1>0, UnloggedType DEF SweepChildren, Unlink
<1>5. job \in JobType /\ job.p \in Proposals
  BY DEF SweepChildren, Unlink, At, TInv, JobSound
<1>6. job' \in JobType /\ job'.step \in {"unlink", "reopen"} /\ job'.p = job.p
  BY <1>5 DEF SweepChildren, Unlink, Goto, JobType, Steps
<1>7. JobSound' /\ RowInHand'
  BY <1>5, <1>6 DEF JobSound, RowInHand, Working, Accepting
<1> QED BY <1>2, <1>3, <1>4, <1>6, <1>7 DEF TInv

\* The log without its last line.
LEMMA PopType ==
  ASSUME NEW s \in LogType, s # << >>
  PROVE  /\ SubSeq(s, 1, Len(s) - 1) \in LogType
         /\ Len(SubSeq(s, 1, Len(s) - 1)) = Len(s) - 1
         /\ \A h \in 1 .. Len(s) - 1 : SubSeq(s, 1, Len(s) - 1)[h] = s[h]
<1> DEFINE l == Len(s)
<1>1. l \in Nat /\ l > 0
  BY EmptySeq DEF LogType
<1>2. \A h \in 1 .. l : s[h] \in [by: Proposals, before: AnyNode]
  BY ElementOfSeq DEF LogType
<1> HIDE DEF l
<1>3. 1 \in 1 .. l + 1 /\ l - 1 \in 0 .. l /\ (l - 1 + 1) - 1 = l - 1
  BY <1>1
<1> QED BY <1>1, <1>2, <1>3, SubSeqProperties DEF l, LogType

LEMMA ReopenType ==
  ASSUME TInv, Reopen
  PROVE  TInv'
<1>0. DataOK /\ EffectsHaveNodes /\ HistoryOK
  BY DEF TInv
<1>1. DataOK' /\ EffectsHaveNodes'
  BY <1>0 DEF Reopen, DataOK, EffectsHaveNodes
<1>2. HistoryOK'
  BY <1>0, PopType DEF Reopen, HistoryOK, OnTop
<1>3. JobOK'
  BY ReturnType DEF Reopen
<1> QED BY <1>1, <1>2, <1>3 DEF TInv, JobOK

LEMMA CrashType ==
  ASSUME TInv, Crash
  PROVE  TInv'
<1>1. DataOK' /\ EffectsHaveNodes'
  BY QuietData DEF Crash
<1>2. HistoryOK'
  BY UnloggedType DEF Crash, TInv
<1>3. JobOK'
  BY ReturnType DEF Crash
<1> QED BY <1>1, <1>2, <1>3 DEF TInv, JobOK

LEMMA TypeStep == TInv /\ [Next]_vars => TInv'
<1> SUFFICES ASSUME TInv, [Next]_vars PROVE TInv'
  OBVIOUS
<1>1. CASE UNCHANGED vars
  BY <1>1 DEF vars, TInv, DataOK, HistoryOK, JobSound, Working, Accepting, RowInHand,
              EffectsHaveNodes
<1>2. CASE \E p \in Proposals : StartAccept(p) \/ StartRevoke(p)
  BY <1>2, StartAcceptType, StartRevokeType
<1>3. CASE CreateNode \/ ReuseNode \/ FindNode \/ SkipEntry
  BY <1>3, CreateNodeType, ReuseNodeType, FindNodeType, SkipEntryType
<1>4. CASE ApplyOp \/ OpFails \/ AddChildren \/ RecordEffect \/ EntryFails
  BY <1>4, ApplyOpType, OpFailsType, AddChildrenType, RecordEffectType, EntryFailsType
<1>5. CASE EndEntries \/ CheckFails \/ Commit
  BY <1>5, EndEntriesType, AcceptEndsType
<1>6. CASE \E n \in Ids : DeleteNode(n) \/ ReverseFirst(n) \/ RowFails(n)
  BY <1>6, DeleteNodeType, ReverseFirstType, RowFailsType
<1>7. CASE ReverseOp \/ ReverseFails \/ ReverseEnds
  BY <1>7, ReverseOpType, ReverseFailsType, ReverseEndsType
<1>8. CASE SweepChildren \/ Unlink \/ Reopen \/ Crash
  BY <1>8, SweepType, ReopenType, CrashType
<1> QED BY <1>1, <1>2, <1>3, <1>4, <1>5, <1>6, <1>7, <1>8 DEF Next

LEMMA TypeInit == Init => TInv
<1> SUFFICES ASSUME Init PROVE TInv
  OBVIOUS
<1>1. Start \in [Ids -> AnyNode]
  BY ConstantsAssumption DEF AnyNode
<1>2. children \subseteq Children
  BY DEF Init, Children
<1>3. DataOK
  BY <1>1, <1>2, ConstantsAssumption DEF Init, DataOK, EffectType
<1>4. HistoryOK
  BY EmptySeq DEF Init, HistoryOK, LogType
<1>5. job \in JobType /\ JobSound /\ RowInHand
  BY IdleType DEF Init, JobSound, Working, Accepting, RowInHand
<1>6. EffectsHaveNodes
  BY DEF Init, EffectsHaveNodes
<1> QED BY <1>3, <1>4, <1>5, <1>6 DEF TInv

-----------------------------------------------------------------------------
(* Revocation tidies up *)

\* From the sweep on the proposal has no children, from the unlinking on no
\* EFFECT relations.
Swept ==
  /\ job.step \in {"unlink", "reopen"} => \A c \in children : c.by # job.p
  /\ job.step = "reopen" => \A n \in Ids : effects[job.p][n] = NoEffect

\* A Property, scenario or invariant hangs on a node that is there.
PartsHaveNodes ==
  \A c \in children : c.kind = "part" => c.on \in Ids /\ node[c.on] # NoNode

Tidy == Swept /\ PartsHaveNodes

\* No step of a handler brings it to the end of a revocation but the sweep and
\* the unlinking.
LEMMA SweptStep == TInv /\ Swept /\ [Next]_vars => Swept'
<1> SUFFICES ASSUME TInv, Swept, [Next]_vars PROVE Swept'
  OBVIOUS
<1>0. job \in JobType /\ effects \in [Proposals -> [Ids -> EffectType]]
  BY DEF TInv, DataOK
<1>a. ASSUME job'.step \notin {"unlink", "reopen"} PROVE Swept'
  BY <1>a DEF Swept
<1> USE DEF Goto, Return, NextEntry, JobType, Idle
<1>1. CASE UNCHANGED vars
  BY <1>1 DEF vars, Swept
<1>2. CASE \E p \in Proposals : StartAccept(p) \/ StartRevoke(p)
  BY <1>0, <1>a, <1>2 DEF StartAccept, StartRevoke
<1>3. CASE CreateNode \/ ReuseNode \/ FindNode \/ SkipEntry
  BY <1>0, <1>a, <1>3 DEF CreateNode, ReuseNode, FindNode, SkipEntry
<1>4. CASE ApplyOp \/ OpFails \/ AddChildren \/ RecordEffect \/ EntryFails
  BY <1>0, <1>a, <1>4 DEF ApplyOp, OpFails, AddChildren, RecordEffect, EntryFails, At
<1>5. CASE EndEntries \/ CheckFails \/ Commit
  BY <1>0, <1>a, <1>5 DEF EndEntries, CheckFails, Commit
<1>6. CASE \E n \in Ids : DeleteNode(n) \/ ReverseFirst(n) \/ RowFails(n)
  BY <1>0, <1>a, <1>6 DEF DeleteNode, ReverseFirst, RowFails, At
<1>7. CASE ReverseOp \/ ReverseFails \/ ReverseEnds
  BY <1>0, <1>a, <1>7 DEF ReverseOp, ReverseFails, ReverseEnds, At
<1>8. CASE SweepChildren
  BY <1>0, <1>8 DEF SweepChildren, Swept
<1>9. CASE Unlink
  <2>1. job.p \in Proposals
    BY <1>9 DEF Unlink, At, TInv, JobSound
  <2> QED BY <1>0, <1>9, <2>1 DEF Unlink, At, Swept
<1>10. CASE Reopen \/ Crash
  BY <1>a, <1>10 DEF Reopen, Crash
<1> QED BY <1>1, <1>2, <1>3, <1>4, <1>5, <1>6, <1>7, <1>8, <1>9, <1>10 DEF Next

\* Parts are only hung on nodes that are there, and go with them.
LEMMA PartsStep == TInv /\ PartsHaveNodes /\ [Next]_vars => PartsHaveNodes'
<1> SUFFICES ASSUME TInv, PartsHaveNodes, [Next]_vars PROVE PartsHaveNodes'
  OBVIOUS
<1>0. /\ node \in [Ids -> AnyNode] /\ children \subseteq Children
      /\ EffectsHaveNodes
  BY DEF TInv, DataOK
<1>a. ASSUME UNCHANGED << node, children >> PROVE PartsHaveNodes'
  BY <1>a DEF PartsHaveNodes
<1>b. ASSUME UNCHANGED children, \A n \in Ids : node[n] # NoNode => node'[n] # NoNode
      PROVE  PartsHaveNodes'
  BY <1>b DEF PartsHaveNodes
<1>1. CASE UNCHANGED vars
  BY <1>1, <1>a DEF vars
<1>2. CASE \E p \in Proposals : StartAccept(p) \/ StartRevoke(p)
  BY <1>a, <1>2 DEF StartAccept, StartRevoke
<1>3. CASE CreateNode
  <2>1. PICK n \in Fresh(Entry.name) :
          node' = [node EXCEPT ![n] = [by |-> job.p, text |-> Null, list |-> {}]]
    BY <1>3 DEF CreateNode
  <2>2. n \in Ids /\ node[n] = NoNode
    BY <2>1 DEF Fresh
  <2>3. \A m \in Ids : node[m] # NoNode => node'[m] = node[m]
    BY <1>0, <2>1, <2>2
  <2> QED BY <1>b, <1>3, <2>3 DEF CreateNode
<1>4. CASE ReuseNode \/ FindNode \/ SkipEntry
  BY <1>a, <1>4 DEF ReuseNode, FindNode, SkipEntry
<1>5. CASE ApplyOp
  <2>1. \A n \in Ids : node[n] # NoNode => node'[n] # NoNode
    <3> DEFINE o == Entry.ops[job.k]
               m == node[job.n]
    <3>1. job.n \in Ids /\ m \in AnyNode /\ o \in Ops
      BY <1>0, <1>5, OpInHand DEF ApplyOp, TInv, JobSound, At
    <3>2. m # NoNode => Applied(o, m) # NoNode
      BY <3>1, NodeFields, AppliedType DEF AnyNode
    <3>3. node' = IF m = NoNode THEN node ELSE [node EXCEPT ![job.n] = Applied(o, m)]
      BY <1>5 DEF ApplyOp
    <3> HIDE DEF o, m
    <3> QED BY <1>0, <3>1, <3>2, <3>3
  <2> QED BY <1>b, <1>5, <2>1 DEF ApplyOp
<1>6. CASE OpFails \/ RecordEffect \/ EntryFails
  BY <1>a, <1>6 DEF OpFails, RecordEffect, EntryFails
<1>7. CASE AddChildren
  <2>1. node' = node /\ job.n \in Ids
    BY <1>7 DEF AddChildren, TInv, JobSound, At
  <2>2. \/ children' = children
        \/ /\ node[job.n] # NoNode
           /\ children' = children \union [kind: {"part", "screen"}, on: {job.n}, by: {job.p}]
    BY <1>7 DEF AddChildren
  <2> QED BY <2>1, <2>2 DEF PartsHaveNodes
<1>8. CASE EndEntries
  <2>1. /\ node' = node
        /\ children' \subseteq children \union {[kind |-> "journey", on |-> None, by |-> job.p]}
    BY <1>8 DEF EndEntries
  <2> QED BY <2>1 DEF PartsHaveNodes
<1>9. CASE CheckFails \/ Commit
  BY <1>a, <1>9 DEF CheckFails, Commit
<1>10. ASSUME NEW n \in Ids, DeleteNode(n) PROVE PartsHaveNodes'
  <2>1. /\ node' = [node EXCEPT ![n] = NoNode]
        /\ children' = {c \in children : c.on = n => c.kind = "screen"}
    BY <1>10 DEF DeleteNode
  <2>2. \A m \in Ids : m # n => node'[m] = node[m]
    BY <1>0, <2>1
  <2>3. \A c \in children' : c \in children /\ (c.kind = "part" => c.on # n)
    BY <2>1
  <2> QED BY <2>2, <2>3 DEF PartsHaveNodes
<1>11. CASE \E n \in Ids : ReverseFirst(n) \/ RowFails(n)
  BY <1>a, <1>11 DEF ReverseFirst, RowFails
<1>12. CASE ReverseOp
  <2>1. \A n \in Ids : node[n] # NoNode => node'[n] # NoNode
    <3> DEFINE m == Reversed(effects[job.p][job.n].ops[job.k], node[job.n])
    <3>1. job.n \in Ids /\ m \in Nodes
      BY <1>12, RowFacts, ReversedType DEF ReverseOp
    <3>2. m # NoNode
      BY <3>1, NodeFields DEF AnyNode
    <3>3. node' = [node EXCEPT ![job.n] = m]
      BY <1>0, <1>12, <3>1 DEF ReverseOp
    <3> HIDE DEF m
    <3> QED BY <1>0, <3>1, <3>2, <3>3
  <2> QED BY <1>b, <1>12, <2>1 DEF ReverseOp
<1>13. CASE ReverseFails \/ ReverseEnds
  BY <1>a, <1>13 DEF ReverseFails, ReverseEnds
<1>14. CASE SweepChildren
  BY <1>14 DEF SweepChildren, PartsHaveNodes
<1>15. CASE Unlink \/ Reopen \/ Crash
  BY <1>a, <1>15 DEF Unlink, Reopen, Crash
<1> QED BY <1>1, <1>2, <1>3, <1>4, <1>5, <1>6, <1>7, <1>8, <1>9, <1>10, <1>11, <1>12, <1>13,
           <1>14, <1>15 DEF Next

-----------------------------------------------------------------------------
(* What the types and the tidiness come to *)

\* The model's stores hold what they should, in every run of the handlers.
THEOREM TypeCorrect == Spec => []TypeOK
<1>1. Init => TInv
  BY TypeInit
<1>2. TInv /\ [Next]_vars => TInv'
  BY TypeStep
<1>3. TInv => TypeOK
  BY TInvTypes
<1> QED BY <1>1, <1>2, <1>3, PTL DEF Spec

LEMMA TidyInit == Init => Tidy
<1> SUFFICES ASSUME Init PROVE Tidy
  OBVIOUS
<1>1. Swept
  BY DEF Init, Idle, Swept
<1>2. PartsHaveNodes
  BY DEF Init, PartsHaveNodes
<1> QED BY <1>1, <1>2 DEF Tidy

\* Whatever fails, and wherever a crash cuts a handler off: a revocation that
\* comes to its end leaves no child and no EFFECT of the proposal, and no part
\* ever hangs on a node that is gone.
THEOREM RevocationTidies == Spec => []RevokeTidies
<1>1. Init => TInv /\ Tidy
  BY TypeInit, TidyInit
<1>2. (TInv /\ Tidy) /\ [Next]_vars => (TInv /\ Tidy)'
  BY TypeStep, SweptStep, PartsStep DEF Tidy
<1>3. TInv /\ Tidy => RevokeTidies
  BY DEF Tidy, Swept, PartsHaveNodes, RevokeTidies, At
<1> QED BY <1>1, <1>2, <1>3, PTL DEF Spec

-----------------------------------------------------------------------------
(* What a sequence of records undoes *)

\* Whatever its ops did, undoing them from the last to the first ends with what
\* the first of them to touch the text, or an item, recorded of it.  So it need
\* not be known how far a reversal has come before it starts again.
Mentions(r, i) == r.op \in {"append", "remove"} /\ i \in r.items

\* The first records that name the text, or an item, say what b had.
FirstsRight(recs, b) ==
  \A j \in 1 .. Len(recs) :
    /\ (recs[j].op = "set" /\ \A l \in 1 .. j - 1 : recs[l].op # "set")
         => ToText[recs[j].from] = ToText[b.text]
    /\ \A i \in Items :
         (Mentions(recs[j], i) /\ \A l \in 1 .. j - 1 : ~ Mentions(recs[l], i))
           => (i \in b.list <=> recs[j].op = "remove")

\* What none of the first k records names is the same in m and b.
RestAgrees(recs, k, m, b) ==
  /\ m.by = b.by
  /\ (\A j \in 1 .. k : recs[j].op # "set") => ToText[m.text] = ToText[b.text]
  /\ \A i \in Items :
       (\A j \in 1 .. k : ~ Mentions(recs[j], i)) => (i \in m.list <=> i \in b.list)

Explains(recs, m, b) == FirstsRight(recs, b) /\ RestAgrees(recs, Len(recs), m, b)

\* Before any op nothing is recorded, and nothing is changed.
LEMMA NothingDone ==
  ASSUME NEW m \in AnyNode
  PROVE  Explains(<< >>, m, m)
<1>1. Len(<< >>) = 0
  BY EmptySeq
<1> QED BY <1>1 DEF Explains, FirstsRight, RestAgrees

\* An op and its record keep the records an explanation of the node.
LEMMA OpExplained ==
  ASSUME NEW o \in Ops, NEW m \in Nodes, NEW recs \in Seq(Recs), NEW b, Explains(recs, m, b)
  PROVE  Explains(Append(recs, Recorded(o, m)), Applied(o, m), b)
<1> DEFINE r == Recorded(o, m)
           recs2 == Append(recs, r)
           L == Len(recs)
<1>1. /\ L \in Nat /\ Len(recs2) = L + 1
      /\ recs2[L + 1] = r /\ \A j \in 1 .. L : recs2[j] = recs[j]
  <2>1. r \in Recs
    BY RecordedType DEF AnyNode
  <2> QED BY <2>1, AppendProperties, LenProperties
<1>2. FirstsRight(recs, b) /\ RestAgrees(recs, L, m, b)
  BY DEF Explains
<1>3. m.text \in Values /\ ToText[ToText[m.text]] = ToText[m.text]
  <2>1. m.text \in Values
    BY NodeFields DEF AnyNode
  <2> QED BY <2>1, ConstantsAssumption
<1> HIDE DEF r, recs2, L
<1>s. \A j \in 1 .. L + 1 : j \in 1 .. L \/ j = L + 1
  BY <1>1
<1>t. \A j \in 1 .. L : \A l \in 1 .. j - 1 : l \in 1 .. L
  BY <1>1
<1>u. (L + 1) - 1 = L /\ \A j \in 1 .. L : j \in 1 .. L + 1
  BY <1>1
<1>4. FirstsRight(recs2, b)
  <2> SUFFICES ASSUME NEW j \in 1 .. L + 1
               PROVE  /\ (recs2[j].op = "set" /\ \A l \in 1 .. j - 1 : recs2[l].op # "set")
                           => ToText[recs2[j].from] = ToText[b.text]
                      /\ \A i \in Items :
                           (Mentions(recs2[j], i) /\ \A l \in 1 .. j - 1 : ~ Mentions(recs2[l], i))
                             => (i \in b.list <=> recs2[j].op = "remove")
    BY <1>1 DEF FirstsRight
  <2>1. CASE j \in 1 .. L
    <3>1. recs2[j] = recs[j] /\ \A l \in 1 .. j - 1 : recs2[l] = recs[l]
      BY <1>1, <1>t, <2>1
    <3>2. j \in 1 .. Len(recs)
      BY <2>1 DEF L
    <3> QED BY <1>2, <3>1, <3>2 DEF FirstsRight
  <2>2. CASE j = L + 1
    <3>1. recs2[j] = r /\ (j - 1) = L
      BY <1>1, <1>u, <2>2
    <3>2. \A l \in 1 .. j - 1 : recs2[l] = recs[l]
      BY <1>1, <3>1
    <3>3. ASSUME r.op = "set", \A l \in 1 .. L : recs[l].op # "set"
          PROVE  ToText[r.from] = ToText[b.text]
      <4>1. ToText[m.text] = ToText[b.text]
        BY <1>2, <3>3 DEF RestAgrees
      <4>2. r.from = ToText[m.text]
        BY <3>3, OpCases DEF r, Recorded
      <4> QED BY <1>3, <4>1, <4>2
    <3>4. ASSUME NEW i \in Items, Mentions(r, i), \A l \in 1 .. L : ~ Mentions(recs[l], i)
          PROVE  i \in b.list <=> r.op = "remove"
      <4>1. i \in m.list <=> i \in b.list
        BY <1>2, <3>4 DEF RestAgrees
      <4>2. i \in m.list <=> r.op = "remove"
        BY <3>4, OpCases DEF r, Recorded, Mentions
      <4> QED BY <4>1, <4>2
    <3> QED BY <3>1, <3>2, <3>3, <3>4
  <2> QED BY <1>s, <2>1, <2>2
<1>5. RestAgrees(recs2, L + 1, Applied(o, m), b)
  <2>1. Applied(o, m).by = b.by
    <3>1. Applied(o, m).by = m.by
      BY OpCases DEF Applied, Nodes
    <3> QED BY <1>2, <3>1 DEF RestAgrees
  <2>2. ASSUME \A j \in 1 .. L + 1 : recs2[j].op # "set"
        PROVE  ToText[Applied(o, m).text] = ToText[b.text]
    <3>1. r.op # "set" /\ \A j \in 1 .. L : recs[j].op # "set"
      <4>1. L + 1 \in 1 .. L + 1
        BY <1>1
      <4> QED BY <1>1, <1>u, <2>2, <4>1
    <3>2. ToText[m.text] = ToText[b.text]
      BY <1>2, <3>1 DEF RestAgrees
    <3>3. Applied(o, m).text = m.text
      BY <3>1, OpCases DEF r, Recorded, Applied, Nodes
    <3> QED BY <3>2, <3>3
  <2>3. ASSUME NEW i \in Items, \A j \in 1 .. L + 1 : ~ Mentions(recs2[j], i)
        PROVE  i \in Applied(o, m).list <=> i \in b.list
    <3>1. ~ Mentions(r, i) /\ \A j \in 1 .. L : ~ Mentions(recs[j], i)
      <4>1. L + 1 \in 1 .. L + 1
        BY <1>1
      <4> QED BY <1>1, <1>u, <2>3, <4>1
    <3>2. i \in m.list <=> i \in b.list
      BY <1>2, <3>1 DEF RestAgrees
    <3>3. i \in Applied(o, m).list <=> i \in m.list
      BY <3>1, OpCases DEF r, Recorded, Applied, Mentions, Nodes
    <3> QED BY <3>2, <3>3
  <2> QED BY <2>1, <2>2, <2>3 DEF RestAgrees
<1>6. Explains(recs2, Applied(o, m), b)
  BY <1>1, <1>4, <1>5 DEF Explains
<1> QED BY <1>6 DEF recs2, r

\* Undoing a record leaves the ones before it to be undone.
LEMMA RecordUndone ==
  ASSUME NEW recs \in Seq(Recs), NEW m \in Nodes, NEW b, NEW k \in Nat, k > 0, k <= Len(recs),
         FirstsRight(recs, b), RestAgrees(recs, k, m, b)
  PROVE  RestAgrees(recs, k - 1, Reversed(recs[k], m), b)
<1> DEFINE r == recs[k]
<1>1. k \in 1 .. Len(recs)
  BY LenProperties
<1>2. r \in Recs
  BY <1>1, ElementOfSeq
<1>3. \A j \in 1 .. k : j \in 1 .. k - 1 \/ j = k
  OBVIOUS
<1>4. Reversed(r, m).by = b.by
  <2>1. Reversed(r, m).by = m.by
    BY <1>2, RecCases DEF Reversed, Nodes
  <2> QED BY <2>1 DEF RestAgrees
<1>5. ASSUME \A j \in 1 .. k - 1 : recs[j].op # "set"
      PROVE  ToText[Reversed(r, m).text] = ToText[b.text]
  <2>1. CASE r.op = "set"
    <3>1. ToText[r.from] = ToText[b.text]
      BY <1>1, <1>5, <2>1 DEF FirstsRight
    <3>2. Reversed(r, m).text = r.from
      BY <2>1 DEF Reversed, Nodes
    <3> QED BY <3>1, <3>2
  <2>2. CASE r.op # "set"
    <3>1. ToText[m.text] = ToText[b.text]
      BY <1>3, <1>5, <2>2 DEF RestAgrees
    <3>2. Reversed(r, m).text = m.text
      BY <1>2, <2>2, RecCases DEF Reversed, Nodes
    <3> QED BY <3>1, <3>2
  <2> QED BY <2>1, <2>2
<1>6. ASSUME NEW i \in Items, \A j \in 1 .. k - 1 : ~ Mentions(recs[j], i)
      PROVE  i \in Reversed(r, m).list <=> i \in b.list
  <2>1. CASE Mentions(r, i)
    <3>1. i \in b.list <=> r.op = "remove"
      BY <1>1, <1>6, <2>1 DEF FirstsRight
    <3>2. i \in Reversed(r, m).list <=> r.op = "remove"
      BY <1>2, <2>1, RecCases DEF Mentions, Reversed, Nodes
    <3> QED BY <3>1, <3>2
  <2>2. CASE ~ Mentions(r, i)
    <3>1. i \in m.list <=> i \in b.list
      BY <1>3, <1>6, <2>2 DEF RestAgrees
    <3>2. i \in Reversed(r, m).list <=> i \in m.list
      BY <1>2, <2>2, RecCases DEF Mentions, Reversed, Nodes
    <3> QED BY <3>1, <3>2
  <2> QED BY <2>1, <2>2
<1> QED BY <1>4, <1>5, <1>6 DEF RestAgrees

\* A reversal that stopped half-way may start again at its last record.
LEMMA MoreRecords ==
  ASSUME NEW recs, NEW m, NEW b, NEW k \in Nat, NEW l \in Nat, k <= l, RestAgrees(recs, k, m, b)
  PROVE  RestAgrees(recs, l, m, b)
<1>1. \A j \in 1 .. k : j \in 1 .. l
  OBVIOUS
<1> QED BY <1>1 DEF RestAgrees

\* When all is undone the node is as it was.
LEMMA AllUndone ==
  ASSUME NEW m \in AnyNode, NEW b \in AnyNode, NEW recs, RestAgrees(recs, 0, m, b)
  PROVE  Same(m, b)
<1>1. m.list \subseteq Items /\ b.list \subseteq Items
  BY NodeFields
<1>2. /\ m.by = b.by /\ ToText[m.text] = ToText[b.text]
      /\ \A i \in Items : i \in m.list <=> i \in b.list
  BY DEF RestAgrees
<1>3. m.list = b.list
  BY <1>1, <1>2
<1> QED BY <1>2, <1>3 DEF Same

\* Nodes that are the same are explained the same.
LEMMA SameExplained ==
  ASSUME NEW m, NEW n, NEW b, NEW recs, Same(m, n), Explains(recs, m, b)
  PROVE  Explains(recs, n, b)
BY DEF Same, Explains, RestAgrees

-----------------------------------------------------------------------------
(* What the history says of a node *)

\* What the change at line h of the log left, and the next one found.
After(n, h) == IF h = Len(log[n]) THEN node[n] ELSE log[n][h + 1].before

\* The EFFECT of p at n is about p's last change to n: p is accepted, or it is
\* being accepted and has n not in hand.
Settled(p, n) == \/ status[p] = "accepted"
                 \/ job.p = p /\ Accepting /\ ~ (Working /\ job.n = n)

\* The EFFECT of p at n leads from m back to b; when a revocation that was cut
\* off has removed it already, m is b.
Undoes(p, n, m, b) ==
  \/ effects[p][n].change = "CREATE" /\ b = NoNode
  \/ effects[p][n].change = "MODIFY" /\ Explains(effects[p][n].ops, m, b)
  \/ effects[p][n] = NoEffect /\ status[p] = "accepted" /\ Same(m, b)

LineExplained(n, h) ==
  Settled(log[n][h].by, n) => Undoes(log[n][h].by, n, After(n, h), log[n][h].before)
NodeExplained(n) == \A h \in 1 .. Len(log[n]) : LineExplained(n, h)
LogExplained == \A n \in Ids : NodeExplained(n)

\* A proposal has one line in the log of a node, and only the first line found
\* no node; a log that was broken off is not taken up again.
Stack(n) ==
  \A h \in 1 .. Len(log[n]) :
    /\ log[n][h].before = NoNode => h = 1
    /\ \A g \in 1 .. Len(log[n]) : log[n][g].by = log[n][h].by => g = h
Stacked == /\ \A n \in Ids : Stack(n)
           /\ \A n \in muddled : log[n] = << >>

\* While a proposal is being accepted it is open, and an entry starts with no
\* records.
AcceptOpen == /\ Accepting => status[job.p] = "open"
              /\ job.step = "resolve" => job.recs = << >>

\* The records of the entry in hand lead back to what the node was before it.
WorkExplained ==
  Working =>
    \/ log[job.n] = << >>
    \/ node[job.n] = NoNode /\ ~ Logged(job.p, job.n)
    \/ /\ OnTop(job.p, job.n) /\ node[job.n] # NoNode
       /\ Entry.kind = "modify" => Explains(job.recs, node[job.n], Before(job.n))
       /\ Entry.kind # "modify" => Before(job.n) = NoNode

\* A row that is done with has its node back, if the proposal was the last to
\* change it; if it was not, there is no EFFECT left.
RowDone(n) == /\ OnTop(job.p, n) => Same(node[n], Before(n))
              /\ Logged(job.p, n) => OnTop(job.p, n) \/ effects[job.p][n] = NoEffect
RevokeProgress ==
  Revoking =>
    /\ status[job.p] = "accepted"
    /\ \A n \in job.rows : effects[job.p][n] # NoEffect
    /\ \A n \in Ids \ job.rows : RowDone(n)
    /\ job.step \in {"unlink", "reopen"} => job.rows = {}

\* The records after job.k are undone.
ReverseProgress ==
  job.step = "reverse" =>
    /\ job.n \in job.rows
    /\ \/ log[job.n] = << >>
       \/ /\ OnTop(job.p, job.n)
          /\ RestAgrees(effects[job.p][job.n].ops, job.k, node[job.n], Before(job.n))

RInv == /\ TInv /\ Stacked /\ AcceptOpen /\ LogExplained /\ WorkExplained
        /\ RevokeProgress /\ ReverseProgress

LEMMA LogTypes ==
  ASSUME TInv, NEW n \in Ids
  PROVE  /\ log[n] \in LogType /\ Len(log[n]) \in Nat
         /\ \A h \in 1 .. Len(log[n]) :
              log[n][h].by \in Proposals /\ log[n][h].before \in AnyNode
         /\ log[n] # << >> => Len(log[n]) \in 1 .. Len(log[n])
         /\ log[n] = << >> => Len(log[n]) = 0
<1>1. log[n] \in Seq([by: Proposals, before: AnyNode])
  BY DEF TInv, HistoryOK, LogType
<1>2. /\ Len(log[n]) \in Nat
      /\ \A h \in 1 .. Len(log[n]) : log[n][h] \in [by: Proposals, before: AnyNode]
  BY <1>1, LenProperties, ElementOfSeq
<1>3. log[n] # << >> => Len(log[n]) > 0
  BY <1>1, EmptySeq
<1>4. log[n] = << >> => Len(log[n]) = 0
  BY EmptySeq
<1> QED BY <1>1, <1>2, <1>3, <1>4 DEF LogType

\* The last line is one of the log's.
LEMMA TopLine ==
  ASSUME TInv, NEW n \in Ids, NEW p, OnTop(p, n)
  PROVE  /\ Len(log[n]) \in 1 .. Len(log[n]) /\ log[n][Len(log[n])].by = p
         /\ Logged(p, n)
BY LogTypes DEF OnTop, Logged

\* With one line each, a proposal on top has no other line.
LEMMA TopOnly ==
  ASSUME TInv, Stacked, NEW n \in Ids, NEW p, OnTop(p, n),
         NEW h \in 1 .. Len(log[n]), log[n][h].by = p
  PROVE  h = Len(log[n])
BY TopLine DEF Stacked, Stack

LEMMA MuddleEffect ==
  ASSUME NEW S, Muddle(S)
  PROVE  \A n \in Ids : log'[n] = IF n \in S THEN << >> ELSE log[n]
BY DEF Muddle

\* What the EFFECT of p says of n is still so after the step.
Kept(p, n) ==
  Settled(p, n)' => /\ Settled(p, n)
                    /\ effects'[p][n] = effects[p][n]
                    /\ status[p] = "accepted" => status'[p] = "accepted"

LEMMA KeepsSay ==
  ASSUME NEW p \in Proposals, NEW n \in Ids,
         effects'[p][n] = effects[p][n], status'[p] = status[p],
         \/ ~ Accepting'
         \/ job'.p # p
         \/ job.p = p /\ Accepting /\ ((Working /\ job.n = n) => (Working' /\ job'.n = n))
  PROVE  Kept(p, n)
BY DEF Kept, Settled

LEMMA LineFrame ==
  ASSUME TInv, NEW n \in Ids, NEW h \in 1 .. Len(log[n]), LineExplained(n, h),
         log'[n][h] = log[n][h], After(n, h)' = After(n, h),
         \A p \in Proposals : p = log[n][h].by => Kept(p, n)
  PROVE  LineExplained(n, h)'
<1>1. PICK p \in Proposals : p = log[n][h].by
  BY LogTypes
<1>2. Kept(p, n)
  BY <1>1
<1>3. log'[n][h].by = p /\ log'[n][h].before = log[n][h].before
  BY <1>1
<1>4. Settled(p, n) => Undoes(p, n, After(n, h), log[n][h].before)
  BY <1>1 DEF LineExplained
<1>5. Settled(p, n)' => Undoes(p, n, After(n, h), log[n][h].before)'
  BY <1>2, <1>3, <1>4 DEF Kept, Undoes
<1> QED BY <1>3, <1>5 DEF LineExplained, Settled, Undoes

\* A node, its log, and what the EFFECT relations of those in it say stay.
Untouched(n) == /\ log'[n] = log[n] /\ node'[n] = node[n]
                /\ \A p \in Proposals : Logged(p, n) => Kept(p, n)

LEMMA NodeFrame ==
  ASSUME TInv, NEW n \in Ids, NodeExplained(n), Untouched(n)
  PROVE  NodeExplained(n)'
<1> SUFFICES ASSUME NEW h \in 1 .. Len(log[n]) PROVE LineExplained(n, h)'
  BY DEF NodeExplained, Untouched
<1>1. LineExplained(n, h)
  BY DEF NodeExplained
<1>2. log'[n][h] = log[n][h] /\ After(n, h)' = After(n, h)
  BY DEF Untouched, After
<1>3. \A p \in Proposals : p = log[n][h].by => Kept(p, n)
  BY DEF Untouched, Logged
<1> QED BY <1>1, <1>2, <1>3, LineFrame

LEMMA LogFrame ==
  ASSUME TInv, LogExplained,
         \A n \in Ids : log'[n] = << >> \/ Untouched(n) \/ NodeExplained(n)'
  PROVE  LogExplained'
<1> SUFFICES ASSUME NEW n \in Ids PROVE NodeExplained(n)'
  BY DEF LogExplained
<1>1. CASE log'[n] = << >>
  <2>1. Len(log'[n]) = 0
    BY <1>1, EmptySeq
  <2> QED BY <2>1 DEF NodeExplained
<1>2. CASE Untouched(n)
  BY <1>2, NodeFrame DEF LogExplained
<1> QED BY <1>1, <1>2

-----------------------------------------------------------------------------
(* One line each *)

LEMMA StackFrame ==
  ASSUME Stacked, Unlogged
  PROVE  Stacked'
BY DEF Stacked, Stack, Unlogged

LEMMA MuddleStack ==
  ASSUME TInv, Stacked, NEW S \in SUBSET Ids, Muddle(S)
  PROVE  Stacked'
<1>1. \A n \in Ids : log'[n] = IF n \in S THEN << >> ELSE log[n]
  BY MuddleEffect
<1>2. muddled' = muddled \union S /\ muddled \subseteq Ids
  BY DEF Muddle, TInv, HistoryOK
<1>3. \A n \in Ids : Stack(n)'
  BY <1>1, EmptySeq DEF Stacked, Stack
<1>4. \A n \in muddled' : log'[n] = << >>
  BY <1>1, <1>2 DEF Stacked
<1> QED BY <1>3, <1>4 DEF Stacked

\* What Touch makes of the log of n, when n is there or has no log.
LEMMA TouchEffect ==
  ASSUME TInv, Stacked, NEW p \in Proposals, NEW n \in Ids, Touch(p, n)
  PROVE  /\ \A m \in Ids : m # n => log'[m] = log[m]
         /\ \/ log'[n] = << >>
            \/ /\ ~ Logged(p, n)
               /\ Len(log'[n]) = Len(log[n]) + 1
               /\ log'[n][Len(log[n]) + 1] = [by |-> p, before |-> node[n]]
               /\ \A h \in 1 .. Len(log[n]) : log'[n][h] = log[n][h]
               /\ log'[n] # << >>
         /\ muddled' = muddled \/ (muddled' = muddled \union {n} /\ log'[n] = << >>)
         /\ n \in muddled => log'[n] = << >>
<1>0. log \in [Ids -> LogType]
  BY DEF TInv, HistoryOK
<1>1. CASE Logged(p, n)
  <2>1. Muddle({n})
    BY <1>1 DEF Touch
  <2> QED BY <1>0, <2>1 DEF Muddle
<1>2. CASE ~ Logged(p, n) /\ n \in muddled
  BY <1>2 DEF Touch, Stacked
<1>3. CASE ~ Logged(p, n) /\ n \notin muddled
  <2> DEFINE l == [by |-> p, before |-> node[n]]
  <2>1. l \in [by: Proposals, before: AnyNode]
    BY DEF TInv, DataOK
  <2>2. log[n] \in Seq([by: Proposals, before: AnyNode])
    BY <1>0 DEF LogType
  <2> HIDE DEF l
  <2>3. /\ Len(Append(log[n], l)) = Len(log[n]) + 1
        /\ Append(log[n], l)[Len(log[n]) + 1] = l
        /\ \A h \in 1 .. Len(log[n]) : Append(log[n], l)[h] = log[n][h]
        /\ Append(log[n], l) # << >>
    BY <2>1, <2>2, AppendProperties
  <2>4. log' = [log EXCEPT ![n] = Append(log[n], l)] /\ muddled' = muddled
    BY <1>3 DEF Touch, l
  <2>5. log'[n] = Append(log[n], l) /\ \A m \in Ids : m # n => log'[m] = log[m]
    BY <1>0, <2>4
  <2> QED BY <1>3, <2>3, <2>4, <2>5 DEF l
<1> QED BY <1>1, <1>2, <1>3

LEMMA TouchStack ==
  ASSUME TInv, Stacked, NEW p \in Proposals, NEW n \in Ids, Touch(p, n),
         node[n] # NoNode \/ log[n] = << >>
  PROVE  Stacked'
<1>1. \A m \in Ids : m # n => Stack(m)'
  <2>1. \A m \in Ids : m # n => log'[m] = log[m]
    BY TouchEffect
  <2> QED BY <2>1 DEF Stacked, Stack
<1>2. Stack(n)'
  <2>1. CASE log'[n] = << >>
    BY <2>1, EmptySeq DEF Stack
  <2>2. CASE log'[n] # << >>
    <3> DEFINE L == Len(log[n])
    <3>1. L \in Nat /\ (log[n] = << >> => L = 0)
      BY LogTypes
    <3>2. /\ ~ Logged(p, n) /\ Len(log'[n]) = L + 1
          /\ log'[n][L + 1].by = p /\ log'[n][L + 1].before = node[n]
          /\ \A h \in 1 .. L : log'[n][h] = log[n][h]
      <4>1. /\ ~ Logged(p, n) /\ Len(log'[n]) = L + 1
            /\ log'[n][L + 1] = [by |-> p, before |-> node[n]]
            /\ \A h \in 1 .. L : log'[n][h] = log[n][h]
        BY <2>2, TouchEffect
      <4> QED BY <4>1
    <3>3. \A h \in 1 .. L : log[n][h].by # p
      BY <3>2 DEF Logged
    <3>4. \A h \in 1 .. L : /\ log[n][h].before = NoNode => h = 1
                            /\ \A g \in 1 .. L : log[n][g].by = log[n][h].by => g = h
      BY DEF Stacked, Stack
    <3> HIDE DEF L
    <3>5. \A h \in 1 .. L + 1 : h \in 1 .. L \/ h = L + 1
      BY <3>1
    <3> SUFFICES ASSUME NEW h \in 1 .. L + 1
                 PROVE  /\ log'[n][h].before = NoNode => h = 1
                        /\ \A g \in 1 .. L + 1 : log'[n][g].by = log'[n][h].by => g = h
      BY <3>2 DEF Stack
    <3>6. log'[n][h].before = NoNode => h = 1
      <4>1. CASE h \in 1 .. L
        BY <3>2, <3>4, <4>1
      <4>2. CASE h = L + 1
        BY <3>1, <3>2, <4>2
      <4> QED BY <3>5, <4>1, <4>2
    <3>7. \A g \in 1 .. L + 1 : log'[n][g].by = log'[n][h].by => g = h
      BY <3>2, <3>3, <3>4, <3>5
    <3> QED BY <3>6, <3>7
  <2> QED BY <2>1, <2>2
<1>3. \A m \in muddled' : log'[m] = << >>
  <2>1. \A m \in muddled : log[m] = << >> /\ m \in Ids
    BY DEF Stacked, TInv, HistoryOK
  <2> QED BY <2>1, TouchEffect
<1> QED BY <1>1, <1>2, <1>3 DEF Stacked

LEMMA ReopenEffect ==
  ASSUME TInv, Reopen, NEW n \in Ids
  PROVE  /\ ~ OnTop(job.p, n) => log'[n] = log[n]
         /\ OnTop(job.p, n) => /\ Len(log'[n]) = Len(log[n]) - 1
                               /\ \A h \in 1 .. Len(log[n]) - 1 : log'[n][h] = log[n][h]
<1>1. log'[n] = IF OnTop(job.p, n) THEN SubSeq(log[n], 1, Len(log[n]) - 1) ELSE log[n]
  BY DEF Reopen
<1>2. OnTop(job.p, n) => log[n] # << >> /\ log[n] \in LogType
  BY LogTypes DEF OnTop
<1> QED BY <1>1, <1>2, PopType

LEMMA ReopenStack ==
  ASSUME TInv, Stacked, Reopen
  PROVE  Stacked'
<1>1. ASSUME NEW n \in Ids PROVE Stack(n)'
  <2>1. CASE ~ OnTop(job.p, n)
    BY <2>1, ReopenEffect DEF Stacked, Stack
  <2>2. CASE OnTop(job.p, n)
    <3> DEFINE L == Len(log[n])
    <3>1. L \in Nat
      BY LogTypes
    <3>2. Len(log'[n]) = L - 1 /\ \A h \in 1 .. L - 1 : log'[n][h] = log[n][h]
      BY <2>2, ReopenEffect
    <3>3. \A h \in 1 .. L : /\ log[n][h].before = NoNode => h = 1
                            /\ \A g \in 1 .. L : log[n][g].by = log[n][h].by => g = h
      BY DEF Stacked, Stack
    <3> HIDE DEF L
    <3>4. \A h \in 1 .. L - 1 : h \in 1 .. L
      BY <3>1
    <3> QED BY <3>2, <3>3, <3>4 DEF Stack
  <2> QED BY <2>1, <2>2
<1>2. \A n \in muddled' : log'[n] = << >>
  <2>1. \A n \in muddled : n \in Ids /\ log[n] = << >> /\ ~ OnTop(job.p, n)
    BY DEF Stacked, TInv, HistoryOK, OnTop
  <2> QED BY <2>1, ReopenEffect DEF Reopen
<1> QED BY <1>1, <1>2 DEF Stacked

LEMMA StackStep == TInv /\ Stacked /\ [Next]_vars => Stacked'
<1> SUFFICES ASSUME TInv, Stacked, [Next]_vars PROVE Stacked'
  OBVIOUS
<1>0. job.n \in Ids \union {None} /\ (At("reverse") => job.n \in Ids)
  BY DEF TInv, JobType, JobSound, At
<1>1. CASE UNCHANGED vars
  BY <1>1 DEF vars, Stacked, Stack
<1>2. CASE \E p \in Proposals : StartAccept(p) \/ StartRevoke(p)
  BY <1>2, MuddleStack, StackFrame DEF StartAccept, StartRevoke
<1>3. CASE CreateNode
  <2>1. job.p \in Proposals
    BY <1>3 DEF CreateNode, TInv, JobSound, At
  <2>2. PICK n \in Fresh(Entry.name) : Touch(job.p, n)
    BY <1>3 DEF CreateNode
  <2>3. n \in Ids /\ log[n] = << >>
    BY DEF Fresh
  <2> QED BY <2>1, <2>2, <2>3, TouchStack
<1>4. CASE ReuseNode
  BY <1>4, MuddleStack DEF ReuseNode, Named
<1>5. CASE FindNode
  <2>1. job.p \in Proposals /\ job.i > 0
    BY <1>5 DEF FindNode, TInv, JobSound, Accepting, At
  <2>2. PICK n \in (IF Entry.id # None THEN {Entry.id} ELSE Named(Entry.name)) :
          IF node[n] = NoNode THEN Unlogged ELSE Touch(job.p, n)
    BY <1>5 DEF FindNode
  <2>3. n \in Ids
    <3>1. Entry \in Entries
      BY <1>5, <2>1, EntryType DEF FindNode
    <3> QED BY <3>1 DEF Entries, Named
  <2> QED BY <2>1, <2>2, <2>3, TouchStack, StackFrame
<1>6. CASE SkipEntry \/ ApplyOp \/ OpFails \/ AddChildren \/ RecordEffect
  BY <1>6, StackFrame DEF SkipEntry, ApplyOp, OpFails, AddChildren, RecordEffect
<1>7. CASE EntryFails
  BY <1>0, <1>7, StackFrame, MuddleStack DEF EntryFails
<1>8. CASE EndEntries \/ CheckFails \/ Commit
  BY <1>8, StackFrame DEF EndEntries, CheckFails, Commit
<1>9. CASE \E n \in Ids : DeleteNode(n) \/ ReverseFirst(n) \/ RowFails(n)
  BY <1>9, StackFrame, MuddleStack DEF DeleteNode, ReverseFirst, RowFails
<1>10. CASE ReverseFails
  BY <1>0, <1>10, MuddleStack DEF ReverseFails
<1>11. CASE ReverseOp \/ ReverseEnds \/ SweepChildren \/ Unlink \/ Crash
  BY <1>11, StackFrame DEF ReverseOp, ReverseEnds, SweepChildren, Unlink, Crash
<1>12. CASE Reopen
  BY <1>12, ReopenStack
<1> QED BY <1>1, <1>2, <1>3, <1>4, <1>5, <1>6, <1>7, <1>8, <1>9, <1>10, <1>11, <1>12 DEF Next

\* A proposal stays open until the handler commits, which ends it; and each
\* entry starts afresh.
LEMMA OpenStep == TInv /\ AcceptOpen /\ [Next]_vars => AcceptOpen'
<1> SUFFICES ASSUME TInv, AcceptOpen, [Next]_vars PROVE AcceptOpen'
  OBVIOUS
<1>0. job \in JobType /\ status \in [Proposals -> {"open", "accepted"}]
  BY DEF TInv, DataOK
<1>a. ASSUME ~ Accepting' PROVE AcceptOpen'
  BY <1>a DEF AcceptOpen, Accepting
<1>b. ASSUME Accepting, job'.p = job.p, status' = status,
             job'.step = "resolve" => job'.recs = << >>
      PROVE  AcceptOpen'
  BY <1>b DEF AcceptOpen
<1> USE DEF Goto, Return, NextEntry, JobType, Idle
<1>1. CASE UNCHANGED vars
  BY <1>1 DEF vars, AcceptOpen, Accepting
<1>2. ASSUME NEW p \in Proposals, StartAccept(p) PROVE AcceptOpen'
  BY <1>0, <1>2 DEF StartAccept, AcceptOpen
<1>3. CASE CreateNode \/ ReuseNode \/ FindNode \/ SkipEntry
  BY <1>0, <1>b, <1>3 DEF CreateNode, ReuseNode, FindNode, SkipEntry, At, Accepting
<1>4. CASE ApplyOp \/ OpFails \/ AddChildren \/ RecordEffect \/ EntryFails
  BY <1>0, <1>b, <1>4 DEF ApplyOp, OpFails, AddChildren, RecordEffect, EntryFails, At, Accepting
<1>5. CASE EndEntries
  BY <1>0, <1>a, <1>b, <1>5 DEF EndEntries, At, Accepting
<1>6. CASE CheckFails \/ Commit \/ Reopen \/ Crash
  BY <1>a, <1>6 DEF CheckFails, Commit, Reopen, Crash, Accepting
<1>7. CASE \/ \E p \in Proposals : StartRevoke(p)
           \/ \E n \in Ids : DeleteNode(n) \/ ReverseFirst(n) \/ RowFails(n)
  BY <1>0, <1>a, <1>7 DEF StartRevoke, DeleteNode, ReverseFirst, RowFails, At, Accepting
<1>8. CASE ReverseOp \/ ReverseFails \/ ReverseEnds \/ SweepChildren \/ Unlink
  BY <1>0, <1>a, <1>8 DEF ReverseOp, ReverseFails, ReverseEnds, SweepChildren, Unlink, At, Accepting
<1> QED BY <1>1, <1>2, <1>3, <1>4, <1>5, <1>6, <1>7, <1>8 DEF Next

-----------------------------------------------------------------------------
(* The entry in hand *)

\* An open proposal has its EFFECT at a node it changed, once it has left the
\* node, and so the node is there.
LEMMA LoggedIsThere ==
  ASSUME TInv, AcceptOpen, LogExplained, At("resolve"), NEW n \in Ids, Logged(job.p, n)
  PROVE  node[n] # NoNode
<1>1. PICK h \in 1 .. Len(log[n]) : log[n][h].by = job.p
  BY DEF Logged
<1>2. job.p \in Proposals /\ status[job.p] = "open" /\ Settled(job.p, n)
  BY DEF At, TInv, JobSound, AcceptOpen, Accepting, Working, Settled
<1>3. Undoes(job.p, n, After(n, h), log[n][h].before)
  BY <1>1, <1>2 DEF LogExplained, NodeExplained, LineExplained
<1>4. effects[job.p][n] # NoEffect
  <2>1. effects[job.p][n] \in EffectType
    BY <1>2 DEF TInv, DataOK
  <2> QED BY <1>2, <1>3, <2>1, EffectFields DEF Undoes
<1> QED BY <1>2, <1>4 DEF TInv, EffectsHaveNodes

LEMMA CreateWork ==
  ASSUME TInv, CreateNode
  PROVE  WorkExplained'
<1>0. job \in JobType /\ job.p \in Proposals /\ job.step = "resolve" /\ node \in [Ids -> AnyNode]
      /\ log \in [Ids -> LogType]
  BY DEF TInv, CreateNode, At, JobSound, DataOK, HistoryOK
<1>1. PICK n \in Fresh(Entry.name) :
        /\ node' = [node EXCEPT ![n] = [by |-> job.p, text |-> Null, list |-> {}]]
        /\ Touch(job.p, n)
        /\ job' = [job EXCEPT !.step = "ops", !.n = n]
  BY DEF CreateNode
<1>2. n \in Ids /\ node[n] = NoNode /\ log[n] = << >>
  BY DEF Fresh
<1>3. /\ job'.p = job.p /\ job'.n = n /\ Entry' = Entry
      /\ job'.step = "ops"
  BY <1>0, <1>1 DEF JobType, Entry, CreateNode
<1>4. node'[n] # NoNode
  <2>1. [by |-> job.p, text |-> Null, list |-> {}] \in Nodes
    BY <1>0, ConstantsAssumption DEF Nodes
  <2> QED BY <1>0, <1>1, <1>2, <2>1, NodeFields DEF AnyNode
<1>5. Entry.kind # "modify"
  BY DEF CreateNode
<1>6. log'[n] = << >> \/ (OnTop(job.p, n)' /\ Before(n)' = NoNode)
  <2>1. ~ Logged(job.p, n)
    <3>1. Len(log[n]) = 0
      BY <1>2, LogTypes
    <3> QED BY <3>1 DEF Logged
  <2>2. CASE n \in muddled
    BY <1>1, <1>2, <2>1, <2>2 DEF Touch
  <2>3. CASE n \notin muddled
    <3> DEFINE l == [by |-> job.p, before |-> node[n]]
    <3>1. log'[n] = Append(log[n], l)
      BY <1>0, <1>1, <1>2, <2>1, <2>3 DEF Touch
    <3>2. l \in [by: Proposals, before: AnyNode] /\ log[n] \in Seq([by: Proposals, before: AnyNode])
      BY <1>0, <1>2 DEF LogType
    <3>3. l.by = job.p /\ l.before = NoNode
      BY <1>2
    <3> HIDE DEF l
    <3>4. /\ log'[n] # << >> /\ log'[n][Len(log'[n])] = l
      <4>1. /\ Append(log[n], l) # << >> /\ Len(Append(log[n], l)) = Len(log[n]) + 1
            /\ Append(log[n], l)[Len(log[n]) + 1] = l
        BY <3>2, AppendProperties
      <4> QED BY <3>1, <4>1
    <3> QED BY <1>3, <3>3, <3>4 DEF OnTop, Before
  <2> QED BY <2>2, <2>3
<1> QED BY <1>3, <1>4, <1>5, <1>6 DEF WorkExplained, OnTop

LEMMA FindWork ==
  ASSUME TInv, Stacked, AcceptOpen, LogExplained, FindNode
  PROVE  WorkExplained'
<1>0. /\ job \in JobType /\ job.p \in Proposals /\ job.step = "resolve" /\ job.i > 0
      /\ node \in [Ids -> AnyNode] /\ At("resolve") /\ job.recs = << >>
  BY DEF TInv, FindNode, At, JobSound, DataOK, Accepting, AcceptOpen
<1>1. PICK n \in (IF Entry.id # None THEN {Entry.id} ELSE Named(Entry.name)) :
        /\ IF node[n] = NoNode THEN Unlogged ELSE Touch(job.p, n)
        /\ job' = [job EXCEPT !.step = "ops", !.n = n]
  BY DEF FindNode
<1>2. n \in Ids
  <2>1. Entry \in Entries
    BY <1>0, EntryType DEF FindNode
  <2> QED BY <2>1 DEF Entries, Named
<1>3. /\ job'.p = job.p /\ job'.n = n /\ Entry' = Entry /\ job'.recs = << >>
      /\ job'.step = "ops" /\ node' = node
  BY <1>0, <1>1 DEF JobType, Entry, FindNode
<1>4. CASE node[n] = NoNode
  <2>1. ~ Logged(job.p, n)
    BY <1>0, <1>2, <1>4, LoggedIsThere
  <2>2. log' = log
    BY <1>1, <1>4 DEF Unlogged
  <2> QED BY <1>3, <1>4, <2>1, <2>2 DEF WorkExplained, Logged
<1>5. CASE node[n] # NoNode
  <2>1. Touch(job.p, n)
    BY <1>1, <1>5
  <2>2. CASE log'[n] = << >>
    BY <1>3, <2>2 DEF WorkExplained
  <2>3. CASE log'[n] # << >>
    <3>1. /\ Len(log'[n]) = Len(log[n]) + 1
          /\ log'[n][Len(log[n]) + 1] = [by |-> job.p, before |-> node[n]]
      BY <1>0, <1>2, <2>1, <2>3, TouchEffect
    <3>2. OnTop(job.p, n)' /\ Before(n)' = node[n]
      BY <1>3, <2>3, <3>1 DEF OnTop, Before
    <3>3. Explains(<< >>, node[n], node[n])
      BY <1>0, <1>2, NothingDone
    <3>4. Entry.kind = "modify"
      BY DEF FindNode
    <3> QED BY <1>3, <1>5, <3>2, <3>3, <3>4 DEF WorkExplained, OnTop, Before
  <2> QED BY <2>2, <2>3
<1> QED BY <1>4, <1>5

LEMMA ApplyWork ==
  ASSUME TInv, WorkExplained, ApplyOp
  PROVE  WorkExplained'
<1> DEFINE o == Entry.ops[job.k]
           n == job.n
           m == node[job.n]
<1>0. /\ job \in JobType /\ job.n \in Ids /\ job.recs \in Seq(Recs) /\ Working
      /\ node \in [Ids -> AnyNode]
  BY DEF TInv, ApplyOp, At, JobSound, DataOK, JobType, Working
<1>1. o \in Ops /\ m \in AnyNode
  BY <1>0, OpInHand DEF ApplyOp
<1>2. /\ node' = IF m = NoNode THEN node ELSE [node EXCEPT ![job.n] = Applied(o, m)]
      /\ job' = [job EXCEPT !.k = @ + 1, !.recs = Append(@, Recorded(o, m))]
      /\ log' = log /\ diff' = diff
  BY DEF ApplyOp, Unlogged
<1>3. /\ job'.p = job.p /\ job'.n = job.n /\ Entry' = Entry
      /\ job'.recs = Append(job.recs, Recorded(o, m))
  BY <1>0, <1>2 DEF JobType, Entry
<1>4. CASE log[job.n] = << >>
  BY <1>2, <1>3, <1>4 DEF WorkExplained
<1>5. CASE node[job.n] = NoNode /\ ~ Logged(job.p, job.n)
  <2>1. node' = node
    BY <1>2, <1>5
  <2> QED BY <1>2, <1>3, <1>5, <2>1 DEF WorkExplained, Logged
<1>6. CASE /\ OnTop(job.p, job.n) /\ node[job.n] # NoNode
           /\ Entry.kind = "modify" => Explains(job.recs, node[job.n], Before(job.n))
           /\ Entry.kind # "modify" => Before(job.n) = NoNode
  <2>1. m \in Nodes
    BY <1>1, <1>6, NodeFields
  <2>2. Applied(o, m) # NoNode
    BY <1>1, <2>1, AppliedType, NodeFields DEF AnyNode
  <2>3. node'[job.n] = Applied(o, m)
    BY <1>0, <1>2, <1>6
  <2>4. OnTop(job.p, job.n)' /\ Before(job.n)' = Before(job.n)
    BY <1>2, <1>3, <1>6 DEF OnTop, Before
  <2>5. Entry.kind = "modify" => Explains(job'.recs, node'[job.n], Before(job.n))
    <3> HIDE DEF o
    <3>1. Entry.kind = "modify" =>
            Explains(Append(job.recs, Recorded(o, m)), Applied(o, m), Before(job.n))
      BY <1>0, <1>1, <1>6, <2>1, OpExplained
    <3> QED BY <1>3, <2>3, <3>1
  <2> HIDE DEF o, m
  <2> QED BY <1>3, <1>6, <2>2, <2>3, <2>4, <2>5 DEF WorkExplained, OnTop, Before
<1> QED BY <1>0, <1>4, <1>5, <1>6 DEF WorkExplained

LEMMA WorkStep ==
  TInv /\ Stacked /\ AcceptOpen /\ LogExplained /\ WorkExplained /\ [Next]_vars => WorkExplained'
<1> SUFFICES ASSUME TInv, Stacked, AcceptOpen, LogExplained, WorkExplained, [Next]_vars
             PROVE  WorkExplained'
  OBVIOUS
<1>0. job \in JobType
  BY DEF TInv
<1>a. ASSUME ~ Working' PROVE WorkExplained'
  BY <1>a DEF WorkExplained
<1>b. ASSUME Working, job'.p = job.p, job'.n = job.n, job'.i = job.i, job'.recs = job.recs,
             UNCHANGED << diff, node, log >>
      PROVE  WorkExplained'
  BY <1>b DEF WorkExplained, Entry, Logged, OnTop, Before
<1> USE DEF Goto, Return, NextEntry, JobType, Idle
<1>1. CASE UNCHANGED vars
  BY <1>a, <1>b, <1>1 DEF vars, Working
<1>2. CASE \E p \in Proposals : StartAccept(p) \/ StartRevoke(p)
  BY <1>0, <1>a, <1>2 DEF StartAccept, StartRevoke, Working
<1>3. CASE CreateNode
  BY <1>3, CreateWork
<1>4. CASE ReuseNode
  <2>1. PICK n \in Named(Entry.name) :
          Muddle({n}) /\ job' = [job EXCEPT !.step = "ops", !.n = n]
    BY <1>4 DEF ReuseNode
  <2>2. job'.n = n /\ log'[n] = << >>
    BY <1>0, <2>1, MuddleEffect DEF Named
  <2> QED BY <2>2 DEF WorkExplained
<1>5. CASE FindNode
  BY <1>5, FindWork
<1>6. CASE SkipEntry \/ RecordEffect \/ EntryFails
  BY <1>0, <1>a, <1>6 DEF SkipEntry, RecordEffect, EntryFails, Working
<1>7. CASE ApplyOp
  BY <1>7, ApplyWork
<1>8. CASE OpFails \/ AddChildren
  BY <1>0, <1>b, <1>8 DEF OpFails, AddChildren, Unlogged, At, Working
<1>9. CASE EndEntries \/ CheckFails \/ Commit \/ Reopen \/ Crash
  BY <1>0, <1>a, <1>9 DEF EndEntries, CheckFails, Commit, Reopen, Crash, Working
<1>10. CASE \E n \in Ids : DeleteNode(n) \/ ReverseFirst(n) \/ RowFails(n)
  BY <1>0, <1>a, <1>10 DEF DeleteNode, ReverseFirst, RowFails, At, Working
<1>11. CASE ReverseOp \/ ReverseFails \/ ReverseEnds \/ SweepChildren \/ Unlink
  BY <1>0, <1>a, <1>11 DEF ReverseOp, ReverseFails, ReverseEnds, SweepChildren, Unlink, At, Working
<1> QED BY <1>1, <1>2, <1>3, <1>4, <1>5, <1>6, <1>7, <1>8, <1>9, <1>10, <1>11 DEF Next

-----------------------------------------------------------------------------
(* The rows of a revocation *)

Progress == RevokeProgress /\ ReverseProgress

\* A row that is done with, and is let alone, stays done with.
LEMMA RowFrame ==
  ASSUME NEW n \in Ids, RowDone(n), job'.p = job.p, log'[n] = log[n], node'[n] = node[n],
         effects'[job.p][n] = effects[job.p][n]
  PROVE  RowDone(n)'
BY DEF RowDone, OnTop, Logged, Before

\* A log that is broken off asks nothing of the row.
LEMMA RowBroken ==
  ASSUME NEW n \in Ids, log'[n] = << >>
  PROVE  RowDone(n)'
<1>1. Len(log'[n]) = 0
  BY EmptySeq
<1> QED BY <1>1 DEF RowDone, OnTop, Logged

LEMMA StartRevokeProgress ==
  ASSUME TInv, LogExplained, NEW p \in Proposals, StartRevoke(p)
  PROVE  Progress'
<1>0. effects \in [Proposals -> [Ids -> EffectType]]
  BY DEF TInv, DataOK
<1>1. /\ job'.p = p /\ job'.step = "rows" /\ status[p] = "accepted"
      /\ job'.rows = {n \in Ids : effects[p][n] # NoEffect}
      /\ UNCHANGED << status, effects, node, log >>
  BY DEF StartRevoke, Idle, Unlogged
<1>2. ASSUME NEW n \in Ids, effects[p][n] = NoEffect, OnTop(p, n)
      PROVE  Same(node[n], Before(n))
  <2>1. Len(log[n]) \in 1 .. Len(log[n]) /\ log[n][Len(log[n])].by = p
    BY <1>2, TopLine
  <2>2. Undoes(p, n, node[n], Before(n))
    <3>1. LineExplained(n, Len(log[n]))
      BY <2>1 DEF LogExplained, NodeExplained
    <3> QED BY <1>1, <2>1, <3>1 DEF LineExplained, Settled, After, Before
  <2>3. effects[p][n].change \notin {"CREATE", "MODIFY"}
    BY <1>0, <1>2, EffectFields
  <2> QED BY <2>2, <2>3 DEF Undoes
<1>3. \A n \in Ids \ job'.rows : RowDone(n)'
  BY <1>1, <1>2 DEF RowDone, OnTop, Before
<1> QED BY <1>1, <1>3 DEF Progress, RevokeProgress, ReverseProgress

\* Deleting a node that the proposal was the last to change gives back that
\* there was none.
LEMMA DeletedWasNone ==
  ASSUME TInv, Stacked, LogExplained, RevokeProgress, NEW n \in Ids, DeleteNode(n),
         OnTop(job.p, n)
  PROVE  Before(n) = NoNode /\ Len(log[n]) = 1
<1>1. Len(log[n]) \in 1 .. Len(log[n]) /\ log[n][Len(log[n])].by = job.p
  BY TopLine
<1>2. /\ status[job.p] = "accepted" /\ effects[job.p][n].change = "CREATE"
      /\ effects[job.p][n] # NoEffect
  BY DEF DeleteNode, At, RevokeProgress, Revoking
<1>3. LineExplained(n, Len(log[n])) /\ Stack(n)
  BY <1>1 DEF LogExplained, NodeExplained, Stacked
<1>4. Undoes(job.p, n, node[n], Before(n))
  BY <1>1, <1>2, <1>3 DEF LineExplained, Settled, After, Before
<1>5. Before(n) = NoNode
  BY <1>2, <1>4 DEF Undoes
<1> QED BY <1>1, <1>3, <1>5 DEF Stack, Before

LEMMA DeleteProgress ==
  ASSUME TInv, Stacked, LogExplained, RevokeProgress, NEW n \in Ids, DeleteNode(n)
  PROVE  Progress'
<1>0. /\ job \in JobType /\ job.p \in Proposals /\ job.step = "rows" /\ Revoking
      /\ effects \in [Proposals -> [Ids -> EffectType]] /\ node \in [Ids -> AnyNode]
  BY DEF TInv, DataOK, DeleteNode, At, JobSound, Revoking
<1>1. /\ job'.p = job.p /\ job'.step = "rows" /\ job'.rows = job.rows \ {n}
      /\ status' = status
  BY <1>0 DEF DeleteNode, JobType
<1>2. /\ node'[n] = NoNode /\ \A m \in Ids : m # n => node'[m] = node[m]
      /\ effects'[job.p][n] = NoEffect
      /\ \A m \in Ids : m # n => effects'[job.p][m] = effects[job.p][m]
  BY <1>0 DEF DeleteNode
<1>3. /\ \A m \in Ids : m # n => log'[m] = log[m]
      /\ log'[n] = << >> \/ (OnTop(job.p, n) /\ log'[n] = log[n])
  BY MuddleEffect DEF DeleteNode, Unlogged
<1>4. RowDone(n)'
  <2>1. CASE log'[n] = << >>
    BY <2>1, RowBroken
  <2>2. CASE OnTop(job.p, n) /\ log'[n] = log[n]
    <3>1. Before(n) = NoNode
      BY <2>2, DeletedWasNone
    <3>2. Before(n)' = NoNode
      BY <2>2, <3>1 DEF Before
    <3> QED BY <1>1, <1>2, <3>2 DEF RowDone, Same
  <2> QED BY <1>3, <2>1, <2>2
<1>5. \A m \in Ids \ job'.rows : RowDone(m)'
  <2> SUFFICES ASSUME NEW m \in Ids, m \notin job.rows, m # n PROVE RowDone(m)'
    BY <1>1, <1>4
  <2>1. RowDone(m)
    BY <1>0 DEF RevokeProgress
  <2> QED BY <1>1, <1>2, <1>3, <2>1, RowFrame
<1>6. \A m \in job'.rows : effects'[job.p][m] # NoEffect
  <2>1. job.rows \subseteq Ids
    BY <1>0 DEF JobType
  <2> QED BY <1>0, <1>1, <1>2, <2>1 DEF RevokeProgress
<1> QED BY <1>0, <1>1, <1>5, <1>6 DEF Progress, RevokeProgress, ReverseProgress

LEMMA ReverseFirstProgress ==
  ASSUME TInv, LogExplained, RevokeProgress, NEW n \in Ids, ReverseFirst(n)
  PROVE  Progress'
<1>0. /\ job \in JobType /\ job.p \in Proposals /\ job.step = "rows" /\ Revoking
      /\ effects \in [Proposals -> [Ids -> EffectType]]
  BY DEF TInv, DataOK, ReverseFirst, At, JobSound, Revoking
<1>1. /\ job'.p = job.p /\ job'.step = "reverse" /\ job'.rows = job.rows /\ job'.n = n
      /\ job'.k = Len(effects[job.p][n].ops) /\ n \in job.rows
      /\ UNCHANGED << status, effects, node >> /\ effects[job.p][n].change = "MODIFY"
  BY <1>0 DEF ReverseFirst, JobType
<1>2. /\ \A m \in Ids : m # n => log'[m] = log[m]
      /\ log'[n] = << >> \/ (OnTop(job.p, n) /\ log'[n] = log[n])
  BY MuddleEffect DEF ReverseFirst, Unlogged
<1>3. \A m \in Ids \ job'.rows : RowDone(m)'
  <2> SUFFICES ASSUME NEW m \in Ids, m \notin job.rows PROVE RowDone(m)'
    BY <1>1
  <2>1. RowDone(m) /\ m # n
    BY <1>0, <1>1 DEF RevokeProgress
  <2> QED BY <1>1, <1>2, <2>1, RowFrame
<1>4. RevokeProgress'
  BY <1>0, <1>1, <1>3 DEF RevokeProgress
<1>5. ReverseProgress'
  <2>1. CASE log'[n] = << >>
    BY <1>1, <2>1 DEF ReverseProgress
  <2>2. CASE OnTop(job.p, n) /\ log'[n] = log[n]
    <3>1. Len(log[n]) \in 1 .. Len(log[n]) /\ log[n][Len(log[n])].by = job.p
      BY <2>2, TopLine
    <3>2. Undoes(job.p, n, node[n], Before(n))
      <4>1. LineExplained(n, Len(log[n])) /\ status[job.p] = "accepted"
        BY <1>0, <3>1 DEF LogExplained, NodeExplained, RevokeProgress
      <4> QED BY <3>1, <4>1 DEF LineExplained, Settled, After, Before
    <3>3. effects[job.p][n] # NoEffect
      BY <1>0, <1>1 DEF RevokeProgress
    <3>4. Explains(effects[job.p][n].ops, node[n], Before(n))
      BY <1>1, <3>2, <3>3 DEF Undoes
    <3>5. OnTop(job.p, n)' /\ Before(n)' = Before(n)
      BY <1>1, <2>2 DEF OnTop, Before
    <3> QED BY <1>1, <3>4, <3>5 DEF ReverseProgress, Explains, OnTop, Before
  <2> QED BY <1>2, <2>1, <2>2
<1> QED BY <1>4, <1>5 DEF Progress

LEMMA ReverseOpProgress ==
  ASSUME TInv, LogExplained, Progress, ReverseOp
  PROVE  Progress'
<1> DEFINE n == job.n
           recs == effects[job.p][job.n].ops
           m == Reversed(recs[job.k], node[job.n])
<1>0. /\ job \in JobType /\ job.step = "reverse" /\ At("reverse") /\ Revoking
      /\ node \in [Ids -> AnyNode] /\ job.k \in Nat /\ job.k > 0
  BY DEF TInv, DataOK, ReverseOp, At, Revoking, JobType
<1>1. /\ job.p \in Proposals /\ n \in Ids /\ recs \in Seq(Recs)
      /\ node[n] \in Nodes /\ job.k <= Len(recs)
      /\ effects[job.p][n].change = "MODIFY" /\ status[job.p] = "accepted"
      /\ n \in job.rows /\ effects[job.p][n] # NoEffect
  BY <1>0, RowFacts DEF TInv, RowInHand, Progress, RevokeProgress, ReverseProgress
<1>2. /\ job'.p = job.p /\ job'.step = "reverse" /\ job'.rows = job.rows /\ job'.n = n
      /\ job'.k = job.k - 1
      /\ UNCHANGED << status, effects, log >>
  BY <1>0 DEF ReverseOp, JobType, Unlogged
<1>3. /\ node'[n] = m /\ \A i \in Ids : i # n => node'[i] = node[i]
  BY <1>0, <1>1 DEF ReverseOp
<1>4. RevokeProgress'
  <2>1. \A i \in Ids \ job'.rows : RowDone(i)'
    <3> SUFFICES ASSUME NEW i \in Ids, i \notin job.rows PROVE RowDone(i)'
      BY <1>2
    <3>1. RowDone(i) /\ i # n
      BY <1>0, <1>1 DEF Progress, RevokeProgress
    <3> QED BY <1>2, <1>3, <3>1, RowFrame
  <2> QED BY <1>0, <1>2, <2>1 DEF Progress, RevokeProgress
<1>5. ReverseProgress'
  <2>1. CASE log[n] = << >>
    BY <1>1, <1>2, <2>1 DEF ReverseProgress
  <2>2. CASE OnTop(job.p, n) /\ RestAgrees(recs, job.k, node[n], Before(n))
    <3>1. Len(log[n]) \in 1 .. Len(log[n]) /\ log[n][Len(log[n])].by = job.p
      BY <1>1, <2>2, TopLine
    <3>2. Undoes(job.p, n, node[n], Before(n))
      <4>1. LineExplained(n, Len(log[n]))
        BY <1>1, <3>1 DEF LogExplained, NodeExplained
      <4> QED BY <1>1, <3>1, <4>1 DEF LineExplained, Settled, After, Before
    <3>3. FirstsRight(recs, Before(n))
      BY <1>1, <3>2 DEF Undoes, Explains
    <3> HIDE DEF recs
    <3>4. RestAgrees(recs, job.k - 1, m, Before(n))
      BY <1>0, <1>1, <2>2, <3>3, RecordUndone
    <3> HIDE DEF m
    <3>5. OnTop(job.p, n)' /\ Before(n)' = Before(n)
      BY <1>2, <2>2 DEF OnTop, Before
    <3> QED BY <1>1, <1>2, <1>3, <3>4, <3>5 DEF ReverseProgress, OnTop, Before, recs
  <2> QED BY <1>0, <2>1, <2>2 DEF Progress, ReverseProgress
<1> QED BY <1>4, <1>5 DEF Progress

LEMMA ReverseEndsProgress ==
  ASSUME TInv, Progress, ReverseEnds
  PROVE  Progress'
<1>0. /\ job \in JobType /\ job.step = "reverse" /\ At("reverse") /\ Revoking /\ job.k = 0
      /\ node \in [Ids -> AnyNode] /\ job.n \in Ids
  BY DEF TInv, DataOK, ReverseEnds, At, JobSound, Revoking
<1>1. /\ job'.p = job.p /\ job'.step = "rows" /\ job'.rows = job.rows \ {job.n}
      /\ UNCHANGED << status, effects, log, node >>
  BY <1>0 DEF ReverseEnds, JobType, Unlogged
<1>2. RowDone(job.n)
  <2>1. CASE log[job.n] = << >>
    <3>1. Len(log[job.n]) = 0
      BY <2>1, EmptySeq
    <3> QED BY <2>1, <3>1 DEF RowDone, OnTop, Logged
  <2>2. CASE /\ OnTop(job.p, job.n)
             /\ RestAgrees(effects[job.p][job.n].ops, job.k, node[job.n], Before(job.n))
    <3>1. Before(job.n) \in AnyNode
      <4>1. Len(log[job.n]) \in 1 .. Len(log[job.n])
        BY <1>0, <2>2, TopLine
      <4> QED BY <1>0, <4>1, LogTypes DEF Before
    <3>2. RestAgrees(effects[job.p][job.n].ops, 0, node[job.n], Before(job.n))
      BY <1>0, <2>2
    <3>3. Same(node[job.n], Before(job.n))
      BY <1>0, <3>1, <3>2, AllUndone
    <3> QED BY <2>2, <3>3 DEF RowDone
  <2> QED BY <1>0, <2>1, <2>2 DEF Progress, ReverseProgress
<1>3. \A m \in Ids \ job'.rows : RowDone(m)
  BY <1>0, <1>1, <1>2 DEF Progress, RevokeProgress
<1>4. \A m \in Ids \ job'.rows : RowDone(m)'
  BY <1>1, <1>3 DEF RowDone, OnTop, Logged, Before
<1> QED BY <1>0, <1>1, <1>4 DEF Progress, RevokeProgress, ReverseProgress

\* A row, or a record, that fails.
LEMMA RowFailsProgress ==
  ASSUME TInv, Progress, NEW n \in Ids,
         \/ RowFails(n)
         \/ ReverseFails /\ n = job.n
  PROVE  Progress'
<1>0. /\ job \in JobType /\ Revoking /\ job.step \in {"rows", "reverse"}
      /\ ReverseFails => job.step = "reverse"
      /\ RowFails(n) => job.step = "rows"
  BY DEF TInv, RowFails, ReverseFails, At, Revoking
<1>1. /\ job'.p = job.p /\ job'.step = job.step /\ job'.n = job.n
      /\ job'.rows \in {job.rows, job.rows \ {n}}
      /\ ReverseFails => job'.rows = job.rows
      /\ UNCHANGED << status, effects, node >>
  BY <1>0 DEF RowFails, ReverseFails, JobType
<1>2. /\ log'[n] = << >> /\ \A m \in Ids : m # n => log'[m] = log[m]
  BY MuddleEffect DEF RowFails, ReverseFails
<1>3. \A m \in Ids \ job'.rows : RowDone(m)'
  <2> SUFFICES ASSUME NEW m \in Ids, m \notin job'.rows PROVE RowDone(m)'
    OBVIOUS
  <2>1. CASE m = n
    BY <1>2, <2>1, RowBroken
  <2>2. CASE m # n
    <3>1. RowDone(m)
      BY <1>0, <1>1, <2>2 DEF Progress, RevokeProgress
    <3> QED BY <1>1, <1>2, <2>2, <3>1, RowFrame
  <2> QED BY <2>1, <2>2
<1>4. RevokeProgress'
  BY <1>0, <1>1, <1>3 DEF Progress, RevokeProgress
<1>5. ReverseProgress'
  BY <1>0, <1>1, <1>2 DEF Progress, ReverseProgress
<1> QED BY <1>4, <1>5 DEF Progress

LEMMA SweepProgress ==
  ASSUME TInv, Progress, SweepChildren \/ Unlink
  PROVE  Progress'
<1>0. /\ job \in JobType /\ Revoking /\ job.p \in Proposals
      /\ effects \in [Proposals -> [Ids -> EffectType]]
  BY DEF TInv, DataOK, JobSound, SweepChildren, Unlink, At, Revoking
<1>1. /\ job'.p = job.p /\ job'.step \in {"unlink", "reopen"} /\ job'.rows = job.rows
      /\ UNCHANGED << status, log, node >>
  BY <1>0 DEF SweepChildren, Unlink, Goto, JobType, Unlogged
<1>2. job.rows = {}
  BY <1>0 DEF SweepChildren, Unlink, At, Progress, RevokeProgress
<1>3. \A m \in Ids : effects'[job.p][m] \in {effects[job.p][m], NoEffect}
  BY <1>0 DEF SweepChildren, Unlink
<1>4. \A m \in Ids : RowDone(m)
  BY <1>0, <1>2 DEF Progress, RevokeProgress
<1>5. \A m \in Ids : RowDone(m)'
  BY <1>1, <1>3, <1>4 DEF RowDone, OnTop, Logged, Before
<1> QED BY <1>0, <1>1, <1>2, <1>5 DEF Progress, RevokeProgress, ReverseProgress

LEMMA RevokeStep ==
  TInv /\ Stacked /\ LogExplained /\ Progress /\ [Next]_vars => Progress'
<1> SUFFICES ASSUME TInv, Stacked, LogExplained, Progress, [Next]_vars
             PROVE  Progress'
  OBVIOUS
<1>0. job \in JobType
  BY DEF TInv
<1>a. ASSUME ~ Revoking' PROVE Progress'
  BY <1>a DEF Progress, RevokeProgress, ReverseProgress, Revoking
<1> USE DEF Goto, Return, NextEntry, JobType, Idle
<1>1. CASE UNCHANGED vars
  BY <1>1 DEF vars, Progress, RevokeProgress, ReverseProgress, Revoking, RowDone, OnTop,
              Logged, Before
<1>2. CASE \E p \in Proposals : StartRevoke(p)
  BY <1>2, StartRevokeProgress
<1>3. CASE \E p \in Proposals : StartAccept(p)
  BY <1>0, <1>a, <1>3 DEF StartAccept, Revoking
<1>4. CASE CreateNode \/ ReuseNode \/ FindNode \/ SkipEntry
  BY <1>0, <1>a, <1>4 DEF CreateNode, ReuseNode, FindNode, SkipEntry, Revoking
<1>5. CASE ApplyOp \/ OpFails \/ AddChildren \/ RecordEffect \/ EntryFails
  BY <1>0, <1>a, <1>5 DEF ApplyOp, OpFails, AddChildren, RecordEffect, EntryFails, At, Revoking
<1>6. CASE EndEntries \/ CheckFails \/ Commit \/ Reopen \/ Crash
  BY <1>0, <1>a, <1>6 DEF EndEntries, CheckFails, Commit, Reopen, Crash, Revoking
<1>7. CASE \E n \in Ids : DeleteNode(n) \/ ReverseFirst(n) \/ RowFails(n)
  BY <1>7, DeleteProgress, ReverseFirstProgress, RowFailsProgress DEF Progress
<1>8. CASE ReverseOp
  BY <1>8, ReverseOpProgress
<1>9. CASE ReverseFails
  <2>1. job.n \in Ids
    BY <1>9, RowFacts DEF ReverseFails
  <2> QED BY <1>9, <2>1, RowFailsProgress
<1>10. CASE ReverseEnds
  BY <1>10, ReverseEndsProgress
<1>11. CASE SweepChildren \/ Unlink
  BY <1>11, SweepProgress
<1> QED BY <1>1, <1>2, <1>3, <1>4, <1>5, <1>6, <1>7, <1>8, <1>9, <1>10, <1>11 DEF Next

-----------------------------------------------------------------------------
(* The history stays explained *)

LEMMA StartAcceptLog ==
  ASSUME TInv, LogExplained, NEW p \in Proposals, StartAccept(p)
  PROVE  LogExplained'
<1>1. job'.p = p /\ UNCHANGED << status, effects, node >>
  BY DEF StartAccept, Idle
<1>2. \A n \in Ids : log'[n] = IF Logged(p, n) THEN << >> ELSE log[n]
  BY MuddleEffect DEF StartAccept
<1>3. \A n \in Ids : log'[n] = << >> \/ Untouched(n)
  <2> SUFFICES ASSUME NEW n \in Ids, ~ Logged(p, n) PROVE Untouched(n)
    BY <1>2
  <2>1. ASSUME NEW q \in Proposals, Logged(q, n) PROVE Kept(q, n)
    <3>1. q # p
      BY <2>1
    <3> QED BY <1>1, <3>1, KeepsSay
  <2> QED BY <1>1, <1>2, <2>1 DEF Untouched
<1> QED BY <1>3, LogFrame

\* A node is taken in hand, or no node: the others are let alone.
LEMMA TakeUpLog ==
  ASSUME TInv, At("resolve"), job'.p = job.p, UNCHANGED << status, effects >>,
         NEW n \in Ids, log'[n] = log[n], node'[n] = node[n]
  PROVE  Untouched(n)
<1>1. ASSUME NEW q \in Proposals PROVE Kept(q, n)
  <2>1. q = job.p => Accepting /\ ~ Working
    BY DEF At, Accepting, Working
  <2> QED BY <2>1, KeepsSay
<1> QED BY <1>1 DEF Untouched

LEMMA CreateLog ==
  ASSUME TInv, Stacked, AcceptOpen, LogExplained, CreateNode
  PROVE  LogExplained'
<1>0. /\ job \in JobType /\ job.p \in Proposals /\ At("resolve") /\ job.step = "resolve"
      /\ status[job.p] = "open" /\ node \in [Ids -> AnyNode]
  BY DEF TInv, CreateNode, At, JobSound, DataOK, AcceptOpen, Accepting
<1>1. PICK n \in Fresh(Entry.name) :
        /\ node' = [node EXCEPT ![n] = [by |-> job.p, text |-> Null, list |-> {}]]
        /\ Touch(job.p, n)
        /\ job' = [job EXCEPT !.step = "ops", !.n = n]
  BY DEF CreateNode
<1>2. n \in Ids /\ Len(log[n]) = 0
  BY LogTypes DEF Fresh
<1>3. job'.p = job.p /\ job'.n = n /\ job'.step = "ops" /\ UNCHANGED << status, effects >>
  BY <1>0, <1>1 DEF JobType, CreateNode
<1>4. \A m \in Ids : m # n => log'[m] = log[m] /\ node'[m] = node[m]
  BY <1>0, <1>1, <1>2, TouchEffect
<1>5. NodeExplained(n)'
  <2>1. CASE log'[n] = << >>
    <3>1. Len(log'[n]) = 0
      BY <2>1, EmptySeq
    <3> QED BY <3>1 DEF NodeExplained
  <2>2. CASE log'[n] # << >>
    <3>1. /\ Len(log'[n]) = Len(log[n]) + 1
          /\ log'[n][Len(log[n]) + 1] = [by |-> job.p, before |-> node[n]]
      BY <1>0, <1>1, <1>2, <2>2, TouchEffect
    <3>2. Len(log'[n]) = 1 /\ log'[n][1].by = job.p
      BY <1>2, <3>1
    <3>3. ~ Settled(log[n][1].by, n)'
      BY <1>0, <1>3, <3>2 DEF Settled, Working
    <3>4. LineExplained(n, 1)'
      BY <3>3 DEF LineExplained
    <3>5. \A h \in 1 .. 1 : h = 1
      OBVIOUS
    <3> QED BY <3>2, <3>4, <3>5 DEF NodeExplained
  <2> QED BY <2>1, <2>2
<1>6. \A m \in Ids : Untouched(m) \/ NodeExplained(m)'
  BY <1>0, <1>3, <1>4, <1>5, TakeUpLog
<1> QED BY <1>6, LogFrame

LEMMA FindLog ==
  ASSUME TInv, Stacked, AcceptOpen, LogExplained, FindNode
  PROVE  LogExplained'
<1>0. /\ job \in JobType /\ job.p \in Proposals /\ job.step = "resolve" /\ job.i > 0
      /\ node \in [Ids -> AnyNode] /\ At("resolve") /\ status[job.p] = "open"
  BY DEF TInv, FindNode, At, JobSound, DataOK, Accepting, AcceptOpen
<1>1. PICK n \in (IF Entry.id # None THEN {Entry.id} ELSE Named(Entry.name)) :
        /\ IF node[n] = NoNode THEN Unlogged ELSE Touch(job.p, n)
        /\ job' = [job EXCEPT !.step = "ops", !.n = n]
  BY DEF FindNode
<1>2. n \in Ids
  <2>1. Entry \in Entries
    BY <1>0, EntryType DEF FindNode
  <2> QED BY <2>1 DEF Entries, Named
<1>3. /\ job'.p = job.p /\ job'.n = n /\ job'.step = "ops"
      /\ UNCHANGED << status, effects, node >>
  BY <1>0, <1>1 DEF JobType, FindNode
<1>4. CASE node[n] = NoNode
  <2>1. log' = log
    BY <1>1, <1>4 DEF Unlogged
  <2> QED BY <1>0, <1>3, <2>1, TakeUpLog, LogFrame
<1>5. CASE node[n] # NoNode
  <2>1. Touch(job.p, n)
    BY <1>1, <1>5
  <2>2. \A m \in Ids : m # n => log'[m] = log[m]
    BY <1>0, <1>2, <2>1, TouchEffect
  <2>3. NodeExplained(n)'
    <3>1. CASE log'[n] = << >>
      <4>1. Len(log'[n]) = 0
        BY <3>1, EmptySeq
      <4> QED BY <4>1 DEF NodeExplained
    <3>2. CASE log'[n] # << >>
      <4>0. PICK L \in Nat : L = Len(log[n])
        BY <1>2, LogTypes
      <4>2. /\ Len(log'[n]) = L + 1
            /\ log'[n][L + 1] = [by |-> job.p, before |-> node[n]]
            /\ \A h \in 1 .. L : log'[n][h] = log[n][h]
        BY <1>0, <1>2, <2>1, <3>2, <4>0, TouchEffect
      <4>3. log'[n][L + 1].by = job.p /\ log'[n][L + 1].before = node[n]
        BY <4>2
      <4>4. LineExplained(n, L + 1)'
        <5>1. ~ Settled(log[n][L + 1].by, n)'
          BY <1>0, <1>3, <4>3 DEF Settled, Working
        <5> QED BY <5>1 DEF LineExplained
      <4>5. ASSUME NEW h \in 1 .. L PROVE LineExplained(n, h)'
        <5>1. After(n, h)' = After(n, h)
          <6>1. CASE h = L
            BY <1>3, <4>0, <4>2, <4>3, <6>1 DEF After
          <6>2. CASE h # L
            <7>1. h + 1 \in 1 .. L /\ h # L + 1
              BY <6>2
            <7> QED BY <4>0, <4>2, <6>2, <7>1 DEF After
          <6> QED BY <6>1, <6>2
        <5>2. \A q \in Proposals : Kept(q, n)
          <6>1. ASSUME NEW q \in Proposals PROVE Kept(q, n)
            <7>1. q = job.p => Accepting /\ ~ Working
              BY <1>0 DEF Accepting, Working
            <7> QED BY <1>2, <1>3, <7>1, KeepsSay
          <6> QED BY <6>1
        <5>3. LineExplained(n, h) /\ h \in 1 .. Len(log[n])
          BY <1>2, <4>0 DEF LogExplained, NodeExplained
        <5> QED BY <1>2, <4>2, <5>1, <5>2, <5>3, LineFrame
      <4>6. \A h \in 1 .. L + 1 : h \in 1 .. L \/ h = L + 1
        OBVIOUS
      <4> QED BY <4>2, <4>4, <4>5, <4>6 DEF NodeExplained
    <3> QED BY <3>1, <3>2
  <2>4. \A m \in Ids : Untouched(m) \/ NodeExplained(m)'
    BY <1>0, <1>3, <2>2, <2>3, TakeUpLog
  <2> QED BY <2>4, LogFrame
<1> QED BY <1>4, <1>5

\* The node in hand changes under the records of the entry; its proposal is
\* not settled there, and the lines below see nothing of it.
LEMMA ApplyLog ==
  ASSUME TInv, Stacked, AcceptOpen, LogExplained, WorkExplained, ApplyOp
  PROVE  LogExplained'
<1>0. /\ job \in JobType /\ job.p \in Proposals /\ job.step = "ops" /\ job.n \in Ids /\ Working
      /\ node \in [Ids -> AnyNode] /\ status[job.p] = "open"
  BY DEF TInv, ApplyOp, At, JobSound, DataOK, Working, Accepting, AcceptOpen
<1>1. PICK n \in Ids : n = job.n
  BY <1>0
<1>2. /\ job'.p = job.p /\ job'.n = n /\ job'.step = "ops"
      /\ UNCHANGED << status, effects, log >>
  BY <1>0, <1>1 DEF JobType, ApplyOp, Unlogged
<1>3. ASSUME NEW q \in Proposals, NEW m \in Ids PROVE Kept(q, m)
  <2>1. q = job.p => Accepting /\ (job.n = m => job'.n = m) /\ Working'
    BY <1>0, <1>1, <1>2 DEF Accepting, Working
  <2> QED BY <1>2, <2>1, KeepsSay
<1>4. \A m \in Ids : m # n => node'[m] = node[m]
  BY <1>0, <1>1 DEF ApplyOp
<1>5. node[n] = NoNode => node' = node
  BY <1>1 DEF ApplyOp
<1>6. CASE log[n] = << >> \/ node[n] = NoNode
  BY <1>2, <1>3, <1>4, <1>5, <1>6, LogFrame DEF Untouched
<1>7. CASE OnTop(job.p, n)
  <2>1. NodeExplained(n)'
    <3> SUFFICES ASSUME NEW h \in 1 .. Len(log[n]) PROVE LineExplained(n, h)'
      BY <1>2 DEF NodeExplained
    <3>1. CASE h = Len(log[n])
      <4>1. log'[n][h].by = job.p
        BY <1>2, <1>7, <3>1 DEF OnTop
      <4>2. ~ Settled(log[n][h].by, n)'
        BY <1>0, <1>2, <4>1 DEF Settled, Working
      <4> QED BY <4>2 DEF LineExplained
    <3>2. CASE h # Len(log[n])
      <4>1. After(n, h)' = After(n, h) /\ log'[n][h] = log[n][h]
        BY <1>2, <3>2 DEF After
      <4>2. LineExplained(n, h)
        BY DEF LogExplained, NodeExplained
      <4> QED BY <1>3, <4>1, <4>2, LineFrame
    <3> QED BY <3>1, <3>2
  <2>2. \A m \in Ids : Untouched(m) \/ NodeExplained(m)'
    BY <1>2, <1>3, <1>4, <2>1 DEF Untouched
  <2> QED BY <2>2, LogFrame
<1> QED BY <1>0, <1>1, <1>6, <1>7 DEF WorkExplained

\* The EFFECT that the entry leaves is one that undoes it.
LEMMA RecordLog ==
  ASSUME TInv, Stacked, AcceptOpen, LogExplained, WorkExplained, RecordEffect
  PROVE  LogExplained'
<1>0. /\ job \in JobType /\ job.p \in Proposals /\ job.step = "effect" /\ job.n \in Ids /\ Working
      /\ effects \in [Proposals -> [Ids -> EffectType]] /\ Accepting
  BY DEF TInv, RecordEffect, At, JobSound, DataOK, Working, Accepting
<1>1. PICK n \in Ids : n = job.n
  BY <1>0
<1>2. PICK p \in Proposals : p = job.p
  BY <1>0
<1>3. /\ job'.p = p /\ job'.step = "resolve"
      /\ UNCHANGED << status, node, log >>
  BY <1>0, <1>2 DEF JobType, RecordEffect, NextEntry, Unlogged
<1>4. /\ node[n] = NoNode => effects' = effects
      /\ node[n] # NoNode =>
           effects' = [effects EXCEPT ![p][n] = [change |-> Change(Entry), ops |-> job.recs]]
  BY <1>1, <1>2 DEF RecordEffect
<1>5. \A q \in Proposals, m \in Ids : q # p \/ m # n => effects'[q][m] = effects[q][m]
  BY <1>0, <1>4
<1>6. ASSUME NEW q \in Proposals, NEW m \in Ids, q # p \/ m # n
      PROVE  Kept(q, m)
  BY <1>0, <1>1, <1>2, <1>3, <1>5, <1>6, KeepsSay
<1>7. CASE log[n] = << >> \/ (node[n] = NoNode /\ ~ Logged(p, n))
  <2>1. \A m \in Ids : m # n => Untouched(m)
    BY <1>3, <1>6 DEF Untouched
  <2>2. log'[n] = << >> \/ Untouched(n)
    <3>1. CASE log[n] = << >>
      BY <1>3, <3>1
    <3>2. CASE ~ Logged(p, n)
      BY <1>3, <1>6, <3>2 DEF Untouched
    <3> QED BY <1>7, <3>1, <3>2
  <2> QED BY <2>1, <2>2, LogFrame
<1>8. CASE /\ OnTop(p, n) /\ node[n] # NoNode
           /\ Entry.kind = "modify" => Explains(job.recs, node[n], Before(n))
           /\ Entry.kind # "modify" => Before(n) = NoNode
  <2> DEFINE e == [change |-> Change(Entry), ops |-> job.recs]
  <2>1. effects'[p][n] = e
    BY <1>0, <1>4, <1>8
  <2>2. /\ e.change = IF Entry.kind = "modify" THEN "MODIFY" ELSE "CREATE"
        /\ e.ops = job.recs
    BY DEF Change
  <2> HIDE DEF e
  <2>3. NodeExplained(n)'
    <3> SUFFICES ASSUME NEW h \in 1 .. Len(log[n]) PROVE LineExplained(n, h)'
      BY <1>3 DEF NodeExplained
    <3>1. CASE h = Len(log[n])
      <4>1. log'[n][h].by = p /\ log'[n][h].before = Before(n) /\ After(n, h)' = node[n]
        BY <1>3, <1>8, <3>1 DEF OnTop, Before, After
      <4>2. \/ effects'[p][n].change = "CREATE" /\ log'[n][h].before = NoNode
            \/ /\ effects'[p][n].change = "MODIFY"
               /\ Explains(effects'[p][n].ops, After(n, h)', log'[n][h].before)
        BY <1>8, <2>1, <2>2, <4>1
      <4> QED BY <4>1, <4>2 DEF LineExplained, Undoes
    <3>2. CASE h # Len(log[n])
      <4>1. After(n, h)' = After(n, h) /\ log'[n][h] = log[n][h]
        BY <1>3 DEF After
      <4>2. log[n][h].by # p
        BY <1>8, <3>2, TopOnly
      <4>3. LineExplained(n, h)
        BY DEF LogExplained, NodeExplained
      <4>4. \A q \in Proposals : q = log[n][h].by => Kept(q, n)
        BY <1>6, <4>2
      <4> QED BY <4>1, <4>3, <4>4, LineFrame
    <3> QED BY <3>1, <3>2
  <2>4. \A m \in Ids : Untouched(m) \/ NodeExplained(m)'
    BY <1>3, <1>6, <2>3 DEF Untouched
  <2> QED BY <2>4, LogFrame
<1> QED BY <1>0, <1>1, <1>2, <1>7, <1>8 DEF WorkExplained

LEMMA EntryFailsLog ==
  ASSUME TInv, LogExplained, EntryFails
  PROVE  LogExplained'
<1>0. /\ job \in JobType /\ job.p \in Proposals /\ Accepting
      /\ Working => job.n \in Ids
  BY DEF TInv, EntryFails, JobSound, Working, Accepting
<1>1. job'.p = job.p /\ UNCHANGED << status, effects, node >>
  BY <1>0 DEF EntryFails, NextEntry, JobType
<1>2. \A m \in Ids : log'[m] = << >> \/ (log'[m] = log[m] /\ (Working => m # job.n))
  <2>1. CASE job.n = None
    <3>1. ~ Working
      BY <1>0, <2>1, ConstantsAssumption
    <3> QED BY <2>1, <3>1 DEF EntryFails, Unlogged
  <2>2. CASE job.n # None
    BY <2>2, MuddleEffect DEF EntryFails
  <2> QED BY <2>1, <2>2
<1>3. ASSUME NEW m \in Ids, log'[m] = log[m], Working => m # job.n PROVE Untouched(m)
  <2>1. ASSUME NEW q \in Proposals PROVE Kept(q, m)
    BY <1>0, <1>1, <1>3, KeepsSay
  <2> QED BY <1>1, <1>3, <2>1 DEF Untouched
<1> QED BY <1>2, <1>3, LogFrame

\* Steps of a revocation, and those that end a handler or start a revocation:
\* what is settled then are the accepted proposals.
LEMMA QuietLog ==
  ASSUME TInv, LogExplained, ~ Accepting', UNCHANGED << status, effects, node >>,
         \A n \in Ids : log'[n] = << >> \/ log'[n] = log[n]
  PROVE  LogExplained'
<1>1. \A q \in Proposals, n \in Ids : Kept(q, n)
  BY KeepsSay
<1> QED BY <1>1, LogFrame DEF Untouched

LEMMA CommitLog ==
  ASSUME TInv, LogExplained, Commit
  PROVE  LogExplained'
<1>1. /\ job.p \in Proposals /\ job.step = "commit" /\ Accepting /\ ~ Working
      /\ status \in [Proposals -> {"open", "accepted"}]
  BY DEF TInv, Commit, At, JobSound, Accepting, Working, DataOK
<1>2. /\ job'.step = "idle" /\ status' = [status EXCEPT ![job.p] = "accepted"]
      /\ UNCHANGED << effects, node, log >>
  BY DEF Commit, Return, Idle, Unlogged
<1>3. ASSUME NEW q \in Proposals, NEW n \in Ids PROVE Kept(q, n)
  <2>1. Settled(q, n)' => status[q] = "accepted" \/ q = job.p
    BY <1>1, <1>2 DEF Settled, Accepting
  <2>2. status[q] = "accepted" => status'[q] = "accepted"
    BY <1>1, <1>2
  <2>3. q = job.p => Settled(q, n)
    BY <1>1 DEF Settled
  <2> QED BY <1>2, <2>1, <2>2, <2>3 DEF Kept, Settled
<1> QED BY <1>2, <1>3, LogFrame DEF Untouched

LEMMA DeleteLog ==
  ASSUME TInv, Stacked, LogExplained, RevokeProgress, NEW n \in Ids, DeleteNode(n)
  PROVE  LogExplained'
<1>0. /\ job \in JobType /\ job.p \in Proposals /\ job.step = "rows" /\ Revoking
      /\ effects \in [Proposals -> [Ids -> EffectType]] /\ node \in [Ids -> AnyNode]
      /\ status[job.p] = "accepted"
  BY DEF TInv, DataOK, DeleteNode, At, JobSound, Revoking, RevokeProgress
<1>1. ~ Accepting' /\ status' = status
  BY <1>0 DEF DeleteNode, JobType, Accepting
<1>2. /\ node'[n] = NoNode /\ \A m \in Ids : m # n => node'[m] = node[m]
      /\ \A q \in Proposals, m \in Ids :
           effects'[q][m] = IF m = n THEN NoEffect ELSE effects[q][m]
  BY <1>0 DEF DeleteNode
<1>3. /\ \A m \in Ids : m # n => log'[m] = log[m]
      /\ log'[n] = << >> \/ (OnTop(job.p, n) /\ log'[n] = log[n])
  BY MuddleEffect DEF DeleteNode, Unlogged
<1>4. \A m \in Ids : m # n => Untouched(m)
  <2> SUFFICES ASSUME NEW m \in Ids, m # n PROVE Untouched(m)
    OBVIOUS
  <2>1. ASSUME NEW q \in Proposals PROVE Kept(q, m)
    BY <1>1, <1>2, KeepsSay
  <2> QED BY <1>2, <1>3, <2>1 DEF Untouched
<1>5. CASE OnTop(job.p, n) /\ log'[n] = log[n]
  <2>1. Before(n) = NoNode /\ Len(log[n]) = 1
    BY <1>5, DeletedWasNone
  <2>2. log'[n][1].by = job.p /\ log'[n][1].before = NoNode /\ After(n, 1)' = NoNode
    BY <1>2, <1>5, <2>1 DEF Before, OnTop, After
  <2>3. /\ effects'[log'[n][1].by][n] = NoEffect
        /\ status'[log'[n][1].by] = "accepted"
    BY <1>0, <1>1, <1>2, <2>2
  <2>4. LineExplained(n, 1)'
    BY <2>2, <2>3 DEF LineExplained, Undoes, Same
  <2>5. \A h \in 1 .. 1 : h = 1
    OBVIOUS
  <2>6. NodeExplained(n)'
    BY <1>5, <2>1, <2>4, <2>5 DEF NodeExplained
  <2> QED BY <1>4, <2>6, LogFrame
<1>6. CASE log'[n] = << >>
  BY <1>4, <1>6, LogFrame
<1> QED BY <1>3, <1>5, <1>6

LEMMA ReverseOpLog ==
  ASSUME TInv, Stacked, LogExplained, Progress, ReverseOp
  PROVE  LogExplained'
<1>0. /\ job \in JobType /\ job.step = "reverse" /\ At("reverse") /\ Revoking
      /\ node \in [Ids -> AnyNode] /\ job.k \in Nat /\ job.k > 0
  BY DEF TInv, DataOK, ReverseOp, At, Revoking, JobType
<1>1. PICK n \in Ids : n = job.n
  BY <1>0, RowFacts
<1>2. PICK p \in Proposals : p = job.p
  BY <1>0, RowFacts
<1> DEFINE recs == effects[p][n].ops
           m == Reversed(recs[job.k], node[n])
<1>3. /\ recs \in Seq(Recs)
      /\ node[n] \in Nodes /\ job.k <= Len(recs)
      /\ effects[p][n].change = "MODIFY" /\ status[p] = "accepted"
      /\ effects[p][n] # NoEffect
  BY <1>0, <1>1, <1>2, RowFacts DEF TInv, RowInHand, Progress, RevokeProgress, ReverseProgress
<1>4. /\ ~ Accepting' /\ UNCHANGED << status, effects, log >>
  BY <1>0 DEF ReverseOp, JobType, Unlogged, Accepting
<1>5. node'[n] = m /\ \A i \in Ids : i # n => node'[i] = node[i]
  BY <1>0, <1>1, <1>2 DEF ReverseOp
<1>6. \A q \in Proposals, i \in Ids : Kept(q, i)
  BY <1>4, KeepsSay
<1>7. CASE log[n] = << >>
  BY <1>4, <1>5, <1>6, <1>7, LogFrame DEF Untouched
<1>8. CASE OnTop(p, n) /\ RestAgrees(recs, job.k, node[n], Before(n))
  <2>1. Len(log[n]) \in 1 .. Len(log[n]) /\ log[n][Len(log[n])].by = p
    BY <1>8, TopLine
  <2>2. FirstsRight(recs, Before(n))
    <3>1. LineExplained(n, Len(log[n]))
      BY <2>1 DEF LogExplained, NodeExplained
    <3>2. Undoes(p, n, node[n], Before(n))
      BY <1>3, <2>1, <3>1 DEF LineExplained, Settled, After, Before
    <3> QED BY <1>3, <3>2 DEF Undoes, Explains
  <2>3. Explains(recs, m, Before(n))
    <3>1. Len(recs) \in Nat
      BY <1>3, LenProperties
    <3> HIDE DEF recs
    <3>2. RestAgrees(recs, job.k - 1, m, Before(n))
      BY <1>0, <1>3, <1>8, <2>2, RecordUndone
    <3> DEFINE l == Len(recs)
    <3>3. l \in Nat /\ job.k <= l
      BY <1>3, <3>1
    <3> HIDE DEF l, m
    <3>4. job.k - 1 \in Nat /\ job.k - 1 <= l
      BY <1>0, <3>3
    <3>5. RestAgrees(recs, l, m, Before(n))
      BY <3>2, <3>3, <3>4, MoreRecords
    <3> QED BY <2>2, <3>5 DEF Explains, l
  <2>4. NodeExplained(n)'
    <3> SUFFICES ASSUME NEW h \in 1 .. Len(log[n]) PROVE LineExplained(n, h)'
      BY <1>4 DEF NodeExplained
    <3>1. CASE h = Len(log[n])
      <4>1. log'[n][h].by = p /\ log'[n][h].before = Before(n) /\ After(n, h)' = m
        BY <1>4, <1>5, <2>1, <3>1 DEF Before, After
      <4>2. /\ effects'[p][n].change = "MODIFY"
            /\ Explains(effects'[p][n].ops, m, Before(n))
        BY <1>3, <1>4, <2>3
      <4> HIDE DEF m, recs
      <4> QED BY <4>1, <4>2 DEF LineExplained, Undoes
    <3>2. CASE h # Len(log[n])
      <4>1. After(n, h)' = After(n, h) /\ log'[n][h] = log[n][h]
        BY <1>4, <3>2 DEF After
      <4>2. LineExplained(n, h)
        BY DEF LogExplained, NodeExplained
      <4> QED BY <1>6, <4>1, <4>2, LineFrame
    <3> QED BY <3>1, <3>2
  <2>5. \A i \in Ids : Untouched(i) \/ NodeExplained(i)'
    BY <1>4, <1>5, <1>6, <2>4 DEF Untouched
  <2> QED BY <2>5, LogFrame
<1> QED BY <1>0, <1>1, <1>2, <1>7, <1>8 DEF Progress, ReverseProgress

\* When the EFFECT relations go, what they led back to is reached.
LEMMA UnlinkLog ==
  ASSUME TInv, Stacked, LogExplained, RevokeProgress, Unlink
  PROVE  LogExplained'
<1>0. /\ job \in JobType /\ Revoking /\ status[job.p] = "accepted" /\ job.rows = {}
      /\ effects \in [Proposals -> [Ids -> EffectType]]
  BY DEF TInv, DataOK, Unlink, At, Revoking, RevokeProgress
<1>1. PICK p \in Proposals : p = job.p
  BY DEF TInv, JobSound, Unlink, At
<1>2. /\ ~ Accepting' /\ UNCHANGED << status, log, node >>
      /\ effects' = [effects EXCEPT ![p] = [n \in Ids |-> NoEffect]]
  BY <1>0, <1>1 DEF Unlink, Goto, JobType, Unlogged, Accepting
<1>3. /\ \A n \in Ids : effects'[p][n] = NoEffect
      /\ \A q \in Proposals, n \in Ids : q # p => effects'[q][n] = effects[q][n]
  BY <1>0, <1>2
<1>4. ASSUME NEW n \in Ids PROVE NodeExplained(n)'
  <2> SUFFICES ASSUME NEW h \in 1 .. Len(log[n]) PROVE LineExplained(n, h)'
    BY <1>2 DEF NodeExplained
  <2>1. After(n, h)' = After(n, h) /\ log'[n][h] = log[n][h]
    BY <1>2 DEF After
  <2>2. RowDone(n) /\ LineExplained(n, h)
    BY <1>0 DEF RevokeProgress, LogExplained, NodeExplained
  <2>3. CASE log[n][h].by # p
    <3>1. \A q \in Proposals : q # p => Kept(q, n)
      BY <1>2, <1>3, KeepsSay
    <3> QED BY <2>1, <2>2, <2>3, <3>1, LineFrame
  <2>4. CASE log[n][h].by = p
    <3>1. Same(After(n, h), log[n][h].before)
      <4>1. CASE OnTop(p, n)
        <5>1. h = Len(log[n])
          BY <2>4, <4>1, TopOnly
        <5> QED BY <1>1, <2>2, <4>1, <5>1 DEF RowDone, After, Before
      <4>2. CASE ~ OnTop(p, n)
        <5>1. effects[p][n] = NoEffect
          BY <1>1, <2>2, <2>4, <4>2 DEF RowDone, Logged
        <5>2. effects[p][n].change \notin {"CREATE", "MODIFY"}
          BY <1>0, <5>1, EffectFields
        <5>3. Undoes(p, n, After(n, h), log[n][h].before)
          BY <1>0, <1>1, <2>2, <2>4 DEF LineExplained, Settled
        <5> QED BY <5>2, <5>3 DEF Undoes
      <4> QED BY <4>1, <4>2
    <3>2. Undoes(log[n][h].by, n, After(n, h), log[n][h].before)'
      BY <1>0, <1>1, <1>2, <1>3, <2>1, <2>4, <3>1 DEF Undoes
    <3> QED BY <3>2 DEF LineExplained
  <2> QED BY <2>3, <2>4
<1> QED BY <1>4 DEF LogExplained

\* Reopening takes the proposal's line off the logs it is on top of: the line
\* below is about a node that is the same as the one the proposal found.
LEMMA ReopenLog ==
  ASSUME TInv, Stacked, LogExplained, RevokeProgress, Reopen
  PROVE  LogExplained'
<1>0. /\ Revoking /\ job.rows = {} /\ status \in [Proposals -> {"open", "accepted"}]
  BY DEF TInv, DataOK, Reopen, At, Revoking, RevokeProgress
<1>1. PICK p \in Proposals : p = job.p
  BY DEF TInv, JobSound, Reopen, At
<1>2. /\ job'.step = "idle" /\ status' = [status EXCEPT ![p] = "open"]
      /\ UNCHANGED << effects, node >>
  BY <1>1 DEF Reopen, Return, Idle
<1>3. ASSUME NEW q \in Proposals, NEW n \in Ids PROVE Kept(q, n)
  <2>1. Settled(q, n)' => status[q] = "accepted" /\ q # p
    BY <1>0, <1>2 DEF Settled, Accepting
  <2>2. q # p => status'[q] = status[q]
    BY <1>0, <1>2
  <2> QED BY <1>2, <2>1, <2>2 DEF Kept, Settled
<1>4. ASSUME NEW n \in Ids, ~ OnTop(p, n) PROVE Untouched(n)
  <2>1. log'[n] = log[n]
    BY <1>1, <1>4, ReopenEffect
  <2> QED BY <1>2, <1>3, <2>1 DEF Untouched
<1>5. ASSUME NEW n \in Ids, OnTop(p, n) PROVE NodeExplained(n)'
  <2>0. PICK L \in Nat : L = Len(log[n])
    BY LogTypes
  <2>1. Len(log'[n]) = L - 1 /\ \A h \in 1 .. L - 1 : log'[n][h] = log[n][h]
    BY <1>1, <1>5, <2>0, ReopenEffect
  <2>2. L \in 1 .. L /\ Same(node[n], log[n][L].before)
    BY <1>0, <1>1, <1>5, <2>0, TopLine DEF RevokeProgress, RowDone, Before
  <2> SUFFICES ASSUME NEW h \in 1 .. L - 1 PROVE LineExplained(n, h)'
    BY <2>1 DEF NodeExplained
  <2>3. h \in 1 .. L /\ log'[n][h] = log[n][h]
    BY <2>1
  <2>4. LineExplained(n, h)
    BY <2>0, <2>3 DEF LogExplained, NodeExplained
  <2>5. CASE h # L - 1
    <3>1. h + 1 \in 1 .. L - 1 /\ h # L
      BY <2>5
    <3>2. After(n, h)' = After(n, h)
      BY <2>0, <2>1, <2>5, <3>1 DEF After
    <3>3. h \in 1 .. Len(log[n])
      BY <2>0, <2>3
    <3> QED BY <1>3, <2>3, <2>4, <3>2, <3>3, LineFrame
  <2>6. CASE h = L - 1
    <3>1. h # L /\ h + 1 = L
      BY <2>6
    <3>2. After(n, h)' = node[n] /\ After(n, h) = log[n][L].before
      BY <1>2, <2>0, <2>1, <2>6, <3>1 DEF After
    <3>3. PICK q \in Proposals : q = log[n][h].by
      BY <2>0, <2>3, LogTypes
    <3>4. CASE ~ Settled(q, n)'
      <4>1. ~ Settled(log[n][h].by, n)'
        BY <2>3, <3>3, <3>4 DEF Settled
      <4> QED BY <4>1 DEF LineExplained
    <3>5. CASE Settled(q, n)'
      <4>1. /\ Settled(q, n) /\ (status[q] = "accepted" => status'[q] = "accepted")
            /\ effects'[q][n] = effects[q][n]
        BY <1>3, <3>5 DEF Kept
      <4>2. Undoes(q, n, log[n][L].before, log[n][h].before)
        BY <2>4, <3>2, <3>3, <4>1 DEF LineExplained
      <4>3. \A recs : Explains(recs, log[n][L].before, log[n][h].before)
                        => Explains(recs, node[n], log[n][h].before)
        <5>1. Same(log[n][L].before, node[n])
          BY <2>2 DEF Same
        <5> QED BY <5>1, SameExplained
      <4>4. Same(log[n][L].before, log[n][h].before) => Same(node[n], log[n][h].before)
        BY <2>2 DEF Same
      <4>5. Undoes(log[n][h].by, n, After(n, h), log[n][h].before)'
        BY <2>3, <3>2, <3>3, <4>1, <4>2, <4>3, <4>4 DEF Undoes
      <4> QED BY <4>5 DEF LineExplained
    <3> QED BY <3>4, <3>5
  <2> QED BY <2>5, <2>6
<1> QED BY <1>1, <1>4, <1>5, LogFrame

LEMMA LogStep == RInv /\ [Next]_vars => LogExplained'
<1> SUFFICES ASSUME RInv, [Next]_vars PROVE LogExplained'
  OBVIOUS
<1>0. /\ TInv /\ Stacked /\ AcceptOpen /\ LogExplained /\ WorkExplained /\ Progress
      /\ RevokeProgress /\ job \in JobType
  BY DEF RInv, Progress, TInv
<1>a. ASSUME At("resolve"), job'.p = job.p, UNCHANGED << status, effects, node >>,
             \A n \in Ids : log'[n] = << >> \/ log'[n] = log[n]
      PROVE  LogExplained'
  BY <1>0, <1>a, TakeUpLog, LogFrame
<1> USE DEF Goto, Return, NextEntry, JobType, Idle
<1>1. CASE UNCHANGED vars
  <2>1. /\ UNCHANGED << status, effects, node, log, job >>
    BY <1>1 DEF vars
  <2>2. \A q \in Proposals, n \in Ids : Kept(q, n)
    BY <2>1 DEF Kept, Settled, Accepting, Working
  <2> QED BY <1>0, <2>1, <2>2, LogFrame DEF Untouched
<1>2. CASE \E p \in Proposals : StartAccept(p)
  BY <1>0, <1>2, StartAcceptLog
<1>3. CASE \E p \in Proposals : StartRevoke(p)
  BY <1>0, <1>3, QuietLog DEF StartRevoke, Accepting, Unlogged
<1>4. CASE CreateNode
  BY <1>0, <1>4, CreateLog
<1>5. CASE ReuseNode
  <2>1. PICK n \in Named(Entry.name) :
          Muddle({n}) /\ job' = [job EXCEPT !.step = "ops", !.n = n]
    BY <1>5 DEF ReuseNode
  <2>2. job'.p = job.p /\ \A m \in Ids : log'[m] = << >> \/ log'[m] = log[m]
    BY <1>0, <2>1, MuddleEffect
  <2> QED BY <1>5, <1>a, <2>2 DEF ReuseNode
<1>6. CASE FindNode
  BY <1>0, <1>6, FindLog
<1>7. CASE SkipEntry
  BY <1>0, <1>7, <1>a DEF SkipEntry, Unlogged
<1>8. CASE ApplyOp
  BY <1>0, <1>8, ApplyLog
<1>9. CASE OpFails \/ AddChildren
  <2>1. /\ UNCHANGED << status, effects, node, log >> /\ Accepting /\ Working'
        /\ job'.p = job.p /\ job'.n = job.n
    BY <1>0, <1>9 DEF OpFails, AddChildren, Unlogged, At, Accepting, Working
  <2>2. \A q \in Proposals, n \in Ids : Kept(q, n)
    BY <2>1, KeepsSay
  <2> QED BY <1>0, <2>1, <2>2, LogFrame DEF Untouched
<1>10. CASE RecordEffect
  BY <1>0, <1>10, RecordLog
<1>11. CASE EntryFails
  BY <1>0, <1>11, EntryFailsLog
<1>12. CASE EndEntries
  <2>1. \/ ~ Accepting'
        \/ At("resolve") /\ job'.p = job.p
    BY <1>0, <1>12 DEF EndEntries, Accepting
  <2>2. UNCHANGED << status, effects, node, log >>
    BY <1>12 DEF EndEntries, Unlogged
  <2> QED BY <1>0, <1>a, <2>1, <2>2, QuietLog
<1>13. CASE CheckFails \/ Crash
  BY <1>0, <1>13, QuietLog DEF CheckFails, Crash, Accepting, Unlogged
<1>14. CASE Commit
  BY <1>0, <1>14, CommitLog
<1>15. CASE \E n \in Ids : DeleteNode(n)
  BY <1>0, <1>15, DeleteLog
<1>16. ASSUME NEW n \in Ids, ReverseFirst(n) \/ RowFails(n) PROVE LogExplained'
  <2>1. /\ ~ Accepting' /\ UNCHANGED << status, effects, node >>
    BY <1>0, <1>16 DEF ReverseFirst, RowFails, At, Accepting
  <2>2. \A m \in Ids : log'[m] = << >> \/ log'[m] = log[m]
    BY <1>16, MuddleEffect DEF ReverseFirst, RowFails, Unlogged
  <2> QED BY <1>0, <2>1, <2>2, QuietLog
<1>17. CASE ReverseOp
  BY <1>0, <1>17, ReverseOpLog
<1>18. CASE ReverseFails \/ ReverseEnds \/ SweepChildren
  <2>1. /\ ~ Accepting' /\ UNCHANGED << status, effects, node >>
    BY <1>0, <1>18 DEF ReverseFails, ReverseEnds, SweepChildren, At, Accepting
  <2>2. \A m \in Ids : log'[m] = << >> \/ log'[m] = log[m]
    BY <1>18, MuddleEffect DEF ReverseFails, ReverseEnds, SweepChildren, Unlogged
  <2> QED BY <1>0, <2>1, <2>2, QuietLog
<1>19. CASE Unlink
  BY <1>0, <1>19, UnlinkLog
<1>20. CASE Reopen
  BY <1>0, <1>20, ReopenLog
<1> QED BY <1>1, <1>2, <1>3, <1>4, <1>5, <1>6, <1>7, <1>8, <1>9, <1>10, <1>11, <1>12, <1>13,
           <1>14, <1>15, <1>16, <1>17, <1>18, <1>19, <1>20 DEF Next

-----------------------------------------------------------------------------
(* Revocation restores *)

LEMMA RestoreInit == Init => RInv
<1> SUFFICES ASSUME Init PROVE RInv
  OBVIOUS
<1>1. TInv
  BY TypeInit
<1>2. \A n \in Ids : log[n] = << >> /\ Len(log[n]) = 0
  BY EmptySeq DEF Init
<1>3. Stacked
  BY <1>2 DEF Init, Stacked, Stack
<1>4. job.step = "idle"
  BY DEF Init, Idle
<1>5. AcceptOpen /\ WorkExplained /\ RevokeProgress /\ ReverseProgress
  BY <1>4 DEF AcceptOpen, WorkExplained, RevokeProgress, ReverseProgress, Accepting, Working,
              Revoking
<1>6. LogExplained
  BY <1>2 DEF LogExplained, NodeExplained
<1> QED BY <1>1, <1>3, <1>5, <1>6 DEF RInv

LEMMA RestoreStep == RInv /\ [Next]_vars => RInv'
BY TypeStep, StackStep, OpenStep, LogStep, WorkStep, RevokeStep DEF RInv, Progress

LEMMA RestoreSafe == RInv => RevokeRestores
<1> SUFFICES ASSUME RInv, At("reopen"), NEW n \in Ids, OnTop(job.p, n)
             PROVE  Same(node[n], Before(n))
  BY DEF RevokeRestores
<1>1. job.rows = {} /\ \A m \in Ids \ job.rows : RowDone(m)
  BY DEF RInv, RevokeProgress, Revoking, At
<1> QED BY <1>1 DEF RowDone

\* Accepting and revoking are inverse to each other, for every node the
\* proposal was the last to change: whatever ops failed, and however often the
\* revocation was cut off and started again, at its end the node is what it was
\* before the acceptance, its values read as texts.
THEOREM RevocationRestores == Spec => []RevokeRestores
<1>1. Init => RInv
  BY RestoreInit
<1>2. RInv /\ [Next]_vars => RInv'
  BY RestoreStep
<1>3. RInv => RevokeRestores
  BY RestoreSafe
<1> QED BY <1>1, <1>2, <1>3, PTL DEF Spec
=============================================================================
