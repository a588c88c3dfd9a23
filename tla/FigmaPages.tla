----------------------------- MODULE FigmaPages -----------------------------
(***************************************************************************)
(* Pages and frames in the bound Figma file.  A full run or a retry makes  *)
(* sure that there is a page for every storyboard of its UIs and then has  *)
(* a frame made for each UI.  The work is done by the plugin, which takes  *)
(* messages when it polls and answers by another request: an answer may    *)
(* come late, when nobody waits for it any more, or never.  Retries of one *)
(* UI at the same time share one dispatch.  Meanwhile the user binds the   *)
(* project to another file.                                                *)
(*                                                                         *)
(* A step is a part of what the event loop does between two awaits, and    *)
(* nothing else runs before the next await is reached.                     *)
(* The batches of a run, its lock and its cancellation are in FigmaSync.   *)
(***************************************************************************)
EXTENDS Naturals, Sequences, FiniteSets

CONSTANTS
  Files, Cmds,  \* Figma files; storyboards, by their entry command
  Uis, Owner,   \* UI nodes, and the storyboard each belongs to
  Jobs,         \* full runs and retry requests, each made once
  MaxFaults,    \* bound on the calls that time out and the statements that fail
  MaxEdits,     \* bound on the changes of the binding
  None

\* figmaPageId, figmaNodeId.  What the program has is the id, which is unique in a
\* file only; from is the file it was given in.
NodeIds == [from: Files, id: Nat]

ASSUME ConstantsAssumption ==
  /\ Owner \in [Uis -> Cmds] /\ Cmds \intersect Uis = {}
  /\ MaxFaults \in Nat /\ MaxEdits \in Nat
  /\ Files # {} /\ None \notin Files \union Jobs /\ None \notin NodeIds

VARIABLES
  bound,      \* the file of the active FigmaBinding
  mapping,    \* StoryboardPageMapping
  ui,         \* the figmaSync properties of the UI nodes
  pages,      \* the pages made in each Figma file, a page's id is its place
  frames,     \* the frames made in each Figma file, likewise
  job,        \* full runs and retries
  inflight,   \* RetryDedupeStore: the retry that claimed a UI
  sent, acks, \* messages for the plugin, and its answers
  faults, edits

vars == << bound, mapping, ui, pages, frames, job, inflight, sent, acks, faults, edits >>

\* page: figmaPageId by storyboard; call: what is waited for; out: how the push
\* of a UI went; future: what those are told who joined; joins: whose future.
NoJob == [pc |-> "off", kind |-> "run", key |-> None, file |-> None, cmds |-> {},
          page |-> [c \in Cmds |-> None], uis |-> {}, call |-> {},
          out |-> [u \in Uis |-> "none"], future |-> [u \in Uis |-> "none"],
          joins |-> [u \in Uis |-> None]]

Messages == [job: Jobs, of: Cmds \union Uis, file: Files, page: NodeIds \union {None}]
Outcomes == {"none", "ok", "failed"}

\* The id that was given in its file to a page of the storyboard.
MadeFor(p, c) == p.id \in 1 .. Len(pages[p.from]) /\ pages[p.from][p.id] = c

TypeOK ==
  /\ bound \in Files \union {None}
  /\ mapping \in [Cmds -> [status: {"none", "active", "archived"}, page: NodeIds \union {None}]]
  /\ ui \in [Uis -> [status: Outcomes, frame: NodeIds \union {None}, key: Files \union {None}]]
  /\ pages \in [Files -> Seq(Cmds)]
  /\ frames \in [Files -> Seq([page: NodeIds, ui: Uis])]
  /\ job \in [Jobs -> [pc: {"off", "begin", "pages", "frames", "join", "done"},
                       kind: {"run", "retry"}, key: Files \union {None},
                       file: Files \union {None}, cmds: SUBSET Cmds,
                       page: [Cmds -> NodeIds \union {None}], uis: SUBSET Uis,
                       call: SUBSET (Cmds \union Uis), out: [Uis -> Outcomes],
                       future: [Uis -> Outcomes], joins: [Uis -> Jobs \union {None}]]]
  /\ inflight \in [Uis -> Jobs \union {None}]
  /\ sent \subseteq Messages
  /\ acks \subseteq [msg: Messages, id: NodeIds]
  /\ faults \in 0 .. MaxFaults /\ edits \in 0 .. MaxEdits
  /\ \A c \in Cmds : mapping[c].status = "active" =>
       mapping[c].page # None /\ MadeFor(mapping[c].page, c)

Init ==
  /\ bound \in Files
  /\ mapping = [c \in Cmds |-> [status |-> "none", page |-> None]]
  /\ ui = [u \in Uis |-> [status |-> "none", frame |-> None, key |-> None]]
  /\ pages = [f \in Files |-> << >>] /\ frames = [f \in Files |-> << >>]
  /\ job = [j \in Jobs |-> NoJob]
  /\ inflight = [u \in Uis |-> None]
  /\ sent = {} /\ acks = {}
  /\ faults = 0 /\ edits = 0

figma  == << pages, frames, sent, acks >>
bounds == << faults, edits >>

-----------------------------------------------------------------------------
(* The binding *)

\* connect_binding leaves the mappings as they are.
Connect(f) ==
  /\ bound = None /\ bound' = f
  /\ UNCHANGED << mapping, ui >>

Disconnect ==
  /\ bound # None /\ bound' = None
  /\ UNCHANGED << mapping, ui >>

\* replace_binding: archive_all_active_mappings, clear_ui_sync_status.
Replace(f) ==
  /\ bound' = f
  /\ IF bound = None THEN UNCHANGED << mapping, ui >>
     ELSE /\ mapping' = [c \in Cmds |-> IF mapping[c].status = "active"
                                        THEN [mapping[c] EXCEPT !.status = "archived"]
                                        ELSE mapping[c]]
          /\ ui' = [u \in Uis |-> [ui[u] EXCEPT !.status = "none"]]

EditBinding ==
  /\ edits < MaxEdits /\ edits' = edits + 1
  /\ Disconnect \/ \E f \in Files : Connect(f) \/ Replace(f)
  /\ UNCHANGED << figma, job, inflight, faults >>

-----------------------------------------------------------------------------
(* Full runs and retries begin *)

Owners(us) == {Owner[u] : u \in us}

\* full_sync, whose lock lets one run be at a time; the task begins later.
StartRun(j) ==
  /\ job[j].pc = "off" /\ bound # None
  /\ \A k \in Jobs : job[k].kind = "run" => job[k].pc \in {"off", "done"}
  /\ job' = [job EXCEPT ![j].pc = "begin", ![j].key = bound, ![j].uis = Uis]
  /\ UNCHANGED << bound, mapping, ui, inflight, figma, bounds >>

\* sync_storyboards_for_ids reads the binding; without one there is no page.
BeginPages(j) ==
  /\ job[j].pc = "begin"
  /\ job' = [job EXCEPT ![j].pc = "pages", ![j].file = bound,
                        ![j].cmds = IF bound = None THEN {} ELSE Owners(job[j].uis)]
  /\ UNCHANGED << bound, mapping, ui, inflight, figma, bounds >>

\* classify: a UI is retried, or its retry joined, unless it failed under
\* another binding or its storyboard is archived.
Retryable(u) ==
  \/ inflight[u] # None
  \/ /\ bound # None
     /\ ui[u].status = "failed" => ui[u].key \in {None, bound}
     /\ mapping[Owner[u]].status # "archived"

\* Mutant: claim_or_join always claims.
StartRetryAll(j, wanted) ==
  LET us  == {u \in wanted : Retryable(u)}
  IN  /\ job[j].pc = "off" /\ bound # None /\ us # {}
      /\ job' = [job EXCEPT ![j] =
           [@ EXCEPT !.kind = "retry", !.key = bound, !.file = bound, !.uis = us,
                     !.pc = "pages", !.cmds = Owners(us)]]
      /\ inflight' = [u \in Uis |-> IF u \in us THEN j ELSE inflight[u]]
      /\ UNCHANGED << bound, mapping, ui, figma, bounds >>

\* post_retry_sync up to the first call of the plugin.  A plugin that does not
\* poll is not called: the claims are completed in the same step.
StartRetry(j, wanted) ==
  LET us  == {u \in wanted : Retryable(u)}
      own == {u \in us : inflight[u] = None}
      x   == [job[j] EXCEPT !.kind = "retry", !.key = bound, !.file = bound, !.uis = own,
                !.joins = [u \in Uis |-> IF u \in us \ own THEN inflight[u] ELSE None]]
  IN  /\ job[j].pc = "off" /\ us # {}
      /\ \/ /\ own # {} /\ bound # None
            /\ job' = [job EXCEPT ![j] = [x EXCEPT !.pc = "pages", !.cmds = Owners(own)]]
            /\ inflight' = [u \in Uis |-> IF u \in own THEN j ELSE inflight[u]]
         \/ /\ job' = [job EXCEPT ![j] = [x EXCEPT !.pc = "join",
                  !.future = [u \in Uis |-> IF u \in own THEN "failed" ELSE "none"]]]
            /\ UNCHANGED inflight
      /\ UNCHANGED << bound, mapping, ui, figma, bounds >>

-----------------------------------------------------------------------------
(* Pages *)

\* send_and_wait
Send(j, x, file, page) ==
  /\ sent' = sent \union {[job |-> j, of |-> x, file |-> file, page |-> page]}
  /\ job' = [job EXCEPT ![j].call = @ \union {x}]
  /\ UNCHANGED << pages, frames, acks >>

\* _ensure_page_for_command
EnsurePage(j, c) ==
  /\ job[j].pc = "pages" /\ c \in job[j].cmds /\ job[j].call = {}
  /\ IF mapping[c].status = "active"
     THEN /\ job' = [job EXCEPT ![j].page[c] = mapping[c].page, ![j].cmds = @ \ {c}]
          /\ UNCHANGED figma
     ELSE Send(j, c, job[j].file, None)
  /\ UNCHANGED << bound, mapping, ui, inflight, bounds >>

\* The call returned the page, or None for every kind of failure.
PageMade(j, c, id) ==
  /\ job' = [job EXCEPT ![j].page[c] = id, ![j].cmds = @ \ {c}, ![j].call = {}]
  /\ mapping' = IF id = None THEN mapping
                ELSE [mapping EXCEPT ![c] = [status |-> "active", page |-> id]]
  /\ UNCHANGED ui

-----------------------------------------------------------------------------
(* Frames *)

\* mark_ui_sync_ok, mark_ui_sync_failed and the stamp of the binding; a failure
\* leaves what is known of the frame.
Marked(j, u, id) ==
  IF id = None THEN [ui[u] EXCEPT !.status = "failed", !.key = job[j].key]
  ELSE [status |-> "ok", frame |-> id, key |-> job[j].key]

\* A run that finds another file bound is aborted; a UI without a page fails.
PagesEnd(j) ==
  LET lost == {u \in job[j].uis : job[j].page[Owner[u]] = None}
  IN  /\ job[j].pc = "pages" /\ job[j].cmds = {}
      /\ IF job[j].kind = "run" /\ bound # job[j].key
         THEN job' = [job EXCEPT ![j].pc = "done"] /\ UNCHANGED ui
         ELSE /\ job' = [job EXCEPT ![j].pc = "frames",
                                    ![j].out = [u \in Uis |-> IF u \in lost THEN "failed" ELSE @[u]]]
              /\ ui' = [u \in Uis |-> IF u \in lost THEN Marked(j, u, None) ELSE ui[u]]
      /\ UNCHANGED << bound, mapping, inflight, figma, bounds >>

\* push_frame_for_ui reads the binding anew.  A retry pushes one frame after the
\* other, a run those of a batch at the same time.
PushFrame(j, u) ==
  /\ job[j].pc = "frames" /\ u \in job[j].uis \ job[j].call /\ job[j].out[u] = "none"
  /\ job[j].kind = "retry" => job[j].call = {}
  /\ IF bound = None
     THEN /\ job' = [job EXCEPT ![j].out[u] = "failed"]
          /\ ui' = [ui EXCEPT ![u] = Marked(j, u, None)]
          /\ UNCHANGED figma
     ELSE Send(j, u, bound, job[j].page[Owner[u]]) /\ UNCHANGED ui
  /\ UNCHANGED << bound, mapping, inflight, bounds >>

FrameMade(j, u, id) ==
  /\ job' = [job EXCEPT ![j].call = @ \ {u},
                        ![j].out[u] = IF id = None THEN "failed" ELSE "ok"]
  /\ ui' = [ui EXCEPT ![u] = Marked(j, u, id)]
  /\ UNCHANGED mapping

\* Mutant: the futures of the UIs that failed are left alone.
FramesEndForOk(j) ==
  /\ job[j].pc = "frames" /\ \A u \in job[j].uis : job[j].out[u] # "none"
  /\ IF job[j].kind = "run"
     THEN job' = [job EXCEPT ![j].pc = "done"] /\ UNCHANGED inflight
     ELSE /\ job' = [job EXCEPT ![j].pc = "join",
                                ![j].future = [u \in Uis |-> IF job[j].out[u] = "ok" THEN "ok" ELSE "none"]]
          /\ inflight' = [u \in Uis |-> IF inflight[u] = j /\ job[j].out[u] = "ok" THEN None ELSE inflight[u]]
  /\ UNCHANGED << bound, mapping, ui, figma, bounds >>

\* The batch is over: a retry completes its claims.
FramesEnd(j) ==
  /\ job[j].pc = "frames" /\ \A u \in job[j].uis : job[j].out[u] # "none"
  /\ IF job[j].kind = "run"
     THEN job' = [job EXCEPT ![j].pc = "done"] /\ UNCHANGED inflight
     ELSE /\ job' = [job EXCEPT ![j].pc = "join", ![j].future = job[j].out]
          /\ inflight' = [u \in Uis |-> IF u \in job[j].uis THEN None ELSE inflight[u]]
  /\ UNCHANGED << bound, mapping, ui, figma, bounds >>

\* A statement of sync_batch fails: every claim does, and the request with them.
RetryBreaks(j) ==
  /\ job[j].kind = "retry" /\ job[j].pc \in {"pages", "frames"} /\ job[j].call = {}
  /\ faults < MaxFaults /\ faults' = faults + 1
  /\ job' = [job EXCEPT ![j].pc = "done",
       ![j].future = [u \in Uis |-> IF u \in job[j].uis THEN "failed" ELSE "none"]]
  /\ inflight' = [u \in Uis |-> IF u \in job[j].uis THEN None ELSE inflight[u]]
  /\ UNCHANGED << bound, mapping, ui, figma, edits >>

\* The futures of others, awaited one after the other.
Join(j) ==
  /\ job[j].pc = "join"
  /\ \A u \in Uis : job[j].joins[u] # None => job[job[j].joins[u]].future[u] # "none"
  /\ job' = [job EXCEPT ![j].pc = "done"]
  /\ UNCHANGED << bound, mapping, ui, inflight, figma, bounds >>

-----------------------------------------------------------------------------
(* The plugin *)

Return(j, x, id) ==
  IF x \in Cmds THEN PageMade(j, x, id) ELSE FrameMade(j, x, id)

Answer(m, id) == acks' = acks \union {[msg |-> m, id |-> [from |-> m.file, id |-> id]]}

\* The plugin takes a message, does what it asks for and answers.  It looks the id
\* of the page up in the file that is open, wherever the id is from.
PluginDoes(m) ==
  /\ m \in sent /\ sent' = sent \ {m}
  /\ IF m.of \in Cmds
     THEN /\ pages' = [pages EXCEPT ![m.file] = Append(@, m.of)]
          /\ Answer(m, Len(pages[m.file]) + 1)
          /\ UNCHANGED frames
     ELSE /\ m.page.id \in 1 .. Len(pages[m.file])
          /\ frames' = [frames EXCEPT ![m.file] = Append(@, [page |-> m.page, ui |-> m.of])]
          /\ Answer(m, Len(frames[m.file]) + 1)
          /\ UNCHANGED pages
  /\ UNCHANGED << bound, mapping, ui, job, inflight, bounds >>

\* An answer that says no changes nothing when it comes late, and is therefore
\* given and taken in one step.
PluginFails(m) ==
  /\ m \in sent /\ sent' = sent \ {m}
  /\ IF m.of \in job[m.job].call THEN Return(m.job, m.of, None)
     ELSE UNCHANGED << mapping, ui, job >>
  /\ UNCHANGED << bound, pages, frames, acks, inflight, bounds >>

\* Mutant: an answer is taken for a call of its kind the job waits for now.
AckArrivesAnyway(a) ==
  /\ a \in acks /\ acks' = acks \ {a}
  /\ LET calls == {x \in job[a.msg.job].call : x \in Cmds <=> a.msg.of \in Cmds}
     IN  IF calls # {}
     THEN \E x \in calls : Return(a.msg.job, x, a.id)
     ELSE UNCHANGED << mapping, ui, job >>
  /\ UNCHANGED << bound, pages, frames, sent, inflight, bounds >>

\* _resolve: nobody may wait any more.
AckArrives(a) ==
  /\ a \in acks /\ acks' = acks \ {a}
  /\ IF a.msg.of \in job[a.msg.job].call THEN Return(a.msg.job, a.msg.of, a.id)
     ELSE UNCHANGED << mapping, ui, job >>
  /\ UNCHANGED << bound, pages, frames, sent, inflight, bounds >>

\* The message stays where it is.
Timeout(j) ==
  /\ faults < MaxFaults /\ faults' = faults + 1
  /\ \E x \in job[j].call : Return(j, x, None)
  /\ UNCHANGED << bound, figma, inflight, edits >>

-----------------------------------------------------------------------------

\* The coroutine of a retry, and that of a run until its frames are tasks of
\* their own, goes on without a break from one call of the plugin to the next.
Running(j) ==
  /\ job[j].pc \in {"pages", "frames"} /\ job[j].call = {}
  /\ job[j].pc = "frames" => job[j].kind = "retry"

Continue(j) ==
  \/ \E c \in Cmds : EnsurePage(j, c)
  \/ PagesEnd(j)
  \/ \E u \in Uis : PushFrame(j, u)
  \/ FramesEnd(j)
  \/ RetryBreaks(j)

Await(j) ==
  \/ StartRun(j) \/ BeginPages(j) \/ \E us \in SUBSET Uis : StartRetry(j, us)
  \/ job[j].kind = "run" /\ (FramesEnd(j) \/ \E u \in Uis : PushFrame(j, u))
  \/ Timeout(j) \/ Join(j)

Next ==
  \/ \E j \in Jobs : Running(j) /\ Continue(j)
  \/ /\ \A j \in Jobs : ~ Running(j)
     /\ \/ EditBinding
        \/ \E j \in Jobs : Await(j)
        \/ \E m \in sent : PluginDoes(m) \/ PluginFails(m)
        \/ \E a \in acks : AckArrives(a)

Spec == Init /\ [][Next]_vars

-----------------------------------------------------------------------------
(* Properties *)

\* A UI that is shown as synchronised has a frame, made for it, and on a page of its
\* storyboard however late the answers: unless the id of the page is from another
\* file, where the same id may be the page of another storyboard, or of none.
OkHasFrame ==
  \A u \in Uis : ui[u].status = "ok" =>
    LET n == ui[u].frame
        x == frames[n.from][n.id]
    IN  /\ n # None /\ n.id \in 1 .. Len(frames[n.from]) /\ x.ui = u
        /\ x.page.from = n.from => MadeFor(x.page, Owner[u])

\* Of the retries of a UI at most one talks to the plugin.
OneDispatch ==
  \A u \in Uis : Cardinality({j \in Jobs : /\ job[j].kind = "retry" /\ u \in job[j].uis
                                         /\ job[j].pc \in {"pages", "frames"}}) <= 1

\* A retry that joined another is not left waiting: the other is still at work
\* on the UI, or has told how it went, also when it broke off.
JoinedIsAnswered ==
  \A u \in Uis : \A j \in Jobs : LET k == job[j].joins[u] IN
    k # None => \/ job[k].future[u] # "none"
                \/ inflight[u] = k /\ u \in job[k].uis /\ job[k].pc \in {"pages", "frames"}
=============================================================================
