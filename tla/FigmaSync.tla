------------------------------ MODULE FigmaSync ------------------------------
(***************************************************************************)
(* Full synchronisation of a project with the Figma file it is bound to.   *)
(* One run at a time holds the lock in the binding node; the run is a task *)
(* of the server, it goes through the pages of the storyboards and then    *)
(* through the UIs in batches, and its end is written to the SyncRun row,  *)
(* gives the lock back and is told to whoever follows the run.  The row    *)
(* and the lock are in Neo4j and outlive the server.                       *)
(*                                                                         *)
(* An action is what the event loop does between two awaits; every         *)
(* statement on the database is synchronous.  What a page or a frame is,   *)
(* and the calls of the plugin, are in FigmaPages; here a page or a batch  *)
(* succeeds or fails.                                                      *)
(***************************************************************************)
EXTENDS Naturals, Sequences

CONSTANTS
  Files,      \* Figma files
  MaxRuns,    \* bound on the runs ever started
  Streams,    \* clients that follow a run, one at a time
  Pages,      \* how many pages a run has to ensure
  Batches,    \* how many batches the UIs make
  MaxFaults,  \* bound on the statements that fail and the ends of the server
  MaxEdits,   \* bound on the changes of the binding
  None

Runs == 1 .. MaxRuns   \* run ids, in the order in which they are drawn

ASSUME ConstantsAssumption ==
  /\ MaxRuns \in Nat /\ Pages \in Nat /\ Batches \in Nat
  /\ MaxFaults \in Nat /\ MaxEdits \in Nat
  /\ Files # {}
  /\ None \notin Files \union Runs

VARIABLES
  binding,  \* the FigmaBinding node, with the lock as its currentRunId
  row,      \* status of the SyncRun rows
  old,      \* the runs among the running rows that began more than 30 minutes ago
  task,     \* _full_sync_runner and the run's entry of _FULL_SYNC_STATE
  stream,   \* full_sync_stream
  faults, edits

vars == << binding, row, old, task, stream, faults, edits >>

Ends == {"succeeded", "partial", "cancelled", "aborted"}

\* told: the events broadcast so far.
NoTask == [pc |-> "off", file |-> None, page |-> 0, batch |-> 0, failed |-> FALSE,
           cancel |-> FALSE, told |-> << >>]

\* got: the events sent, by their place in told; since: how many there were
\* when the queue was made; end: how a run was told to have ended of which the
\* server keeps no entry.
NoStream == [pc |-> "off", run |-> None, queue |-> << >>, got |-> << >>, since |-> 0,
             end |-> None]

Live(r) == task[r].pc \in {"ready", "pages", "batch"}
Kept(r) == task[r].pc \notin {"off", "lost"}      \* an entry of _FULL_SYNC_STATE
Open(c) == stream[c].pc \in {"greeted", "caught", "live"}

TypeOK ==
  /\ binding \in [file: Files, status: {"active", "unreachable", "disconnected"},
                  lock: Runs \union {None}]
  /\ row \in [Runs -> Ends \union {"none", "running"}]
  /\ old \subseteq {r \in Runs : row[r] = "running"}
  /\ task \in [Runs -> [pc: {"off", "ready", "pages", "batch", "over", "lost"},
                        file: Files \union {None}, page: 0 .. Pages, batch: 0 .. Batches,
                        failed: BOOLEAN, cancel: BOOLEAN,
                        told: Seq(Ends \union {"run_started", "progress"})]]
  /\ stream \in [Streams -> [pc: {"off", "greeted", "caught", "live", "closed"},
                             run: Runs \union {None}, queue: Seq(Nat), got: Seq(Nat),
                             since: Nat,
                             end: {None, "completed", "cancelled", "aborted", "unknown"}]]
  /\ faults \in 0 .. MaxFaults /\ edits \in 0 .. MaxEdits

Init ==
  /\ binding = [file |-> CHOOSE f \in Files : TRUE, status |-> "active", lock |-> None]
  /\ row = [r \in Runs |-> "none"]
  /\ old = {}
  /\ task = [r \in Runs |-> NoTask]
  /\ stream = [c \in Streams |-> NoStream]
  /\ faults = 0 /\ edits = 0

Faulty(n) == faults + n <= MaxFaults /\ faults' = faults + n

-----------------------------------------------------------------------------
(* The binding *)

\* connect_binding, which asks that nothing be bound.
Connect(f) ==
  /\ binding.status = "disconnected"
  /\ binding' = [binding EXCEPT !.file = f, !.status = "active"]

Disconnect ==
  /\ binding.status # "disconnected"
  /\ binding' = [binding EXCEPT !.status = "disconnected"]

\* Mutant: the node is made anew.
ReplaceWithNew(f) ==
  binding' = [file |-> f, status |-> "active", lock |-> None]

\* replace_binding: upsert_binding sets the fields of the node that is there.
Replace(f) ==
  binding' = [binding EXCEPT !.file = f, !.status = "active"]

\* sync_storyboards could not make a page, whatever became of the binding since.
MarkUnreachable ==
  binding' = [binding EXCEPT !.status = "unreachable"]

EditBinding ==
  /\ edits < MaxEdits /\ edits' = edits + 1
  /\ Disconnect \/ MarkUnreachable \/ \E f \in Files : Connect(f) \/ Replace(f)
  /\ UNCHANGED << row, old, task, stream, faults >>

-----------------------------------------------------------------------------
(* A run *)

\* try_acquire_run_lock, with a fresh id.
MayStart(r) ==
  /\ task[r].pc = "off" /\ \A q \in 1 .. r - 1 : task[q].pc # "off"
  /\ binding.status = "active" /\ binding.lock = None

\* full_sync: the lock, the row, the task.
StartRun(r) ==
  /\ MayStart(r)
  /\ binding' = [binding EXCEPT !.lock = r]
  /\ row' = [row EXCEPT ![r] = "running"]
  /\ task' = [task EXCEPT ![r] = [NoTask EXCEPT !.pc = "ready", !.file = binding.file]]
  /\ UNCHANGED << old, stream, faults, edits >>

\* create_sync_run raises after the lock was taken.
StartRunFails(r) ==
  /\ MayStart(r)
  /\ binding' = [binding EXCEPT !.lock = r]
  /\ task' = [task EXCEPT ![r].pc = "lost"]
  /\ Faulty(1)
  /\ UNCHANGED << row, old, stream, edits >>

\* _broadcast: x is the task with whatever else the step changes in it.
Broadcast(r, x, event) ==
  /\ task' = [task EXCEPT ![r] = [x EXCEPT !.told = Append(@, event)]]
  /\ stream' = [c \in Streams |->
       IF stream[c].run = r /\ Open(c)
       THEN [stream[c] EXCEPT !.queue = Append(@, Len(x.told) + 1)] ELSE stream[c]]

\* Mutant: an aborted run keeps the lock.
EndUnlessAborted(r, x, status) ==
  /\ \E kept, lost \in BOOLEAN :
       /\ row' = [row EXCEPT ![r] = IF @ = "running" /\ ~ lost THEN status ELSE @]
       /\ binding' = IF binding.lock = r /\ ~ kept /\ status # "aborted"
                     THEN [binding EXCEPT !.lock = None] ELSE binding
       /\ Faulty((IF kept THEN 1 ELSE 0) + (IF lost THEN 1 ELSE 0))
  /\ old' = old \ {q \in Runs : row'[q] # "running"}
  /\ Broadcast(r, [x EXCEPT !.pc = "over"], status)

\* The finally clause: the row and the lock, each statement's failure swallowed,
\* and the terminal event.
End(r, x, status) ==
  /\ \E kept, lost \in BOOLEAN :
       /\ row' = [row EXCEPT ![r] = IF @ = "running" /\ ~ lost THEN status ELSE @]
       /\ binding' = IF binding.lock = r /\ ~ kept
                     THEN [binding EXCEPT !.lock = None] ELSE binding
       /\ Faulty((IF kept THEN 1 ELSE 0) + (IF lost THEN 1 ELSE 0))
  /\ old' = old \ {q \in Runs : row'[q] # "running"}
  /\ Broadcast(r, [x EXCEPT !.pc = "over"], status)

\* The runner's first step, up to the first call of the plugin.
BeginRun(r) ==
  /\ task[r].pc = "ready"
  /\ Broadcast(r, [task[r] EXCEPT !.pc = "pages"], "run_started")
  /\ UNCHANGED << binding, row, old, faults, edits >>

\* Mutant: one page more than there are storyboards.
EnsurePageTooMany(r) ==
  /\ task[r].pc = "pages" /\ task[r].page <= Pages
  /\ \E ok \in BOOLEAN :
       task' = [task EXCEPT ![r].page = @ + 1, ![r].failed = @ \/ ~ ok]
  /\ UNCHANGED << binding, row, old, stream, faults, edits >>

\* A call answered: one more page, or none.
EnsurePage(r) ==
  /\ task[r].pc = "pages" /\ task[r].page < Pages
  /\ \E ok \in BOOLEAN :
       task' = [task EXCEPT ![r].page = @ + 1, ![r].failed = @ \/ ~ ok]
  /\ UNCHANGED << binding, row, old, stream, faults, edits >>

Verdict(x) == IF x.failed THEN "partial" ELSE "succeeded"

\* Mutant: the batches that are left are not looked at after a cancel.
NextBatchLoose(r, x) ==
  IF x.batch = Batches \/ x.cancel THEN End(r, x, Verdict(x))
  ELSE IF binding.status # "active" \/ binding.file # x.file THEN End(r, x, "aborted")
  ELSE /\ Broadcast(r, [x EXCEPT !.pc = "batch"], "progress")
       /\ UNCHANGED << binding, row, old, faults >>

\* The head of the loop over the batches; the progress event before it is
\* counted to the batch that follows, or to the terminal event.
NextBatch(r, x) ==
  IF x.batch = Batches THEN End(r, x, Verdict(x))
  ELSE IF x.cancel THEN End(r, x, "cancelled")
  ELSE IF binding.status # "active" \/ binding.file # x.file THEN End(r, x, "aborted")
  ELSE /\ Broadcast(r, [x EXCEPT !.pc = "batch"], "progress")
       /\ UNCHANGED << binding, row, old, faults >>

\* Between the pages and the batches; a cancel is seen even when there is no
\* batch.
PagesEnd(r) ==
  /\ task[r].pc = "pages" /\ task[r].page = Pages
  /\ IF task[r].cancel THEN End(r, task[r], "cancelled") ELSE NextBatch(r, task[r])
  /\ UNCHANGED edits

BatchEnds(r) ==
  /\ task[r].pc = "batch"
  /\ \E ok \in BOOLEAN :
       NextBatch(r, [task[r] EXCEPT !.batch = @ + 1, !.failed = @ \/ ~ ok])
  /\ UNCHANGED edits

\* The UIs cannot be listed, or the binding cannot be read before a batch.
RunBreaks(r) ==
  /\ task[r].pc \in {"pages", "batch"} /\ faults < MaxFaults
  /\ row' = [row EXCEPT ![r] = IF @ = "running" THEN "aborted" ELSE @]
  /\ binding' = IF binding.lock = r THEN [binding EXCEPT !.lock = None] ELSE binding
  /\ Broadcast(r, [task[r] EXCEPT !.pc = "over"], "aborted")
  /\ old' = old \ {r}
  /\ Faulty(1)
  /\ UNCHANGED edits

Cancel(r) ==
  /\ Live(r)
  /\ task' = [task EXCEPT ![r].cancel = TRUE]
  /\ UNCHANGED << binding, row, old, stream, faults, edits >>

-----------------------------------------------------------------------------
(* The server stops and starts *)

GrowOld(r) ==
  /\ row[r] = "running" /\ old' = old \union {r}
  /\ UNCHANGED << binding, row, task, stream, faults, edits >>

\* release_stale_locks at the start of the server: b and w are the binding and
\* the rows it finds.
Recover(b, w) ==
  LET stale == {r \in old : w[r] = "running"}
  IN  /\ row' = [r \in Runs |-> IF r \in stale THEN "aborted" ELSE w[r]]
      /\ binding' = IF b.lock \in stale THEN [b EXCEPT !.lock = None] ELSE b
      /\ old' = {}

StartServer(b, w) ==
  /\ Faulty(1)
  /\ Recover(b, w)
  /\ task' = [r \in Runs |->
       IF task[r].pc = "off" THEN NoTask ELSE [NoTask EXCEPT !.pc = "lost"]]
  /\ stream' = [c \in Streams |-> NoStream]
  /\ UNCHANGED edits

\* The process is killed.
Crash == StartServer(binding, row)

\* The process ends in good order, as it does on every reload: the tasks are
\* cancelled.  CancelledError passes `except Exception` by, and the finally
\* clause knows no summary and takes it for a success; a task that was not yet
\* begun has no such clause.
Shutdown ==
  LET ended == {r \in Runs : task[r].pc \in {"pages", "batch"}}
  IN  /\ ended # {}
      /\ StartServer(IF binding.lock \in ended THEN [binding EXCEPT !.lock = None] ELSE binding,
                     [r \in Runs |-> IF r \in ended /\ row[r] = "running"
                                     THEN "succeeded" ELSE row[r]])

-----------------------------------------------------------------------------
(* Following a run *)

\* Mutant: the queue is made when what was cached has been sent.
SubscribeLate(c, r) ==
  /\ stream[c].pc = "off" /\ Kept(r)
  /\ LET n == Len(task[r].told)
     IN  stream' = [stream EXCEPT ![c] =
           [NoStream EXCEPT !.pc = IF n = 0 THEN "live" ELSE "caught", !.run = r,
                            !.got = IF n = 0 THEN << >> ELSE << 1 >>,
                            !.since = IF n = 0 THEN 0 ELSE 1]]
  /\ UNCHANGED << binding, row, old, task, faults, edits >>

\* The queue is made; the first event of the run is sent from the cache.
Subscribe(c, r) ==
  /\ stream[c].pc = "off" /\ Kept(r)
  /\ LET n == Len(task[r].told)
     IN  stream' = [stream EXCEPT ![c] =
           [NoStream EXCEPT !.pc = IF n = 0 THEN "live" ELSE "greeted", !.run = r,
                            !.got = IF n = 0 THEN << >> ELSE << 1 >>, !.since = n]]
  /\ UNCHANGED << binding, row, old, task, faults, edits >>

\* The terminal event made from a row: no row is an error, and whatever is neither
\* cancelled nor aborted, also a row that says running, is told as completed.
EndOfRow(status) ==
  IF status = "none" THEN "unknown"
  ELSE IF status \in {"cancelled", "aborted"} THEN status ELSE "completed"

\* A run of an earlier server is told from its row, and the stream closed.
SubscribeLost(c, r) ==
  /\ stream[c].pc = "off" /\ task[r].pc = "lost"
  /\ stream' = [stream EXCEPT ![c] =
       [NoStream EXCEPT !.pc = "closed", !.run = r, !.end = EndOfRow(row[r])]]
  /\ UNCHANGED << binding, row, old, task, faults, edits >>

Told(c)     == task[stream[c].run].told
Finished(c) == Told(c) # << >> /\ Told(c)[Len(Told(c))] \in Ends
Progress(c) == {i \in 1 .. Len(Told(c)) : Told(c)[i] = "progress"}

\* Mutant: a run that is over is waited for all the same.
CatchUpAlways(c, got) ==
  stream' = [stream EXCEPT ![c].got = got, ![c].pc = "live"]

\* Past the cached progress: the terminal event, if there is one, or the queue.
CatchUp(c, got) ==
  IF Finished(c)
  THEN stream' = [stream EXCEPT ![c].got = Append(got, Len(Told(c))), ![c].pc = "closed"]
  ELSE stream' = [stream EXCEPT ![c].got = got, ![c].pc = "live"]

\* The latest progress is sent from the cache, as it is by now.
SendProgress(c) ==
  /\ stream[c].pc = "greeted"
  /\ IF Progress(c) # {}
     THEN \E i \in Progress(c) :
            /\ \A j \in Progress(c) : j <= i
            /\ stream' = [stream EXCEPT ![c].pc = "caught", ![c].got = Append(@, i)]
     ELSE CatchUp(c, stream[c].got)
  /\ UNCHANGED << binding, row, old, task, faults, edits >>

SendEnd(c) ==
  /\ stream[c].pc = "caught"
  /\ CatchUp(c, stream[c].got)
  /\ UNCHANGED << binding, row, old, task, faults, edits >>

Deliver(c) ==
  /\ stream[c].pc = "live" /\ stream[c].queue # << >>
  /\ LET e == Head(stream[c].queue)
     IN  stream' = [stream EXCEPT ![c].got = Append(@, e), ![c].queue = Tail(@),
                      ![c].pc = IF Told(c)[e] \in Ends THEN "closed" ELSE @]
  /\ UNCHANGED << binding, row, old, task, faults, edits >>

Leave(c) ==
  /\ Open(c)
  /\ stream' = [stream EXCEPT ![c] = NoStream]
  /\ UNCHANGED << binding, row, old, task, faults, edits >>

-----------------------------------------------------------------------------

Advance(r) == BeginRun(r) \/ EnsurePage(r) \/ PagesEnd(r) \/ BatchEnds(r)
Serve(c)   == SendProgress(c) \/ SendEnd(c) \/ Deliver(c)

Next ==
  \/ EditBinding \/ Crash \/ Shutdown
  \/ \E r \in Runs : \/ StartRun(r) \/ StartRunFails(r) \/ Advance(r) \/ RunBreaks(r)
                     \/ Cancel(r) \/ GrowOld(r)
  \/ \E c \in Streams : Serve(c) \/ Leave(c) \/ \E r \in Runs : Subscribe(c, r) \/ SubscribeLost(c, r)

Spec == Init /\ [][Next]_vars

\* Every call of the plugin is answered or times out, and the event loop runs
\* whatever can go on.
Fairness == /\ \A r \in Runs : WF_vars(Advance(r))
            /\ \A c \in Streams : WF_vars(Serve(c))

FairSpec == Spec /\ Fairness

-----------------------------------------------------------------------------
(* Properties *)

\* A run that still does anything holds the lock, whatever becomes of the
\* binding meanwhile, so that no two runs write to the file at once.
RunHoldsLock ==
  \A r \in Runs : Live(r) => binding.lock = r /\ row[r] = "running"

\* What the row of a run comes to say is what the run did, and it is said once;
\* aborted is the run that lost its file, in which a statement failed, or which an
\* earlier server left behind.  The end of the server in good order is left out:
\* its runs are recorded as successes however far they came.
Deserved(r) ==
  LET x == task'[r]
  IN  /\ row'[r] \in {"succeeded", "partial"} =>
           /\ x.pc = "over" /\ x.page = Pages /\ x.batch = Batches
           /\ x.failed <=> row'[r] = "partial"
      /\ row'[r] = "cancelled" => x.cancel /\ (x.batch < Batches \/ Batches = 0)
      /\ row'[r] = "aborted" =>
           \/ x.pc = "lost" /\ r \in old
           \/ x.pc = "over" /\ (binding.status # "active" \/ binding.file # x.file)
           \/ x.pc = "over" /\ faults' > faults

VerdictIsTrue ==
  [][ ~ Shutdown =>
        \A r \in Runs : row'[r] # row[r] /\ row[r] # "none" =>
                        row[r] = "running" /\ Deserved(r) ]_vars

\* A stream that goes on has sent, or has in its queue, every event since its
\* queue was made, in order; one the server closed has told how the run ended,
\* last and once.  Of a run of an earlier server it has told what the row says,
\* unless the row still says running: such a run is told as completed.
StreamTold ==
  \A c \in Streams :
    LET y    == stream[c]
        said == y.got \o y.queue
        n    == Len(Told(c))
    IN  /\ Open(c) => \A i \in y.since + 1 .. n : \E k \in 1 .. Len(said) :
                         /\ said[k] = i
                         /\ \A j \in i .. n : j - i + k <= Len(said) /\ said[j - i + k] = j
        /\ y.pc = "closed" /\ task[y.run].pc # "lost" =>
             y.got # << >> /\ \A k \in 1 .. Len(y.got) : Told(c)[y.got[k]] \in Ends <=> k = Len(y.got)
        /\ y.pc = "closed" /\ task[y.run].pc = "lost" /\ row[y.run] # "running" =>
             y.end = EndOfRow(row[y.run])

\* The lock does not outlive the run, unless a statement failed or the server
\* was killed.
LockReleased == binding.lock # None ~> binding.lock = None \/ faults > 0

\* Whoever follows a run is told its end some time.
StreamEnds == \A c \in Streams : Open(c) ~> ~ Open(c)
=============================================================================
