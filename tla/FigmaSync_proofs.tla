-------------------------- MODULE FigmaSync_proofs --------------------------
(***************************************************************************)
(* Proofs about FigmaSync, for any numbers of files, runs, pages, batches, *)
(* streams and faults.  What makes the lock safe is inductive by itself:   *)
(* a run that does anything is the one the binding names, and every way to *)
(* end a run passes through the step that gives the lock back.  That a     *)
(* verdict is deserved needs to know besides how far a task can have come  *)
(* by the step it is at.                                                   *)
(***************************************************************************)
EXTENDS FigmaSync, SequenceTheorems, TLAPS

\* How far a task has come, by the step it is at.
Progressed ==
  \A r \in Runs :
    /\ task[r].pc = "off" => row[r] = "none"
    /\ task[r].pc \in {"off", "ready", "pages"} => task[r].batch = 0
    /\ task[r].pc = "batch" => task[r].page = Pages /\ task[r].batch < Batches

\* A stream that was ever opened is that of a run.
Follows == \A c \in Streams : stream[c].pc # "off" => stream[c].run \in Runs

IInv == TypeOK /\ RunHoldsLock /\ Progressed /\ Follows

TaskType == [pc: {"off", "ready", "pages", "batch", "over", "lost"},
             file: Files \union {None}, page: 0 .. Pages, batch: 0 .. Batches,
             failed: BOOLEAN, cancel: BOOLEAN,
             told: Seq(Ends \union {"run_started", "progress"})]

StreamType == [pc: {"off", "greeted", "caught", "live", "closed"},
               run: Runs \union {None}, queue: Seq(Nat), got: Seq(Nat), since: Nat,
               end: {None, "completed", "cancelled", "aborted", "unknown"}]

LEMMA RunsAreNumbers == Runs \subseteq Nat /\ None \notin Runs
BY ConstantsAssumption DEF Runs

LEMMA NoTaskTyped == NoTask \in TaskType
BY ConstantsAssumption DEF NoTask, TaskType

LEMMA NoStreamTyped == NoStream \in StreamType
BY DEF NoStream, StreamType

\* Telling an event keeps the types, and changes the task in nothing else.
LEMMA BroadcastTyped ==
  ASSUME TypeOK, NEW r \in Runs, NEW x \in TaskType,
         NEW event \in Ends \union {"run_started", "progress"},
         Broadcast(r, x, event)
  PROVE  /\ task' \in [Runs -> TaskType]
         /\ stream' \in [Streams -> StreamType]
         /\ \E told \in Seq(Ends \union {"run_started", "progress"}) :
              task' = [task EXCEPT ![r] = [x EXCEPT !.told = told]]
         /\ Follows => Follows'
<1> DEFINE T == Append(x.told, event)
<1>1. T \in Seq(Ends \union {"run_started", "progress"})
  BY DEF TaskType
<1>2. task' = [task EXCEPT ![r] = [x EXCEPT !.told = T]]
  BY DEF Broadcast
<1>3. [x EXCEPT !.told = T] \in TaskType
  BY <1>1 DEF TaskType
<1>4. task' \in [Runs -> TaskType]
  BY <1>2, <1>3 DEF TypeOK, TaskType
<1>5. Len(x.told) + 1 \in Nat
  BY DEF TaskType
<1>6. ASSUME NEW c \in Streams
      PROVE  stream[c] \in StreamType /\ [stream[c] EXCEPT !.queue = Append(@, Len(x.told) + 1)] \in StreamType
  <2> DEFINE n == Len(x.told) + 1
  <2>1. stream[c] \in StreamType
    BY DEF TypeOK, StreamType
  <2>2. Append(stream[c].queue, n) \in Seq(Nat)
    BY <2>1, <1>5 DEF StreamType
  <2> HIDE DEF n
  <2>3. [stream[c] EXCEPT !.queue = Append(@, n)] \in StreamType
    BY <2>1, <2>2 DEF StreamType
  <2> QED BY <2>1, <2>3 DEF n
<1>7. stream' \in [Streams -> StreamType]
  BY <1>6 DEF Broadcast
<1>8. \A c \in Streams : stream'[c].pc = stream[c].pc /\ stream'[c].run = stream[c].run
  BY <1>6 DEF Broadcast, StreamType
<1>9. Follows => Follows'
  BY <1>8 DEF Follows
<1> HIDE DEF T
<1> QED BY <1>1, <1>2, <1>4, <1>7, <1>9

LEMMA InitIInv == ASSUME Init PROVE IInv
<1>1. binding \in [file: Files, status: {"active", "unreachable", "disconnected"},
                   lock: Runs \union {None}]
  BY ConstantsAssumption DEF Init
<1>2. task \in [Runs -> TaskType] /\ stream \in [Streams -> StreamType]
  BY NoTaskTyped, NoStreamTyped DEF Init
<1>3. TypeOK
  BY <1>1, <1>2, ConstantsAssumption DEF Init, TypeOK, TaskType, StreamType
<1>4. RunHoldsLock /\ Progressed /\ Follows
  BY ConstantsAssumption DEF Init, RunHoldsLock, Progressed, Follows, Live, NoTask, NoStream
<1> QED BY <1>3, <1>4 DEF IInv

-----------------------------------------------------------------------------
(* Steps *)

\* The lock names one run.
LEMMA OneLiveRun ==
  ASSUME IInv, NEW r \in Runs, Live(r)
  PROVE  \A q \in Runs : Live(q) => q = r
BY DEF IInv, RunHoldsLock

LEMMA TypesAtHand ==
  ASSUME TypeOK
  PROVE  task \in [Runs -> TaskType] /\ stream \in [Streams -> StreamType]
BY DEF TypeOK, TaskType, StreamType

\* The finally clause, whatever failed in it.
LEMMA EndStep ==
  ASSUME IInv, NEW r \in Runs, Live(r), NEW x \in TaskType, NEW status \in Ends,
         End(r, x, status), UNCHANGED edits
  PROVE  IInv'
<1> USE DEF IInv
<1> DEFINE y == [x EXCEPT !.pc = "over"]
<1>1. y \in TaskType /\ y.pc = "over"
  BY DEF TaskType
<1>2. Broadcast(r, y, status)
  BY DEF End
<1> HIDE DEF y
<1>3. /\ task' \in [Runs -> TaskType]
      /\ stream' \in [Streams -> StreamType]
      /\ \E told \in Seq(Ends \union {"run_started", "progress"}) :
           task' = [task EXCEPT ![r] = [y EXCEPT !.told = told]]
      /\ Follows'
  BY <1>1, <1>2, BroadcastTyped
<1>4. task'[r].pc = "over" /\ \A q \in Runs : q # r => task'[q] = task[q]
  BY <1>1, <1>3, TypesAtHand DEF TaskType
<1>5. PICK kept \in BOOLEAN, lost \in BOOLEAN :
        /\ row' = [row EXCEPT ![r] = IF @ = "running" /\ ~ lost THEN status ELSE @]
        /\ binding' = IF binding.lock = r /\ ~ kept
                      THEN [binding EXCEPT !.lock = None] ELSE binding
        /\ Faulty((IF kept THEN 1 ELSE 0) + (IF lost THEN 1 ELSE 0))
  BY DEF End
<1>6. TypeOK'
  <2>1. binding' \in [file: Files, status: {"active", "unreachable", "disconnected"},
                      lock: Runs \union {None}]
    BY <1>5 DEF TypeOK
  <2>2. row' \in [Runs -> Ends \union {"none", "running"}]
    BY <1>5 DEF TypeOK
  <2>3. old' \subseteq {q \in Runs : row'[q] = "running"}
    BY <1>5 DEF End, TypeOK
  <2>4. faults' \in 0 .. MaxFaults
    BY <1>5, ConstantsAssumption DEF Faulty, TypeOK
  <2> QED BY <1>3, <2>1, <2>2, <2>3, <2>4 DEF TypeOK, TaskType, StreamType
<1>7. RunHoldsLock'
  BY <1>4, OneLiveRun DEF RunHoldsLock, Live
<1>8. Progressed'
  <2>1. \A q \in Runs : q # r => row'[q] = row[q]
    BY <1>5 DEF TypeOK
  <2> QED BY <1>4, <2>1 DEF Progressed
<1>9. Follows'
  BY <1>3
<1> QED BY <1>6, <1>7, <1>8, <1>9

LEMMA RunStep ==
  ASSUME IInv, NEW r \in Runs,
         StartRun(r) \/ StartRunFails(r) \/ BeginRun(r) \/ EnsurePage(r) \/ Cancel(r) \/ GrowOld(r)
  PROVE  IInv'
<1> USE DEF IInv
<1>1. CASE StartRun(r)
  <2> DEFINE y == [NoTask EXCEPT !.pc = "ready", !.file = binding.file]
  <2> binding.file \in Files
    BY DEF TypeOK
  <2>1. y \in TaskType /\ y.pc = "ready" /\ y.batch = 0
    BY NoTaskTyped DEF NoTask, TaskType
  <2> HIDE DEF y
  <2>2. task' = [task EXCEPT ![r] = y]
    BY <1>1 DEF StartRun, y
  <2>3. \A q \in Runs : ~ Live(q)
    BY <1>1, RunsAreNumbers DEF StartRun, MayStart, RunHoldsLock
  <2>4. task' \in [Runs -> TaskType] /\ task'[r] = y
        /\ \A q \in Runs : q # r => task'[q] = task[q]
    BY <2>1, <2>2, TypesAtHand
  <2>5. TypeOK'
    BY <1>1, <2>4 DEF StartRun, TypeOK, TaskType
  <2>6. RunHoldsLock'
    BY <1>1, <2>3, <2>4 DEF StartRun, RunHoldsLock, Live, TypeOK
  <2>7. Progressed' /\ Follows'
    <3>1. \A q \in Runs : q # r => row'[q] = row[q]
      BY <1>1 DEF StartRun, TypeOK
    <3> QED BY <1>1, <2>1, <2>4, <3>1 DEF StartRun, Progressed, Follows
  <2> QED BY <2>5, <2>6, <2>7
<1>2. CASE StartRunFails(r)
  <2>1. \A q \in Runs : ~ Live(q)
    BY <1>2, RunsAreNumbers DEF StartRunFails, MayStart, RunHoldsLock
  <2>2. task'[r].pc = "lost" /\ \A q \in Runs : q # r => task'[q] = task[q]
    BY <1>2 DEF StartRunFails, TypeOK
  <2> DEFINE y == [task[r] EXCEPT !.pc = "lost"]
  <2>3. y \in TaskType
    BY TypesAtHand DEF TaskType
  <2> HIDE DEF y
  <2>4. task' \in [Runs -> TaskType]
    BY <1>2, <2>3, TypesAtHand DEF StartRunFails, y
  <2>5. binding' \in [file: Files, status: {"active", "unreachable", "disconnected"},
                      lock: Runs \union {None}]
    BY <1>2 DEF StartRunFails, TypeOK
  <2>6. faults' \in 0 .. MaxFaults
    BY <1>2, ConstantsAssumption DEF StartRunFails, Faulty, TypeOK
  <2>7. TypeOK'
    BY <1>2, <2>4, <2>5, <2>6 DEF StartRunFails, TypeOK, TaskType
  <2>8. RunHoldsLock' /\ Progressed' /\ Follows'
    BY <1>2, <2>1, <2>2 DEF StartRunFails, RunHoldsLock, Progressed, Follows, Live
  <2> QED BY <2>7, <2>8
<1>3. CASE BeginRun(r)
  <2> DEFINE y == [task[r] EXCEPT !.pc = "pages"]
  <2>1. y \in TaskType /\ y.pc = "pages" /\ y.batch = 0
    BY <1>3, TypesAtHand DEF BeginRun, TaskType, Progressed
  <2>2. Broadcast(r, y, "run_started")
    BY <1>3 DEF BeginRun
  <2> HIDE DEF y
  <2>3. /\ task' \in [Runs -> TaskType]
        /\ stream' \in [Streams -> StreamType]
        /\ \E told \in Seq(Ends \union {"run_started", "progress"}) :
             task' = [task EXCEPT ![r] = [y EXCEPT !.told = told]]
        /\ Follows'
    BY <2>1, <2>2, BroadcastTyped
  <2>4. task'[r].pc = "pages" /\ task'[r].batch = 0
        /\ \A q \in Runs : q # r => task'[q] = task[q]
    BY <2>1, <2>3, TypesAtHand DEF TaskType
  <2>5. TypeOK'
    BY <1>3, <2>3 DEF BeginRun, TypeOK, TaskType, StreamType
  <2>6. RunHoldsLock' /\ Progressed'
    BY <1>3, <2>4 DEF BeginRun, RunHoldsLock, Progressed, Live
  <2> QED BY <2>3, <2>5, <2>6
<1>4. CASE EnsurePage(r)
  <2>1. PICK ok \in BOOLEAN :
          task' = [task EXCEPT ![r].page = @ + 1, ![r].failed = @ \/ ~ ok]
    BY <1>4 DEF EnsurePage
  <2> DEFINE z == task[r].failed \/ ~ ok
             y == [task[r] EXCEPT !.page = @ + 1, !.failed = z]
  <2>2. z \in BOOLEAN
    OBVIOUS
  <2>3. task' = [task EXCEPT ![r] = y]
    BY <2>1, TypesAtHand
  <2> HIDE DEF z
  <2> task[r] \in TaskType
    BY TypesAtHand
  <2>4. task[r].page + 1 \in 0 .. Pages
    BY <1>4, ConstantsAssumption DEF EnsurePage, TaskType
  <2>5. y \in TaskType /\ y.pc = "pages" /\ y.batch = task[r].batch
    BY <1>4, <2>2, <2>4 DEF EnsurePage, TaskType
  <2> HIDE DEF y
  <2>6. /\ task' \in [Runs -> TaskType] /\ task'[r] = y
        /\ \A q \in Runs : q # r => task'[q] = task[q]
    BY <2>3, <2>5, TypesAtHand
  <2>7. TypeOK'
    BY <1>4, <2>6 DEF EnsurePage, TypeOK, TaskType
  <2>8. RunHoldsLock' /\ Progressed' /\ Follows'
    BY <1>4, <2>5, <2>6 DEF EnsurePage, RunHoldsLock, Progressed, Follows, Live
  <2> QED BY <2>7, <2>8
<1>5. CASE Cancel(r)
  <2> DEFINE y == [task[r] EXCEPT !.cancel = TRUE]
  <2> task[r] \in TaskType
    BY TypesAtHand
  <2>1. task' = [task EXCEPT ![r] = y]
    BY <1>5 DEF Cancel
  <2>2. /\ y \in TaskType /\ y.pc = task[r].pc
        /\ y.batch = task[r].batch /\ y.page = task[r].page
    BY DEF TaskType
  <2> HIDE DEF y
  <2>3. /\ task' \in [Runs -> TaskType] /\ task'[r] = y
        /\ \A q \in Runs : q # r => task'[q] = task[q]
    BY <2>1, <2>2, TypesAtHand
  <2>4. TypeOK'
    BY <1>5, <2>3 DEF Cancel, TypeOK, TaskType
  <2>5. RunHoldsLock' /\ Progressed' /\ Follows'
    BY <1>5, <2>2, <2>3 DEF Cancel, RunHoldsLock, Progressed, Follows, Live
  <2> QED BY <2>4, <2>5
<1>6. CASE GrowOld(r)
  BY <1>6 DEF GrowOld, TypeOK, RunHoldsLock, Progressed, Follows, Live
<1> QED BY <1>1, <1>2, <1>3, <1>4, <1>5, <1>6

\* The head of the loop: x is the task as it comes to it.
LEMMA NextBatchStep ==
  ASSUME IInv, NEW r \in Runs, Live(r), NEW x \in TaskType, x.page = Pages,
         NextBatch(r, x), UNCHANGED edits
  PROVE  IInv'
<1> USE DEF IInv
<1>1. CASE \E status \in Ends : End(r, x, status)
  BY <1>1, EndStep
<1>2. CASE /\ Broadcast(r, [x EXCEPT !.pc = "batch"], "progress")
           /\ UNCHANGED << binding, row, old, faults >>
           /\ x.batch # Batches
  <2> DEFINE y == [x EXCEPT !.pc = "batch"]
  <2>1. y \in TaskType /\ y.pc = "batch" /\ y.page = Pages /\ y.batch < Batches
    BY <1>2, ConstantsAssumption DEF TaskType
  <2>2. Broadcast(r, y, "progress")
    BY <1>2
  <2> HIDE DEF y
  <2>3. /\ task' \in [Runs -> TaskType]
        /\ stream' \in [Streams -> StreamType]
        /\ \E told \in Seq(Ends \union {"run_started", "progress"}) :
             task' = [task EXCEPT ![r] = [y EXCEPT !.told = told]]
        /\ Follows'
    BY <2>1, <2>2, BroadcastTyped
  <2>4. /\ task'[r].pc = "batch" /\ task'[r].page = Pages /\ task'[r].batch < Batches
        /\ \A q \in Runs : q # r => task'[q] = task[q]
    BY <2>1, <2>3, TypesAtHand DEF TaskType
  <2>5. TypeOK'
    BY <1>2, <2>3 DEF TypeOK, TaskType, StreamType
  <2>6. RunHoldsLock' /\ Progressed'
    BY <1>2, <2>4 DEF RunHoldsLock, Progressed, Live
  <2>7. Follows'
    BY <2>3
  <2> QED BY <2>5, <2>6, <2>7
<1>3. {"succeeded", "partial", "cancelled", "aborted"} \subseteq Ends
  BY DEF Ends
<1>4. Verdict(x) \in Ends
  BY DEF Verdict, Ends
<1> QED BY <1>1, <1>2, <1>3, <1>4 DEF NextBatch

LEMMA LoopStep ==
  ASSUME IInv, NEW r \in Runs, PagesEnd(r) \/ BatchEnds(r) \/ RunBreaks(r)
  PROVE  IInv'
<1> USE DEF IInv
<1> task[r] \in TaskType /\ Live(r)
  BY TypesAtHand DEF PagesEnd, BatchEnds, RunBreaks, Live
<1>1. CASE PagesEnd(r)
  <2>1. CASE task[r].cancel
    BY <1>1, <2>1, EndStep DEF PagesEnd, Ends
  <2>2. CASE ~ task[r].cancel
    BY <1>1, <2>2, NextBatchStep DEF PagesEnd
  <2> QED BY <2>1, <2>2
<1>2. CASE BatchEnds(r)
  <2>1. PICK ok \in BOOLEAN :
          NextBatch(r, [task[r] EXCEPT !.batch = @ + 1, !.failed = @ \/ ~ ok])
    BY <1>2 DEF BatchEnds
  <2> DEFINE z == task[r].failed \/ ~ ok
             x == [task[r] EXCEPT !.batch = @ + 1, !.failed = z]
  <2>2. z \in BOOLEAN
    OBVIOUS
  <2>3. NextBatch(r, x) /\ UNCHANGED edits
    BY <1>2, <2>1 DEF BatchEnds
  <2> HIDE DEF z
  <2>9. task[r].batch < Batches /\ task[r].page = Pages
    BY <1>2 DEF BatchEnds, Progressed
  <2>4. task[r].batch + 1 \in 0 .. Batches /\ task[r].page = Pages
    BY <2>9, ConstantsAssumption DEF TaskType
  <2>5. x \in TaskType /\ x.page = Pages
    BY <2>2, <2>4 DEF TaskType
  <2> HIDE DEF x
  <2> QED BY <2>3, <2>5, NextBatchStep
<1>3. CASE RunBreaks(r)
  <2> DEFINE y == [task[r] EXCEPT !.pc = "over"]
  <2>1. y \in TaskType /\ y.pc = "over"
    BY DEF TaskType
  <2>2. Broadcast(r, y, "aborted") /\ "aborted" \in Ends
    BY <1>3 DEF RunBreaks, Ends
  <2> HIDE DEF y
  <2>3. /\ task' \in [Runs -> TaskType]
        /\ stream' \in [Streams -> StreamType]
        /\ \E told \in Seq(Ends \union {"run_started", "progress"}) :
             task' = [task EXCEPT ![r] = [y EXCEPT !.told = told]]
        /\ Follows'
    BY <2>1, <2>2, BroadcastTyped
  <2>4. task'[r].pc = "over" /\ \A q \in Runs : q # r => task'[q] = task[q]
    BY <2>1, <2>3, TypesAtHand DEF TaskType
  <2>5. TypeOK'
    <3>1. binding' \in [file: Files, status: {"active", "unreachable", "disconnected"},
                        lock: Runs \union {None}]
      BY <1>3 DEF RunBreaks, TypeOK
    <3>2. row' \in [Runs -> Ends \union {"none", "running"}]
      BY <1>3, <2>2 DEF RunBreaks, TypeOK
    <3>3. old' \subseteq {q \in Runs : row'[q] = "running"}
      BY <1>3 DEF RunBreaks, TypeOK
    <3>4. faults' \in 0 .. MaxFaults /\ edits' \in 0 .. MaxEdits
      BY <1>3, ConstantsAssumption DEF RunBreaks, Faulty, TypeOK
    <3> QED BY <2>3, <3>1, <3>2, <3>3, <3>4 DEF TypeOK, TaskType, StreamType
  <2>6. RunHoldsLock' /\ Progressed'
    <3>1. \A q \in Runs : q # r => row'[q] = row[q]
      BY <1>3 DEF RunBreaks, TypeOK
    <3> QED BY <2>4, <3>1, OneLiveRun DEF RunHoldsLock, Progressed, Live
  <2>7. Follows'
    BY <2>3
  <2> QED BY <2>5, <2>6, <2>7
<1> QED BY <1>1, <1>2, <1>3

LEMMA BindingStep ==
  ASSUME IInv, EditBinding
  PROVE  IInv'
<1> USE DEF IInv
<1>1. /\ binding' \in [file: Files, status: {"active", "unreachable", "disconnected"},
                      lock: Runs \union {None}]
      /\ binding'.lock = binding.lock
  BY DEF EditBinding, Disconnect, MarkUnreachable, Connect, Replace, TypeOK
<1>2. TypeOK'
  BY SMTT(30), <1>1, ConstantsAssumption DEF EditBinding, TypeOK
<1>3. RunHoldsLock' /\ Progressed' /\ Follows'
  BY <1>1 DEF EditBinding, RunHoldsLock, Progressed, Follows, Live
<1> QED BY <1>2, <1>3

LEMMA ServerStep ==
  ASSUME IInv, Crash \/ Shutdown
  PROVE  IInv'
<1> USE DEF IInv
<1> DEFINE Bindings == [file: Files, status: {"active", "unreachable", "disconnected"},
                        lock: Runs \union {None}]
           Rows == [Runs -> Ends \union {"none", "running"}]
<1>1. PICK b \in Bindings, w \in Rows : StartServer(b, w)
  <2>1. CASE Crash
    BY <2>1 DEF Crash, TypeOK
  <2>2. CASE Shutdown
    <3> DEFINE ended == {r \in Runs : task[r].pc \in {"pages", "batch"}}
               b == IF binding.lock \in ended THEN [binding EXCEPT !.lock = None] ELSE binding
               w == [r \in Runs |-> IF r \in ended /\ row[r] = "running" THEN "succeeded" ELSE row[r]]
    <3>1. b \in Bindings
      BY DEF TypeOK
    <3>2. w \in Rows
      BY DEF TypeOK, Ends
    <3>3. StartServer(b, w)
      BY <2>2 DEF Shutdown
    <3> HIDE DEF b, w
    <3> QED BY <3>1, <3>2, <3>3
  <2> QED BY <2>1, <2>2
<1>2. row' \in Rows /\ binding' \in Bindings /\ old' = {}
  BY <1>1 DEF StartServer, Recover, Ends
<1>3. [NoTask EXCEPT !.pc = "lost"] \in TaskType
  BY NoTaskTyped DEF TaskType
<1>4. task' \in [Runs -> TaskType] /\ stream' \in [Streams -> StreamType]
  BY <1>1, <1>3, NoTaskTyped, NoStreamTyped DEF StartServer
<1>5. faults' \in 0 .. MaxFaults /\ edits' \in 0 .. MaxEdits
  BY <1>1, ConstantsAssumption DEF StartServer, Faulty, TypeOK
<1>10. \A q \in Runs : row[q] = "none" => row'[q] = "none"
  <2>1. CASE Crash
    BY <2>1 DEF Crash, StartServer, Recover, TypeOK
  <2>2. CASE Shutdown
    BY <2>2 DEF Shutdown, StartServer, Recover, TypeOK
  <2> QED BY <2>1, <2>2
<1>6. TypeOK'
  BY <1>2, <1>4, <1>5 DEF TypeOK, TaskType, StreamType
<1>7. \A r \in Runs : task'[r].pc \in {"off", "lost"} /\ task'[r].batch = 0
  BY <1>1 DEF StartServer, NoTask
<1>8. RunHoldsLock' /\ Progressed'
  <2>1. ASSUME NEW q \in Runs, task'[q].pc = "off"
        PROVE  row'[q] = "none"
    <3>1. task[q].pc = "off"
      BY <1>1, <2>1 DEF StartServer, NoTask
    <3>2. row[q] = "none"
      BY <3>1 DEF Progressed
    <3> QED BY <1>10, <3>2
  <2> QED BY <1>7, <2>1 DEF RunHoldsLock, Progressed, Live
<1>9. Follows'
  BY <1>1 DEF StartServer, Follows, NoStream
<1> QED BY <1>6, <1>8, <1>9

LEMMA StreamStep ==
  ASSUME IInv, NEW c \in Streams,
         Serve(c) \/ Leave(c) \/ \E r \in Runs : Subscribe(c, r) \/ SubscribeLost(c, r)
  PROVE  IInv'
<1> USE DEF IInv
<1> stream \in [Streams -> StreamType] /\ task \in [Runs -> TaskType]
  BY TypesAtHand
<1>1. ASSUME NEW y \in StreamType, stream' = [stream EXCEPT ![c] = y],
             y.pc # "off" => y.run \in Runs,
             UNCHANGED << binding, row, old, task, faults, edits >>
      PROVE  IInv'
  <2>1. TypeOK'
    BY <1>1 DEF TypeOK, TaskType, StreamType
  <2>2. RunHoldsLock' /\ Progressed'
    BY <1>1 DEF RunHoldsLock, Progressed, Live
  <2>3. Follows'
    BY <1>1 DEF Follows
  <2> QED BY <2>1, <2>2, <2>3
<1>2. CASE Serve(c)
  <2>1. stream[c].pc # "off" /\ stream[c].run \in Runs
    BY <1>2 DEF Serve, SendProgress, SendEnd, Deliver, Follows
  <2>2. Told(c) \in Seq(Ends \union {"run_started", "progress"}) /\ Len(Told(c)) \in Nat
    BY <2>1 DEF Told, TaskType
  <2>3. ASSUME NEW pc \in {"caught", "live", "closed"}, NEW got \in Seq(Nat), NEW queue \in Seq(Nat)
        PROVE  LET y == [stream[c] EXCEPT !.pc = pc, !.got = got, !.queue = queue]
               IN  y \in StreamType /\ y.run \in Runs
    BY <2>1 DEF StreamType
  <2>4. stream[c].got \in Seq(Nat) /\ stream[c].queue \in Seq(Nat)
    BY DEF StreamType
  <2>5. \E pc \in {"caught", "live", "closed"}, got \in Seq(Nat), queue \in Seq(Nat) :
          stream' = [stream EXCEPT ![c] = [stream[c] EXCEPT !.pc = pc, !.got = got, !.queue = queue]]
    <3>1. CASE SendProgress(c) /\ Progress(c) # {}
      <4>1. PICK i \in Progress(c) :
              stream' = [stream EXCEPT ![c].pc = "caught", ![c].got = Append(@, i)]
        BY <3>1 DEF SendProgress
      <4>2. i \in Nat
        BY <2>2 DEF Progress
      <4> DEFINE g == Append(stream[c].got, i)
      <4>3. g \in Seq(Nat)
        BY <2>4, <4>2
      <4>4. stream' = [stream EXCEPT ![c] = [stream[c] EXCEPT !.pc = "caught", !.got = g, !.queue = stream[c].queue]]
        BY <4>1 DEF StreamType
      <4> HIDE DEF g
      <4> QED BY <2>4, <4>3, <4>4
    <3>2. CASE CatchUp(c, stream[c].got)
      <4> DEFINE g == Append(stream[c].got, Len(Told(c)))
      <4>1. g \in Seq(Nat)
        BY <2>2, <2>4
      <4>2. \/ stream' = [stream EXCEPT ![c] = [stream[c] EXCEPT !.pc = "closed", !.got = g, !.queue = stream[c].queue]]
            \/ stream' = [stream EXCEPT ![c] = [stream[c] EXCEPT !.pc = "live", !.got = stream[c].got, !.queue = stream[c].queue]]
        BY <3>2 DEF CatchUp, StreamType
      <4> HIDE DEF g
      <4> QED BY <2>4, <4>1, <4>2
    <3>3. CASE Deliver(c)
      <4> DEFINE e == Head(stream[c].queue)
                 g == Append(stream[c].got, e)
                 q == Tail(stream[c].queue)
                 p == IF Told(c)[e] \in Ends THEN "closed" ELSE stream[c].pc
      <4>1. g \in Seq(Nat) /\ q \in Seq(Nat)
        BY <2>4, <3>3 DEF Deliver
      <4>2. p \in {"live", "closed"}
        BY <3>3 DEF Deliver
      <4>3. stream' = [stream EXCEPT ![c] = [stream[c] EXCEPT !.pc = p, !.got = g, !.queue = q]]
        BY <3>3 DEF Deliver, StreamType
      <4> HIDE DEF g, q, p
      <4> QED BY <4>1, <4>2, <4>3
    <3> QED BY <1>2, <3>1, <3>2, <3>3 DEF Serve, SendProgress, SendEnd
  <2> QED BY <1>1, <1>2, <2>3, <2>5 DEF Serve, SendProgress, SendEnd, Deliver
<1>3. CASE Leave(c)
  BY <1>1, <1>3, NoStreamTyped DEF Leave, NoStream
<1>5. CASE \E r \in Runs : SubscribeLost(c, r)
  <2>1. PICK r \in Runs : SubscribeLost(c, r)
    BY <1>5
  <2> DEFINE y == [NoStream EXCEPT !.pc = "closed", !.run = r, !.end = EndOfRow(row[r])]
  <2>2. EndOfRow(row[r]) \in {"completed", "cancelled", "aborted", "unknown"}
    BY DEF EndOfRow
  <2>3. y \in StreamType /\ y.run \in Runs
    BY <2>2, NoStreamTyped DEF StreamType, NoStream
  <2>4. stream' = [stream EXCEPT ![c] = y]
    BY <2>1 DEF SubscribeLost
  <2> HIDE DEF y
  <2> QED BY <1>1, <2>1, <2>3, <2>4 DEF SubscribeLost
<1>4. CASE \E r \in Runs : Subscribe(c, r)
  <2>1. PICK r \in Runs : Subscribe(c, r)
    BY <1>4
  <2> DEFINE n == Len(task[r].told)
             y == [NoStream EXCEPT !.pc = IF n = 0 THEN "live" ELSE "greeted", !.run = r,
                                   !.got = IF n = 0 THEN << >> ELSE << 1 >>, !.since = n]
  <2>2. n \in Nat
    BY DEF TaskType
  <2>3. stream' = [stream EXCEPT ![c] = y]
    BY <2>1 DEF Subscribe
  <2> HIDE DEF n
  <2>4. (IF n = 0 THEN << >> ELSE << 1 >>) \in Seq(Nat)
    OBVIOUS
  <2>5. y \in StreamType /\ y.run \in Runs
    BY <2>2, <2>4, NoStreamTyped DEF StreamType, NoStream
  <2> HIDE DEF y
  <2> QED BY <1>1, <2>1, <2>3, <2>5 DEF Subscribe
<1> QED BY <1>2, <1>3, <1>4, <1>5

LEMMA NextIInv == ASSUME IInv, [Next]_vars PROVE IInv'
<1>1. CASE EditBinding
  BY <1>1, BindingStep
<1>2. CASE Crash \/ Shutdown
  BY <1>2, ServerStep
<1>3. ASSUME NEW r \in Runs, StartRun(r) \/ StartRunFails(r) \/ Advance(r) \/ RunBreaks(r)
                               \/ Cancel(r) \/ GrowOld(r)
      PROVE  IInv'
  BY <1>3, RunStep, LoopStep DEF Advance
<1>4. ASSUME NEW c \in Streams,
             Serve(c) \/ Leave(c) \/ \E r \in Runs : Subscribe(c, r) \/ SubscribeLost(c, r)
      PROVE  IInv'
  BY <1>4, StreamStep
<1>5. CASE UNCHANGED vars
  BY <1>5 DEF vars, IInv, TypeOK, RunHoldsLock, Progressed, Follows, Live
<1> QED BY <1>1, <1>2, <1>3, <1>4, <1>5 DEF Next

THEOREM Invariance == Spec => []IInv
<1>1. Init => IInv
  BY InitIInv
<1>2. IInv /\ [Next]_vars => IInv'
  BY NextIInv
<1> QED BY <1>1, <1>2, PTL DEF Spec

-----------------------------------------------------------------------------

\* The binding, the rows, the tasks and the streams keep their types.
THEOREM TypeCorrect == Spec => []TypeOK
<1>1. IInv => TypeOK
  BY DEF IInv
<1> QED BY <1>1, Invariance, PTL

\* A run that still does anything holds the lock (full_sync, _full_sync_runner,
\* replace_binding, release_stale_locks).
THEOREM LockIsHeld == Spec => []RunHoldsLock
<1>1. IInv => RunHoldsLock
  BY DEF IInv
<1> QED BY <1>1, Invariance, PTL

-----------------------------------------------------------------------------
(* The verdict of a run *)

\* What a run that goes to its end has earned, by the task as it comes there.
Earned(x, status) ==
  /\ status \in {"succeeded", "partial"} =>
       /\ x.page = Pages /\ x.batch = Batches
       /\ x.failed <=> status = "partial"
  /\ status = "cancelled" => x.cancel /\ (x.batch < Batches \/ Batches = 0)
  /\ status = "aborted" => binding.status # "active" \/ binding.file # x.file

\* What a step may write into the rows.
Verdicts ==
  \A q \in Runs : row'[q] # row[q] /\ row[q] # "none" => row[q] = "running" /\ Deserved(q)

LEMMA EndVerdict ==
  ASSUME IInv, NEW r \in Runs, NEW x \in TaskType, NEW status \in Ends,
         End(r, x, status), Earned(x, status)
  PROVE  Verdicts
<1> DEFINE y == [x EXCEPT !.pc = "over"]
<1>1. y \in TaskType /\ y.pc = "over" /\ y.page = x.page /\ y.batch = x.batch
      /\ y.failed = x.failed /\ y.cancel = x.cancel /\ y.file = x.file
  BY DEF TaskType
<1>2. Broadcast(r, y, status)
  BY DEF End
<1> HIDE DEF y
<1>3. \E told \in Seq(Ends \union {"run_started", "progress"}) :
         task' = [task EXCEPT ![r] = [y EXCEPT !.told = told]]
  BY <1>1, <1>2, BroadcastTyped DEF IInv
<1>4. /\ task'[r].pc = "over" /\ task'[r].page = x.page /\ task'[r].batch = x.batch
      /\ task'[r].failed = x.failed /\ task'[r].cancel = x.cancel /\ task'[r].file = x.file
  BY <1>1, <1>3, TypesAtHand DEF IInv, TaskType
<1>5. \A q \in Runs : row'[q] # row[q] => q = r /\ row[q] = "running" /\ row'[q] = status
  BY DEF End, IInv, TypeOK
<1>6. row'[r] = status => Deserved(r)
  BY <1>4 DEF Deserved, Earned
<1> QED BY <1>5, <1>6 DEF Verdicts

LEMMA NextBatchVerdict ==
  ASSUME IInv, NEW r \in Runs, NEW x \in TaskType, x.page = Pages, NextBatch(r, x)
  PROVE  Verdicts
<1>1. CASE x.batch = Batches
  <2>1. Verdict(x) \in Ends /\ Earned(x, Verdict(x))
    BY <1>1 DEF Verdict, Ends, Earned
  <2> QED BY <1>1, <2>1, EndVerdict DEF NextBatch
<1>2. CASE x.batch # Batches /\ x.cancel
  <2>1. "cancelled" \in Ends /\ Earned(x, "cancelled")
    BY <1>2, ConstantsAssumption DEF Ends, Earned, TaskType
  <2> QED BY <1>2, <2>1, EndVerdict DEF NextBatch
<1>3. CASE x.batch # Batches /\ ~ x.cancel /\ (binding.status # "active" \/ binding.file # x.file)
  <2>1. "aborted" \in Ends /\ Earned(x, "aborted") /\ End(r, x, "aborted")
    BY <1>3 DEF Ends, Earned, NextBatch
  <2> QED BY <2>1, EndVerdict
<1>4. CASE UNCHANGED row
  BY <1>4 DEF Verdicts
<1> QED BY <1>1, <1>2, <1>3, <1>4 DEF NextBatch

\* The start of the server after it was killed.
LEMMA CrashVerdict == ASSUME IInv, Crash PROVE Verdicts
<1>1. ASSUME NEW q \in Runs, row'[q] # row[q]
      PROVE  row[q] = "running" /\ row'[q] = "aborted" /\ q \in old /\ task'[q].pc = "lost"
  <2>1. q \in old /\ row[q] = "running" /\ row'[q] = "aborted"
    BY <1>1 DEF Crash, StartServer, Recover
  <2>2. task[q].pc # "off"
    BY <2>1 DEF IInv, Progressed
  <2>3. task'[q].pc = "lost"
    BY <2>2 DEF Crash, StartServer, NoTask
  <2> QED BY <2>1, <2>3
<1> QED BY <1>1 DEF Verdicts, Deserved

LEMMA StepVerdict == ASSUME IInv, [Next]_vars, ~ Shutdown PROVE Verdicts
<1>1. ASSUME NEW r \in Runs, PagesEnd(r)
      PROVE  Verdicts
  <2>1. task[r] \in TaskType /\ task[r].page = Pages /\ task[r].batch = 0
    BY <1>1, TypesAtHand DEF PagesEnd, IInv, Progressed
  <2>2. CASE task[r].cancel
    <3>1. "cancelled" \in Ends /\ Earned(task[r], "cancelled")
      BY <2>1, <2>2, ConstantsAssumption DEF Ends, Earned
    <3> QED BY <1>1, <2>1, <2>2, <3>1, EndVerdict DEF PagesEnd
  <2>3. CASE ~ task[r].cancel
    BY <1>1, <2>1, <2>3, NextBatchVerdict DEF PagesEnd
  <2> QED BY <2>2, <2>3
<1>2. ASSUME NEW r \in Runs, BatchEnds(r)
      PROVE  Verdicts
  <2>1. PICK ok \in BOOLEAN :
          NextBatch(r, [task[r] EXCEPT !.batch = @ + 1, !.failed = @ \/ ~ ok])
    BY <1>2 DEF BatchEnds
  <2> DEFINE z == task[r].failed \/ ~ ok
             x == [task[r] EXCEPT !.batch = @ + 1, !.failed = z]
  <2>2. z \in BOOLEAN
    OBVIOUS
  <2>3. NextBatch(r, x)
    BY <2>1
  <2> HIDE DEF z
  <2>4. task[r] \in TaskType
    BY TypesAtHand DEF IInv
  <2>5. task[r].batch < Batches /\ task[r].page = Pages
    BY <1>2 DEF BatchEnds, IInv, Progressed
  <2>6. task[r].batch + 1 \in 0 .. Batches
    BY <2>4, <2>5, ConstantsAssumption DEF TaskType
  <2>7. x \in TaskType /\ x.page = Pages
    BY <2>2, <2>4, <2>5, <2>6 DEF TaskType
  <2> HIDE DEF x
  <2> QED BY <2>3, <2>7, NextBatchVerdict
<1>3. ASSUME NEW r \in Runs, RunBreaks(r)
      PROVE  Verdicts
  <2> DEFINE y == [task[r] EXCEPT !.pc = "over"]
  <2>1. y \in TaskType /\ y.pc = "over"
    BY TypesAtHand DEF IInv, TaskType
  <2>2. Broadcast(r, y, "aborted") /\ "aborted" \in Ends
    BY <1>3 DEF RunBreaks, Ends
  <2> HIDE DEF y
  <2>3. \E told \in Seq(Ends \union {"run_started", "progress"}) :
          task' = [task EXCEPT ![r] = [y EXCEPT !.told = told]]
    BY <2>1, <2>2, BroadcastTyped DEF IInv
  <2>4. task'[r].pc = "over"
    BY <2>1, <2>3, TypesAtHand DEF IInv, TaskType
  <2>5. faults' > faults
    BY <1>3, ConstantsAssumption DEF RunBreaks, Faulty, IInv, TypeOK
  <2>6. \A q \in Runs : row'[q] # row[q] => q = r /\ row[q] = "running" /\ row'[q] = "aborted"
    BY <1>3 DEF RunBreaks, IInv, TypeOK
  <2> QED BY <2>4, <2>5, <2>6 DEF Verdicts, Deserved
<1>4. ASSUME NEW r \in Runs, StartRun(r)
      PROVE  Verdicts
  <2>1. row[r] = "none"
    BY <1>4 DEF StartRun, MayStart, IInv, Progressed
  <2>2. \A q \in Runs : row'[q] # row[q] => q = r
    BY <1>4 DEF StartRun, IInv, TypeOK
  <2> QED BY <2>1, <2>2 DEF Verdicts
<1>5. CASE Crash
  BY <1>5, CrashVerdict
<1>6. CASE UNCHANGED row
  BY <1>6 DEF Verdicts
<1> QED
  BY <1>1, <1>2, <1>3, <1>4, <1>5, <1>6
     DEF Next, vars, Advance, Serve, EditBinding, StartRunFails, BeginRun, EnsurePage,
         Cancel, GrowOld, Leave, Subscribe, SubscribeLost, SendProgress, SendEnd, Deliver

\* What the row of a run comes to say is what the run did, and it is said once;
\* the end of the server in good order is left out, which writes a success whatever
\* the run did (run_full_sync, _full_sync_runner, release_stale_locks).
THEOREM VerdictsDeserved == Spec => VerdictIsTrue
<1>1. IInv /\ [Next]_vars =>
        [ ~ Shutdown =>
            \A r \in Runs : row'[r] # row[r] /\ row[r] # "none" =>
                            row[r] = "running" /\ Deserved(r) ]_vars
  BY StepVerdict DEF Verdicts
<1> QED BY <1>1, Invariance, PTL DEF Spec, VerdictIsTrue
-----------------------------------------------------------------------------
(* What a stream has sent and has still to send *)

Events == Ends \union {"run_started", "progress"}

\* A run tells first that it began and last how it ended.
ToldInOrder ==
  \A r \in Runs :
    LET t == task[r].told
    IN  /\ task[r].pc \in {"off", "ready", "lost"} => t = << >>
        /\ task[r].pc \in {"pages", "batch", "over"} => t # << >> /\ t[1] = "run_started"
        /\ \A i \in 1 .. Len(t) : t[i] \in Ends <=> task[r].pc = "over" /\ i = Len(t)

\* The queue of the stream y is the rest of t from some place d on, and what was
\* sent last is t from where the queue was made up to d; none of it was an end.
InStep(y, t) ==
  LET n == Len(t)
      d == n - Len(y.queue)
  IN  /\ y.since <= d /\ d - y.since <= Len(y.got)
      /\ y.pc \in {"greeted", "caught"} => d = y.since
      /\ \A k \in 1 .. Len(y.queue) : y.queue[k] = d + k
      /\ \A i \in y.since + 1 .. d : y.got[Len(y.got) - d + i] = i
      /\ \A k \in 1 .. Len(y.got) : y.got[k] \in 1 .. n /\ t[y.got[k]] \notin Ends

ToldAll(y, t) ==
  /\ y.got # << >>
  /\ \A k \in 1 .. Len(y.got) :
       y.got[k] \in 1 .. Len(t) /\ (t[y.got[k]] \in Ends <=> k = Len(y.got))

StreamsInStep ==
  \A c \in Streams :
    /\ Open(c) => InStep(stream[c], Told(c))
    /\ stream[c].pc = "closed" /\ task[stream[c].run].pc # "lost"
         => task[stream[c].run].pc = "over" /\ ToldAll(stream[c], Told(c))

TInv == ToldInOrder /\ StreamsInStep

\* One more event, for everybody.
LEMMA TellInStep ==
  ASSUME NEW y \in StreamType, NEW t \in Seq(Events), NEW event \in Events, InStep(y, t)
  PROVE  InStep([y EXCEPT !.queue = Append(@, Len(t) + 1)], Append(t, event))
<1> DEFINE n == Len(t)
           q == Append(y.queue, n + 1)
           z == [y EXCEPT !.queue = q]
           u == Append(t, event)
<1>1. /\ y.queue \in Seq(Nat) /\ y.got \in Seq(Nat) /\ y.since \in Nat
      /\ Len(y.queue) \in Nat /\ Len(y.got) \in Nat /\ n \in Nat
  BY DEF StreamType
<1>2. z.queue = q /\ z.got = y.got /\ z.since = y.since /\ z.pc = y.pc
  BY DEF StreamType
<1>3. /\ Len(q) = Len(y.queue) + 1 /\ q[Len(q)] = n + 1
      /\ \A k \in 1 .. Len(y.queue) : q[k] = y.queue[k]
  BY <1>1
<1>4. Len(u) = n + 1 /\ \A i \in 1 .. n : u[i] = t[i]
  BY <1>1
<1>5. /\ y.since <= n - Len(y.queue) /\ n - Len(y.queue) - y.since <= Len(y.got)
      /\ y.pc \in {"greeted", "caught"} => n - Len(y.queue) = y.since
      /\ \A k \in 1 .. Len(y.queue) : y.queue[k] = n - Len(y.queue) + k
      /\ \A i \in y.since + 1 .. n - Len(y.queue) : y.got[Len(y.got) - (n - Len(y.queue)) + i] = i
      /\ \A k \in 1 .. Len(y.got) : y.got[k] \in 1 .. n /\ t[y.got[k]] \notin Ends
  BY DEF InStep
<1> HIDE DEF q, u, z, n
<1>6. Len(u) - Len(z.queue) = n - Len(y.queue)
  BY <1>1, <1>2, <1>3, <1>4
<1>7. \A k \in 1 .. Len(z.queue) : z.queue[k] = n - Len(y.queue) + k
  <2> TAKE k \in 1 .. Len(z.queue)
  <2>1. z.queue[k] = q[k] /\ k \in 1 .. Len(y.queue) + 1
    BY <1>2, <1>3
  <2>2. CASE k \in 1 .. Len(y.queue)
    BY <1>3, <1>5, <2>1, <2>2
  <2>3. CASE k = Len(y.queue) + 1
    BY <1>1, <1>3, <2>1, <2>3
  <2>4. k \in 1 .. Len(y.queue) \/ k = Len(y.queue) + 1
    BY <1>1, <2>1
  <2> QED BY <2>2, <2>3, <2>4
<1>8. \A k \in 1 .. Len(z.got) : z.got[k] \in 1 .. Len(u) /\ u[z.got[k]] \notin Ends
  <2> TAKE k \in 1 .. Len(z.got)
  <2>1. k \in 1 .. Len(y.got) /\ z.got[k] = y.got[k]
    BY <1>2
  <2>2. y.got[k] \in 1 .. n /\ t[y.got[k]] \notin Ends
    BY <1>5, <2>1
  <2>3. y.got[k] \in 1 .. n + 1 /\ u[y.got[k]] = t[y.got[k]]
    BY <1>1, <1>4, <2>2
  <2> QED BY <1>4, <2>1, <2>2, <2>3
<1>9. \A i \in z.since + 1 .. n - Len(y.queue) : z.got[Len(z.got) - (n - Len(y.queue)) + i] = i
  BY <1>2, <1>5
<1>10. InStep(z, u)
  BY <1>2, <1>5, <1>6, <1>7, <1>8, <1>9 DEF InStep
<1> QED BY <1>10 DEF z, q, u, n

LEMMA BroadcastTells ==
  ASSUME IInv, TInv, NEW r \in Runs, NEW x \in TaskType, NEW event \in Events,
         Broadcast(r, x, event),
         x.told = task[r].told, task[r].pc \in {"ready", "pages", "batch"},
         x.pc \in {"pages", "batch", "over"}, event \in Ends <=> x.pc = "over",
         task[r].pc = "ready" => event = "run_started"
  PROVE  TInv'
<1> DEFINE t == task[r].told
           u == Append(t, event)
           y == [x EXCEPT !.told = u]
<1>1. task \in [Runs -> TaskType] /\ stream \in [Streams -> StreamType]
  BY TypesAtHand DEF IInv
<1>2. t \in Seq(Events) /\ Len(t) \in Nat
  BY <1>1 DEF TaskType, Events
<1>3. Len(u) = Len(t) + 1 /\ u[Len(u)] = event /\ (\A i \in 1 .. Len(t) : u[i] = t[i]) /\ u # << >>
  BY <1>2
<1>4. y.told = u /\ y.pc = x.pc
  BY DEF TaskType
<1>5. task' = [task EXCEPT ![r] = y]
  BY DEF Broadcast
<1> HIDE DEF y
<1>6. task'[r] = y /\ \A q \in Runs : q # r => task'[q] = task[q]
  BY <1>1, <1>5
<1>7. \A i \in 1 .. Len(t) : t[i] \notin Ends
  BY DEF TInv, ToldInOrder
<1>8. t # << >> => t[1] = "run_started"
  BY DEF TInv, ToldInOrder
<1>9. t = << >> => event = "run_started"
  BY DEF TInv, ToldInOrder
<1>10. u[1] = "run_started"
  <2>1. CASE Len(t) = 0
    BY <1>2, <1>3, <1>9, <2>1
  <2>2. CASE Len(t) # 0
    BY <1>2, <1>3, <1>8, <2>2
  <2> QED BY <2>1, <2>2
<1> HIDE DEF u
<1>11. \A i \in 1 .. Len(u) : u[i] \in Ends <=> y.pc = "over" /\ i = Len(u)
  BY <1>2, <1>3, <1>4, <1>7
<1>12. ToldInOrder'
  BY <1>3, <1>4, <1>6, <1>10, <1>11 DEF TInv, ToldInOrder
<1>13. ASSUME NEW c \in Streams
       PROVE  (/\ Open(c) => InStep(stream[c], Told(c))
               /\ stream[c].pc = "closed" /\ task[stream[c].run].pc # "lost"
                    => task[stream[c].run].pc = "over" /\ ToldAll(stream[c], Told(c)))'
  <2>1. stream[c] \in StreamType
    BY <1>1
  <2>2. CASE stream[c].run = r /\ Open(c)
    <3> DEFINE z == [stream[c] EXCEPT !.queue = Append(@, Len(t) + 1)]
    <3>1. stream'[c] = z
      BY <2>2 DEF Broadcast
    <3>2. z.run = r /\ z.pc = stream[c].pc
      BY <2>1, <2>2 DEF StreamType
    <3>3. InStep(stream[c], t)
      BY <2>2 DEF TInv, StreamsInStep, Told
    <3>4. InStep(z, u)
      BY <1>2, <2>1, <3>3, TellInStep DEF u
    <3> HIDE DEF z
    <3> QED BY <1>4, <1>6, <2>2, <3>1, <3>2, <3>4 DEF Told, Open
  <2>3. CASE ~ (stream[c].run = r /\ Open(c))
    <3>1. stream'[c] = stream[c]
      BY <2>3 DEF Broadcast
    <3>2. CASE stream[c].pc = "off"
      BY <3>1, <3>2 DEF Open
    <3>3. CASE stream[c].pc # "off"
      <4>1. stream[c].run \in Runs
        BY <3>3 DEF IInv, Follows
      <4>2. stream[c].run # r
        BY <2>1, <2>3, <3>3 DEF StreamType, Open, TInv, StreamsInStep
      <4>3. task'[stream[c].run] = task[stream[c].run]
        BY <1>6, <4>1, <4>2
      <4> QED BY <3>1, <4>3 DEF TInv, StreamsInStep, Told, Open
    <3> QED BY <3>2, <3>3
  <2> QED BY <2>2, <2>3
<1> QED BY <1>12, <1>13 DEF TInv, StreamsInStep

LEMMA EndTells ==
  ASSUME IInv, TInv, NEW r \in Runs, NEW x \in TaskType, NEW status \in Ends,
         x.told = task[r].told, task[r].pc \in {"pages", "batch"}, End(r, x, status)
  PROVE  TInv'
<1> DEFINE y == [x EXCEPT !.pc = "over"]
<1>1. y \in TaskType /\ y.pc = "over" /\ y.told = x.told
  BY DEF TaskType
<1>2. Broadcast(r, y, status) /\ status \in Events
  BY DEF End, Events
<1> HIDE DEF y
<1> QED BY <1>1, <1>2, BroadcastTells

LEMMA NextBatchTells ==
  ASSUME IInv, TInv, NEW r \in Runs, NEW x \in TaskType,
         x.told = task[r].told, task[r].pc \in {"pages", "batch"}, NextBatch(r, x)
  PROVE  TInv'
<1>1. CASE \E status \in Ends : End(r, x, status)
  BY <1>1, EndTells
<1>2. CASE Broadcast(r, [x EXCEPT !.pc = "batch"], "progress")
  <2> DEFINE y == [x EXCEPT !.pc = "batch"]
  <2>1. y \in TaskType /\ y.pc = "batch" /\ y.told = x.told
    BY DEF TaskType
  <2>2. Broadcast(r, y, "progress") /\ "progress" \in Events /\ "progress" \notin Ends
    BY <1>2 DEF Events, Ends
  <2> HIDE DEF y
  <2> QED BY <2>1, <2>2, BroadcastTells
<1>3. {"succeeded", "partial", "cancelled", "aborted"} \subseteq Ends
  BY DEF Ends
<1>4. Verdict(x) \in Ends
  BY DEF Verdict, Ends
<1> QED BY <1>1, <1>2, <1>3, <1>4 DEF NextBatch

\* Steps that tell nothing, and leave the streams alone.
LEMMA SilentStep ==
  ASSUME IInv, TInv, stream' = stream,
         \A q \in Runs : /\ task'[q].told = task[q].told
                         /\ \/ task'[q].pc = task[q].pc
                            \/ task[q].pc = "off" /\ task'[q].pc \in {"ready", "lost"}
  PROVE  TInv'
<1>1. ToldInOrder'
  BY DEF TInv, ToldInOrder
<1>2. ASSUME NEW c \in Streams
      PROVE  (/\ Open(c) => InStep(stream[c], Told(c))
              /\ stream[c].pc = "closed" /\ task[stream[c].run].pc # "lost"
                   => task[stream[c].run].pc = "over" /\ ToldAll(stream[c], Told(c)))'
  <2>1. CASE stream[c].pc \in {"off"}
    BY <2>1 DEF Open
  <2>2. CASE stream[c].pc # "off"
    <3>1. stream[c].run \in Runs
      BY <2>2 DEF IInv, Follows
    <3> QED BY <3>1 DEF TInv, StreamsInStep, Told, Open
  <2> QED BY <2>1, <2>2
<1> QED BY <1>1, <1>2 DEF TInv, StreamsInStep
LEMMA RunTells ==
  ASSUME IInv, TInv, NEW r \in Runs,
         StartRun(r) \/ StartRunFails(r) \/ Advance(r) \/ RunBreaks(r) \/ Cancel(r) \/ GrowOld(r)
  PROVE  TInv'
<1>1. task \in [Runs -> TaskType] /\ task[r] \in TaskType
  BY TypesAtHand DEF IInv
<1>2. CASE StartRun(r)
  <2>1. task[r].pc = "off" /\ task[r].told = << >>
    BY <1>2 DEF StartRun, MayStart, TInv, ToldInOrder
  <2> DEFINE y == [NoTask EXCEPT !.pc = "ready", !.file = binding.file]
  <2>2. y.pc = "ready" /\ y.told = << >>
    BY DEF NoTask
  <2>3. task' = [task EXCEPT ![r] = y] /\ stream' = stream
    BY <1>2 DEF StartRun
  <2> HIDE DEF y
  <2> QED BY <1>1, <2>1, <2>2, <2>3, SilentStep
<1>3. CASE StartRunFails(r)
  <2>1. task[r].pc = "off"
    BY <1>3 DEF StartRunFails, MayStart
  <2> DEFINE y == [task[r] EXCEPT !.pc = "lost"]
  <2>2. y.pc = "lost" /\ y.told = task[r].told
    BY <1>1 DEF TaskType
  <2>3. task' = [task EXCEPT ![r] = y] /\ stream' = stream
    BY <1>3 DEF StartRunFails
  <2> HIDE DEF y
  <2> QED BY <1>1, <2>1, <2>2, <2>3, SilentStep
<1>4. CASE BeginRun(r)
  <2> DEFINE y == [task[r] EXCEPT !.pc = "pages"]
  <2>1. y \in TaskType /\ y.pc = "pages" /\ y.told = task[r].told
    BY <1>1 DEF TaskType
  <2>2. Broadcast(r, y, "run_started") /\ task[r].pc = "ready"
    BY <1>4 DEF BeginRun
  <2>3. "run_started" \in Events /\ "run_started" \notin Ends
    BY DEF Events, Ends
  <2> HIDE DEF y
  <2> QED BY <2>1, <2>2, <2>3, BroadcastTells
<1>5. CASE EnsurePage(r)
  <2>1. PICK ok \in BOOLEAN :
          task' = [task EXCEPT ![r].page = @ + 1, ![r].failed = @ \/ ~ ok]
    BY <1>5 DEF EnsurePage
  <2> DEFINE y == [task[r] EXCEPT !.page = @ + 1, !.failed = @ \/ ~ ok]
  <2>2. y.pc = task[r].pc /\ y.told = task[r].told
    BY <1>1 DEF TaskType
  <2>3. task' = [task EXCEPT ![r] = y] /\ stream' = stream
    BY <1>1, <1>5, <2>1 DEF EnsurePage
  <2> HIDE DEF y
  <2> QED BY <1>1, <2>2, <2>3, SilentStep
<1>6. CASE Cancel(r)
  <2> DEFINE y == [task[r] EXCEPT !.cancel = TRUE]
  <2>1. y.pc = task[r].pc /\ y.told = task[r].told
    BY <1>1 DEF TaskType
  <2>2. task' = [task EXCEPT ![r] = y] /\ stream' = stream
    BY <1>6 DEF Cancel
  <2> HIDE DEF y
  <2> QED BY <1>1, <2>1, <2>2, SilentStep
<1>7. CASE PagesEnd(r)
  <2>1. task[r].pc = "pages" /\ "cancelled" \in Ends
    BY <1>7 DEF PagesEnd, Ends
  <2> QED BY <1>1, <1>7, <2>1, EndTells, NextBatchTells DEF PagesEnd
<1>8. CASE BatchEnds(r)
  <2>1. PICK ok \in BOOLEAN :
          NextBatch(r, [task[r] EXCEPT !.batch = @ + 1, !.failed = @ \/ ~ ok])
    BY <1>8 DEF BatchEnds
  <2> DEFINE z == task[r].failed \/ ~ ok
             x == [task[r] EXCEPT !.batch = @ + 1, !.failed = z]
  <2>2. z \in BOOLEAN
    OBVIOUS
  <2>3. NextBatch(r, x)
    BY <2>1
  <2> HIDE DEF z
  <2>4. task[r].pc = "batch" /\ task[r].batch < Batches
    BY <1>8 DEF BatchEnds, IInv, Progressed
  <2>5. task[r].batch + 1 \in 0 .. Batches
    BY <1>1, <2>4, ConstantsAssumption DEF TaskType
  <2>6. x \in TaskType /\ x.told = task[r].told
    BY <1>1, <2>2, <2>5 DEF TaskType
  <2> HIDE DEF x
  <2> QED BY <2>3, <2>4, <2>6, NextBatchTells
<1>9. CASE RunBreaks(r)
  <2> DEFINE y == [task[r] EXCEPT !.pc = "over"]
  <2>1. y \in TaskType /\ y.pc = "over" /\ y.told = task[r].told
    BY <1>1 DEF TaskType
  <2>2. Broadcast(r, y, "aborted") /\ task[r].pc \in {"pages", "batch"}
    BY <1>9 DEF RunBreaks
  <2>3. "aborted" \in Events /\ "aborted" \in Ends
    BY DEF Events, Ends
  <2> HIDE DEF y
  <2> QED BY <2>1, <2>2, <2>3, BroadcastTells
<1>10. CASE GrowOld(r)
  BY <1>10, SilentStep DEF GrowOld
<1> QED BY <1>2, <1>3, <1>4, <1>5, <1>6, <1>7, <1>8, <1>9, <1>10 DEF Advance

\* One stream moves, and nothing else.
LEMMA OneStreamMoves ==
  ASSUME IInv, TInv, NEW c \in Streams, NEW y, task' = task, stream' = [stream EXCEPT ![c] = y],
         y.pc \in {"greeted", "caught", "live"} => InStep(y, task[y.run].told),
         y.pc = "closed" /\ task[y.run].pc # "lost"
           => task[y.run].pc = "over" /\ ToldAll(y, task[y.run].told)
  PROVE  TInv'
<1>1. stream'[c] = y /\ \A d \in Streams : d # c => stream'[d] = stream[d]
  BY TypesAtHand DEF IInv
<1>2. ToldInOrder'
  BY DEF TInv, ToldInOrder
<1>3. StreamsInStep'
  BY <1>1 DEF TInv, StreamsInStep, Open, Told
<1> QED BY <1>2, <1>3 DEF TInv

\* Past the cached progress.
LEMMA CatchUpTells ==
  ASSUME IInv, TInv, NEW c \in Streams, stream[c].pc \in {"greeted", "caught"},
         CatchUp(c, stream[c].got), task' = task
  PROVE  TInv'
<1> DEFINE s == stream[c]
           t == Told(c)
           n == Len(t)
<1>1. s \in StreamType /\ s.run \in Runs
  BY TypesAtHand DEF IInv, Follows
<1>2. t \in Seq(Events) /\ n \in Nat /\ t = task[s.run].told
  BY <1>1, TypesAtHand DEF IInv, TaskType, Events, Told
<1>3. InStep(s, t)
  BY DEF TInv, StreamsInStep, Open
<1>4. s.got \in Seq(Nat) /\ Len(s.got) \in Nat
  BY <1>1 DEF StreamType
<1>5. \A k \in 1 .. Len(s.got) : s.got[k] \in 1 .. n /\ t[s.got[k]] \notin Ends
  BY <1>3 DEF InStep
<1>6. CASE Finished(c)
  <2> DEFINE g == Append(s.got, n)
             y == [s EXCEPT !.got = g, !.pc = "closed"]
  <2>1. stream' = [stream EXCEPT ![c] = y]
    BY <1>6 DEF CatchUp
  <2>2. n \in 1 .. n /\ t[n] \in Ends
    BY <1>2, <1>6 DEF Finished
  <2>3. task[s.run].pc = "over"
    BY <1>1, <1>2, <2>2 DEF TInv, ToldInOrder
  <2>4. g # << >> /\ Len(g) = Len(s.got) + 1 /\ g[Len(g)] = n /\ \A k \in 1 .. Len(s.got) : g[k] = s.got[k]
    BY <1>2, <1>4
  <2>5. y.pc = "closed" /\ y.run = s.run /\ y.got = g
    BY <1>1 DEF StreamType
  <2> HIDE DEF g, y, s, t, n
  <2>6. \A k \in 1 .. Len(g) : g[k] \in 1 .. n /\ (t[g[k]] \in Ends <=> k = Len(g))
    <3> TAKE k \in 1 .. Len(g)
    <3>1. CASE k = Len(g)
      BY <2>2, <2>4, <3>1
    <3>2. CASE k # Len(g)
      <4>1. k \in 1 .. Len(s.got)
        BY <1>4, <2>4, <3>2
      <4>2. g[k] = s.got[k]
        BY <2>4, <4>1
      <4>3. g[k] \in 1 .. n /\ t[g[k]] \notin Ends
        BY <1>5, <4>1, <4>2
      <4> QED BY <3>2, <4>3
    <3> QED BY <3>1, <3>2
  <2>7. ToldAll(y, t)
    BY <2>4, <2>5, <2>6 DEF ToldAll, n
  <2> QED BY <1>2, <2>1, <2>3, <2>5, <2>7, OneStreamMoves
<1>7. CASE ~ Finished(c)
  <2> DEFINE y == [s EXCEPT !.got = s.got, !.pc = "live"]
  <2>1. stream' = [stream EXCEPT ![c] = y]
    BY <1>7 DEF CatchUp
  <2>2. y.pc = "live" /\ y.run = s.run /\ y.got = s.got /\ y.queue = s.queue /\ y.since = s.since
    BY <1>1 DEF StreamType
  <2> HIDE DEF y
  <2>3. InStep(y, t)
    BY <1>3, <2>2 DEF InStep
  <2> QED BY <1>2, <2>1, <2>2, <2>3, OneStreamMoves
<1> QED BY <1>6, <1>7
\* The latest progress, out of turn: what is in the queue comes after it.
LEMMA ProgressTells ==
  ASSUME IInv, TInv, NEW c \in Streams, SendProgress(c)
  PROVE  TInv'
<1> DEFINE s == stream[c]
           t == Told(c)
           n == Len(t)
<1>1. s \in StreamType /\ s.run \in Runs /\ s.pc = "greeted"
  BY TypesAtHand DEF IInv, Follows, SendProgress
<1>2. t \in Seq(Events) /\ n \in Nat /\ t = task[s.run].told
  BY <1>1, TypesAtHand DEF IInv, TaskType, Events, Told
<1>3. CASE Progress(c) = {}
  BY <1>1, <1>3, CatchUpTells DEF SendProgress
<1>4. CASE Progress(c) # {}
  <2>1. PICK i \in Progress(c) :
          stream' = [stream EXCEPT ![c].pc = "caught", ![c].got = Append(@, i)]
    BY <1>4 DEF SendProgress
  <2>2. i \in 1 .. n /\ t[i] \notin Ends
    BY DEF Progress, Ends
  <2> DEFINE g == Append(s.got, i)
             y == [s EXCEPT !.pc = "caught", !.got = g]
  <2>3. stream' = [stream EXCEPT ![c] = y] /\ task' = task
    BY <1>1, <2>1 DEF SendProgress, StreamType
  <2>4. y.pc = "caught" /\ y.run = s.run /\ y.got = g /\ y.queue = s.queue /\ y.since = s.since
    BY <1>1 DEF StreamType
  <2>5. /\ s.got \in Seq(Nat) /\ Len(s.got) \in Nat
        /\ s.queue \in Seq(Nat) /\ Len(s.queue) \in Nat /\ s.since \in Nat
    BY <1>1 DEF StreamType
  <2>6. /\ n - Len(s.queue) = s.since
        /\ \A k \in 1 .. Len(s.queue) : s.queue[k] = n - Len(s.queue) + k
        /\ \A k \in 1 .. Len(s.got) : s.got[k] \in 1 .. n /\ t[s.got[k]] \notin Ends
    BY <1>1 DEF TInv, StreamsInStep, Open, InStep
  <2>7. Len(g) = Len(s.got) + 1 /\ g[Len(g)] = i /\ \A k \in 1 .. Len(s.got) : g[k] = s.got[k]
    BY <2>2, <2>5
  <2> HIDE DEF g, y, s, t
  <2>8. \A k \in 1 .. Len(g) : g[k] \in 1 .. n /\ t[g[k]] \notin Ends
    <3> TAKE k \in 1 .. Len(g)
    <3>1. CASE k = Len(g)
      BY <2>2, <2>7, <3>1
    <3>2. CASE k # Len(g)
      <4>1. k \in 1 .. Len(s.got)
        BY <2>5, <2>7, <3>2
      <4> QED BY <2>6, <2>7, <4>1
    <3> QED BY <3>1, <3>2
  <2>9. InStep(y, t)
    <3>5. n - Len(y.queue) = y.since /\ y.since \in Nat
      BY <2>4, <2>5, <2>6
    <3>6. Len(y.got) \in Nat
      BY <2>4, <2>5, <2>7
    <3>3. \A k \in 1 .. Len(y.queue) : y.queue[k] = n - Len(y.queue) + k
      BY <2>4, <2>6
    <3>4. \A k \in 1 .. Len(y.got) : y.got[k] \in 1 .. n /\ t[y.got[k]] \notin Ends
      BY <2>4, <2>8
    <3>7. \A j \in y.since + 1 .. n - Len(y.queue) : FALSE
      BY <3>5
    <3>8. y.since <= n - Len(y.queue) /\ n - Len(y.queue) - y.since <= Len(y.got)
      BY <3>5, <3>6
    <3> QED BY <3>3, <3>4, <3>5, <3>7, <3>8 DEF InStep, n
  <2> QED BY <1>2, <2>3, <2>4, <2>9, OneStreamMoves
<1> QED BY <1>3, <1>4

\* The next event of the queue is the one after the last that was sent.
LEMMA DeliverTells ==
  ASSUME IInv, TInv, NEW c \in Streams, Deliver(c)
  PROVE  TInv'
<1> DEFINE s == stream[c]
           t == Told(c)
           n == Len(t)
           d == n - Len(s.queue)
           e == Head(s.queue)
           g == Append(s.got, e)
           q == Tail(s.queue)
           p == IF t[e] \in Ends THEN "closed" ELSE s.pc
           y == [s EXCEPT !.got = g, !.queue = q, !.pc = p]
<1>1. s \in StreamType /\ s.run \in Runs /\ s.pc = "live" /\ s.queue # << >>
  BY TypesAtHand DEF IInv, Follows, Deliver
<1>2. t \in Seq(Events) /\ n \in Nat /\ t = task[s.run].told
  BY <1>1, TypesAtHand DEF IInv, TaskType, Events, Told
<1>3. stream' = [stream EXCEPT ![c] = y] /\ task' = task
  BY <1>1 DEF Deliver, StreamType
<1>4. y.pc = p /\ y.run = s.run /\ y.got = g /\ y.queue = q /\ y.since = s.since
  BY <1>1 DEF StreamType
<1>5. /\ s.got \in Seq(Nat) /\ Len(s.got) \in Nat
      /\ s.queue \in Seq(Nat) /\ Len(s.queue) \in Nat \ {0} /\ s.since \in Nat
  BY <1>1 DEF StreamType
<1>6. /\ s.since <= d /\ d - s.since <= Len(s.got)
      /\ \A k \in 1 .. Len(s.queue) : s.queue[k] = d + k
      /\ \A i \in s.since + 1 .. d : s.got[Len(s.got) - d + i] = i
      /\ \A k \in 1 .. Len(s.got) : s.got[k] \in 1 .. n /\ t[s.got[k]] \notin Ends
  BY <1>1 DEF TInv, StreamsInStep, Open, InStep
<1>7. e = s.queue[1] /\ e \in Nat
  BY <1>1, <1>5
<1>14. d = n - Len(s.queue) /\ s.since <= d /\ d \in Nat
  <2>1. s.since <= d
    BY <1>6
  <2>2. n \in Nat /\ Len(s.queue) \in Nat /\ s.since \in Nat
    BY <1>2, <1>5
  <2> HIDE DEF s, n
  <2> QED BY <2>1, <2>2
<1> HIDE DEF s, t, n, d
<1>8. e = d + 1 /\ e \in 1 .. n
  <2>1. 1 \in 1 .. Len(s.queue) /\ Len(s.queue) = n - d
    BY <1>2, <1>5, <1>14
  <2>2. s.queue[1] = d + 1
    BY <1>6, <2>1
  <2>3. d + 1 \in 1 .. n
    BY <1>2, <1>14, <2>1
  <2> QED BY <1>7, <2>2, <2>3
<1>15. g # << >>
  BY <1>5, <1>7
<1>9. Len(g) = Len(s.got) + 1 /\ g[Len(g)] = e /\ \A k \in 1 .. Len(s.got) : g[k] = s.got[k]
  BY <1>5, <1>7
<1>10. Len(q) = Len(s.queue) - 1 /\ \A k \in 1 .. Len(q) : q[k] = s.queue[k + 1]
  BY <1>1, <1>5
<1> HIDE DEF e, g, q, p, y
<1>11. \A k \in 1 .. Len(g) : /\ g[k] \in 1 .. n
                              /\ k # Len(g) => t[g[k]] \notin Ends
  <2> TAKE k \in 1 .. Len(g)
  <2>1. CASE k = Len(g)
    BY <1>8, <1>9, <2>1
  <2>2. CASE k # Len(g)
    <3>1. k \in 1 .. Len(s.got)
      BY <1>5, <1>9, <2>2
    <3> QED BY <1>6, <1>9, <3>1
  <2> QED BY <2>1, <2>2
<1>12. CASE t[e] \in Ends
  <2>1. y.pc = "closed"
    BY <1>4, <1>12 DEF p
  <2>2. task[s.run].pc = "over"
    BY <1>1, <1>2, <1>8, <1>12 DEF TInv, ToldInOrder, n
  <2>3. ToldAll(y, t)
    BY <1>4, <1>9, <1>11, <1>12, <1>15 DEF ToldAll, n
  <2> QED BY <1>2, <1>3, <1>4, <2>1, <2>2, <2>3, OneStreamMoves
<1>13. CASE t[e] \notin Ends
  <2>1. y.pc = "live"
    BY <1>1, <1>4, <1>13 DEF p
  <2>2. n - Len(y.queue) = d + 1
    BY <1>2, <1>4, <1>5, <1>10, <1>14
  <2> d \in Nat
    BY <1>14
  <2>3. y.since <= d + 1 /\ d + 1 - y.since <= Len(y.got)
    BY <1>4, <1>5, <1>6, <1>9
  <2>4. \A k \in 1 .. Len(y.queue) : y.queue[k] = d + 1 + k
    <3> TAKE k \in 1 .. Len(y.queue)
    <3>1. k \in 1 .. Len(q) /\ k + 1 \in 1 .. Len(s.queue) /\ y.queue[k] = s.queue[k + 1]
      <4>1. k \in 1 .. Len(q) /\ Len(q) = Len(s.queue) - 1
        BY <1>4, <1>10
      <4>2. q[k] = s.queue[k + 1]
        BY <1>10, <4>1
      <4>3. k + 1 \in 1 .. Len(s.queue)
        <5> DEFINE m == Len(s.queue)
        <5>1. m \in Nat /\ k \in 1 .. m - 1
          BY <1>5, <4>1
        <5> HIDE DEF m
        <5>2. k + 1 \in 1 .. m
          BY <5>1
        <5> QED BY <5>2 DEF m
      <4> QED BY <1>4, <4>1, <4>2, <4>3
    <3>2. s.queue[k + 1] = d + (k + 1)
      BY <1>6, <3>1
    <3> QED BY <3>1, <3>2
  <2>5. \A i \in y.since + 1 .. d + 1 : y.got[Len(y.got) - (d + 1) + i] = i
    <3> TAKE i \in y.since + 1 .. d + 1
    <3>1. Len(y.got) - (d + 1) + i = Len(s.got) - d + i
      BY <1>4, <1>5, <1>9
    <3>2. CASE i = d + 1
      <4>3. Len(y.got) = Len(g) /\ Len(g) \in Nat /\ d + 1 \in Nat
        BY <1>4, <1>5, <1>9
      <4>1. Len(y.got) - (d + 1) + i = Len(g)
        BY <3>2, <4>3
      <4>2. y.got[Len(g)] = i
        BY <1>4, <1>8, <1>9, <3>2
      <4> QED BY <4>1, <4>2
    <3>3. CASE i # d + 1
      <4>1. i \in s.since + 1 .. d
        BY <1>4, <1>5, <3>3
      <4>2. Len(s.got) - d + i \in 1 .. Len(s.got)
        BY <1>5, <1>6, <4>1
      <4>3. g[Len(s.got) - d + i] = s.got[Len(s.got) - d + i]
        BY <1>9, <4>2
      <4> QED BY <1>4, <1>6, <3>1, <4>1, <4>3
    <3> QED BY <3>2, <3>3
  <2>6. \A k \in 1 .. Len(y.got) : y.got[k] \in 1 .. n /\ t[y.got[k]] \notin Ends
    BY <1>4, <1>9, <1>11, <1>13
  <2>7. InStep(y, t)
    <3>1. y.since <= n - Len(y.queue) /\ n - Len(y.queue) - y.since <= Len(y.got)
      <4>1. n - Len(y.queue) \in Nat /\ y.since \in Nat /\ Len(y.got) \in Nat
        BY <1>4, <1>5, <1>9, <2>2
      <4> QED BY <2>2, <2>3, <4>1
    <3>2. \A k \in 1 .. Len(y.queue) : y.queue[k] = n - Len(y.queue) + k
      BY <2>2, <2>4
    <3>3. \A i \in y.since + 1 .. n - Len(y.queue) : y.got[Len(y.got) - (n - Len(y.queue)) + i] = i
      BY <2>2, <2>5
    <3>4. y.pc \notin {"greeted", "caught"}
      BY <2>1
    <3> QED BY <2>6, <3>1, <3>2, <3>3, <3>4 DEF InStep, n
  <2> QED BY <1>2, <1>3, <1>4, <2>1, <2>7, OneStreamMoves
<1> QED BY <1>12, <1>13
LEMMA SubscribeTells ==
  ASSUME IInv, TInv, NEW c \in Streams, NEW r \in Runs, Subscribe(c, r)
  PROVE  TInv'
<1> DEFINE t == task[r].told
           n == Len(t)
           g == IF n = 0 THEN << >> ELSE << 1 >>
           y == [NoStream EXCEPT !.pc = IF n = 0 THEN "live" ELSE "greeted", !.run = r,
                                 !.got = g, !.since = n]
<1>1. t \in Seq(Events) /\ n \in Nat
  BY TypesAtHand DEF IInv, TaskType, Events
<1>2. stream' = [stream EXCEPT ![c] = y] /\ task' = task
  BY DEF Subscribe
<1>3. /\ y.pc = (IF n = 0 THEN "live" ELSE "greeted") /\ y.run = r
      /\ y.got = g /\ y.queue = << >> /\ y.since = n
  BY DEF NoStream
<1>4. \A k \in 1 .. Len(g) : g[k] \in 1 .. n /\ t[g[k]] \notin Ends
  <2>1. CASE n = 0
    BY <2>1
  <2>2. CASE n # 0
    <3>1. g = << 1 >> /\ 1 \in 1 .. n
      BY <1>1, <2>2
    <3>2. t[1] \notin Ends
      BY <1>1, <2>2 DEF TInv, ToldInOrder, Ends
    <3> HIDE DEF g, t, n
    <3> QED BY <3>1, <3>2
  <2> QED BY <2>1, <2>2
<1>5. Len(g) \in Nat
  OBVIOUS
<1> HIDE DEF t, g, y
<1>6. InStep(y, t)
  <2>1. n - Len(y.queue) = n /\ Len(y.queue) = 0
    BY <1>1, <1>3
  <2>2. y.since <= n - Len(y.queue) /\ n - Len(y.queue) - y.since <= Len(y.got)
    BY <1>1, <1>3, <1>5, <2>1
  <2>3. \A i \in y.since + 1 .. n - Len(y.queue) : FALSE
    BY <1>1, <1>3, <2>1
  <2>4. \A k \in 1 .. Len(y.queue) : FALSE
    BY <2>1
  <2>5. n - Len(y.queue) = y.since
    BY <1>3, <2>1
  <2>6. \A k \in 1 .. Len(y.got) : y.got[k] \in 1 .. n /\ t[y.got[k]] \notin Ends
    BY <1>3, <1>4
  <2> QED BY <2>2, <2>3, <2>4, <2>5, <2>6 DEF InStep
<1>7. y.pc \notin {"closed"}
  BY <1>3
<1> QED BY <1>2, <1>3, <1>6, <1>7, OneStreamMoves DEF t

LEMMA StreamTells ==
  ASSUME IInv, TInv, NEW c \in Streams,
         Serve(c) \/ Leave(c) \/ \E r \in Runs : Subscribe(c, r) \/ SubscribeLost(c, r)
  PROVE  TInv'
<1>1. CASE SendEnd(c)
  BY <1>1, CatchUpTells DEF SendEnd
<1>2. CASE Leave(c)
  <2>1. NoStream.pc = "off"
    BY DEF NoStream
  <2>2. stream' = [stream EXCEPT ![c] = NoStream] /\ task' = task
    BY <1>2 DEF Leave
  <2> QED BY <2>1, <2>2, OneStreamMoves
<1>3. ASSUME NEW r \in Runs, SubscribeLost(c, r)
      PROVE  TInv'
  <2> DEFINE y == [NoStream EXCEPT !.pc = "closed", !.run = r, !.end = EndOfRow(row[r])]
  <2>1. y.pc = "closed" /\ y.run = r
    BY DEF NoStream
  <2>2. stream' = [stream EXCEPT ![c] = y] /\ task' = task /\ task[r].pc = "lost"
    BY <1>3 DEF SubscribeLost
  <2> HIDE DEF y
  <2> QED BY <2>1, <2>2, OneStreamMoves
<1> QED BY <1>1, <1>2, <1>3, ProgressTells, DeliverTells, SubscribeTells DEF Serve

LEMMA ServerTells ==
  ASSUME Crash \/ Shutdown
  PROVE  TInv'
<1>1. \A r \in Runs : task'[r].pc \in {"off", "lost"} /\ task'[r].told = << >>
  BY DEF Crash, Shutdown, StartServer, NoTask
<1>2. \A c \in Streams : stream'[c].pc = "off"
  BY DEF Crash, Shutdown, StartServer, NoStream
<1>3. ToldInOrder'
  BY <1>1 DEF ToldInOrder
<1>4. StreamsInStep'
  BY <1>2 DEF StreamsInStep, Open
<1> QED BY <1>3, <1>4 DEF TInv

LEMMA NextTells == ASSUME IInv, TInv, [Next]_vars PROVE TInv'
<1>1. CASE EditBinding
  BY <1>1, SilentStep DEF EditBinding
<1>2. CASE Crash \/ Shutdown
  BY <1>2, ServerTells
<1>3. ASSUME NEW r \in Runs, StartRun(r) \/ StartRunFails(r) \/ Advance(r) \/ RunBreaks(r)
                               \/ Cancel(r) \/ GrowOld(r)
      PROVE  TInv'
  BY <1>3, RunTells
<1>4. ASSUME NEW c \in Streams,
             Serve(c) \/ Leave(c) \/ \E r \in Runs : Subscribe(c, r) \/ SubscribeLost(c, r)
      PROVE  TInv'
  BY <1>4, StreamTells
<1>5. CASE UNCHANGED vars
  BY <1>5, SilentStep DEF vars
<1> QED BY <1>1, <1>2, <1>3, <1>4, <1>5 DEF Next

LEMMA InitTells == ASSUME Init PROVE TInv
<1>1. \A r \in Runs : task[r].pc = "off" /\ task[r].told = << >>
  BY DEF Init, NoTask
<1>2. \A c \in Streams : stream[c].pc = "off"
  BY DEF Init, NoStream
<1>3. ToldInOrder
  BY <1>1 DEF ToldInOrder
<1>4. StreamsInStep
  BY <1>2 DEF StreamsInStep, Open
<1> QED BY <1>3, <1>4 DEF TInv

\* A stream whose queue is in step has, or will have, all that was told since.
LEMMA InStepMisses ==
  ASSUME NEW y \in StreamType, NEW t \in Seq(Events), InStep(y, t),
         NEW i \in y.since + 1 .. Len(t)
  PROVE  LET said == y.got \o y.queue
         IN  \E k \in 1 .. Len(said) :
               /\ said[k] = i
               /\ \A j \in i .. Len(t) : j - i + k <= Len(said) /\ said[j - i + k] = j
<1> DEFINE n == Len(t)
           d == n - Len(y.queue)
           g == y.got
           q == y.queue
           said == g \o q
           k0 == Len(g) - d + i
<1>1. /\ g \in Seq(Nat) /\ q \in Seq(Nat) /\ y.since \in Nat
      /\ Len(g) \in Nat /\ Len(q) \in Nat /\ n \in Nat /\ d = n - Len(q) /\ i \in Nat
  BY DEF StreamType
<1>11. /\ Len(said) = Len(g) + Len(q)
       /\ \A k \in 1 .. Len(g) + Len(q) : said[k] = IF k <= Len(g) THEN g[k] ELSE q[k - Len(g)]
  BY <1>1, ConcatProperties
<1>5. /\ y.since <= d /\ d - y.since <= Len(g)
      /\ \A k \in 1 .. Len(q) : q[k] = d + k
      /\ \A j \in y.since + 1 .. d : g[Len(g) - d + j] = j
  BY DEF InStep
<1>6. d \in Nat
  <2>1. y.since <= d
    BY <1>5
  <2> HIDE DEF n, q
  <2> QED BY <1>1, <2>1
<1>10. i \in y.since + 1 .. n
  OBVIOUS
<1> HIDE DEF n, d, g, q, said
<1>2. Len(said) = Len(g) + Len(q)
  BY <1>11
<1>3. \A k \in 1 .. Len(g) : said[k] = g[k]
  BY <1>1, <1>11
<1>4. \A k \in 1 .. Len(q) : said[Len(g) + k] = q[k]
  <2> TAKE k \in 1 .. Len(q)
  <2>1. Len(g) + k \in 1 .. Len(g) + Len(q) /\ ~ Len(g) + k <= Len(g) /\ Len(g) + k - Len(g) = k
    BY <1>1
  <2> QED BY <1>11, <2>1
<1>7. ASSUME NEW j \in i .. n
      PROVE  Len(g) - d + j \in 1 .. Len(said) /\ said[Len(g) - d + j] = j
  <2>1. j \in y.since + 1 .. n /\ j \in Nat
    BY <1>1, <1>10
  <2>2. CASE j <= d
    <3>1. j \in y.since + 1 .. d
      BY <1>1, <1>6, <2>1, <2>2
    <3>3. y.since <= d /\ d - y.since <= Len(g)
      BY <1>5
    <3>2. Len(g) - d + j \in 1 .. Len(g)
      BY <1>1, <1>6, <3>1, <3>3
    <3>4. said[Len(g) - d + j] = g[Len(g) - d + j]
      BY <1>3, <3>2
    <3>5. Len(g) - d + j \in 1 .. Len(said)
      BY <1>1, <1>2, <3>2
    <3> QED BY <1>5, <3>1, <3>4, <3>5
  <2>3. CASE ~ j <= d
    <3>1. j - d \in 1 .. Len(q)
      BY <1>1, <1>6, <2>1, <2>3
    <3>2. said[Len(g) + (j - d)] = d + (j - d)
      BY <1>4, <1>5, <3>1
    <3>3. Len(g) + (j - d) = Len(g) - d + j /\ d + (j - d) = j
      BY <1>1, <1>6, <2>1
    <3>4. Len(g) + (j - d) \in 1 .. Len(g) + Len(q)
      BY <1>1, <3>1
    <3> QED BY <1>2, <3>2, <3>3, <3>4
  <2> QED BY <2>2, <2>3
<1>8. k0 \in 1 .. Len(said) /\ said[k0] = i
  BY <1>1, <1>7, <1>10
<1>9. ASSUME NEW j \in i .. n
      PROVE  j - i + k0 <= Len(said) /\ said[j - i + k0] = j
  <2>1. j - i + k0 = Len(g) - d + j
    BY <1>1, <1>6
  <2>2. Len(g) - d + j \in 1 .. Len(said) /\ said[Len(g) - d + j] = j
    BY <1>7
  <2> HIDE DEF k0
  <2> QED BY <1>1, <1>2, <2>1, <2>2
<1> HIDE DEF k0
<1> QED BY <1>8, <1>9 DEF said, g, q, n

\* What was told of a run of an earlier server is what its row says.
LostTold ==
  \A c \in Streams :
    stream[c].pc = "closed" /\ task[stream[c].run].pc = "lost" =>
      row[stream[c].run] = "running" \/ stream[c].end = EndOfRow(row[stream[c].run])

\* A step that is not the start of the server.
LEMMA LostStays ==
  ASSUME IInv, TInv, LostTold,
         \A q \in Runs : task[q].pc = "lost" => row'[q] = row[q],
         \A q \in Runs : task'[q].pc = "lost" => task[q].pc \in {"off", "lost"},
         \A c \in Streams :
           \/ stream'[c].pc # "closed"
           \/ task'[stream'[c].run].pc # "lost"
           \/ stream'[c].pc = stream[c].pc /\ stream'[c].run = stream[c].run
              /\ stream'[c].end = stream[c].end
  PROVE  LostTold'
<1> SUFFICES ASSUME NEW c \in Streams, stream'[c].pc = "closed",
                    task'[stream'[c].run].pc = "lost"
             PROVE  row'[stream'[c].run] = "running"
                    \/ stream'[c].end = EndOfRow(row'[stream'[c].run])
  BY DEF LostTold, EndOfRow
<1>1. stream[c].pc = "closed" /\ stream'[c].run = stream[c].run /\ stream'[c].end = stream[c].end
  OBVIOUS
<1>2. stream[c].run \in Runs
  BY <1>1 DEF IInv, Follows
<1>3. task[stream[c].run].pc = "lost"
  BY <1>1, <1>2 DEF TInv, StreamsInStep
<1> QED BY <1>1, <1>2, <1>3 DEF LostTold

LEMMA BroadcastKeepsLost ==
  ASSUME IInv, TInv, LostTold, NEW r \in Runs, NEW x \in TaskType,
         NEW event \in Ends \union {"run_started", "progress"}, Broadcast(r, x, event),
         Live(r), x.pc # "lost", \A q \in Runs : q # r => row'[q] = row[q]
  PROVE  LostTold'
<1>1. PICK told \in Seq(Ends \union {"run_started", "progress"}) :
         task' = [task EXCEPT ![r] = [x EXCEPT !.told = told]]
  BY BroadcastTyped DEF IInv
<1>2. task'[r].pc # "lost" /\ \A q \in Runs : q # r => task'[q] = task[q]
  BY <1>1, TypesAtHand DEF IInv, TaskType
<1>3. \A c \in Streams : /\ stream'[c].pc = stream[c].pc /\ stream'[c].run = stream[c].run
                         /\ stream'[c].end = stream[c].end
  BY TypesAtHand DEF IInv, Broadcast, StreamType
<1>4. task[r].pc # "lost"
  BY DEF Live
<1> QED BY <1>2, <1>3, <1>4, LostStays

LEMMA RunKeepsLost ==
  ASSUME IInv, TInv, LostTold, NEW r \in Runs,
         StartRun(r) \/ StartRunFails(r) \/ Advance(r) \/ RunBreaks(r) \/ Cancel(r) \/ GrowOld(r)
  PROVE  LostTold'
<1>1. task \in [Runs -> TaskType] /\ task[r] \in TaskType
  BY TypesAtHand DEF IInv
<1>2. ASSUME NEW x \in TaskType, x.pc # "lost", Live(r), NEW status \in Ends, End(r, x, status)
      PROVE  LostTold'
  <2> DEFINE y == [x EXCEPT !.pc = "over"]
  <2>1. y \in TaskType /\ y.pc = "over"
    BY DEF TaskType
  <2>2. Broadcast(r, y, status)
    BY <1>2 DEF End
  <2>3. \A q \in Runs : q # r => row'[q] = row[q]
    BY <1>2 DEF End, IInv, TypeOK
  <2> HIDE DEF y
  <2> QED BY <1>2, <2>1, <2>2, <2>3, BroadcastKeepsLost
<1>3. ASSUME NEW x \in TaskType, x.pc # "lost", Live(r), NextBatch(r, x)
      PROVE  LostTold'
  <2>1. CASE \E status \in Ends : End(r, x, status)
    BY <1>2, <1>3, <2>1
  <2>2. CASE Broadcast(r, [x EXCEPT !.pc = "batch"], "progress") /\ UNCHANGED row
    <3> DEFINE y == [x EXCEPT !.pc = "batch"]
    <3>1. y \in TaskType /\ y.pc = "batch"
      BY DEF TaskType
    <3>2. Broadcast(r, y, "progress")
      BY <2>2
    <3> HIDE DEF y
    <3> QED BY <1>3, <2>2, <3>1, <3>2, BroadcastKeepsLost
  <2>3. Verdict(x) \in Ends /\ "cancelled" \in Ends /\ "aborted" \in Ends
    BY DEF Verdict, Ends
  <2> QED BY <1>3, <2>1, <2>2, <2>3 DEF NextBatch
<1>4. CASE StartRun(r)
  <2>1. task[r].pc = "off" /\ task' = [task EXCEPT ![r] = [NoTask EXCEPT !.pc = "ready", !.file = binding.file]]
        /\ stream' = stream /\ row' = [row EXCEPT ![r] = "running"]
    BY <1>4 DEF StartRun, MayStart
  <2>2. task'[r].pc = "ready" /\ \A q \in Runs : q # r => task'[q] = task[q]
    BY <1>1, <2>1 DEF NoTask
  <2>3. \A q \in Runs : q # r => row'[q] = row[q]
    BY <2>1 DEF IInv, TypeOK
  <2> QED BY <2>1, <2>2, <2>3, LostStays
<1>5. CASE StartRunFails(r)
  <2>1. task[r].pc = "off" /\ row' = row /\ stream' = stream
        /\ \A q \in Runs : q # r => task'[q] = task[q]
    BY <1>5 DEF StartRunFails, MayStart, IInv, TypeOK
  <2> QED BY <2>1, LostStays
<1>6. CASE BeginRun(r)
  <2> DEFINE y == [task[r] EXCEPT !.pc = "pages"]
  <2>1. y \in TaskType /\ y.pc = "pages"
    BY <1>1 DEF TaskType
  <2>2. Broadcast(r, y, "run_started") /\ Live(r) /\ row' = row
    BY <1>6 DEF BeginRun, Live
  <2> HIDE DEF y
  <2> QED BY <2>1, <2>2, BroadcastKeepsLost
<1>7. CASE EnsurePage(r) \/ Cancel(r)
  <2>1. \A q \in Runs : task'[q].pc = task[q].pc
    BY <1>1, <1>7 DEF EnsurePage, Cancel, TaskType
  <2>2. row' = row /\ stream' = stream
    BY <1>7 DEF EnsurePage, Cancel
  <2> QED BY <2>1, <2>2, LostStays
<1>8. CASE PagesEnd(r)
  <2>1. Live(r) /\ task[r].pc # "lost" /\ "cancelled" \in Ends
    BY <1>8 DEF PagesEnd, Live, Ends
  <2> QED BY <1>1, <1>2, <1>3, <1>8, <2>1 DEF PagesEnd
<1>9. CASE BatchEnds(r)
  <2>1. PICK ok \in BOOLEAN :
          NextBatch(r, [task[r] EXCEPT !.batch = @ + 1, !.failed = @ \/ ~ ok])
    BY <1>9 DEF BatchEnds
  <2> DEFINE z == task[r].failed \/ ~ ok
             x == [task[r] EXCEPT !.batch = @ + 1, !.failed = z]
  <2>2. z \in BOOLEAN
    OBVIOUS
  <2>3. NextBatch(r, x)
    BY <2>1
  <2> HIDE DEF z
  <2>4. task[r].pc = "batch" /\ task[r].batch < Batches /\ Live(r)
    BY <1>9 DEF BatchEnds, IInv, Progressed, Live
  <2>5. task[r].batch + 1 \in 0 .. Batches
    BY <1>1, <2>4, ConstantsAssumption DEF TaskType
  <2>6. x \in TaskType /\ x.pc = "batch"
    BY <1>1, <2>2, <2>4, <2>5 DEF TaskType
  <2> HIDE DEF x
  <2> QED BY <1>3, <2>3, <2>4, <2>6
<1>10. CASE RunBreaks(r)
  <2> DEFINE y == [task[r] EXCEPT !.pc = "over"]
  <2>1. y \in TaskType /\ y.pc = "over"
    BY <1>1 DEF TaskType
  <2>2. Broadcast(r, y, "aborted") /\ Live(r) /\ "aborted" \in Ends
    BY <1>10 DEF RunBreaks, Live, Ends
  <2>3. \A q \in Runs : q # r => row'[q] = row[q]
    BY <1>10 DEF RunBreaks, IInv, TypeOK
  <2> HIDE DEF y
  <2> QED BY <2>1, <2>2, <2>3, BroadcastKeepsLost
<1>11. CASE GrowOld(r)
  BY <1>11, LostStays DEF GrowOld
<1> QED BY <1>4, <1>5, <1>6, <1>7, <1>8, <1>9, <1>10, <1>11 DEF Advance

\* What is queued was told.
LEMMA QueueHead ==
  ASSUME IInv, TInv, NEW c \in Streams, Deliver(c)
  PROVE  stream[c].queue[1] \in 1 .. Len(Told(c))
<1> DEFINE q == stream[c].queue
           n == Len(Told(c))
<1>1. stream[c].pc = "live" /\ stream[c].run \in Runs /\ stream[c] \in StreamType
  BY TypesAtHand DEF Deliver, IInv, Follows
<1>2. n \in Nat /\ Len(q) \in Nat \ {0} /\ stream[c].since \in Nat
  BY <1>1, TypesAtHand DEF IInv, TaskType, Told, StreamType, Deliver
<1>3. stream[c].since <= n - Len(q) /\ \A k \in 1 .. Len(q) : q[k] = n - Len(q) + k
  BY <1>1 DEF TInv, StreamsInStep, Open, InStep
<1> HIDE DEF q, n
<1>4. q[1] = n - Len(q) + 1
  BY <1>2, <1>3
<1>5. q[1] \in 1 .. n
  BY <1>2, <1>3, <1>4
<1> QED BY <1>5 DEF q, n

LEMMA StreamKeepsLost ==
  ASSUME IInv, TInv, LostTold, NEW c \in Streams,
         Serve(c) \/ Leave(c) \/ \E r \in Runs : Subscribe(c, r) \/ SubscribeLost(c, r)
  PROVE  LostTold'
<1>1. task' = task /\ row' = row
  BY DEF Serve, SendProgress, SendEnd, Deliver, Leave, Subscribe, SubscribeLost
<1>2. stream \in [Streams -> StreamType]
  BY TypesAtHand DEF IInv
<1>3. \A d \in Streams : d # c => stream'[d] = stream[d]
  BY <1>2 DEF Serve, SendProgress, SendEnd, CatchUp, Deliver, Leave, Subscribe, SubscribeLost
<1>4. CASE Serve(c) \/ Leave(c) \/ \E r \in Runs : Subscribe(c, r)
  <2> DEFINE Quiet == \/ stream'[c].pc # "closed"
                      \/ stream'[c].run = stream[c].run /\ Told(c) # << >> /\ Open(c)
  <2>3. ASSUME stream[c].pc \in {"greeted", "caught"}, CatchUp(c, stream[c].got)
        PROVE  Quiet
    BY <1>2, <2>3 DEF CatchUp, Finished, Open, StreamType
  <2>4. ASSUME SendProgress(c)
        PROVE  Quiet
    <3>1. CASE CatchUp(c, stream[c].got)
      BY <2>3, <2>4, <3>1 DEF SendProgress
    <3>2. CASE \E i \in Progress(c) :
                 stream' = [stream EXCEPT ![c].pc = "caught", ![c].got = Append(@, i)]
      BY <1>2, <3>2 DEF StreamType
    <3> QED BY <2>4, <3>1, <3>2 DEF SendProgress
  <2>5. ASSUME Deliver(c)
        PROVE  Quiet
    <3>1. stream'[c].run = stream[c].run /\ Open(c)
      BY <1>2, <2>5 DEF Deliver, StreamType, Open
    <3>2. stream[c].queue[1] \in 1 .. Len(Told(c))
      BY <2>5, QueueHead
    <3>3. Told(c) # << >>
      BY <3>2
    <3> QED BY <3>1, <3>3
  <2>6. ASSUME Leave(c) \/ \E r \in Runs : Subscribe(c, r)
        PROVE  Quiet
    <3>1. CASE Leave(c)
      BY <1>2, <3>1 DEF Leave, NoStream
    <3>2. ASSUME NEW r \in Runs, Subscribe(c, r)
          PROVE  Quiet
      <4> DEFINE n == Len(task[r].told)
                 y == [NoStream EXCEPT !.pc = IF n = 0 THEN "live" ELSE "greeted", !.run = r,
                                       !.got = IF n = 0 THEN << >> ELSE << 1 >>, !.since = n]
      <4>1. stream' = [stream EXCEPT ![c] = y]
        BY <3>2 DEF Subscribe
      <4>2. y.pc # "closed"
        BY DEF NoStream
      <4> HIDE DEF y
      <4> QED BY <1>2, <4>1, <4>2
    <3> QED BY <2>6, <3>1, <3>2
  <2>1. Quiet
    BY <1>4, <2>3, <2>4, <2>5, <2>6 DEF Serve, SendEnd
  <2>2. Open(c) /\ Told(c) # << >> => task[stream[c].run].pc # "lost"
    BY DEF TInv, ToldInOrder, Told, IInv, Follows, Open
  <2> QED BY <1>1, <1>3, <2>1, <2>2, LostStays
<1>5. ASSUME NEW r \in Runs, SubscribeLost(c, r)
      PROVE  LostTold'
  <2>1. stream'[c].run = r /\ stream'[c].end = EndOfRow(row[r])
    BY <1>2, <1>5 DEF SubscribeLost, NoStream
  <2> QED BY <1>1, <1>3, <2>1 DEF LostTold, EndOfRow
<1> QED BY <1>4, <1>5

LEMMA NextKeepsLost == ASSUME IInv, TInv, LostTold, [Next]_vars PROVE LostTold'
<1>1. CASE EditBinding \/ UNCHANGED vars
  <2>1. task' = task /\ row' = row /\ stream' = stream
    BY <1>1 DEF EditBinding, vars
  <2> QED BY <2>1, LostStays
<1>2. CASE Crash \/ Shutdown
  <2>1. \A c \in Streams : stream'[c].pc = "off"
    BY <1>2 DEF Crash, Shutdown, StartServer, NoStream
  <2> QED BY <2>1 DEF LostTold
<1> QED BY <1>1, <1>2, RunKeepsLost, StreamKeepsLost DEF Next

\* A stream that goes on has sent, or has in its queue, every event since its
\* queue was made, in order; one the server closed has told how the run ended,
\* last and once; of a run of an earlier server it has told what the row says,
\* unless the row says running (full_sync_stream, _broadcast).
THEOREM StreamsAreTold == Spec => []StreamTold
<1>1. IInv /\ TInv /\ LostTold => StreamTold
  <2> SUFFICES ASSUME IInv, TInv, LostTold, NEW c \in Streams
               PROVE  LET y    == stream[c]
                          said == y.got \o y.queue
                          n    == Len(Told(c))
                      IN  /\ Open(c) => \A i \in y.since + 1 .. n : \E k \in 1 .. Len(said) :
                                           /\ said[k] = i
                                           /\ \A j \in i .. n : j - i + k <= Len(said)
                                                                /\ said[j - i + k] = j
                          /\ y.pc = "closed" /\ task[y.run].pc # "lost" =>
                               y.got # << >> /\ \A k \in 1 .. Len(y.got) :
                                                  Told(c)[y.got[k]] \in Ends <=> k = Len(y.got)
                          /\ y.pc = "closed" /\ task[y.run].pc = "lost" /\ row[y.run] # "running" =>
                               y.end = EndOfRow(row[y.run])
    BY DEF StreamTold
  <2>1. CASE Open(c)
    <3>1. stream[c] \in StreamType /\ stream[c].run \in Runs /\ stream[c].pc # "closed"
      BY <2>1, TypesAtHand DEF IInv, Follows, Open
    <3>2. Told(c) \in Seq(Events)
      BY <3>1, TypesAtHand DEF IInv, TaskType, Events, Told
    <3>3. InStep(stream[c], Told(c))
      BY <2>1 DEF TInv, StreamsInStep
    <3> QED BY <3>1, <3>2, <3>3, InStepMisses
  <2>2. CASE ~ Open(c)
    BY <2>2 DEF TInv, StreamsInStep, ToldAll, LostTold
  <2> QED BY <2>1, <2>2
<1>2. Init => TInv /\ LostTold
  <2>1. ASSUME Init
        PROVE  LostTold
    BY <2>1 DEF Init, NoStream, LostTold
  <2> QED BY <2>1, InitTells
<1>3. IInv /\ TInv /\ LostTold /\ [Next]_vars => TInv' /\ LostTold'
  BY NextTells, NextKeepsLost
<1> QED BY <1>1, <1>2, <1>3, Invariance, PTL DEF Spec
=============================================================================
