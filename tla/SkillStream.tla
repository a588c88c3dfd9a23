----------------------------- MODULE SkillStream -----------------------------
(***************************************************************************)
(* Runs of skills: a `claude` process whose output is streamed to a client *)
(* (_stream_process_chunks_with_stdin, run_skill_lines).  A thread of its  *)
(* own starts the process and moves its output from the pipe to a bounded  *)
(* queue; the event loop has a worker thread of the default executor, which*)
(* all streams share, wait for each item of the queue.  The stream ends    *)
(* with the output, with an error, after waiting too long, or because its  *)
(* client leaves; a validation (stream_validation) then saves its verdict. *)
(*                                                                         *)
(* An action of the event loop is what happens between two awaits, one of a*)
(* thread what happens between two calls that may block.  The standard     *)
(* error is drained by one more thread and is left out, and so are the     *)
(* lines the chunks are cut into.  A chunk is what one read returns.       *)
(***************************************************************************)
EXTENDS Integers, Sequences, FiniteSets

CONSTANTS
  Streams,     \* runs of a skill, each made once
  Workers,     \* threads of the default executor
  QueueSize,   \* maxsize of the queue
  PipeSize,    \* of the standard output, in chunks
  MaxOutput    \* bound on the chunks a process writes

ASSUME ConstantsAssumption ==
  /\ Workers \in Nat \ {0} /\ QueueSize \in Nat \ {0}
  /\ PipeSize \in Nat \ {0} /\ MaxOutput \in Nat

VARIABLES
  proc,     \* the process of a stream, and its pipes
  reader,   \* the thread `_reader`
  known,    \* holder["proc"] is set
  queue,
  client,   \* the coroutines: the stream, run_skill_lines and their user
  jobs,     \* calls of q.get that wait for a worker, and cancelled ones
  getting   \* streams for which a worker is in q.get

vars == << proc, reader, known, queue, client, jobs, getting >>

\* Items of a queue: chunks by number, and the two sentinels.
Chunks      == 1 .. MaxOutput
STREAM_DONE == 0
STREAM_ERR  == MaxOutput + 1

NoProc   == [pc |-> "none", fed |-> FALSE, out |-> 0, pipe |-> 0, rc |-> "none"]
NoClient == [pc |-> "off", given |-> << >>, how |-> "none", late |-> FALSE, saved |-> FALSE]

Alive(s) == proc[s].pc \in {"running", "writing", "hung"}
Ended(s) == client[s].pc = "ended"

TypeOK ==
  /\ proc \in [Streams -> [pc: {"none", "running", "writing", "hung", "exited"}, fed: BOOLEAN,
                           out: 0 .. MaxOutput, pipe: 0 .. PipeSize,
                           rc: {"none", "ok", "failed", "killed"}]]
  /\ reader \in [Streams -> {"off", "spawning", "spawned", "reading", "putting",
                             "erring", "closing", "ended"}]
  /\ known \in [Streams -> BOOLEAN]
  /\ queue \in [Streams -> Seq(Chunks \union {STREAM_DONE, STREAM_ERR})]
  /\ \A s \in Streams : Len(queue[s]) <= QueueSize
  /\ client \in [Streams -> [pc: {"off", "asking", "waiting", "using", "ended"},
                             given: Seq(Chunks), how: {"none", "done", "error", "cancelled"},
                             late: BOOLEAN, saved: BOOLEAN]]
  /\ jobs \in Seq(Streams)
  /\ getting \subseteq Streams /\ Cardinality(getting) <= Workers

Init ==
  /\ proc = [s \in Streams |-> NoProc]
  /\ reader = [s \in Streams |-> "off"]
  /\ known = [s \in Streams |-> FALSE]
  /\ queue = [s \in Streams |-> << >>]
  /\ client = [s \in Streams |-> NoClient]
  /\ jobs = << >>
  /\ getting = {}

-----------------------------------------------------------------------------
(* The process: whatever program it is, it may write before it has read its *)
(* input, write less than it was asked for, fail, hang, or be killed.       *)

TakeInput(s) ==
  /\ proc[s].pc = "running" /\ ~ proc[s].fed
  /\ proc' = [proc EXCEPT ![s].fed = TRUE]

BeginWrite(s) ==
  /\ proc[s].pc = "running" /\ proc[s].out < MaxOutput
  /\ proc' = [proc EXCEPT ![s].pc = "writing"]

\* The write blocks while the pipe is full.
Write(s) ==
  /\ proc[s].pc = "writing" /\ proc[s].pipe < PipeSize
  /\ proc' = [proc EXCEPT ![s].pc = "running", ![s].out = @ + 1, ![s].pipe = @ + 1]

Exit(s) ==
  /\ proc[s].pc = "running"
  /\ \E rc \in {"failed"} \union (IF proc[s].fed THEN {"ok"} ELSE {}) :
       proc' = [proc EXCEPT ![s].pc = "exited", ![s].rc = rc]

Hang(s) ==
  /\ proc[s].pc = "running"
  /\ proc' = [proc EXCEPT ![s].pc = "hung"]

\* By the system or by hand.
IsKilled(s) ==
  /\ Alive(s)
  /\ proc' = [proc EXCEPT ![s].pc = "exited", ![s].rc = "killed"]

Works(s) == TakeInput(s) \/ BeginWrite(s) \/ Write(s) \/ Exit(s)

ProcStep(s) ==
  /\ Works(s) \/ Hang(s) \/ IsKilled(s)
  /\ UNCHANGED << reader, known, queue, client, jobs, getting >>

-----------------------------------------------------------------------------
(* The thread `_reader` *)

\* Popen, in which the process begins to run before it is known to anyone.
Popen(s) ==
  /\ reader[s] = "spawning"
  /\ \/ /\ proc' = [proc EXCEPT ![s].pc = "running"]
        /\ reader' = [reader EXCEPT ![s] = "spawned"]
     \/ /\ reader' = [reader EXCEPT ![s] = "erring"]
        /\ UNCHANGED proc
  /\ UNCHANGED << known, queue, client, jobs, getting >>

\* The process is put into the holder.  A thread of its own writes the input:
\* TakeInput needs nothing of this thread.
Register(s) ==
  /\ reader[s] = "spawned"
  /\ known' = [known EXCEPT ![s] = TRUE]
  /\ reader' = [reader EXCEPT ![s] = "reading"]
  /\ UNCHANGED << proc, queue, client, jobs, getting >>

\* Mutant: the input is written by this thread, before it reads.
ReadAfterInput(s) ==
  /\ reader[s] = "reading" /\ proc[s].pipe > 0 /\ proc[s].fed
  /\ proc' = [proc EXCEPT ![s].pipe = @ - 1]
  /\ reader' = [reader EXCEPT ![s] = "putting"]
  /\ UNCHANGED << known, queue, client, jobs, getting >>

Read(s) ==
  /\ reader[s] = "reading" /\ proc[s].pipe > 0
  /\ proc' = [proc EXCEPT ![s].pipe = @ - 1]
  /\ reader' = [reader EXCEPT ![s] = "putting"]
  /\ UNCHANGED << known, queue, client, jobs, getting >>

\* Mutant: the return code is not looked at.
ReadEofOnly(s) ==
  /\ reader[s] = "reading" /\ proc[s].pipe = 0 /\ proc[s].pc = "exited"
  /\ reader' = [reader EXCEPT ![s] = "closing"]
  /\ UNCHANGED << proc, known, queue, client, jobs, getting >>

\* The end of the output, and proc.wait(): -9 and -15 are no failures.
ReadEof(s) ==
  /\ reader[s] = "reading" /\ proc[s].pipe = 0 /\ proc[s].pc = "exited"
  /\ reader' = [reader EXCEPT ![s] = IF proc[s].rc = "failed" THEN "erring" ELSE "closing"]
  /\ UNCHANGED << proc, known, queue, client, jobs, getting >>

\* Mutant: the queue has no limit.
EnqueueAlways(s, item, next) ==
  /\ queue' = [queue EXCEPT ![s] = Append(@, item)]
  /\ reader' = [reader EXCEPT ![s] = next]
  /\ UNCHANGED << proc, known, client, jobs, getting >>

\* q.put blocks while the queue is full; nobody may ever take from it again.
Enqueue(s, item, next) ==
  /\ Len(queue[s]) < QueueSize
  /\ queue' = [queue EXCEPT ![s] = Append(@, item)]
  /\ reader' = [reader EXCEPT ![s] = next]
  /\ UNCHANGED << proc, known, client, jobs, getting >>

Put(s) ==
  \/ reader[s] = "putting" /\ Enqueue(s, proc[s].out - proc[s].pipe, "reading")
  \/ reader[s] = "erring"  /\ Enqueue(s, STREAM_ERR, "closing")
  \/ reader[s] = "closing" /\ Enqueue(s, STREAM_DONE, "ended")

ReaderStep(s) == Popen(s) \/ Register(s) \/ Read(s) \/ ReadEof(s) \/ Put(s)

-----------------------------------------------------------------------------
(* The coroutines, and the workers that wait for them *)

\* asyncio.to_thread(q.get): the call waits for a worker.
Ask(s, S) ==
  /\ client' = [S EXCEPT ![s].pc = "asking"]
  /\ jobs' = Append(jobs, s)

Begin(s) ==
  /\ client[s].pc = "off"
  /\ reader' = [reader EXCEPT ![s] = "spawning"]
  /\ Ask(s, client)
  /\ UNCHANGED << proc, known, queue, getting >>

\* Mutant: whoever ends by himself leaves the process alone.
FinishWithoutKill(s, S, how) ==
  /\ client' = [S EXCEPT ![s].pc = "ended", ![s].how = how, ![s].late = ~ known[s]]
  /\ UNCHANGED jobs
  /\ UNCHANGED proc

\* The finally: a process that is known by now, and runs, is killed.  A call
\* that no worker has begun will be dropped; one that has begun goes on.
Finish(s, S, how) ==
  /\ client' = [S EXCEPT ![s].pc = "ended", ![s].how = how, ![s].late = ~ known[s]]
  /\ UNCHANGED jobs
  /\ proc' = IF known[s] /\ Alive(s)
             THEN [proc EXCEPT ![s].pc = "exited", ![s].rc = "killed"] ELSE proc

\* A worker takes the oldest call; a call that was cancelled it drops.
TakeJob ==
  /\ jobs # << >> /\ Cardinality(getting) < Workers
  /\ jobs' = Tail(jobs)
  /\ IF Ended(Head(jobs)) THEN UNCHANGED << getting, client >>
     ELSE /\ getting' = getting \union {Head(jobs)}
          /\ client' = [client EXCEPT ![Head(jobs)].pc = "waiting"]
  /\ UNCHANGED << proc, reader, known, queue >>

\* q.get returns.  What it returns to a stream that is over is lost.
Get(s) ==
  /\ s \in getting /\ queue[s] # << >>
  /\ getting' = getting \ {s}
  /\ queue' = [queue EXCEPT ![s] = Tail(@)]
  /\ LET item == Head(queue[s]) IN
       \/ Ended(s) /\ UNCHANGED << client, jobs, proc >>
       \/ ~ Ended(s) /\ item = STREAM_DONE /\ Finish(s, client, "done")
       \/ ~ Ended(s) /\ item = STREAM_ERR /\ Finish(s, client, "error")
       \/ /\ ~ Ended(s) /\ item \in Chunks
          /\ client' = [client EXCEPT ![s].pc = "using", ![s].given = Append(@, item)]
          /\ UNCHANGED << jobs, proc >>
  /\ UNCHANGED << reader, known >>

\* The user of the stream asks for more.
Resume(s) ==
  /\ client[s].pc = "using"
  /\ Ask(s, client)
  /\ UNCHANGED << proc, reader, known, queue, getting >>

\* asyncio.wait_for: counted from the call, so the wait for a worker is included.
Timeout(s) ==
  /\ client[s].pc \in {"asking", "waiting"}
  /\ Finish(s, client, "error")
  /\ UNCHANGED << reader, known, queue, getting >>

\* The client closes the connection.
Cancel(s) ==
  /\ client[s].pc \in {"asking", "waiting", "using"}
  /\ Finish(s, client, "cancelled")
  /\ UNCHANGED << reader, known, queue, getting >>

\* stream_validation past its loop: "PHASE:error" is one more line to it, and
\* what cannot be read is a verdict without failures.
SaveVerdict(s) ==
  /\ Ended(s) /\ client[s].how \in {"done", "error"} /\ ~ client[s].saved
  /\ client' = [client EXCEPT ![s].saved = TRUE]
  /\ UNCHANGED << proc, reader, known, queue, jobs, getting >>

-----------------------------------------------------------------------------

Next ==
  \/ TakeJob
  \/ \E s \in Streams :
       \/ ProcStep(s) \/ ReaderStep(s)
       \/ Begin(s) \/ Get(s) \/ Resume(s) \/ Timeout(s) \/ Cancel(s) \/ SaveVerdict(s)

Spec == Init /\ [][Next]_vars

\* Threads and the event loop go on when they can, a process that does not hang
\* comes to its end, and the user of a stream asks for more.  No timeout is
\* counted on, and no client leaves in order to help.
FairSpec ==
  /\ Spec
  /\ WF_vars(TakeJob)
  /\ \A s \in Streams :
       /\ WF_vars(ReaderStep(s)) /\ WF_vars(Get(s)) /\ WF_vars(Resume(s))
       /\ WF_vars(Works(s) /\ UNCHANGED << reader, known, queue, client, jobs, getting >>)

-----------------------------------------------------------------------------
(* Properties *)

\* A stream that ends as complete has given its user every chunk the process
\* wrote, in order and once, and the process has not failed, although pipe,
\* queue and event loop are three hands (the sentinels and the return code).
EndIsWhole ==
  \A s \in Streams :
    client[s].how = "done" =>
      /\ client[s].given = [i \in 1 .. proc[s].out |-> i]
      /\ proc[s].pc = "exited" /\ proc[s].rc # "failed"

\* No stream waits for ever while every process works: neither for a worker
\* that waits for another stream, nor for a process that waits in turn for its
\* output to be read or its input to be written ("a dedicated writer prevents
\* a large stdin payload from blocking").
StreamEnds ==
  \A s \in Streams :
    client[s].pc = "asking" ~> Ended(s) \/ \E t \in Streams : proc[t].pc = "hung"

\* A worker that waits for a stream which is over comes back, even if the
\* process hung: it is killed, and the end of its output releases the worker.
\* The exception is a process that was not known yet when its stream ended.
WorkersReturn ==
  \A s \in Streams :
    s \in getting /\ Ended(s) ~> s \notin getting \/ (client[s].late /\ proc[s].pc = "hung")

\* What the spec of the lifecycle says of a validation: it is a validation that
\* is complete that moves the proposal on with a verdict.
VerdictIsEarned ==
  \A s \in Streams : client[s].saved => proc[s].rc = "ok"
=============================================================================
