-------------------------- MODULE SkillStream_proofs --------------------------
(***************************************************************************)
(* Proofs about SkillStream, for any number of streams and workers and any *)
(* size of queue and pipe: the type invariant, and that a stream which ends*)
(* as complete gave its user all the process wrote.                        *)
(***************************************************************************)
EXTENDS SkillStream, FiniteSetTheorems, TLAPS

Processes == [pc: {"none", "running", "writing", "hung", "exited"}, fed: BOOLEAN,
              out: 0 .. MaxOutput, pipe: 0 .. PipeSize,
              rc: {"none", "ok", "failed", "killed"}]
Clients   == [pc: {"off", "asking", "waiting", "using", "ended"},
              given: Seq(Chunks), how: {"none", "done", "error", "cancelled"},
              late: BOOLEAN, saved: BOOLEAN]

\* Chunks that have left the pipe, and those of them the reader put.
Taken(s)  == proc[s].out - proc[s].pipe
Handed(s) == IF reader[s] = "putting" THEN Taken(s) - 1 ELSE Taken(s)
Given(s)  == Len(client[s].given)

\* The process came to its end without failing, and its output is read.
Complete(s) == proc[s].pc = "exited" /\ proc[s].rc # "failed" /\ proc[s].pipe = 0

\* Where the thread is, there the process is.
ProcKnows(s) ==
  /\ reader[s] \in {"off", "spawning"} => proc[s].pc = "none"
  /\ proc[s].pc = "none" => proc[s].out = 0 /\ proc[s].pipe = 0
  /\ proc[s].pc = "writing" => proc[s].out < MaxOutput
  /\ proc[s].pipe <= proc[s].out
  /\ reader[s] = "putting" => proc[s].pipe < proc[s].out

ClientKnows(s) ==
  /\ client[s].pc = "off" => reader[s] = "off"
  /\ client[s].how = "none" <=> ~ Ended(s)

\* Between the user and the pipe nothing is missing: what was given, what the
\* queue holds and what the reader has in its hand follow one another, and a
\* sentinel stands behind them.  The first sentinel is DONE only of a process
\* that is complete.
Flow(s) ==
  ~ Ended(s) =>
    /\ \A i \in 1 .. Given(s) : client[s].given[i] = i
    /\ Given(s) <= Handed(s)
    /\ Handed(s) - Given(s) <= Len(queue[s])
    /\ \A j \in 1 .. Handed(s) - Given(s) : queue[s][j] = Given(s) + j
    /\ reader[s] \notin {"closing", "ended"} => Len(queue[s]) = Handed(s) - Given(s)
    /\ reader[s] = "closing" =>
         \/ Len(queue[s]) = Handed(s) - Given(s) /\ Complete(s)
         \/ Len(queue[s]) > Handed(s) - Given(s)
            /\ queue[s][Handed(s) - Given(s) + 1] = STREAM_ERR
    /\ reader[s] = "ended" =>
         /\ Len(queue[s]) > Handed(s) - Given(s)
         /\ \/ queue[s][Handed(s) - Given(s) + 1] = STREAM_DONE /\ Complete(s)
            \/ queue[s][Handed(s) - Given(s) + 1] = STREAM_ERR

Whole(s) ==
  client[s].how = "done" =>
    /\ client[s].given = [i \in 1 .. proc[s].out |-> i]
    /\ proc[s].pc = "exited" /\ proc[s].rc # "failed"

Good(s) == ProcKnows(s) /\ ClientKnows(s) /\ Flow(s) /\ Whole(s)

IInv ==
  /\ TypeOK
  /\ IsFiniteSet(getting)
  /\ \A s \in Streams : Good(s)

-----------------------------------------------------------------------------
(* Lemmas *)

\* What is known of a stream stays known when nothing of it changes.
LEMMA Frame ==
  ASSUME NEW t \in Streams, Good(t),
         proc'[t] = proc[t], reader'[t] = reader[t],
         queue'[t] = queue[t], client'[t] = client[t]
  PROVE  Good(t)'
  BY DEF Good, ProcKnows, ClientKnows, Flow, Whole, Taken, Handed, Given, Complete, Ended

\* The fields of the records, one by one.
LEMMA Types ==
  ASSUME TypeOK, NEW s \in Streams
  PROVE  /\ proc[s].pc \in {"none", "running", "writing", "hung", "exited"}
         /\ proc[s].fed \in BOOLEAN
         /\ proc[s].out \in 0 .. MaxOutput /\ proc[s].pipe \in 0 .. PipeSize
         /\ proc[s].rc \in {"none", "ok", "failed", "killed"}
         /\ reader[s] \in {"off", "spawning", "spawned", "reading", "putting",
                           "erring", "closing", "ended"}
         /\ known[s] \in BOOLEAN
         /\ queue[s] \in Seq(Chunks \union {STREAM_DONE, STREAM_ERR})
         /\ client[s].pc \in {"off", "asking", "waiting", "using", "ended"}
         /\ client[s].given \in Seq(Chunks)
         /\ client[s].how \in {"none", "done", "error", "cancelled"}
  BY DEF TypeOK

LEMMA Initially == Init => IInv
  <1> SUFFICES ASSUME Init PROVE IInv
    OBVIOUS
  <1>1. TypeOK
    <2>1. Cardinality({}) = 0 /\ IsFiniteSet({})
      BY FS_EmptySet
    <2> QED BY <2>1, ConstantsAssumption DEF Init, TypeOK, NoProc, NoClient
  <1>2. IsFiniteSet(getting)
    BY FS_EmptySet DEF Init
  <1>3. ASSUME NEW s \in Streams PROVE Good(s)
    BY <1>3 DEF Init, NoProc, NoClient, Good, ProcKnows, ClientKnows, Flow, Whole,
                Taken, Handed, Given, Complete, Ended
  <1> QED BY <1>1, <1>2, <1>3 DEF IInv

-----------------------------------------------------------------------------
(* The process *)

LEMMA StepOfProcess ==
  ASSUME IInv, NEW s \in Streams, ProcStep(s)
  PROVE  IInv'
  <1> USE ConstantsAssumption
  <1>1. TypeOK
    BY DEF IInv
  <1>2. Good(s)
    BY DEF IInv
  <1>3. proc[s].pc \in {"running", "writing", "hung"}
    BY DEF ProcStep, Works, TakeInput, BeginWrite, Write, Exit, Hang, IsKilled, Alive
  <1>4. /\ TypeOK' /\ IsFiniteSet(getting)'
    <2>1. proc' \in [Streams -> Processes]
      <3>1. proc \in [Streams -> Processes]
        BY <1>1 DEF TypeOK, Processes
      <3>2. Write(s) => proc[s].out < MaxOutput
        BY <1>2 DEF Good, ProcKnows, Write
      <3>3. CASE TakeInput(s) BY <3>1, <3>3 DEF Processes, TakeInput
      <3>4. CASE BeginWrite(s) BY <3>1, <3>4 DEF Processes, BeginWrite
      <3>5. CASE Write(s) BY <3>1, <3>2, <3>5 DEF Processes, Write
      <3>6. CASE Exit(s)
        <4>1. PICK rc \in {"failed", "ok"} :
                proc' = [proc EXCEPT ![s].pc = "exited", ![s].rc = rc]
          BY <3>6 DEF Exit
        <4> QED BY ZenonT(60), <3>1, <4>1 DEF Processes
      <3>7. CASE Hang(s) BY <3>1, <3>7 DEF Processes, Hang
      <3>8. CASE IsKilled(s) BY ZenonT(60), <3>1, <3>8 DEF Processes, IsKilled
      <3> QED BY <3>3, <3>4, <3>5, <3>6, <3>7, <3>8 DEF ProcStep, Works
    <2> QED BY <1>1, <2>1 DEF IInv, TypeOK, Processes, ProcStep
  <1>5. /\ reader'[s] = reader[s] /\ queue'[s] = queue[s] /\ client'[s] = client[s]
        /\ proc'[s].pc # "none"
        /\ proc'[s].out - proc'[s].pipe = Taken(s)
        /\ proc'[s].pc = "writing" => proc'[s].out < MaxOutput
    <2> USE <1>1, <1>2, Types DEF TypeOK, Good, ProcKnows, Taken
    <2>1. CASE TakeInput(s) BY <2>1 DEF TakeInput, ProcStep
    <2>2. CASE BeginWrite(s) BY <2>2 DEF BeginWrite, ProcStep
    <2>3. CASE Write(s) BY <2>3 DEF Write, ProcStep
    <2>4. CASE Exit(s) BY <2>4 DEF Exit, ProcStep
    <2>5. CASE Hang(s) BY <2>5 DEF Hang, ProcStep
    <2>6. CASE IsKilled(s) BY <2>6 DEF IsKilled, ProcStep
    <2> QED BY <2>1, <2>2, <2>3, <2>4, <2>5, <2>6 DEF ProcStep, Works
  <1>6. Good(s)'
    <2> USE <1>1, <1>2, <1>3, <1>5, Types DEF Good
    <2>1. Taken(s)' = Taken(s) /\ Handed(s)' = Handed(s) /\ Given(s)' = Given(s) /\ ~ Complete(s)
      BY DEF Taken, Handed, Given, Complete
    <2>2. ProcKnows(s)'
      <3>1. /\ proc'[s].out \in Int /\ proc'[s].pipe \in Int
            /\ proc[s].out \in Int /\ proc[s].pipe \in Int
        BY <1>4 DEF TypeOK
      <3>2. proc'[s].pc = proc[s].pc \/ reader[s] \notin {"off", "spawning"}
        BY DEF ProcKnows
      <3>3. proc[s].out >= proc[s].pipe
        BY <3>1 DEF ProcKnows
      <3> HIDE <1>2
      <3> QED BY SMTT(30), <1>2, <3>1, <3>2, <3>3 DEF ProcKnows, Taken
    <2>3. ClientKnows(s)'
      BY DEF ClientKnows, Ended
    <2>4. Flow(s)'
      BY <2>1 DEF Flow, Ended
    <2>5. Whole(s)'
      BY DEF Whole
    <2> QED BY <2>2, <2>3, <2>4, <2>5
  <1>7. ASSUME NEW t \in Streams, t # s PROVE Good(t)'
    <2>1. proc'[t] = proc[t]
      BY <1>1, <1>7 DEF TypeOK, ProcStep, Works, TakeInput, BeginWrite, Write, Exit, Hang, IsKilled
    <2> QED BY <1>7, <2>1, Frame DEF IInv, ProcStep
  <1> QED BY <1>4, <1>6, <1>7 DEF IInv
-----------------------------------------------------------------------------
(* The thread that reads *)

LEMMA StepOfPopen ==
  ASSUME IInv, NEW s \in Streams, Popen(s)
  PROVE  IInv'
  <1>1. TypeOK /\ Good(s)
    BY DEF IInv
  <1>2. proc[s].pc = "none" /\ proc[s].out = 0 /\ proc[s].pipe = 0
    BY <1>1 DEF Popen, Good, ProcKnows
  <1>3. proc' \in [Streams -> Processes] /\ proc'[s].out = 0 /\ proc'[s].pipe = 0
    <2>1. proc \in [Streams -> Processes]
      BY <1>1 DEF TypeOK, Processes
    <2>2. CASE proc' = [proc EXCEPT ![s].pc = "running"]
      BY <1>2, <2>1, <2>2 DEF Processes
    <2>3. CASE UNCHANGED proc
      BY <1>2, <2>1, <2>3
    <2> QED BY <2>2, <2>3 DEF Popen
  <1>4. TypeOK'
    BY <1>1, <1>3 DEF Popen, TypeOK, Processes
  <1>5. reader'[s] \in {"spawned", "erring"} /\ reader[s] = "spawning"
    BY <1>1 DEF Popen, TypeOK
  <1>6. Good(s)'
    <2> USE <1>1, <1>2, <1>3, <1>5
    <2>1. proc'[s].pc # "writing"
      BY DEF Popen, TypeOK
    <2>2. ProcKnows(s)'
      BY <2>1 DEF ProcKnows
    <2>3. ClientKnows(s)'
      BY DEF Good, ClientKnows, Ended, Popen
    <2>4. Flow(s)'
      BY DEF Good, Flow, Ended, Taken, Handed, Given, Popen
    <2>5. Whole(s)'
      BY DEF Good, Whole, Popen
    <2> QED BY <2>2, <2>3, <2>4, <2>5 DEF Good
  <1>7. ASSUME NEW t \in Streams, t # s PROVE Good(t)'
    <2>1. proc'[t] = proc[t] /\ reader'[t] = reader[t]
      BY <1>1, <1>7 DEF TypeOK, Popen
    <2> QED BY <1>7, <2>1, Frame DEF IInv, Popen
  <1> QED BY <1>4, <1>6, <1>7 DEF IInv, Popen

LEMMA StepOfRegister ==
  ASSUME IInv, NEW s \in Streams, Register(s)
  PROVE  IInv'
  <1>1. TypeOK /\ Good(s)
    BY DEF IInv
  <1>2. TypeOK'
    BY <1>1 DEF Register, TypeOK
  <1>3. reader'[s] = "reading"
    BY <1>1 DEF Register, TypeOK
  <1>4. Good(s)'
    BY <1>1, <1>3 DEF Register, Good, ProcKnows, ClientKnows, Flow, Whole,
                      Taken, Handed, Given, Ended
  <1>5. ASSUME NEW t \in Streams, t # s PROVE Good(t)'
    <2>1. reader'[t] = reader[t]
      BY <1>1, <1>5 DEF TypeOK, Register
    <2> QED BY <1>5, <2>1, Frame DEF IInv, Register
  <1> QED BY <1>2, <1>4, <1>5 DEF IInv, Register

\* What is read goes from the pipe to the hand of the reader.
LEMMA StepOfRead ==
  ASSUME IInv, NEW s \in Streams, Read(s)
  PROVE  IInv'
  <1>1. TypeOK /\ Good(s)
    BY DEF IInv
  <1>2. /\ proc[s].out \in Int /\ proc[s].pipe \in 0 .. PipeSize
        /\ PipeSize \in Int
    BY <1>1, Types, ConstantsAssumption
  <1>3. /\ proc' \in [Streams -> Processes]
        /\ proc'[s] = [proc[s] EXCEPT !.pipe = @ - 1]
    <2>1. proc[s].pipe - 1 \in 0 .. PipeSize
      BY <1>2 DEF Read
    <2>2. proc \in [Streams -> Processes]
      BY <1>1 DEF TypeOK, Processes
    <2> QED BY <2>1, <2>2 DEF Read, Processes
  <1>4. TypeOK'
    BY <1>1, <1>3 DEF Read, TypeOK, Processes
  <1>5. /\ reader'[s] = "putting" /\ reader[s] = "reading"
        /\ proc'[s].out = proc[s].out /\ proc'[s].pipe = proc[s].pipe - 1
        /\ proc'[s].pc = proc[s].pc /\ proc'[s].rc = proc[s].rc
    <2>1. proc[s] \in Processes
      BY <1>1 DEF TypeOK, Processes
    <2> QED BY <1>1, <1>3, <2>1 DEF Read, TypeOK, Processes
  <1>6. Good(s)'
    <2>1. Taken(s)' = Taken(s) + 1 /\ Handed(s)' = Handed(s) /\ Given(s)' = Given(s)
      BY <1>2, <1>5 DEF Taken, Handed, Given, Read
    <2>2. ProcKnows(s)'
      BY <1>1, <1>2, <1>5 DEF Good, ProcKnows, Read
    <2>3. ClientKnows(s)'
      BY <1>1, <1>5 DEF Good, ClientKnows, Ended, Read
    <2>4. Flow(s)'
      BY <1>1, <1>5, <2>1 DEF Good, Flow, Ended, Read
    <2>5. Whole(s)'
      BY <1>1, <1>5 DEF Good, Whole, Read
    <2> QED BY <2>2, <2>3, <2>4, <2>5 DEF Good
  <1>7. ASSUME NEW t \in Streams, t # s PROVE Good(t)'
    <2>1. proc'[t] = proc[t] /\ reader'[t] = reader[t]
      BY <1>1, <1>7 DEF TypeOK, Read
    <2> QED BY <1>7, <2>1, Frame DEF IInv, Read
  <1> QED BY <1>4, <1>6, <1>7 DEF IInv, Read

\* The queue ends without an error only of a process that is complete.
LEMMA StepOfReadEof ==
  ASSUME IInv, NEW s \in Streams, ReadEof(s)
  PROVE  IInv'
  <1>1. TypeOK /\ Good(s)
    BY DEF IInv
  <1>2. TypeOK'
    BY <1>1 DEF ReadEof, TypeOK
  <1>3. /\ reader[s] = "reading"
        /\ \/ reader'[s] = "erring"
           \/ reader'[s] = "closing" /\ Complete(s)'
    BY <1>1 DEF ReadEof, TypeOK, Complete
  <1>4. Good(s)'
    <2>1. Handed(s)' = Handed(s) /\ Given(s)' = Given(s)
      BY <1>3 DEF Handed, Taken, Given, ReadEof
    <2>2. Len(queue[s]) \in Nat /\ Given(s) \in Nat /\ Handed(s) \in Int
      BY <1>1, Types DEF Given, Handed, Taken
    <2>3. ProcKnows(s)' /\ ClientKnows(s)' /\ Whole(s)'
      BY <1>1, <1>3 DEF ReadEof, Good, ProcKnows, ClientKnows, Whole, Ended
    <2>4. Flow(s)'
      BY <1>1, <1>3, <2>1, <2>2 DEF Good, Flow, Ended, ReadEof
    <2> QED BY <2>3, <2>4 DEF Good
  <1>5. ASSUME NEW t \in Streams, t # s PROVE Good(t)'
    <2>1. reader'[t] = reader[t]
      BY <1>1, <1>5 DEF TypeOK, ReadEof
    <2> QED BY <1>5, <2>1, Frame DEF IInv, ReadEof
  <1> QED BY <1>2, <1>4, <1>5 DEF IInv, ReadEof

\* What is put stands behind all that is in the queue.
LEMMA StepOfPut ==
  ASSUME IInv, NEW s \in Streams, Put(s)
  PROVE  IInv'
  <1>1. TypeOK /\ Good(s)
    BY DEF IInv
  <1>2. /\ Given(s) \in Nat /\ Taken(s) \in Int /\ Handed(s) \in Int
        /\ queue[s] \in Seq(Chunks \union {STREAM_DONE, STREAM_ERR})
    BY <1>1, Types DEF Given, Handed, Taken
  <1>3. PICK x \in Chunks \union {STREAM_DONE, STREAM_ERR},
             r \in {"reading", "closing", "ended"} :
          /\ Enqueue(s, x, r)
          /\ \/ reader[s] = "putting" /\ r = "reading" /\ x = Taken(s)
             \/ reader[s] = "erring" /\ r = "closing" /\ x = STREAM_ERR
             \/ reader[s] = "closing" /\ r = "ended" /\ x = STREAM_DONE
    <2>1. CASE reader[s] = "putting"
      <3>1. Taken(s) \in Chunks
        BY <1>1, <2>1, Types, ConstantsAssumption DEF Good, ProcKnows, Taken, Chunks
      <3> QED BY <2>1, <3>1 DEF Put, Taken
    <2>2. CASE reader[s] = "erring"
      BY <2>2 DEF Put
    <2>3. CASE reader[s] = "closing"
      BY <2>3 DEF Put
    <2> QED BY <2>1, <2>2, <2>3 DEF Put
  <1>4. queue'[s] = Append(queue[s], x) /\ reader'[s] = r
    BY <1>1, <1>3 DEF Enqueue, TypeOK
  <1>5. /\ Len(queue'[s]) = Len(queue[s]) + 1 /\ queue'[s][Len(queue[s]) + 1] = x
        /\ \A j \in 1 .. Len(queue[s]) : queue'[s][j] = queue[s][j]
        /\ Len(queue[s]) \in Nat
    BY <1>2, <1>4
  <1>6. TypeOK'
    <2>1. queue' \in [Streams -> Seq(Chunks \union {STREAM_DONE, STREAM_ERR})]
      BY <1>1, <1>3 DEF Enqueue, TypeOK
    <2>2. \A t \in Streams : Len(queue'[t]) <= QueueSize
      <3>1. ASSUME NEW t \in Streams PROVE t = s \/ queue'[t] = queue[t]
        BY <1>1, <1>3 DEF Enqueue, TypeOK
      <3>2. Len(queue'[s]) <= QueueSize
        BY <1>3, <1>5, ConstantsAssumption DEF Enqueue
      <3> QED BY <1>1, <3>1, <3>2 DEF TypeOK
    <2>3. reader' \in [Streams -> {"off", "spawning", "spawned", "reading", "putting",
                                   "erring", "closing", "ended"}]
      BY <1>1, <1>3 DEF Enqueue, TypeOK
    <2> QED BY <1>1, <1>3, <2>1, <2>2, <2>3 DEF Enqueue, TypeOK
  <1>7. Good(s)'
    <2>1. /\ Given(s)' = Given(s) /\ Taken(s)' = Taken(s) /\ Complete(s)' = Complete(s)
          /\ client' = client /\ proc' = proc
      BY <1>3 DEF Enqueue, Given, Taken, Complete
    <2>2. ProcKnows(s)' /\ ClientKnows(s)' /\ Whole(s)'
      BY <1>1, <1>3, <1>4, <2>1 DEF Good, ProcKnows, ClientKnows, Whole, Ended
    <2>3. Handed(s)' = Taken(s)
      BY <1>3, <1>4, <2>1 DEF Handed
    <2>4. Flow(s)'
      <3> SUFFICES ASSUME ~ Ended(s) PROVE Flow(s)'
        BY <2>1 DEF Flow, Ended
      <3>1. Flow(s)
        BY <1>1 DEF Good
      <3>2. CASE reader[s] = "putting"
        <4>1. /\ Handed(s) = Taken(s) - 1 /\ Len(queue[s]) = Handed(s) - Given(s)
              /\ x = Taken(s) /\ reader'[s] = "reading"
          BY <1>3, <1>4, <3>1, <3>2 DEF Flow, Handed
        <4>2. Given(s)' <= Handed(s)' /\ Len(queue'[s]) = Handed(s)' - Given(s)'
          BY <1>2, <1>5, <2>1, <2>3, <4>1, <3>1 DEF Flow
        <4>3. \A j \in 1 .. Handed(s)' - Given(s)' : queue'[s][j] = Given(s)' + j
          <5> SUFFICES ASSUME NEW j \in 1 .. Handed(s)' - Given(s)'
                       PROVE  queue'[s][j] = Given(s) + j
            BY <2>1
          <5>1. j \in 1 .. Len(queue[s]) \/ j = Len(queue[s]) + 1
            BY <1>5, <4>2
          <5>2. CASE j \in 1 .. Len(queue[s])
            BY <1>5, <3>1, <4>1, <5>2 DEF Flow
          <5>3. CASE j = Len(queue[s]) + 1
            BY <1>2, <1>5, <4>1, <5>3
          <5> QED BY <5>1, <5>2, <5>3
        <4> QED BY <1>2, <2>1, <2>3, <3>1, <4>1, <4>2, <4>3 DEF Flow, Given
      <3>3. CASE reader[s] = "erring"
        BY <1>2, <1>3, <1>4, <1>5, <2>1, <2>3, <3>1, <3>3 DEF Flow, Handed
      <3>4. CASE reader[s] = "closing"
        BY <1>2, <1>3, <1>4, <1>5, <2>1, <2>3, <3>1, <3>4 DEF Flow, Handed
      <3> QED BY <1>3, <3>2, <3>3, <3>4
    <2> QED BY <2>2, <2>4 DEF Good
  <1>8. ASSUME NEW t \in Streams, t # s PROVE Good(t)'
    <2>1. queue'[t] = queue[t] /\ reader'[t] = reader[t]
      BY <1>1, <1>3, <1>8 DEF TypeOK, Enqueue
    <2> QED BY <1>3, <1>8, <2>1, Frame DEF IInv, Enqueue
  <1> QED BY <1>3, <1>6, <1>7, <1>8 DEF IInv, Enqueue
-----------------------------------------------------------------------------
(* The coroutines and the workers *)

\* A step that changes the client only, and leaves what was given as it is.
LEMMA ClientMoves ==
  ASSUME IInv, NEW s \in Streams, NEW pc \in {"asking", "waiting", "using"},
         client' = [client EXCEPT ![s].pc = pc],
         UNCHANGED << proc, queue >>,
         ~ Ended(s),
         \A t \in Streams \ {s} : reader'[t] = reader[t],
         reader'[s] = reader[s] \/ (reader[s] = "off" /\ reader'[s] = "spawning")
  PROVE  /\ client' \in [Streams -> Clients]
         /\ \A t \in Streams : Good(t)'
  <1>1. TypeOK /\ Good(s)
    BY DEF IInv
  <1>2. client \in [Streams -> Clients]
    BY <1>1 DEF TypeOK, Clients
  <1>3. client' \in [Streams -> Clients]
    BY <1>2 DEF Clients
  <1>4. /\ client'[s].pc = pc /\ client'[s].given = client[s].given
        /\ client'[s].how = client[s].how
    BY <1>2 DEF Clients
  <1>5. Good(s)'
    <2>1. ProcKnows(s)' /\ ClientKnows(s)' /\ Whole(s)'
      BY <1>1, <1>4 DEF Good, ProcKnows, ClientKnows, Whole, Ended
    <2>2. Flow(s)'
      BY <1>1, <1>4 DEF Good, Flow, Ended, Given, Handed, Taken, Complete
    <2> QED BY <2>1, <2>2 DEF Good
  <1>6. ASSUME NEW t \in Streams, t # s PROVE Good(t)'
    <2>1. client'[t] = client[t] /\ Good(t)
      BY <1>2, <1>6 DEF IInv
    <2> QED BY <1>6, <2>1, Frame
  <1> QED BY <1>3, <1>5, <1>6

\* A stream ends: as complete only if it is.
LEMMA Finishes ==
  ASSUME IInv, NEW s \in Streams, NEW how \in {"done", "error", "cancelled"},
         Finish(s, client, how),
         client[s].pc \notin {"off", "ended"},
         UNCHANGED << reader, known >>,
         \A t \in Streams \ {s} : queue'[t] = queue[t],
         how = "done" => /\ client[s].given = [i \in 1 .. proc[s].out |-> i]
                         /\ proc[s].pc = "exited" /\ proc[s].rc # "failed"
  PROVE  /\ client' \in [Streams -> Clients]
         /\ proc' \in [Streams -> Processes]
         /\ \A t \in Streams : Good(t)'
  <1>1. TypeOK /\ Good(s)
    BY DEF IInv
  <1>2. client \in [Streams -> Clients] /\ proc \in [Streams -> Processes]
    BY <1>1 DEF TypeOK, Clients, Processes
  <1>3. client' \in [Streams -> Clients]
    <2> DEFINE late == ~ known[s]
    <2>1. late \in BOOLEAN
      OBVIOUS
    <2>2. client' = [client EXCEPT ![s].pc = "ended", ![s].how = how, ![s].late = late]
      BY DEF Finish
    <2> DEFINE ended   == [client EXCEPT ![s].pc = "ended"]
               howEnded == [ended EXCEPT ![s].how = how]
    <2>3. ended \in [Streams -> Clients]
      BY <1>2 DEF Clients
    <2>4. howEnded \in [Streams -> Clients]
      <3> HIDE DEF ended
      <3> QED BY <2>3 DEF Clients
    <2>5. client' = [howEnded EXCEPT ![s].late = late]
      BY <1>2, <2>2 DEF Clients
    <2> HIDE DEF late, howEnded
    <2> QED BY <2>1, <2>4, <2>5 DEF Clients
  <1>4. /\ client'[s].pc = "ended" /\ client'[s].how = how
        /\ client'[s].given = client[s].given
    BY <1>2 DEF Finish, Clients
  <1>5. proc' \in [Streams -> Processes]
    BY ZenonT(60), <1>2 DEF Finish, Processes
  <1>6. /\ proc'[s].out = proc[s].out /\ proc'[s].pipe = proc[s].pipe
        /\ \/ proc'[s] = proc[s]
           \/ /\ proc'[s].pc = "exited"
              /\ proc[s].pc \in {"running", "writing", "hung"}
    BY <1>2 DEF Finish, Processes, Alive
  <1>7. Good(s)'
    <2>1. ProcKnows(s)' /\ ClientKnows(s)' /\ Flow(s)'
      BY <1>1, <1>4, <1>6 DEF Good, ProcKnows, ClientKnows, Flow, Ended
    <2>2. Whole(s)'
      BY <1>4, <1>6 DEF Whole
    <2> QED BY <2>1, <2>2 DEF Good
  <1>8. ASSUME NEW t \in Streams, t # s PROVE Good(t)'
    <2>1. client'[t] = client[t] /\ proc'[t] = proc[t] /\ Good(t)
      BY <1>2, <1>8 DEF IInv, Finish
    <2> QED BY <1>8, <2>1, Frame
  <1> QED BY <1>3, <1>5, <1>7, <1>8

LEMMA StepOfBegin ==
  ASSUME IInv, NEW s \in Streams, Begin(s)
  PROVE  IInv'
  <1>1. TypeOK /\ Good(s)
    BY DEF IInv
  <1>2. reader[s] = "off" /\ ~ Ended(s)
    BY <1>1 DEF Begin, Good, ClientKnows, Ended
  <1>3. client' \in [Streams -> Clients] /\ \A t \in Streams : Good(t)'
    BY <1>1, <1>2, ClientMoves DEF Begin, Ask, TypeOK
  <1>4. TypeOK'
    BY <1>1, <1>3 DEF TypeOK, Clients, Begin, Ask
  <1> QED BY <1>3, <1>4 DEF IInv, Begin

LEMMA StepOfResume ==
  ASSUME IInv, NEW s \in Streams, Resume(s)
  PROVE  IInv'
  <1>1. TypeOK /\ ~ Ended(s)
    BY DEF IInv, Resume, Ended
  <1>2. client' \in [Streams -> Clients] /\ \A t \in Streams : Good(t)'
    BY <1>1, ClientMoves DEF Resume, Ask
  <1>3. TypeOK'
    BY <1>1, <1>2 DEF TypeOK, Clients, Resume, Ask
  <1> QED BY <1>2, <1>3 DEF IInv, Resume

\* A worker takes one call more, of which there are no more than workers.
LEMMA StepOfTakeJob ==
  ASSUME IInv, TakeJob
  PROVE  IInv'
  <1> DEFINE s == Head(jobs)
  <1>1. TypeOK /\ IsFiniteSet(getting)
    BY DEF IInv
  <1>2. s \in Streams /\ Tail(jobs) \in Seq(Streams)
    BY <1>1 DEF TakeJob, TypeOK
  <1> HIDE DEF s
  <1>3. CASE Ended(s)
    <2>1. TypeOK'
      BY <1>1, <1>2, <1>3 DEF TakeJob, TypeOK, s
    <2>2. ASSUME NEW t \in Streams PROVE Good(t)'
      BY <1>3, <2>2, Frame DEF TakeJob, IInv, s
    <2> QED BY <1>1, <1>3, <2>1, <2>2 DEF IInv, TakeJob, s
  <1>4. CASE ~ Ended(s)
    <2>1. client' \in [Streams -> Clients] /\ \A t \in Streams : Good(t)'
      BY <1>1, <1>2, <1>4, ClientMoves DEF TakeJob, s
    <2>2. getting' = getting \union {s} /\ getting' \subseteq Streams
      BY <1>1, <1>2, <1>4 DEF TakeJob, TypeOK, s
    <2>3. IsFiniteSet(getting') /\ Cardinality(getting') <= Workers
      <3>1. /\ IsFiniteSet(getting \union {s})
            /\ \/ Cardinality(getting \union {s}) = Cardinality(getting)
               \/ Cardinality(getting \union {s}) = Cardinality(getting) + 1
        BY <1>1, FS_AddElement
      <3>2. Cardinality(getting) \in Nat
        BY <1>1, FS_CardinalityType
      <3> QED BY <2>2, <3>1, <3>2, ConstantsAssumption DEF TakeJob
    <2>4. TypeOK'
      BY <1>1, <1>2, <2>1, <2>2, <2>3 DEF TypeOK, Clients, TakeJob
    <2> QED BY <2>1, <2>3, <2>4 DEF IInv
  <1> QED BY <1>3, <1>4

LEMMA StepOfSave ==
  ASSUME IInv, NEW s \in Streams, SaveVerdict(s)
  PROVE  IInv'
  <1>1. TypeOK /\ Good(s)
    BY DEF IInv
  <1>2. client \in [Streams -> Clients]
    BY <1>1 DEF TypeOK, Clients
  <1>3. client' \in [Streams -> Clients]
    BY <1>2 DEF SaveVerdict, Clients
  <1>4. /\ client'[s].pc = client[s].pc /\ client'[s].how = client[s].how
        /\ client'[s].given = client[s].given
    BY <1>2 DEF SaveVerdict, Clients
  <1>5. Good(s)'
    BY <1>1, <1>4 DEF SaveVerdict, Good, ProcKnows, ClientKnows, Flow, Whole, Ended
  <1>6. ASSUME NEW t \in Streams, t # s PROVE Good(t)'
    <2>1. client'[t] = client[t]
      BY <1>2, <1>6 DEF SaveVerdict
    <2> QED BY <1>6, <2>1, Frame DEF IInv, SaveVerdict
  <1>7. TypeOK'
    BY <1>1, <1>3 DEF TypeOK, Clients, SaveVerdict
  <1> QED BY <1>5, <1>6, <1>7 DEF IInv, SaveVerdict
\* The first sentinel a stream takes is the first item behind all the chunks.
LEMMA StepOfGet ==
  ASSUME IInv, NEW s \in Streams, Get(s)
  PROVE  IInv'
  <1> DEFINE item == Head(queue[s])
  <1>1. TypeOK /\ IsFiniteSet(getting) /\ Good(s)
    BY DEF IInv
  <1>2. /\ queue[s] \in Seq(Chunks \union {STREAM_DONE, STREAM_ERR}) /\ queue[s] # << >>
        /\ queue'[s] = Tail(queue[s])
        /\ \A t \in Streams \ {s} : queue'[t] = queue[t]
        /\ item = queue[s][1]
    BY <1>1 DEF Get, TypeOK
  <1>3. /\ queue'[s] \in Seq(Chunks \union {STREAM_DONE, STREAM_ERR})
        /\ Len(queue'[s]) = Len(queue[s]) - 1
        /\ Len(queue[s]) \in Nat \ {0}
        /\ \A j \in 1 .. Len(queue'[s]) : queue'[s][j] = queue[s][j + 1]
    BY <1>2
  <1>4. queue' \in [Streams -> Seq(Chunks \union {STREAM_DONE, STREAM_ERR})]
        /\ \A t \in Streams : Len(queue'[t]) <= QueueSize
    <2>1. queue' \in [Streams -> Seq(Chunks \union {STREAM_DONE, STREAM_ERR})]
      BY <1>1, <1>3 DEF Get, TypeOK
    <2>2. Len(queue[s]) <= QueueSize /\ \A t \in Streams \ {s} : Len(queue'[t]) <= QueueSize
      BY <1>1, <1>2 DEF TypeOK
    <2> QED BY <1>3, <2>1, <2>2, ConstantsAssumption
  <1>5. getting' \subseteq Streams /\ IsFiniteSet(getting') /\ Cardinality(getting') <= Workers
    <2>1. /\ IsFiniteSet(getting \ {s})
          /\ Cardinality(getting \ {s}) = Cardinality(getting) - 1
      BY <1>1, FS_RemoveElement DEF Get
    <2>2. Cardinality(getting) \in Nat
      BY <1>1, FS_CardinalityType
    <2> QED BY <1>1, <2>1, <2>2, ConstantsAssumption DEF Get, TypeOK
  <1>6. ASSUME client' \in [Streams -> Clients], proc' \in [Streams -> Processes],
               UNCHANGED jobs
        PROVE  TypeOK'
    BY <1>1, <1>4, <1>5, <1>6 DEF TypeOK, Clients, Processes, Get
  <1>7. /\ client \in [Streams -> Clients] /\ proc \in [Streams -> Processes]
        /\ reader' = reader
    BY <1>1 DEF TypeOK, Clients, Processes, Get
  <1>8. CASE Ended(s)
    <2>1. UNCHANGED << client, jobs, proc >>
      BY <1>8 DEF Get
    <2>2. Good(s)'
      BY <1>1, <1>7, <1>8, <2>1 DEF Good, ProcKnows, ClientKnows, Flow, Whole, Ended
    <2>3. ASSUME NEW t \in Streams, t # s PROVE Good(t)'
      BY <1>2, <1>7, <2>1, <2>3, Frame DEF IInv
    <2> QED BY <1>5, <1>6, <1>7, <2>1, <2>2, <2>3 DEF IInv
  <1>9. CASE ~ Ended(s)
    <2>1. /\ Given(s) \in Nat /\ Taken(s) \in Int /\ Handed(s) \in Int
          /\ Handed(s) <= Taken(s) /\ Taken(s) <= proc[s].out /\ proc[s].out \in 0 .. MaxOutput
      BY <1>1, Types DEF Given, Handed, Taken
    <2>2. Flow(s) /\ Handed(s) - Given(s) \in Nat
      BY <1>1, <1>9, <2>1 DEF Good, Flow
    <2>3. CASE Handed(s) - Given(s) > 0
      <3>1. item = Given(s) + 1
        BY <1>2, <1>9, <2>2, <2>3 DEF Flow
      <3>2. item \in Chunks /\ item # STREAM_DONE /\ item # STREAM_ERR
        BY <2>1, <2>3, <3>1, ConstantsAssumption DEF Chunks, STREAM_DONE, STREAM_ERR
      <3>3. /\ client' = [client EXCEPT ![s].pc = "using", ![s].given = Append(@, item)]
            /\ UNCHANGED << jobs, proc >>
        BY <1>9, <3>2 DEF Get
      <3> HIDE DEF item
      <3>4. client[s].given \in Seq(Chunks)
        BY <1>1, Types
      <3>5. client' \in [Streams -> Clients]
        <4>1. Append(client[s].given, item) \in Seq(Chunks)
          BY <3>2, <3>4
        <4> QED BY ZenonT(60), <1>7, <3>3, <4>1 DEF Clients
      <3>6. /\ client'[s].pc = "using" /\ client'[s].how = client[s].how
            /\ client'[s].given = Append(client[s].given, item)
        BY <1>7, <3>3 DEF Clients
      <3>7. /\ Given(s)' = Given(s) + 1 /\ Handed(s)' = Handed(s) /\ Complete(s)' = Complete(s)
            /\ \A i \in 1 .. Given(s) : client'[s].given[i] = client[s].given[i]
            /\ client'[s].given[Given(s) + 1] = item
        BY <1>7, <3>3, <3>4, <3>6 DEF Given, Handed, Taken, Complete
      <3>8. Flow(s)'
        <4>1. \A i \in 1 .. Given(s)' : client'[s].given[i] = i
          <5>1. ASSUME NEW i \in 1 .. Given(s) PROVE client'[s].given[i] = i
            BY <1>9, <2>2, <3>7, <5>1 DEF Flow
          <5> QED BY <2>1, <3>1, <3>7, <5>1
        <4>2. \A j \in 1 .. Handed(s)' - Given(s)' : queue'[s][j] = Given(s)' + j
          <5> SUFFICES ASSUME NEW j \in 1 .. Handed(s)' - Given(s)'
                       PROVE  queue'[s][j] = Given(s)' + j
            OBVIOUS
          <5>1. /\ j + 1 \in 1 .. Handed(s) - Given(s)
                /\ j \in 1 .. Len(queue'[s])
            <6>1. Handed(s)' - Given(s)' = Handed(s) - Given(s) - 1
              BY <2>1, <3>7
            <6>2. Handed(s) - Given(s) <= Len(queue[s])
              BY <1>9, <2>2 DEF Flow
            <6> QED BY <1>3, <2>1, <6>1, <6>2
          <5>2. queue'[s][j] = queue[s][j + 1] /\ queue[s][j + 1] = Given(s) + (j + 1)
            BY <1>3, <1>9, <2>2, <5>1 DEF Flow
          <5> QED BY <2>1, <3>7, <5>1, <5>2
        <4>3. /\ Given(s)' <= Handed(s)'
              /\ Handed(s)' - Given(s)' <= Len(queue'[s])
              /\ Len(queue'[s]) - (Handed(s)' - Given(s)') = Len(queue[s]) - (Handed(s) - Given(s))
          BY SMTT(30), <1>3, <1>9, <2>1, <2>2, <2>3, <3>7 DEF Flow
        <4>4. Len(queue[s]) > Handed(s) - Given(s) =>
                /\ Len(queue'[s]) > Handed(s)' - Given(s)'
                /\ queue'[s][Handed(s)' - Given(s)' + 1] = queue[s][Handed(s) - Given(s) + 1]
          <5> DEFINE n == Handed(s) - Given(s)
          <5>1. Handed(s)' - Given(s)' + 1 = n /\ n \in Nat \ {0}
            BY <2>1, <2>2, <2>3, <3>7
          <5>2. Len(queue[s]) > n => n \in 1 .. Len(queue'[s])
            BY <1>3, <5>1
          <5>3. Len(queue[s]) > n => queue'[s][n] = queue[s][n + 1]
            BY <1>3, <5>2
          <5> QED BY <1>3, <2>1, <3>7, <5>1, <5>3
        <4>5. Len(queue[s]) = Handed(s) - Given(s) => Len(queue'[s]) = Handed(s)' - Given(s)'
          BY <1>3, <2>1, <3>7, <4>3
        <4> QED BY <1>7, <1>9, <2>2, <3>7, <4>1, <4>2, <4>3, <4>4, <4>5 DEF Flow
      <3>9. Good(s)'
        <4>1. ProcKnows(s)' /\ ClientKnows(s)' /\ Whole(s)'
          BY <1>1, <1>7, <1>9, <3>3, <3>6
             DEF Good, ProcKnows, ClientKnows, Whole, Ended
        <4> QED BY <3>8, <4>1 DEF Good
      <3>10. ASSUME NEW t \in Streams, t # s PROVE Good(t)'
        <4>1. client'[t] = client[t] /\ Good(t)
          BY <1>7, <3>3, <3>10 DEF IInv
        <4> QED BY <1>2, <1>7, <3>3, <3>10, <4>1, Frame
      <3> QED BY <1>5, <1>6, <1>7, <3>3, <3>5, <3>9, <3>10 DEF IInv
    <2>4. CASE Handed(s) = Given(s)
      <3>0. reader[s] \in {"closing", "ended"}
        <4>1. Len(queue[s]) # Handed(s) - Given(s)
          BY <1>3, <2>1, <2>4
        <4> QED BY <1>1, <1>9, <2>2, <4>1, Types DEF Flow
      <3>1. /\ client[s].pc # "off"
            /\ \/ item = STREAM_DONE /\ Complete(s)
               \/ item = STREAM_ERR
        <4>1. client[s].pc # "off"
          BY <1>1, <3>0 DEF Good, ClientKnows
        <4>2. Handed(s) - Given(s) = 0 /\ 0 + 1 = 1
          BY <2>1, <2>4
        <4>3. item = queue[s][Handed(s) - Given(s) + 1] /\ Len(queue[s]) # Handed(s) - Given(s)
          BY <1>2, <1>3, <4>2
        <4> QED BY <1>9, <2>2, <3>0, <4>1, <4>3 DEF Flow
      <3>2. STREAM_DONE \notin Chunks /\ STREAM_ERR \notin Chunks /\ STREAM_DONE # STREAM_ERR
        BY ConstantsAssumption DEF Chunks, STREAM_DONE, STREAM_ERR
      <3>3. PICK how \in {"done", "error"} :
              /\ Finish(s, client, how)
              /\ how = "done" => Complete(s)
        BY <1>9, <3>1, <3>2 DEF Get
      <3>4. how = "done" => /\ client[s].given = [i \in 1 .. proc[s].out |-> i]
                            /\ proc[s].pc = "exited" /\ proc[s].rc # "failed"
        <4> SUFFICES ASSUME how = "done"
                     PROVE  client[s].given = [i \in 1 .. proc[s].out |-> i]
          BY <3>3 DEF Complete
        <4>1. Handed(s) = Taken(s)
          BY <3>0 DEF Handed
        <4>2. Len(client[s].given) = proc[s].out
          BY <2>1, <2>4, <3>3, <4>1 DEF Complete, Taken, Given
        <4>3. \A i \in 1 .. Len(client[s].given) : client[s].given[i] = i
          BY <1>9, <2>2 DEF Flow, Given
        <4>4. client[s].given \in Seq(Chunks)
          BY <1>1, Types
        <4> QED BY <4>2, <4>3, <4>4
      <3>5. /\ client' \in [Streams -> Clients] /\ proc' \in [Streams -> Processes]
            /\ \A t \in Streams : Good(t)'
        <4>1. client[s].pc \notin {"off", "ended"} /\ UNCHANGED << reader, known >>
          BY <1>9, <3>1 DEF Get, Ended
        <4> QED BY <1>2, <3>3, <3>4, <4>1, Finishes
      <3> QED BY <1>5, <1>6, <3>3, <3>5 DEF IInv, Finish
    <2> QED BY <2>1, <2>2, <2>3, <2>4
  <1> QED BY <1>8, <1>9

\* A timeout, or a client that leaves.
LEMMA StepOfLeaving ==
  ASSUME IInv, NEW s \in Streams, Timeout(s) \/ Cancel(s)
  PROVE  IInv'
  <1>1. PICK how \in {"error", "cancelled"} : Finish(s, client, how)
    BY DEF Timeout, Cancel
  <1>2. /\ TypeOK /\ IsFiniteSet(getting)
        /\ client[s].pc \notin {"off", "ended"}
        /\ UNCHANGED << reader, known, queue, getting, jobs >>
    BY <1>1 DEF IInv, Timeout, Cancel, Finish
  <1>3. /\ client' \in [Streams -> Clients] /\ proc' \in [Streams -> Processes]
        /\ \A t \in Streams : Good(t)'
    BY <1>1, <1>2, Finishes
  <1>4. TypeOK'
    BY <1>2, <1>3 DEF TypeOK, Clients, Processes
  <1> QED BY <1>2, <1>3, <1>4 DEF IInv

-----------------------------------------------------------------------------
(* Theorems *)

THEOREM Invariance == Spec => []IInv
  <1>1. Init => IInv
    BY Initially
  <1>2. IInv /\ [Next]_vars => IInv'
    <2> SUFFICES ASSUME IInv, [Next]_vars PROVE IInv'
      OBVIOUS
    <2>1. CASE TakeJob
      BY <2>1, StepOfTakeJob
    <2>2. ASSUME NEW s \in Streams, ProcStep(s) PROVE IInv'
      BY <2>2, StepOfProcess
    <2>3. ASSUME NEW s \in Streams, ReaderStep(s) PROVE IInv'
      BY <2>3, StepOfPopen, StepOfRegister, StepOfRead, StepOfReadEof, StepOfPut DEF ReaderStep
    <2>4. ASSUME NEW s \in Streams, Begin(s) \/ Resume(s) PROVE IInv'
      BY <2>4, StepOfBegin, StepOfResume
    <2>5. ASSUME NEW s \in Streams, Get(s) PROVE IInv'
      BY <2>5, StepOfGet
    <2>6. ASSUME NEW s \in Streams, Timeout(s) \/ Cancel(s) PROVE IInv'
      BY <2>6, StepOfLeaving
    <2>7. ASSUME NEW s \in Streams, SaveVerdict(s) PROVE IInv'
      BY <2>7, StepOfSave
    <2>8. CASE UNCHANGED vars
      <3>1. ASSUME NEW t \in Streams PROVE Good(t)'
        BY <2>8, <3>1, Frame DEF vars, IInv
      <3>2. TypeOK' /\ IsFiniteSet(getting')
        BY <2>8 DEF vars, IInv, TypeOK
      <3> QED BY <3>1, <3>2 DEF IInv
    <2> QED BY <2>1, <2>2, <2>3, <2>4, <2>5, <2>6, <2>7, <2>8 DEF Next
  <1> QED BY <1>1, <1>2, PTL DEF Spec

\* The types are right, and at most Workers threads of the shared executor are
\* used and no queue exceeds its size.
THEOREM TypeCorrect == Spec => []TypeOK
  <1>1. IInv => TypeOK
    BY DEF IInv
  <1> QED BY <1>1, Invariance, PTL

\* A stream that ends as complete gave its user every chunk the process wrote,
\* in order and once, whatever the threads, the event loop and the process did
\* (the queue and its sentinels in _stream_process_chunks_with_stdin).
THEOREM CompleteStreams == Spec => []EndIsWhole
  <1>1. IInv => EndIsWhole
    BY DEF IInv, Good, Whole, EndIsWhole
  <1> QED BY <1>1, Invariance, PTL
=============================================================================
