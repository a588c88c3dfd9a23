----------------------- MODULE IngestionSessions_proofs -----------------------
(***************************************************************************)
(* Proofs about IngestionSessions, for any numbers of sessions, streams,   *)
(* runs and events.  Every step of a workflow that tells anything goes     *)
(* through add_event; so what such a step may add (Tells) carries both     *)
(* action properties.  That a pause holds needs to know besides that a     *)
(* session whose last word was "paused" has its run waiting (PausedIsHeld).*)
(* What streams were sent (SInv) and which events end a run (VInv) give    *)
(* the theorems about streams.                                             *)
(***************************************************************************)
EXTENDS IngestionSessions, SequenceTheorems, TLAPS

\* The run of a session that told of a pause waits for its end; one that waits
\* has an event in hand.
PausedIsHeld ==
  \A o \in Objects : /\ sess[o].status = "paused" => sess[o].pc = "held"
                     /\ sess[o].pc = "held" => sess[o].work < MaxWork

IInv == TypeOK /\ PausedIsHeld

SessType == [sid: Sids \union {None}, mode: Modes, status: Phases,
             events: Seq(Phases), paused: BOOLEAN, cancelled: BOOLEAN,
             suspend: {"running", "suspending", "suspended"},
             running: BOOLEAN, queues: SUBSET Streams,
             pc: {"off", "ready", "phase", "held", "tail"},
             work: 0 .. MaxWork, runs: 0 .. MaxRuns, cancels: 0 .. MaxCancels,
             ends: SUBSET Nat]

StreamType == [pc: {"off", "open", "replay", "live", "ending", "closed", "left", "gone"},
               obj: Objects \union {None}, again: BOOLEAN, queue: Seq(Nat),
               got: Seq(Nat), since: Nat, at: Nat]

\* x may become the session o.
Fits(o, x) ==
  /\ x \in SessType /\ x.queues = sess[o].queues /\ x.events = sess[o].events
  /\ x.running <=> x.pc # "off"
  /\ x.pc = "held" => x.work < MaxWork
  /\ x.sid = sess[o].sid /\ x.mode = sess[o].mode /\ x.ends = sess[o].ends
  /\ sess[o].cancelled => x.cancelled

LEMMA TypesAtHand ==
  ASSUME TypeOK
  PROVE  /\ sess \in [Objects -> SessType] /\ stream \in [Streams -> StreamType]
         /\ \A o \in Objects :
              /\ sess[o].running <=> sess[o].pc # "off"
              /\ sess[o].queues = {c \in Streams : stream[c].obj = o /\ Queued(c)}
BY DEF TypeOK, SessType, StreamType

LEMMA NewTyped == NoSession \in SessType /\ NoStream \in StreamType
BY ConstantsAssumption DEF NoSession, NoStream, SessType, StreamType, Modes, Phases

LEMMA InitIInv == ASSUME Init PROVE IInv
<1>1. NoSession \in SessType /\ NoStream \in StreamType
  BY NewTyped
<1>2. \A o \in Objects : {c \in Streams : stream[c].obj = o /\ Queued(c)} = {}
  BY DEF Init, NoStream, Open, Queued
<1>3. TypeOK
  BY <1>1, <1>2 DEF Init, TypeOK, SessType, StreamType, NoSession
<1>4. PausedIsHeld
  BY DEF Init, PausedIsHeld, NoSession
<1> QED BY <1>3, <1>4 DEF IInv

LEMMA Fitting ==
  ASSUME IInv, NEW o \in Objects, NEW pc \in {"phase", "held"}, sess[o].pc # "off",
         pc = "held" => sess[o].work < MaxWork
  PROVE  /\ Fits(o, sess[o]) /\ Fits(o, [sess[o] EXCEPT !.pc = pc])
         /\ [sess[o] EXCEPT !.pc = pc].cancelled = sess[o].cancelled
         /\ [sess[o] EXCEPT !.pc = pc].pc = pc
<1>1. sess[o] \in SessType /\ (sess[o].running <=> sess[o].pc # "off")
  BY TypesAtHand DEF IInv
<1> QED BY <1>1 DEF Fits, SessType, IInv, PausedIsHeld

LEMMA FitsStopped ==
  ASSUME NEW o \in Objects, NEW x, Fits(o, x)
  PROVE  /\ Fits(o, Stopped(x)) /\ Stopped(x).cancelled = x.cancelled
         /\ Stopped(x).pc = "off" /\ Stopped(x).status = x.status
BY DEF Fits, Stopped, SessType

-----------------------------------------------------------------------------
(* Telling an event *)

\* What a step that tells something may do.
Tells(o) ==
  /\ UNCHANGED registry
  /\ ~ (sess[o].paused /\ sess[o].status = "paused")
  /\ \E x \in SessType, phase \in Phases :
       /\ AddEvent(o, x, phase) /\ Fits(o, x)
       /\ sess[o].cancelled => phase # "complete"
       /\ phase = "paused" => x.pc = "held"
       /\ sess[o].pc # "off"
       /\ sess[o].cancelled => phase \in Final
       /\ phase \in Final => x.pc = "off" \/ x.mode = "design"

LEMMA AddEventStep ==
  ASSUME IInv, NEW o \in Objects, NEW x \in SessType, NEW phase \in Phases,
         AddEvent(o, x, phase), Fits(o, x), UNCHANGED registry,
         phase = "paused" => x.pc = "held"
  PROVE  /\ IInv'
         /\ sess'[o].status = phase
         /\ \A q \in Objects : q # o => sess'[q] = sess[q]
<1> DEFINE n == Len(x.events) + 1
           m == IF sess[o].pc # "off" /\ x.pc = "off" THEN x.ends \union {n} ELSE x.ends
           y == [x EXCEPT !.events = Append(@, phase), !.status = phase, !.ends = m]
<1>1. n \in Nat /\ Append(x.events, phase) \in Seq(Phases) /\ m \in SUBSET Nat
  BY DEF SessType
<1>2. /\ y \in SessType /\ y.status = phase /\ y.pc = x.pc /\ y.running = x.running
      /\ y.queues = x.queues /\ y.work = x.work
  BY <1>1 DEF SessType
<1>3. /\ sess' = [sess EXCEPT ![o] = y]
      /\ stream' = [c \in Streams |-> IF c \in x.queues
                      THEN [stream[c] EXCEPT !.queue = Append(@, n)] ELSE stream[c]]
  BY DEF AddEvent
<1> HIDE DEF n, y
<1>4. \A c \in Streams :
        /\ stream'[c] \in StreamType /\ stream'[c].pc = stream[c].pc
        /\ stream'[c].obj = stream[c].obj
  <2>1. SUFFICES ASSUME NEW c \in Streams
        PROVE  /\ stream'[c] \in StreamType /\ stream'[c].pc = stream[c].pc
               /\ stream'[c].obj = stream[c].obj
    OBVIOUS
  <2>2. stream[c] \in StreamType
    BY TypesAtHand DEF IInv
  <2>3. Append(stream[c].queue, n) \in Seq(Nat)
    BY <1>1, <2>2 DEF StreamType
  <2>4. [stream[c] EXCEPT !.queue = Append(@, n)] \in StreamType
    BY <2>2, <2>3 DEF StreamType
  <2> QED BY <1>3, <2>2, <2>4 DEF StreamType
<1>5. /\ sess'[o] = y
      /\ \A q \in Objects : q # o => sess'[q] = sess[q]
  BY <1>3, TypesAtHand DEF IInv
<1>6. TypeOK'
  <2>1. sess' \in [Objects -> SessType] /\ stream' \in [Streams -> StreamType]
    BY <1>2, <1>3, <1>4, TypesAtHand DEF IInv
  <2>2. \A q \in Objects :
          /\ sess'[q].running <=> sess'[q].pc # "off"
          /\ sess'[q].queues = {c \in Streams : stream'[c].obj = q /\ Queued(c)'}
    BY <1>2, <1>4, <1>5, TypesAtHand DEF IInv, Fits, Open, Queued
  <2>3. registry' \in [Sids -> Objects \union {None}]
    BY DEF IInv, TypeOK
  <2> QED BY <2>1, <2>2, <2>3 DEF TypeOK, SessType, StreamType
<1>7. PausedIsHeld'
  BY <1>2, <1>5 DEF PausedIsHeld, IInv, Fits
<1> QED BY <1>2, <1>5, <1>6, <1>7 DEF IInv

LEMMA YieldTells ==
  ASSUME IInv, NEW o \in Objects, NEW x, NEW phase \in Phases,
         Fits(o, x), x.cancelled = sess[o].cancelled, Yield(o, x, phase), UNCHANGED registry,
         phase = "paused" => x.pc = "held", phase = "error" => x.cancelled, sess[o].pc # "off",
         ~ (sess[o].paused /\ sess[o].status = "paused")
  PROVE  Tells(o)
<1>1. Fits(o, Stopped(x)) /\ Stopped(x).pc = "off"
  BY FitsStopped
<1>2. CASE x.cancelled
  <2>1. AddEvent(o, Stopped(x), "error") /\ "error" \in Phases \ {"complete", "paused"}
        /\ "error" \in Final
    BY <1>2 DEF Yield, Phases, Final
  <2>2. Stopped(x) \in SessType
    BY <1>1 DEF Fits
  <2> QED BY <1>1, <2>1, <2>2 DEF Tells
<1>3. CASE ~ x.cancelled /\ phase = "complete"
  <2>1. AddEvent(o, Stopped(x), phase) /\ phase \in Final /\ phase # "paused" /\ ~ sess[o].cancelled
    BY <1>3 DEF Yield, Final
  <2>2. Stopped(x) \in SessType
    BY <1>1 DEF Fits
  <2> QED BY <1>1, <2>1, <2>2 DEF Tells
<1>4. CASE ~ x.cancelled /\ phase # "complete"
  <2>1. AddEvent(o, x, phase) /\ phase \notin Final /\ ~ sess[o].cancelled /\ x \in SessType
    BY <1>4 DEF Yield, Final, Fits
  <2> QED BY <2>1 DEF Tells
<1> QED BY <1>2, <1>3, <1>4

LEMMA YieldErrorTells ==
  ASSUME IInv, NEW o \in Objects, NEW x,
         Fits(o, x), YieldError(o, x), UNCHANGED registry, sess[o].pc # "off",
         ~ (sess[o].paused /\ sess[o].status = "paused")
  PROVE  Tells(o)
<1>1. Fits(o, Stopped(x)) /\ Stopped(x).pc = "off"
  BY FitsStopped
<1>2. "error" \in Phases \ {"complete", "paused"} /\ "error" \in Final
  BY DEF Phases, Final
<1>3. CASE x.mode = "design" /\ ~ x.cancelled
  <2>1. AddEvent(o, x, "error") /\ x \in SessType
    BY <1>3 DEF YieldError, Fits
  <2> QED BY <1>2, <1>3, <2>1 DEF Tells
<1>4. CASE ~ (x.mode = "design" /\ ~ x.cancelled)
  <2>1. AddEvent(o, Stopped(x), "error") /\ Stopped(x) \in SessType
    BY <1>1, <1>4 DEF YieldError, Fits
  <2> QED BY <1>1, <1>2, <2>1 DEF Tells
<1> QED BY <1>3, <1>4

LEMMA FailTells ==
  ASSUME IInv, NEW o \in Objects, NEW x,
         Fits(o, x), AddEvent(o, Stopped(x), "error"), UNCHANGED registry, sess[o].pc # "off",
         ~ (sess[o].paused /\ sess[o].status = "paused")
  PROVE  Tells(o)
<1>1. Fits(o, Stopped(x)) /\ Stopped(x).pc = "off" /\ Stopped(x) \in SessType
  BY FitsStopped DEF Fits
<1>2. "error" \in Phases \ {"complete", "paused"} /\ "error" \in Final
  BY DEF Phases, Final
<1> QED BY <1>1, <1>2 DEF Tells
-----------------------------------------------------------------------------
(* The workflow's task *)

LEMMA NotHeld ==
  ASSUME IInv, NEW o \in Objects, sess[o].pc # "held" \/ ~ sess[o].paused
  PROVE  ~ (sess[o].paused /\ sess[o].status = "paused")
BY DEF IInv, PausedIsHeld

\* An event in hand is told, or another one in its place.
LEMMA OneMoreFits ==
  ASSUME IInv, NEW o \in Objects, sess[o].pc \in {"phase", "held", "tail"}, sess[o].work < MaxWork,
         NEW pc \in {"phase", "tail"}
  PROVE  LET x == [sess[o] EXCEPT !.pc = pc, !.work = @ + 1]
         IN  Fits(o, x) /\ x.cancelled = sess[o].cancelled
<1>1. sess[o] \in SessType /\ (sess[o].running <=> sess[o].pc # "off") /\ sess[o].work + 1 \in 0 .. MaxWork
  BY TypesAtHand, ConstantsAssumption DEF IInv, SessType
<1> QED BY <1>1 DEF Fits, SessType

LEMMA PhaseTells ==
  ASSUME IInv, NEW o \in Objects, PhaseYields(o) \/ PhaseReportsError(o)
  PROVE  Tells(o)
<1> DEFINE x == sess[o]
           more == [x EXCEPT !.work = @ + 1]
           held == [x EXCEPT !.pc = "held"]
           out  == [x EXCEPT !.suspend = "suspended"]
<1>1. x \in SessType /\ (x.running <=> x.pc # "off")
  BY TypesAtHand DEF IInv
<1>2. x.pc = "phase" /\ x.work < MaxWork /\ UNCHANGED registry
  BY DEF PhaseYields, PhaseReportsError
<1>3. Fits(o, more) /\ more.cancelled = x.cancelled
  <2>1. x.work + 1 \in 0 .. MaxWork
    BY <1>1, <1>2, ConstantsAssumption DEF SessType
  <2> QED BY <1>1, <1>2, <2>1 DEF Fits, SessType
<1>4. Fits(o, held) /\ held.cancelled = x.cancelled /\ held.pc = "held"
  BY <1>1, <1>2 DEF Fits, SessType
<1>5. Fits(o, out) /\ out.cancelled = x.cancelled
  BY <1>1, <1>2 DEF Fits, SessType
<1>6. \/ Yield(o, more, "work") \/ Yield(o, out, "error") \/ Yield(o, held, "paused")
      \/ YieldError(o, more)
  BY DEF PhaseYields, PhaseReportsError
<1>6a. ASSUME ~ x.cancelled
       PROVE  Yield(o, more, "work") \/ Yield(o, held, "paused") \/ YieldError(o, more)
  BY <1>6a DEF PhaseYields, PhaseReportsError
<1>7. ~ (x.paused /\ x.status = "paused")
  BY <1>2, NotHeld
<1> HIDE DEF x, more, held, out
<1>8. x.cancelled = sess[o].cancelled /\ ~ (sess[o].paused /\ sess[o].status = "paused")
      /\ sess[o].pc # "off"
  BY <1>2, <1>7 DEF x
<1>9. {"work", "error", "paused"} \subseteq Phases
  BY DEF Phases
<1>10. ASSUME Yield(o, more, "work") PROVE Tells(o)
  BY <1>2, <1>3, <1>8, <1>9, <1>10, YieldTells
<1>11. ASSUME Yield(o, out, "error"), x.cancelled PROVE Tells(o)
  BY <1>2, <1>5, <1>8, <1>9, <1>11, YieldTells
<1>12. ASSUME Yield(o, held, "paused") PROVE Tells(o)
  BY <1>2, <1>4, <1>8, <1>9, <1>12, YieldTells
<1>13. ASSUME YieldError(o, more) PROVE Tells(o)
  BY <1>2, <1>3, <1>8, <1>13, YieldErrorTells
<1> QED BY <1>6, <1>10, <1>11, <1>12, <1>13, <1>6a

\* A step of a run that tells nothing.
Moves(o) ==
  /\ UNCHANGED << registry, stream >>
  /\ \/ \E pc \in {"phase", "tail"} :
          sess[o].pc \in {"ready", "phase"} /\ sess' = [sess EXCEPT ![o].pc = pc]
     \/ sess[o].pc = "ready" /\ sess' = [sess EXCEPT ![o] = Stopped(@)]

LEMMA RunTells ==
  ASSUME IInv, NEW o \in Objects, Run(o)
  PROVE  Tells(o) \/ Moves(o)
<1> DEFINE x == sess[o]
<1>1. x \in SessType /\ (x.running <=> x.pc # "off")
  BY TypesAtHand DEF IInv
<1>2. {"work", "error", "complete"} \subseteq Phases
  BY DEF Phases
<1>3. CASE BeginRun(o)
  <2>1. /\ Fits(o, [x EXCEPT !.pc = "phase"]) /\ [x EXCEPT !.pc = "phase"].cancelled = x.cancelled
        /\ ~ (x.paused /\ x.status = "paused") /\ UNCHANGED registry
    BY <1>3, Fitting, NotHeld DEF BeginRun
  <2> QED BY <1>2, <1>3, <2>1, YieldTells DEF BeginRun
<1>4. CASE BeginRunSilently(o)
  BY <1>4 DEF BeginRunSilently, Moves
<1>5. CASE BeginRunFails(o)
  <2>1. x.pc = "ready" /\ ~ (x.paused /\ x.status = "paused") /\ UNCHANGED registry
    BY <1>5, NotHeld DEF BeginRunFails
  <2>2. Fits(o, x)
    BY <1>1, <2>1 DEF Fits
  <2>3. CASE AddEvent(o, Stopped(x), "error")
    BY <2>1, <2>2, <2>3, FailTells
  <2>4. CASE sess' = [sess EXCEPT ![o] = Stopped(@)] /\ UNCHANGED stream
    BY <2>1, <2>4 DEF Moves
  <2> QED BY <1>5, <2>3, <2>4 DEF BeginRunFails
<1>6. CASE PauseEnds(o)
  <2> DEFINE y == [x EXCEPT !.pc = "phase", !.work = @ + 1]
  <2>1. x.pc = "held" /\ ~ x.paused /\ UNCHANGED registry /\ (Yield(o, y, "work") \/ YieldError(o, y))
    BY <1>6 DEF PauseEnds
  <2>2. x.work < MaxWork
    BY <2>1 DEF IInv, PausedIsHeld
  <2>3. Fits(o, y) /\ y.cancelled = x.cancelled
    BY <2>1, <2>2, OneMoreFits
  <2> HIDE DEF y
  <2>4. CASE Yield(o, y, "work")
    BY <1>2, <2>1, <2>3, <2>4, YieldTells
  <2>5. CASE YieldError(o, y)
    BY <2>1, <2>3, <2>5, YieldErrorTells
  <2> QED BY <2>1, <2>4, <2>5
<1>7. CASE GateFires(o)
  <2> DEFINE w == IF x.mode = "full" THEN "suspended" ELSE x.suspend
             y == [x EXCEPT !.suspend = w]
  <2>1. /\ x.pc = "phase" /\ UNCHANGED registry /\ Yield(o, y, "error") /\ x.cancelled
        /\ ~ (x.paused /\ x.status = "paused")
    BY <1>7, NotHeld DEF GateFires
  <2>2. w \in {"running", "suspending", "suspended"}
    BY <1>1 DEF SessType
  <2> HIDE DEF w
  <2>3. Fits(o, y) /\ y.cancelled = x.cancelled
    BY <1>1, <2>1, <2>2 DEF Fits, SessType
  <2> HIDE DEF y
  <2> QED BY <1>2, <2>1, <2>3, YieldTells
<1>8. CASE PhaseRaises(o)
  <2>1. /\ x.pc \in {"phase", "held", "tail"} /\ AddEvent(o, Stopped(x), "error") /\ UNCHANGED registry
        /\ ~ (x.paused /\ x.status = "paused")
    BY <1>8, NotHeld DEF PhaseRaises
  <2>2. Fits(o, x)
    BY <1>1, <2>1 DEF Fits, IInv, PausedIsHeld
  <2> QED BY <2>1, <2>2, FailTells
<1>9. CASE PhasesEnd(o)
  BY <1>9 DEF PhasesEnd, Moves
<1>10. CASE HookYields(o)
  <2> DEFINE y == [x EXCEPT !.work = @ + 1]
  <2>1. /\ x.pc = "tail" /\ x.work < MaxWork /\ UNCHANGED registry /\ Yield(o, y, "work")
        /\ ~ (x.paused /\ x.status = "paused")
    BY <1>10, NotHeld DEF HookYields
  <2>2. x.work + 1 \in 0 .. MaxWork
    BY <1>1, <2>1, ConstantsAssumption DEF SessType
  <2>3. Fits(o, y) /\ y.cancelled = x.cancelled
    BY <1>1, <2>1, <2>2 DEF Fits, SessType
  <2> HIDE DEF y
  <2> QED BY <1>2, <2>1, <2>3, YieldTells
<1>11. CASE Complete(o)
  <2>1. /\ x.pc = "tail" /\ UNCHANGED registry /\ Yield(o, x, "complete")
        /\ ~ (x.paused /\ x.status = "paused")
    BY <1>11, NotHeld DEF Complete
  <2>2. Fits(o, x)
    BY <1>1, <2>1 DEF Fits
  <2> QED BY <1>2, <2>1, <2>2, YieldTells
<1> QED BY <1>3, <1>4, <1>5, <1>6, <1>7, <1>8, <1>9, <1>10, <1>11, PhaseTells DEF Run
-----------------------------------------------------------------------------
(* Steps *)

\* Every step keeps the invariant, and a new status is told.
Kept == /\ IInv'
        /\ \A o \in Objects : sess'[o].status = sess[o].status \/ Tells(o)

\* One session changes, its status and its streams do not.
LEMMA SessionKept ==
  ASSUME IInv, NEW o \in Objects, NEW y \in SessType,
         sess' = [sess EXCEPT ![o] = y], UNCHANGED stream,
         registry' \in [Sids -> Objects \union {None}],
         y.status = sess[o].status, y.queues = sess[o].queues,
         y.running <=> y.pc # "off",
         \/ y.pc = sess[o].pc /\ y.work = sess[o].work
         \/ y.pc # "held" /\ sess[o].pc # "held"
  PROVE  Kept
<1>1. /\ sess'[o] = y /\ \A q \in Objects : q # o => sess'[q] = sess[q]
      /\ sess' \in [Objects -> SessType]
  BY TypesAtHand DEF IInv
<1>2. \A c \in Streams : stream'[c] = stream[c] /\ (Queued(c)' <=> Queued(c))
  BY DEF Open, Queued
<1>3. \A q \in Objects :
        /\ sess'[q].running <=> sess'[q].pc # "off"
        /\ sess'[q].queues = {c \in Streams : stream'[c].obj = q /\ Queued(c)'}
  BY <1>1, <1>2, TypesAtHand DEF IInv
<1>4. stream' \in [Streams -> StreamType]
  BY TypesAtHand DEF IInv
<1>5. TypeOK'
  BY <1>1, <1>3, <1>4 DEF TypeOK, SessType, StreamType
<1>6. PausedIsHeld'
  BY <1>1 DEF IInv, PausedIsHeld
<1> QED BY <1>1, <1>5, <1>6 DEF Kept, IInv

LEMMA RunKept ==
  ASSUME IInv, NEW o \in Objects, Run(o)
  PROVE  Kept
<1>1. CASE Tells(o)
  <2>1. PICK x \in SessType, phase \in Phases :
          /\ AddEvent(o, x, phase) /\ Fits(o, x)
          /\ phase = "paused" => x.pc = "held"
    BY <1>1 DEF Tells
  <2>2. UNCHANGED registry
    BY <1>1 DEF Tells
  <2>3. IInv' /\ \A q \in Objects : q # o => sess'[q] = sess[q]
    BY <2>1, <2>2, AddEventStep
  <2> QED BY <1>1, <2>3 DEF Kept
<1>2. CASE Moves(o)
  <2>1. /\ sess[o] \in SessType /\ (sess[o].running <=> sess[o].pc # "off")
        /\ registry' \in [Sids -> Objects \union {None}] /\ UNCHANGED stream
    BY <1>2, TypesAtHand DEF IInv, TypeOK, Moves
  <2>2. CASE sess' = [sess EXCEPT ![o] = Stopped(@)] /\ sess[o].pc = "ready"
    <3> DEFINE y == Stopped(sess[o])
    <3>1. /\ y \in SessType /\ y.status = sess[o].status /\ y.queues = sess[o].queues
          /\ y.running = FALSE /\ y.pc = "off"
      BY <2>1 DEF Stopped, SessType
    <3>2. sess' = [sess EXCEPT ![o] = y]
      BY <2>2
    <3> HIDE DEF y
    <3> QED BY <2>1, <2>2, <3>1, <3>2, SessionKept
  <2>3. ASSUME NEW pc \in {"phase", "tail"}, sess' = [sess EXCEPT ![o].pc = pc],
               sess[o].pc \in {"ready", "phase"}
        PROVE  Kept
    <3> DEFINE y == [sess[o] EXCEPT !.pc = pc]
    <3>1. /\ y \in SessType /\ y.status = sess[o].status /\ y.queues = sess[o].queues
          /\ y.running = sess[o].running /\ y.pc = pc
      BY <2>1 DEF SessType
    <3>2. sess' = [sess EXCEPT ![o] = y]
      BY <2>3
    <3> HIDE DEF y
    <3> QED BY <2>1, <2>3, <3>1, <3>2, SessionKept
  <2> QED BY <1>2, <2>2, <2>3 DEF Moves
<1> QED BY <1>1, <1>2, RunTells

LEMMA CreateKept ==
  ASSUME IInv, NEW s \in Sids, NEW mode \in Modes, CreateSession(s, mode)
  PROVE  Kept
<1>1. PICK o \in Objects :
        /\ sess' = [sess EXCEPT ![o].sid = s, ![o].mode = mode]
        /\ registry' = [registry EXCEPT ![s] = o] /\ UNCHANGED stream
  BY DEF CreateSession
<1> DEFINE y == [sess[o] EXCEPT !.sid = s, !.mode = mode]
<1>2. sess[o] \in SessType /\ (sess[o].running <=> sess[o].pc # "off")
  BY TypesAtHand DEF IInv
<1>3. /\ y \in SessType /\ y.status = sess[o].status /\ y.queues = sess[o].queues
      /\ y.running = sess[o].running /\ y.pc = sess[o].pc /\ y.work = sess[o].work
  BY <1>2 DEF SessType
<1>4. sess' = [sess EXCEPT ![o] = y]
  BY <1>1, <1>2, TypesAtHand DEF SessType, IInv
<1>5. registry' \in [Sids -> Objects \union {None}]
  BY <1>1 DEF IInv, TypeOK
<1> HIDE DEF y
<1> QED BY <1>1, <1>2, <1>3, <1>4, <1>5, SessionKept

LEMMA PauseKept ==
  ASSUME IInv, NEW s \in Sids, Pause(s) \/ Resume(s)
  PROVE  Kept
<1>1. PICK o \in Objects, z \in BOOLEAN :
        sess' = [sess EXCEPT ![o].paused = z] /\ UNCHANGED << registry, stream >>
  <2>1. registry[s] \in Objects
    BY DEF Pause, Resume, Known, IInv, TypeOK
  <2>2. CASE Pause(s)
    BY <2>1, <2>2 DEF Pause
  <2>3. CASE Resume(s)
    BY <2>1, <2>3 DEF Resume
  <2> QED BY <2>2, <2>3
<1> DEFINE y == [sess[o] EXCEPT !.paused = z]
<1>2. sess[o] \in SessType /\ (sess[o].running <=> sess[o].pc # "off")
  BY TypesAtHand DEF IInv
<1>3. /\ y \in SessType /\ y.status = sess[o].status /\ y.queues = sess[o].queues
      /\ y.running = sess[o].running /\ y.pc = sess[o].pc /\ y.work = sess[o].work
  BY <1>2 DEF SessType
<1>4. sess' = [sess EXCEPT ![o] = y]
  BY <1>1
<1>5. registry' \in [Sids -> Objects \union {None}]
  BY <1>1 DEF IInv, TypeOK
<1> HIDE DEF y
<1> QED BY <1>1, <1>2, <1>3, <1>4, <1>5, SessionKept

\* The request is told under the phase the session is in.
LEMMA CancelTells ==
  ASSUME IInv, NEW s \in Sids, Cancel(s)
  PROVE  /\ UNCHANGED registry
         /\ \E o \in Objects, x \in SessType :
              /\ AddEvent(o, x, sess[o].status) /\ Fits(o, x)
              /\ sess[o].status \in Phases /\ (sess[o].status = "paused" => x.pc = "held")
              /\ x.cancelled /\ x.pc = sess[o].pc /\ o = registry[s]
<1>1. PICK o \in Objects : o = registry[s]
  BY DEF Cancel, Known, IInv, TypeOK
<1> DEFINE x == sess[o]
           y == [x EXCEPT !.cancelled = TRUE, !.paused = FALSE, !.suspend = "suspending",
                          !.cancels = @ + 1]
<1>2. AddEvent(o, y, x.status) /\ x.cancels < MaxCancels /\ UNCHANGED registry
  BY <1>1 DEF Cancel
<1>3. x \in SessType /\ (x.running <=> x.pc # "off")
  BY TypesAtHand DEF IInv
<1>4. x.cancels + 1 \in 0 .. MaxCancels /\ x.status \in Phases
  BY <1>2, <1>3, ConstantsAssumption DEF SessType
<1>5. /\ y \in SessType /\ y.queues = x.queues /\ y.events = x.events /\ y.pc = x.pc
      /\ y.running = x.running /\ y.work = x.work /\ y.cancelled
      /\ y.sid = x.sid /\ y.mode = x.mode /\ y.ends = x.ends
  BY <1>3, <1>4 DEF SessType
<1>6. /\ x.pc = "held" => x.work < MaxWork
      /\ x.status = "paused" => x.pc = "held"
  BY DEF IInv, PausedIsHeld
<1> HIDE DEF y
<1>7. Fits(o, y)
  BY <1>3, <1>5, <1>6 DEF Fits
<1> QED BY <1>1, <1>2, <1>4, <1>5, <1>6, <1>7

LEMMA CancelKept ==
  ASSUME IInv, NEW s \in Sids, Cancel(s)
  PROVE  Kept
<1>1. PICK o \in Objects, x \in SessType :
        /\ AddEvent(o, x, sess[o].status) /\ Fits(o, x)
        /\ sess[o].status \in Phases /\ (sess[o].status = "paused" => x.pc = "held")
  BY CancelTells
<1>2. UNCHANGED registry
  BY CancelTells
<1>3. IInv' /\ sess'[o].status = sess[o].status /\ \A q \in Objects : q # o => sess'[q] = sess[q]
  BY <1>1, <1>2, AddEventStep
<1> QED BY <1>3 DEF Kept

\* A stream goes on.
LEMMA StreamKept ==
  ASSUME IInv, NEW c \in Streams, NEW y \in StreamType,
         stream' = [stream EXCEPT ![c] = y], UNCHANGED << registry, sess >>,
         y.obj = stream[c].obj,
         Queued(c), y.pc \in {"open", "replay", "live", "ending", "gone"}
  PROVE  Kept
<1>1. /\ stream'[c] = y /\ \A d \in Streams : d # c => stream'[d] = stream[d]
      /\ stream' \in [Streams -> StreamType]
  BY TypesAtHand DEF IInv
<1>2. \A d \in Streams : stream'[d].obj = stream[d].obj /\ (Queued(d)' <=> Queued(d))
  BY <1>1 DEF Open, Queued
<1>3. \A q \in Objects : sess'[q].queues = {d \in Streams : stream'[d].obj = q /\ Queued(d)'}
  BY <1>2, TypesAtHand DEF IInv
<1>4. /\ registry' \in [Sids -> Objects \union {None}] /\ sess' \in [Objects -> SessType]
      /\ \A q \in Objects : sess'[q].running <=> sess'[q].pc # "off"
  BY TypesAtHand DEF IInv, TypeOK
<1>5. TypeOK'
  BY <1>1, <1>3, <1>4 DEF TypeOK, SessType, StreamType
<1>6. PausedIsHeld' /\ \A o \in Objects : sess'[o].status = sess[o].status
  BY DEF IInv, PausedIsHeld
<1> QED BY <1>5, <1>6 DEF Kept, IInv

\* A stream ends, and takes its queue out of its session.
LEMMA CloseKept ==
  ASSUME IInv, NEW c \in Streams, NEW how \in {"closed", "left"}, Close(c, how)
  PROVE  Kept
<1> DEFINE o == stream[c].obj
           x == [sess[o] EXCEPT !.queues = @ \ {c}]
           y == [NoStream EXCEPT !.pc = how]
<1>1. /\ sess' = [sess EXCEPT ![o] = x] /\ stream' = [stream EXCEPT ![c] = y]
      /\ registry' = registry \/ registry' = [registry EXCEPT ![x.sid] = None]
  BY DEF Close
<1>2. y \in StreamType /\ y.pc = how
  BY NewTyped DEF StreamType
<1>3. ASSUME o \in Objects
      PROVE  /\ x \in SessType /\ x.queues = sess[o].queues \ {c} /\ x.pc = sess[o].pc
             /\ x.work = sess[o].work /\ x.status = sess[o].status /\ x.running = sess[o].running
  <2>1. sess[o] \in SessType /\ sess[o].queues \ {c} \in SUBSET Streams
    BY <1>3, TypesAtHand DEF IInv, SessType
  <2> QED BY <2>1 DEF SessType
<1>4. registry' \in [Sids -> Objects \union {None}]
  BY <1>1 DEF IInv, TypeOK
<1> HIDE DEF x, y
<1>5. stream' \in [Streams -> StreamType] /\ stream'[c] = y
      /\ \A d \in Streams : d # c => stream'[d] = stream[d]
  BY <1>1, <1>2, TypesAtHand DEF IInv
<1>6. \A q \in Objects :
        /\ sess'[q] \in SessType /\ sess'[q].pc = sess[q].pc /\ sess'[q].work = sess[q].work
        /\ sess'[q].status = sess[q].status /\ sess'[q].running = sess[q].running
        /\ sess'[q].queues = IF q = o THEN sess[q].queues \ {c} ELSE sess[q].queues
  BY <1>1, <1>3, TypesAtHand DEF IInv
<1>7. sess' \in [Objects -> SessType]
  BY <1>1, <1>6, TypesAtHand DEF IInv
<1>8. \A d \in Streams : Queued(d)' <=> Queued(d) /\ d # c
  BY <1>2, <1>5 DEF Open, Queued
<1>9. ASSUME NEW q \in Objects
      PROVE  sess'[q].queues = {d \in Streams : stream'[d].obj = q /\ Queued(d)'}
  <2>1. {d \in Streams : stream'[d].obj = q /\ Queued(d)'}
          = {d \in Streams : stream[d].obj = q /\ Queued(d)} \ {c}
    BY <1>5, <1>8
  <2>2. sess[q].queues = {d \in Streams : stream[d].obj = q /\ Queued(d)}
    BY TypesAtHand DEF IInv
  <2>3. CASE q = o
    BY <1>6, <2>1, <2>2, <2>3
  <2>4. CASE q # o
    <3>1. c \notin sess[q].queues
      BY <2>2, <2>4
    <3> QED BY <1>6, <2>1, <2>2, <2>4, <3>1
  <2> QED BY <2>3, <2>4
<1>10. TypeOK'
  BY ZenonT(60), <1>4, <1>5, <1>6, <1>7, <1>9, TypesAtHand DEF IInv, TypeOK, SessType, StreamType
<1>11. PausedIsHeld'
  BY <1>6 DEF IInv, PausedIsHeld
<1> QED BY <1>6, <1>10, <1>11 DEF Kept, IInv

LEMMA GoLiveKept ==
  ASSUME IInv, NEW c \in Streams, Queued(c), GoLive(c, stream[c])
  PROVE  Kept
<1> DEFINE y == [stream[c] EXCEPT !.pc = "live"]
<1>1. y \in StreamType /\ y.obj = stream[c].obj /\ y.pc = "live"
  BY TypesAtHand DEF IInv, StreamType
<1>2. CASE Close(c, "closed")
  BY <1>2, CloseKept
<1>3. CASE stream' = [stream EXCEPT ![c] = y] /\ UNCHANGED << registry, sess >>
  <2> HIDE DEF y
  <2> QED BY <1>1, <1>3, StreamKept
<1> QED BY <1>2, <1>3 DEF GoLive

LEMMA ServeKept ==
  ASSUME IInv, NEW c \in Streams, Serve(c) \/ Leave(c)
  PROVE  Kept
<1>1. stream[c] \in StreamType
  BY TypesAtHand DEF IInv
<1>2. CASE StartGenerator(c)
  <2>1. Queued(c)
    BY <1>2 DEF StartGenerator, Open, Queued
  <2>2. CASE stream' = [stream EXCEPT ![c].pc = "replay"] /\ UNCHANGED << registry, sess >>
    <3> DEFINE y == [stream[c] EXCEPT !.pc = "replay"]
    <3>1. /\ y \in StreamType /\ y.obj = stream[c].obj /\ y.pc = "replay"
          /\ stream' = [stream EXCEPT ![c] = y]
      BY <1>1, <2>2 DEF StreamType
    <3> HIDE DEF y
    <3> QED BY <2>1, <2>2, <3>1, StreamKept
  <2> QED BY <1>2, <2>1, <2>2, GoLiveKept DEF StartGenerator
<1>3. CASE Replay(c)
  <2>1. Queued(c)
    BY <1>3 DEF Replay, Open, Queued
  <2>2. CASE /\ stream' = [stream EXCEPT ![c].got = Append(@, stream[c].at), ![c].at = @ + 1]
             /\ UNCHANGED << registry, sess >>
    <3> DEFINE y == [stream[c] EXCEPT !.got = Append(@, stream[c].at), !.at = @ + 1]
    <3>1. Append(stream[c].got, stream[c].at) \in Seq(Nat) /\ stream[c].at + 1 \in Nat
      BY <1>1 DEF StreamType
    <3>2. y \in StreamType /\ y.obj = stream[c].obj /\ y.pc = "replay"
      BY <1>1, <1>3, <3>1 DEF Replay, StreamType
    <3>3. stream' = [stream EXCEPT ![c] = y]
      BY <1>1, <2>2, TypesAtHand DEF IInv, StreamType
    <3> HIDE DEF y
    <3> QED BY <2>1, <2>2, <3>2, <3>3, StreamKept
  <2> QED BY <1>3, <2>1, <2>2, GoLiveKept DEF Replay
<1>4. CASE Deliver(c)
  <2> DEFINE e == Head(stream[c].queue)
             p == IF sess[stream[c].obj].events[e] \in Final THEN "ending" ELSE stream[c].pc
             y == [stream[c] EXCEPT !.got = Append(@, e), !.queue = Tail(@), !.pc = p]
  <2>1. Append(stream[c].got, e) \in Seq(Nat) /\ Tail(stream[c].queue) \in Seq(Nat)
    BY <1>1, <1>4 DEF Deliver, StreamType
  <2>2. p \in {"live", "ending"} /\ Queued(c) /\ UNCHANGED << registry, sess >>
    BY <1>4 DEF Deliver, Open, Queued
  <2>3. stream' = [stream EXCEPT ![c] = y]
    BY <1>1, <1>4, TypesAtHand DEF Deliver, IInv, StreamType
  <2> HIDE DEF e, p
  <2>4. y \in StreamType /\ y.obj = stream[c].obj /\ y.pc = p
    BY <1>1, <2>1, <2>2 DEF StreamType
  <2> HIDE DEF y
  <2> QED BY <2>2, <2>3, <2>4, StreamKept
<1>5. CASE stream[c].pc = "open" /\ stream' = [stream EXCEPT ![c].pc = "gone"]
           /\ UNCHANGED << registry, sess >>
  <2> DEFINE y == [stream[c] EXCEPT !.pc = "gone"]
  <2>1. /\ y \in StreamType /\ y.obj = stream[c].obj /\ y.pc = "gone"
        /\ stream' = [stream EXCEPT ![c] = y] /\ Queued(c)
    BY <1>1, <1>5 DEF StreamType, Open, Queued
  <2> HIDE DEF y
  <2> QED BY <1>5, <2>1, StreamKept
<1>6. CASE \E how \in {"closed", "left"} : Close(c, how)
  BY <1>6, CloseKept
<1> QED BY <1>2, <1>3, <1>4, <1>5, <1>6 DEF Serve, End, Leave

LEMMA ConnectKept ==
  ASSUME IInv, NEW c \in Streams, NEW s \in Sids, NEW again \in BOOLEAN, Connect(c, s, again)
  PROVE  Kept
<1> DEFINE o == registry[s]
           x == [sess[o] EXCEPT !.queues = @ \union {c}]
           y == IF x.running THEN x
                ELSE [x EXCEPT !.running = TRUE, !.pc = "ready", !.runs = @ + 1, !.work = 0]
           z == [NoStream EXCEPT !.pc = "open", !.obj = o, !.again = again, !.since = Len(x.events)]
<1>1. /\ o \in Objects /\ stream[c].pc = "off" /\ (x.running \/ x.runs < MaxRuns)
      /\ sess' = [sess EXCEPT ![o] = y] /\ stream' = [stream EXCEPT ![c] = z]
      /\ UNCHANGED registry
  <2>1. o \in Objects
    BY DEF Connect, Known, IInv, TypeOK
  <2> QED BY <2>1 DEF Connect
<1>2. sess[o] \in SessType /\ (sess[o].running <=> sess[o].pc # "off")
  BY <1>1, TypesAtHand DEF IInv
<1>3. /\ x \in SessType /\ x.queues = sess[o].queues \union {c} /\ x.running = sess[o].running
      /\ x.pc = sess[o].pc /\ x.work = sess[o].work /\ x.status = sess[o].status
  <2>1. sess[o].queues \union {c} \in SUBSET Streams
    BY <1>2 DEF SessType
  <2> QED BY <1>2, <2>1 DEF SessType
<1> HIDE DEF x, o
<1>4. x.runs + 1 \in 0 .. MaxRuns \/ x.running
  BY <1>1, <1>3, ConstantsAssumption DEF SessType
<1>5. z \in StreamType /\ z.pc = "open" /\ z.obj = o
  <2>1. Len(x.events) \in Nat /\ o \in Objects
    BY <1>1, <1>3 DEF SessType
  <2> QED BY <2>1, NewTyped DEF StreamType
<1> HIDE DEF z
<1>6. /\ y \in SessType /\ y.queues = x.queues /\ (y.running <=> y.pc # "off")
      /\ y.status = x.status
      /\ \/ y.pc = x.pc /\ y.work = x.work
         \/ y.pc = "ready" /\ x.pc = "off"
  <2>1. CASE x.running
    BY <1>2, <1>3, <2>1
  <2>2. CASE ~ x.running
    <3>1. y = [x EXCEPT !.running = TRUE, !.pc = "ready", !.runs = @ + 1, !.work = 0]
      BY <2>2
    <3>2. 0 \in 0 .. MaxWork /\ x.runs + 1 \in 0 .. MaxRuns /\ x.pc = "off"
      BY <1>2, <1>3, <1>4, <2>2, ConstantsAssumption
    <3> HIDE DEF y
    <3>3. y \in SessType
      BY <1>3, <3>1, <3>2 DEF SessType
    <3>4. y.queues = x.queues /\ y.running = TRUE /\ y.pc = "ready" /\ y.status = x.status
      BY <1>3, <3>1 DEF SessType
    <3> QED BY <3>2, <3>3, <3>4
  <2> QED BY <2>1, <2>2
<1> HIDE DEF y
<1>7. /\ sess'[o] = y /\ (\A q \in Objects : q # o => sess'[q] = sess[q])
      /\ sess' \in [Objects -> SessType]
      /\ stream'[c] = z /\ (\A d \in Streams : d # c => stream'[d] = stream[d])
      /\ stream' \in [Streams -> StreamType]
  BY <1>1, <1>5, <1>6, TypesAtHand DEF IInv
<1>8. \A d \in Streams : Queued(d)' <=> Queued(d) \/ d = c
  BY <1>5, <1>7 DEF Open, Queued
<1>9. ~ Queued(c)
  BY <1>1 DEF Open, Queued
<1>10. ASSUME NEW q \in Objects
       PROVE  sess'[q].queues = {d \in Streams : stream'[d].obj = q /\ Queued(d)'}
  <2>1. {d \in Streams : stream'[d].obj = q /\ Queued(d)'}
          = {d \in Streams : stream[d].obj = q /\ Queued(d)} \union (IF q = o THEN {c} ELSE {})
    BY <1>5, <1>7, <1>8, <1>9
  <2> QED BY <1>3, <1>6, <1>7, <2>1, TypesAtHand DEF IInv
<1>11. \A q \in Objects : sess'[q].running <=> sess'[q].pc # "off"
  BY <1>6, <1>7, TypesAtHand DEF IInv
<1>12. TypeOK'
  BY <1>1, <1>7, <1>10, <1>11 DEF IInv, TypeOK, SessType, StreamType
<1>13. PausedIsHeld'
  BY <1>1, <1>2, <1>3, <1>6, <1>7 DEF IInv, PausedIsHeld
<1>14. \A q \in Objects : sess'[q].status = sess[q].status
  BY <1>3, <1>6, <1>7
<1> QED BY <1>12, <1>13, <1>14 DEF Kept, IInv

LEMMA NextKept == ASSUME IInv, [Next]_vars PROVE Kept
<1>1. CASE UNCHANGED vars
  <2>1. IInv'
    BY <1>1 DEF vars, IInv, TypeOK, PausedIsHeld, Open, Queued
  <2> QED BY <1>1, <2>1 DEF vars, Kept
<1> QED BY <1>1, RunKept, CreateKept, PauseKept, CancelKept, ServeKept, ConnectKept DEF Next

LEMMA AlwaysIInv == Spec => []IInv
<1>1. ASSUME IInv, [Next]_vars PROVE IInv'
  BY <1>1, NextKept DEF Kept
<1> QED BY InitIInv, <1>1, PTL DEF Spec

-----------------------------------------------------------------------------
(* Theorems *)

\* Sessions and streams have the shapes the code gives them: in particular a
\* session has the queues of exactly the streams that are open on it, and is
\* running exactly while it has a task (IngestionSession, stream_progress).
THEOREM TypeCorrect == Spec => []TypeOK
BY AlwaysIInv, PTL DEF IInv

\* A cancelled run does not end as completed, wherever the request comes between
\* two awaits of the run (cancel, _run).
THEOREM CancelIsKept == Spec => CancelWins
<1>1. ASSUME IInv, [Next]_vars,
             NEW o \in Objects, sess[o].cancelled, NewEvent(o)
      PROVE  sess'[o].status # "complete"
  <2>1. Tells(o)
    BY <1>1, NextKept DEF Kept, NewEvent
  <2>2. PICK x \in SessType, phase \in Phases :
          /\ AddEvent(o, x, phase) /\ phase # "complete" /\ Fits(o, x)
          /\ phase = "paused" => x.pc = "held"
    BY <1>1, <2>1 DEF Tells
  <2>3. UNCHANGED registry
    BY <2>1 DEF Tells
  <2>4. sess'[o].status = phase
    BY <1>1, <2>2, <2>3, AddEventStep
  <2> QED BY <2>2, <2>4
<1>2. IInv /\ [Next]_vars =>
        [ \A o \in Objects : sess[o].cancelled /\ NewEvent(o) => sess'[o].status # "complete" ]_vars
  BY <1>1
<1> QED BY <1>2, AlwaysIInv, PTL DEF Spec, CancelWins

\* While a run is paused, and has said so, it tells of no progress (pause,
\* wait_if_paused, _run_phase).
THEOREM PauseIsKept == Spec => PausedHolds
<1>1. ASSUME IInv, [Next]_vars,
             NEW o \in Objects, sess[o].paused, sess[o].status = "paused"
      PROVE  ~ NewEvent(o)
  BY <1>1, NextKept DEF Kept, Tells, NewEvent
<1>2. IInv /\ [Next]_vars =>
        [ \A o \in Objects : sess[o].paused /\ sess[o].status = "paused" => ~ NewEvent(o) ]_vars
  BY <1>1
<1> QED BY <1>2, AlwaysIInv, PTL DEF Spec, PausedHolds
-----------------------------------------------------------------------------
(* What a stream has sent and has still to send *)

\* The status of a session is what its last event told.
StatusIsLast ==
  \A o \in Objects :
    LET e == sess[o].events IN e # << >> => sess[o].status = e[Len(e)]

\* Of the n events e the stream y was sent the first p again and, of those since
\* its queue was made, the ones up to d; the others are in its queue.
Covers(y, e, n, d, p) ==
  /\ p \in 0 .. n /\ y.since <= d
  /\ Len(y.got) = p + (d - y.since)
  /\ \A k \in 1 .. p : y.got[k] = k
  /\ \A j \in 1 .. d - y.since : y.got[p + j] = y.since + j
  /\ \A k \in 1 .. Len(y.queue) : y.queue[k] = d + k
  /\ ~ y.again => p = 0
  /\ y.pc \in {"open", "replay"} => d = y.since
  /\ y.pc = "open" => p = 0
  /\ y.pc = "replay" => y.again
  /\ y.pc \in {"live", "ending"} => ~ y.again \/ y.since <= p
  /\ y.pc = "ending" => /\ y.got # << >> /\ y.got[Len(y.got)] \in 1 .. n
                        /\ e[y.got[Len(y.got)]] \in Final

InStep(y, e) == Covers(y, e, Len(e), Len(e) - Len(y.queue), y.at - 1)

StreamsInStep ==
  \A c \in Streams :
    IF Open(c) THEN stream[c].obj \in Objects /\ InStep(stream[c], sess[stream[c].obj].events)
    ELSE stream[c].got = << >>

SInv == StatusIsLast /\ StreamsInStep

LEMMA StreamTyped ==
  ASSUME NEW y \in StreamType
  PROVE  /\ y.queue \in Seq(Nat) /\ Len(y.queue) \in Nat
         /\ y.got \in Seq(Nat) /\ Len(y.got) \in Nat
         /\ y.since \in Nat /\ y.at \in Nat /\ y.again \in BOOLEAN
BY DEF StreamType

LEMMA CoverBounds ==
  ASSUME NEW y \in StreamType, NEW e \in Seq(Phases), InStep(y, e)
  PROVE  /\ Len(e) \in Nat /\ Len(e) - Len(y.queue) \in Nat /\ y.at - 1 \in Nat
         /\ y.since <= Len(e) - Len(y.queue)
<1>1. Len(e) \in Nat /\ Len(y.queue) \in Nat /\ y.since \in Nat /\ y.at \in Nat
  BY StreamTyped
<1>2. y.since <= Len(e) - Len(y.queue) /\ y.at - 1 \in 0 .. Len(e)
  BY DEF InStep, Covers
<1> QED BY <1>1, <1>2

\* One more event, for everybody.
LEMMA TellInStep ==
  ASSUME NEW y \in StreamType, NEW e \in Seq(Phases), NEW phase \in Phases, InStep(y, e)
  PROVE  InStep([y EXCEPT !.queue = Append(@, Len(e) + 1)], Append(e, phase))
<1> DEFINE n == Len(e)
           d == n - Len(y.queue)
           p == y.at - 1
           q == Append(y.queue, n + 1)
           z == [y EXCEPT !.queue = q]
           u == Append(e, phase)
<1>1. /\ n \in Nat /\ d \in Nat /\ p \in Nat /\ Len(y.queue) \in Nat /\ y.queue \in Seq(Nat)
      /\ n = d + Len(y.queue)
  BY CoverBounds, StreamTyped
<1>2. /\ z.queue = q /\ z.got = y.got /\ z.since = y.since /\ z.pc = y.pc
      /\ z.at = y.at /\ z.again = y.again
  BY DEF StreamType
<1>3. Len(q) = Len(y.queue) + 1 /\ q[Len(q)] = n + 1 /\ \A k \in 1 .. Len(y.queue) : q[k] = y.queue[k]
  BY <1>1
<1>4. Len(u) = n + 1 /\ \A i \in 1 .. n : u[i] = e[i]
  BY <1>1
<1>5. Covers(y, e, n, d, p)
  BY DEF InStep
<1> HIDE DEF q, u, z, n, d, p
<1>6. \A k \in 1 .. Len(z.queue) : z.queue[k] = d + k
  <2> TAKE k \in 1 .. Len(z.queue)
  <2>1. z.queue[k] = q[k] /\ k \in 1 .. Len(y.queue) + 1
    BY <1>2, <1>3
  <2>2. CASE k \in 1 .. Len(y.queue)
    BY <1>3, <1>5, <2>1, <2>2 DEF Covers
  <2>3. CASE k = Len(y.queue) + 1
    BY <1>1, <1>3, <2>1, <2>3
  <2>4. k \in 1 .. Len(y.queue) \/ k = Len(y.queue) + 1
    BY <2>1, StreamTyped
  <2> QED BY <2>2, <2>3, <2>4
<1>7. p \in 0 .. n + 1
  BY <1>1, <1>5 DEF Covers
<1>8. y.got[Len(y.got)] \in 1 .. n =>
        y.got[Len(y.got)] \in 1 .. n + 1 /\ u[y.got[Len(y.got)]] = e[y.got[Len(y.got)]]
  BY <1>1, <1>4
<1>9. Covers(z, u, n + 1, d, p)
  BY <1>2, <1>5, <1>6, <1>7, <1>8 DEF Covers
<1>10. Len(u) - Len(z.queue) = d
  BY <1>1, <1>2, <1>3, <1>4
<1>11. z.at - 1 = p
  BY <1>2 DEF p
<1>12. InStep(z, u)
  BY <1>4, <1>9, <1>10, <1>11 DEF InStep
<1> QED BY <1>12 DEF z, q, u, n

LEMMA AddEventTold ==
  ASSUME IInv, SInv, NEW o \in Objects, NEW x \in SessType, NEW phase \in Phases,
         AddEvent(o, x, phase), Fits(o, x)
  PROVE  SInv'
<1> DEFINE e == sess[o].events
           u == Append(e, phase)
           m == IF sess[o].pc # "off" /\ x.pc = "off" THEN x.ends \union {Len(e) + 1} ELSE x.ends
           y == [x EXCEPT !.events = u, !.status = phase, !.ends = m]
<1>1. sess \in [Objects -> SessType] /\ stream \in [Streams -> StreamType]
      /\ x.events = e /\ x.queues = {c \in Streams : stream[c].obj = o /\ Queued(c)}
  BY TypesAtHand DEF IInv, Fits
<1>2. e \in Seq(Phases) /\ Len(e) \in Nat
  BY <1>1 DEF SessType
<1>3. u # << >> /\ u[Len(u)] = phase
  BY <1>2
<1>4. y.events = u /\ y.status = phase
  BY <1>1 DEF SessType
<1>5. /\ sess' = [sess EXCEPT ![o] = y]
      /\ stream' = [c \in Streams |-> IF c \in x.queues
                      THEN [stream[c] EXCEPT !.queue = Append(@, Len(e) + 1)] ELSE stream[c]]
  BY <1>1 DEF AddEvent
<1> HIDE DEF y
<1>6. sess'[o] = y /\ \A q \in Objects : q # o => sess'[q] = sess[q]
  BY <1>1, <1>5
<1>7. StatusIsLast'
  BY <1>3, <1>4, <1>6 DEF SInv, StatusIsLast
<1>8. ASSUME NEW c \in Streams
      PROVE  (IF Open(c) THEN stream[c].obj \in Objects /\ InStep(stream[c], sess[stream[c].obj].events)
              ELSE stream[c].got = << >>)'
  <2>1. stream[c] \in StreamType
    BY <1>1
  <2>2. CASE c \in x.queues
    <3> DEFINE z == [stream[c] EXCEPT !.queue = Append(@, Len(e) + 1)]
    <3>1. stream'[c] = z /\ stream[c].obj = o /\ Queued(c)
      BY <1>1, <1>5, <2>2
    <3>2. z.obj = o /\ z.pc = stream[c].pc
      BY <2>1, <3>1 DEF StreamType
    <3>3. Open(c) => InStep(stream[c], e)
      BY <3>1 DEF SInv, StreamsInStep
    <3>4. Open(c) => InStep(z, u)
      BY <1>2, <2>1, <3>3, TellInStep
    <3>5. z.got = stream[c].got
      BY <2>1 DEF StreamType
    <3> HIDE DEF z, u
    <3> QED BY <1>4, <1>6, <3>1, <3>2, <3>4, <3>5 DEF Open, SInv, StreamsInStep
  <2>3. CASE c \notin x.queues
    <3>1. stream'[c] = stream[c]
      BY <1>5, <2>3
    <3>2. Open(c) => stream[c].obj \in Objects /\ stream[c].obj # o
      BY <1>1, <2>3 DEF SInv, StreamsInStep, Queued
    <3> QED BY <1>6, <3>1, <3>2 DEF SInv, StreamsInStep, Open
  <2> QED BY <2>2, <2>3
<1> QED BY <1>7, <1>8 DEF SInv, StreamsInStep

\* Steps that tell nothing, and leave the streams alone.
LEMMA SilentStep ==
  ASSUME SInv, stream' = stream,
         \A q \in Objects : sess'[q].events = sess[q].events /\ sess'[q].status = sess[q].status
  PROVE  SInv'
<1>1. StatusIsLast'
  BY DEF SInv, StatusIsLast
<1>2. StreamsInStep'
  BY DEF SInv, StreamsInStep, Open
<1> QED BY <1>1, <1>2 DEF SInv

\* One stream moves, and nothing is told.
LEMMA OneStreamMoves ==
  ASSUME IInv, SInv, NEW c \in Streams, NEW y, stream' = [stream EXCEPT ![c] = y],
         \A q \in Objects : sess'[q].events = sess[q].events /\ sess'[q].status = sess[q].status,
         IF y.pc \in {"open", "replay", "live", "ending"}
         THEN y.obj \in Objects /\ InStep(y, sess[y.obj].events) ELSE y.got = << >>
  PROVE  SInv'
<1>1. stream'[c] = y /\ \A d \in Streams : d # c => stream'[d] = stream[d]
  BY TypesAtHand DEF IInv
<1>2. StatusIsLast'
  BY DEF SInv, StatusIsLast
<1>3. StreamsInStep'
  BY <1>1 DEF SInv, StreamsInStep, Open
<1> QED BY <1>2, <1>3 DEF SInv
LEMMA CloseTold ==
  ASSUME IInv, SInv, NEW c \in Streams, NEW how \in {"closed", "left"}, Close(c, how)
  PROVE  SInv'
<1> DEFINE o == stream[c].obj
           x == [sess[o] EXCEPT !.queues = @ \ {c}]
           y == [NoStream EXCEPT !.pc = how]
<1>1. sess' = [sess EXCEPT ![o] = x] /\ stream' = [stream EXCEPT ![c] = y]
  BY DEF Close
<1>2. y.pc \notin {"open", "replay", "live", "ending"} /\ y.got = << >>
  BY DEF NoStream
<1>3. o \in Objects => x.events = sess[o].events /\ x.status = sess[o].status
  BY TypesAtHand DEF IInv, SessType
<1> HIDE DEF x, y
<1>4. \A q \in Objects : sess'[q].events = sess[q].events /\ sess'[q].status = sess[q].status
  BY <1>1, <1>3, TypesAtHand DEF IInv
<1> QED BY <1>1, <1>2, <1>4, OneStreamMoves

LEMMA ConnectTold ==
  ASSUME IInv, SInv, NEW c \in Streams, NEW s \in Sids, NEW again \in BOOLEAN, Connect(c, s, again)
  PROVE  SInv'
<1> DEFINE o == registry[s]
           x == [sess[o] EXCEPT !.queues = @ \union {c}]
           w == IF x.running THEN x
                ELSE [x EXCEPT !.running = TRUE, !.pc = "ready", !.runs = @ + 1, !.work = 0]
           y == [NoStream EXCEPT !.pc = "open", !.obj = o, !.again = again, !.since = Len(x.events)]
<1>1. o \in Objects
  BY DEF Connect, Known, IInv, TypeOK
<1>2. sess' = [sess EXCEPT ![o] = w] /\ stream' = [stream EXCEPT ![c] = y]
  BY DEF Connect
<1>3. sess[o] \in SessType
  BY <1>1, TypesAtHand DEF IInv
<1>4. x.events = sess[o].events /\ x.status = sess[o].status
  BY <1>3 DEF SessType
<1>5. w.events = x.events /\ w.status = x.status
  BY <1>3 DEF SessType
<1> DEFINE e == sess[o].events
<1>6. e \in Seq(Phases) /\ Len(e) \in Nat
  BY <1>3 DEF SessType
<1>7. /\ y.pc = "open" /\ y.obj = o /\ y.again = again /\ y.since = Len(e)
      /\ y.queue = << >> /\ y.got = << >> /\ y.at = 1
  BY <1>4 DEF NoStream
<1> HIDE DEF w, x, y
<1>8. \A q \in Objects : sess'[q].events = sess[q].events /\ sess'[q].status = sess[q].status
  BY <1>2, <1>4, <1>5, TypesAtHand DEF IInv
<1>9. InStep(y, e)
  <2>1. Len(y.queue) = 0 /\ Len(y.got) = 0 /\ y.at - 1 = 0 /\ Len(e) - Len(y.queue) = Len(e)
    BY <1>6, <1>7
  <2> HIDE DEF e
  <2>2. 0 \in 0 .. Len(e) /\ y.since <= Len(e) /\ Len(e) - y.since = 0
    BY <1>6, <1>7
  <2>3. Covers(y, e, Len(e), Len(e), 0)
    BY <1>7, <2>1, <2>2 DEF Covers
  <2> QED BY <2>1, <2>3 DEF InStep
<1> HIDE DEF o
<1>10. InStep(y, sess[o].events)
  BY <1>9
<1> QED BY <1>1, <1>2, <1>7, <1>8, <1>10, OneStreamMoves

\* Past the replay.
LEMMA GoLiveTold ==
  ASSUME IInv, SInv, NEW c \in Streams, stream[c].pc \in {"open", "replay"},
         GoLive(c, stream[c]),
         stream[c].again => Len(sess[stream[c].obj].events) <= stream[c].at - 1
  PROVE  SInv'
<1> DEFINE s == stream[c]
           y == [s EXCEPT !.pc = "live"]
           e == sess[s.obj].events
<1>1. s \in StreamType /\ s.obj \in Objects /\ InStep(s, e)
  BY TypesAtHand DEF IInv, SInv, StreamsInStep, Open
<1>2. CASE Close(c, "closed")
  BY <1>2, CloseTold
<1>3. CASE stream' = [stream EXCEPT ![c] = y] /\ UNCHANGED << registry, sess >>
  <2>1. /\ y.pc = "live" /\ y.obj = s.obj /\ y.again = s.again /\ y.since = s.since
        /\ y.queue = s.queue /\ y.got = s.got /\ y.at = s.at
    BY <1>1 DEF StreamType
  <2>2. e \in Seq(Phases)
    BY <1>1, TypesAtHand DEF IInv, SessType
  <2>3. /\ Len(e) \in Nat /\ Len(e) - Len(s.queue) \in Nat /\ s.at - 1 \in Nat
        /\ s.since <= Len(e) - Len(s.queue) /\ s.since \in Nat /\ Len(s.queue) \in Nat
    BY <1>1, <2>2, CoverBounds, StreamTyped
  <2>4. s.again => s.since <= s.at - 1
    <3> SUFFICES ASSUME s.again PROVE s.since <= s.at - 1
      OBVIOUS
    <3>1. Len(e) <= s.at - 1
      OBVIOUS
    <3> HIDE DEF s, e
    <3> QED BY <2>3, <3>1
  <2> HIDE DEF y
  <2>5. Covers(s, e, Len(e), Len(e) - Len(s.queue), s.at - 1)
    BY <1>1 DEF InStep
  <2>6. Covers(y, e, Len(e), Len(e) - Len(s.queue), s.at - 1)
    BY ZenonT(60), <1>1, <2>1, <2>4, <2>5 DEF Covers
  <2>7. InStep(y, e)
    BY <2>1, <2>6 DEF InStep
  <2> QED BY <1>1, <1>3, <2>1, <2>7, OneStreamMoves
<1> QED BY <1>2, <1>3 DEF GoLive

LEMMA StartTold ==
  ASSUME IInv, SInv, NEW c \in Streams, StartGenerator(c)
  PROVE  SInv'
<1> DEFINE s == stream[c]
           y == [s EXCEPT !.pc = "replay"]
           e == sess[s.obj].events
<1>1. s \in StreamType /\ s.obj \in Objects /\ InStep(s, e) /\ s.pc = "open"
  BY TypesAtHand DEF IInv, SInv, StreamsInStep, Open, StartGenerator
<1>2. e \in Seq(Phases) /\ s.at - 1 = 0
  <2>1. s.at - 1 = 0
    BY <1>1 DEF InStep, Covers
  <2> QED BY <1>1, <2>1, TypesAtHand DEF IInv, SessType
<1>3. CASE s.again /\ e # << >>
  <2>1. stream' = [stream EXCEPT ![c] = y] /\ UNCHANGED << registry, sess >>
    BY <1>3 DEF StartGenerator
  <2>2. /\ y.pc = "replay" /\ y.obj = s.obj /\ y.again = s.again /\ y.since = s.since
        /\ y.queue = s.queue /\ y.got = s.got /\ y.at = s.at
    BY <1>1 DEF StreamType
  <2> HIDE DEF y
  <2>3. Covers(s, e, Len(e), Len(e) - Len(s.queue), s.at - 1)
    BY <1>1 DEF InStep
  <2>4. Covers(y, e, Len(e), Len(e) - Len(s.queue), s.at - 1)
    BY ZenonT(60), <1>1, <1>3, <2>2, <2>3 DEF Covers
  <2>5. InStep(y, e)
    BY <2>2, <2>4 DEF InStep
  <2> QED BY <1>1, <2>1, <2>2, <2>5, OneStreamMoves
<1>4. CASE ~ (s.again /\ e # << >>)
  <2>1. s.again => Len(e) <= s.at - 1
    BY <1>2, <1>4
  <2> QED BY <1>1, <1>4, <2>1, GoLiveTold DEF StartGenerator
<1> QED BY <1>3, <1>4

LEMMA ReplayTold ==
  ASSUME IInv, SInv, NEW c \in Streams, Replay(c)
  PROVE  SInv'
<1> DEFINE s == stream[c]
           e == sess[s.obj].events
           n == Len(e)
           d == n - Len(s.queue)
           p == s.at - 1
           g == Append(s.got, s.at)
           y == [s EXCEPT !.got = g, !.at = @ + 1]
<1>1. s \in StreamType /\ s.obj \in Objects /\ InStep(s, e) /\ s.pc = "replay"
  BY TypesAtHand DEF IInv, SInv, StreamsInStep, Open, Replay
<1>2. e \in Seq(Phases)
  BY <1>1, TypesAtHand DEF IInv, SessType
<1>3. /\ n \in Nat /\ d \in Nat /\ p \in Nat /\ s.since <= d /\ s.since \in Nat
      /\ s.got \in Seq(Nat) /\ Len(s.got) \in Nat /\ s.at \in Nat /\ s.at = p + 1
  <2>1. n \in Nat /\ d \in Nat /\ p \in Nat /\ s.since <= d
    BY <1>1, <1>2, CoverBounds
  <2>2. s.since \in Nat /\ s.got \in Seq(Nat) /\ Len(s.got) \in Nat /\ s.at \in Nat
    BY <1>1, StreamTyped
  <2>3. s.at = p + 1
    BY <2>2
  <2> QED BY <2>1, <2>2, <2>3
<1>4. CASE ~ s.at <= n
  <2>1. n <= s.at - 1
    BY <1>3, <1>4
  <2>2. GoLive(c, s)
    BY <1>4 DEF Replay
  <2> QED BY <1>1, <2>1, <2>2, GoLiveTold
<1>5. CASE s.at <= n
  <2>1. stream' = [stream EXCEPT ![c] = y] /\ UNCHANGED << registry, sess >>
    BY <1>1, <1>5, TypesAtHand DEF Replay, IInv, StreamType
  <2>2. /\ y.pc = "replay" /\ y.obj = s.obj /\ y.again = s.again /\ y.since = s.since
        /\ y.queue = s.queue /\ y.got = g /\ y.at = s.at + 1
    BY <1>1 DEF StreamType
  <2>3. Len(g) = Len(s.got) + 1 /\ g[Len(g)] = s.at /\ \A k \in 1 .. Len(s.got) : g[k] = s.got[k]
    BY <1>3
  <2>4. Covers(s, e, n, d, p)
    BY <1>1 DEF InStep
  <2> HIDE DEF y, g, n, d, p
  <2>5. d - s.since = 0 /\ Len(s.got) = p /\ s.again /\ \A k \in 1 .. p : s.got[k] = k
    BY <1>1, <1>3, <2>4 DEF Covers
  <2>6. \A k \in 1 .. p + 1 : g[k] = k
    <3> TAKE k \in 1 .. p + 1
    <3>1. CASE k \in 1 .. p
      BY <2>3, <2>5, <3>1
    <3>2. CASE k = p + 1
      BY <1>3, <2>3, <2>5, <3>2
    <3>3. k \in 1 .. p \/ k = p + 1
      BY <1>3
    <3> QED BY <3>1, <3>2, <3>3
  <2>7. p + 1 \in 0 .. n /\ Len(g) = p + 1 + (d - y.since)
    BY <1>3, <1>5, <2>2, <2>3, <2>5
  <2>8. \A k \in 1 .. Len(y.queue) : y.queue[k] = d + k
    BY <2>2, <2>4 DEF Covers
  <2>9. \A j \in 1 .. d - y.since : FALSE
    BY <2>2, <2>5
  <2>10. d = y.since
    BY <1>1, <2>2, <2>4 DEF Covers
  <2>11. Covers(y, e, n, d, p + 1)
    BY <1>3, <2>2, <2>5, <2>6, <2>7, <2>8, <2>9, <2>10 DEF Covers
  <2>12. y.at - 1 = p + 1
    BY <1>3, <2>2
  <2>13. InStep(y, e)
    BY <2>2, <2>11, <2>12 DEF InStep, n, d
  <2> QED BY <1>1, <2>1, <2>2, <2>13, OneStreamMoves
<1> QED BY <1>4, <1>5

LEMMA DeliverTold ==
  ASSUME IInv, SInv, NEW c \in Streams, Deliver(c)
  PROVE  SInv'
<1> DEFINE s == stream[c]
           e == sess[s.obj].events
           n == Len(e)
           d == n - Len(s.queue)
           p == s.at - 1
           i == Head(s.queue)
           g == Append(s.got, i)
           q == Tail(s.queue)
           h == IF e[i] \in Final THEN "ending" ELSE s.pc
           y == [s EXCEPT !.got = g, !.queue = q, !.pc = h]
<1>1. s \in StreamType /\ s.obj \in Objects /\ InStep(s, e) /\ s.pc = "live" /\ s.queue # << >>
  BY TypesAtHand DEF IInv, SInv, StreamsInStep, Open, Deliver
<1>2. e \in Seq(Phases)
  BY <1>1, TypesAtHand DEF IInv, SessType
<1>3. /\ n \in Nat /\ d \in Nat /\ p \in Nat /\ s.since <= d /\ s.since \in Nat
      /\ s.got \in Seq(Nat) /\ Len(s.got) \in Nat
      /\ s.queue \in Seq(Nat) /\ Len(s.queue) \in Nat \ {0} /\ n = d + Len(s.queue)
  <2>1. n \in Nat /\ d \in Nat /\ p \in Nat /\ s.since <= d
    BY <1>1, <1>2, CoverBounds
  <2>2. /\ s.since \in Nat /\ s.got \in Seq(Nat) /\ Len(s.got) \in Nat
        /\ s.queue \in Seq(Nat) /\ Len(s.queue) \in Nat
    BY <1>1, StreamTyped
  <2>3. Len(s.queue) # 0
    BY <1>1, <2>2
  <2>4. n = d + Len(s.queue)
    <3> HIDE DEF n, s
    <3> QED BY <2>1, <2>2
  <2> QED BY <2>1, <2>2, <2>3, <2>4
<1>4. stream' = [stream EXCEPT ![c] = y] /\ UNCHANGED << registry, sess >>
  BY <1>1, TypesAtHand DEF Deliver, IInv, StreamType
<1>5. /\ y.pc = h /\ y.obj = s.obj /\ y.again = s.again /\ y.since = s.since
      /\ y.queue = q /\ y.got = g /\ y.at = s.at
  BY <1>1 DEF StreamType
<1>6. i = s.queue[1] /\ i \in Nat
  BY <1>1, <1>3
<1>7. Len(g) = Len(s.got) + 1 /\ g[Len(g)] = i /\ \A k \in 1 .. Len(s.got) : g[k] = s.got[k]
  BY <1>3, <1>6
<1>8. Len(q) = Len(s.queue) - 1 /\ \A k \in 1 .. Len(q) : q[k] = s.queue[k + 1]
  BY <1>1, <1>3
<1>9. Covers(s, e, n, d, p)
  BY <1>1 DEF InStep
<1>10. h \in {"live", "ending"} /\ (h = "ending" => e[i] \in Final)
  BY <1>1
<1> HIDE DEF s, e, n, d, p, i, g, q, h, y
<1>11. i = d + 1 /\ i \in 1 .. n
  <2>1. 1 \in 1 .. Len(s.queue)
    BY <1>3
  <2>2. i = d + 1
    BY <1>6, <1>9, <2>1 DEF Covers
  <2> QED BY <1>3, <2>2
<1>12. /\ p \in 0 .. n /\ Len(s.got) = p + (d - s.since)
       /\ \A k \in 1 .. p : s.got[k] = k
       /\ \A j \in 1 .. d - s.since : s.got[p + j] = s.since + j
       /\ \A k \in 1 .. Len(s.queue) : s.queue[k] = d + k
       /\ ~ s.again => p = 0
       /\ ~ s.again \/ s.since <= p
  BY <1>1, <1>9 DEF Covers
<1>13. y.since <= d + 1 /\ Len(y.got) = p + ((d + 1) - y.since)
  <2>1. Len(s.got) = p + (d - s.since)
    BY <1>12
  <2>2. y.since = s.since /\ Len(y.got) = Len(s.got) + 1
    BY <1>5, <1>7
  <2> QED BY <1>3, <2>1, <2>2
<1>14. \A k \in 1 .. p : y.got[k] = k
  <2> TAKE k \in 1 .. p
  <2>1. k \in 1 .. Len(s.got)
    BY <1>3, <1>12
  <2> QED BY <1>5, <1>7, <1>12, <2>1
<1>15. \A j \in 1 .. (d + 1) - y.since : y.got[p + j] = y.since + j
  <2> TAKE j \in 1 .. (d + 1) - y.since
  <2>1. CASE j \in 1 .. d - s.since
    <3>1. p + j \in 1 .. Len(s.got)
      BY SMTT(30), <1>3, <1>12, <2>1
    <3> QED BY <1>5, <1>7, <1>12, <2>1, <3>1
  <2>2. CASE j = (d + 1) - s.since
    <3>3. Len(g) = (p + (d - s.since)) + 1
      BY <1>7, <1>12
    <3>1. p + j = Len(g)
      BY <1>3, <2>2, <3>3
    <3>2. s.since + j = d + 1
      BY <1>3, <2>2
    <3> QED BY <1>5, <1>7, <1>11, <3>1, <3>2
  <2>3. j \in 1 .. d - s.since \/ j = (d + 1) - s.since
    BY <1>3, <1>5
  <2> QED BY <2>1, <2>2, <2>3
<1>16. \A k \in 1 .. Len(y.queue) : y.queue[k] = d + 1 + k
  <2> TAKE k \in 1 .. Len(y.queue)
  <2>1. k \in 1 .. Len(q) /\ k + 1 \in 1 .. Len(s.queue) /\ y.queue[k] = s.queue[k + 1]
    <3>1. k \in 1 .. Len(q) /\ Len(q) = Len(s.queue) - 1
      BY <1>5, <1>8
    <3>2. q[k] = s.queue[k + 1]
      BY <1>8, <3>1
    <3>3. k + 1 \in 1 .. Len(s.queue)
      <4> DEFINE m == Len(s.queue)
      <4>1. m \in Nat /\ k \in 1 .. m - 1
        BY <1>3, <3>1
      <4> HIDE DEF m
      <4>2. k + 1 \in 1 .. m
        BY <4>1
      <4> QED BY <4>2 DEF m
    <3> QED BY <1>5, <3>1, <3>2, <3>3
  <2>2. s.queue[k + 1] = d + (k + 1)
    BY <1>12, <2>1
  <2> QED BY <1>3, <2>1, <2>2
<1>17. y.got # << >> /\ y.got[Len(y.got)] = i
  BY <1>3, <1>5, <1>7
<1>18. Covers(y, e, n, d + 1, p)
  <2>1. /\ y.pc \notin {"open", "replay"}
        /\ y.pc = "ending" => /\ y.got # << >> /\ y.got[Len(y.got)] \in 1 .. n
                              /\ e[y.got[Len(y.got)]] \in Final
    BY <1>5, <1>10, <1>11, <1>17
  <2>2. p \in 0 .. n /\ (~ y.again => p = 0) /\ (~ y.again \/ y.since <= p)
    BY <1>5, <1>12
  <2>3. /\ y.pc \in {"open", "replay"} => d + 1 = y.since
        /\ y.pc = "open" => p = 0
        /\ y.pc = "replay" => y.again
        /\ y.pc \in {"live", "ending"} => ~ y.again \/ y.since <= p
    BY <2>1, <2>2
  <2> DEFINE m == d + 1
  <2>4. y.since <= m /\ Len(y.got) = p + (m - y.since)
    BY <1>13
  <2>5. \A j \in 1 .. m - y.since : y.got[p + j] = y.since + j
    BY <1>15
  <2>6. \A k \in 1 .. Len(y.queue) : y.queue[k] = m + k
    BY <1>16
  <2>7. y.pc \in {"open", "replay"} => m = y.since
    BY <2>1
  <2> HIDE DEF m
  <2>8. Covers(y, e, n, m, p)
    BY <1>14, <2>1, <2>2, <2>3, <2>4, <2>5, <2>6, <2>7, Zenon DEF Covers
  <2> QED BY <2>8 DEF m
<1>19. n - Len(y.queue) = d + 1 /\ y.at - 1 = p
  <2> DEFINE l == Len(s.queue)
  <2>1. Len(y.queue) = l - 1
    BY <1>5, <1>8
  <2>2. y.at - 1 = p
    BY <1>5 DEF p
  <2>3. l \in Nat /\ n = d + l /\ d \in Nat
    BY <1>3
  <2> HIDE DEF l
  <2>4. n - (l - 1) = d + 1
    BY <2>3
  <2> QED BY <2>1, <2>2, <2>4
<1>20. InStep(y, e)
  BY <1>18, <1>19 DEF InStep, n
<1>21. y.pc \in {"open", "replay", "live", "ending"}
  BY <1>5, <1>10
<1>22. InStep(y, sess[y.obj].events) /\ y.obj \in Objects
  BY <1>1, <1>5, <1>20 DEF e
<1> QED BY <1>4, <1>21, <1>22, OneStreamMoves
LEMMA ServeTold ==
  ASSUME IInv, SInv, NEW c \in Streams, Serve(c) \/ Leave(c)
  PROVE  SInv'
<1>1. CASE \E how \in {"closed", "left"} : Close(c, how)
  BY <1>1, CloseTold
<1>2. CASE stream[c].pc = "open" /\ stream' = [stream EXCEPT ![c].pc = "gone"]
           /\ UNCHANGED << registry, sess >>
  <2> DEFINE y == [stream[c] EXCEPT !.pc = "gone"]
  <2>1. stream' = [stream EXCEPT ![c] = y] /\ y.pc = "gone" /\ y.got = stream[c].got
    BY <1>2, TypesAtHand DEF IInv, StreamType
  <2>2. Open(c) /\ InStep(stream[c], sess[stream[c].obj].events)
    BY <1>2 DEF Open, SInv, StreamsInStep
  <2>3. stream[c] \in StreamType /\ stream[c].since \in Nat /\ stream[c].got \in Seq(Nat)
    BY TypesAtHand, StreamTyped DEF IInv
  <2>4. Len(stream[c].got) = 0
    <3> DEFINE d == Len(sess[stream[c].obj].events) - Len(stream[c].queue)
               p == stream[c].at - 1
    <3>1. Len(stream[c].got) = p + (d - stream[c].since) /\ d = stream[c].since /\ p = 0
      BY <1>2, <2>2 DEF InStep, Covers
    <3> HIDE DEF d, p
    <3> QED BY <2>3, <3>1
  <2>5. y.got = << >>
    BY <2>1, <2>3, <2>4
  <2> HIDE DEF y
  <2> QED BY <1>2, <2>1, <2>5, OneStreamMoves
<1> QED BY <1>1, <1>2, StartTold, ReplayTold, DeliverTold DEF Serve, End, Leave

\* Making a session, and the wish to pause or to go on, tell nothing.
LEMMA UserTold ==
  ASSUME IInv, SInv, NEW s \in Sids,
         Pause(s) \/ Resume(s) \/ \E mode \in Modes : CreateSession(s, mode)
  PROVE  SInv'
<1>1. ASSUME NEW mode \in Modes, CreateSession(s, mode)
      PROVE  SInv'
  <2>1. PICK o \in Objects : sess' = [sess EXCEPT ![o].sid = s, ![o].mode = mode] /\ UNCHANGED stream
    BY <1>1 DEF CreateSession
  <2> DEFINE y == [sess[o] EXCEPT !.sid = s, !.mode = mode]
  <2>2. sess[o] \in SessType
    BY TypesAtHand DEF IInv
  <2>3. y.events = sess[o].events /\ y.status = sess[o].status
    BY <2>2 DEF SessType
  <2>4. sess' = [sess EXCEPT ![o] = y]
    BY <2>1, <2>2, TypesAtHand DEF IInv, SessType
  <2> HIDE DEF y
  <2> QED BY <2>1, <2>3, <2>4, SilentStep, TypesAtHand DEF IInv
<1>2. CASE Pause(s) \/ Resume(s)
  <2>1. registry[s] \in Objects
    BY <1>2 DEF Pause, Resume, Known, IInv, TypeOK
  <2>2. PICK o \in Objects, z \in BOOLEAN :
          sess' = [sess EXCEPT ![o].paused = z] /\ UNCHANGED stream
    BY <1>2, <2>1 DEF Pause, Resume
  <2> DEFINE y == [sess[o] EXCEPT !.paused = z]
  <2>3. y.events = sess[o].events /\ y.status = sess[o].status
    BY TypesAtHand DEF IInv, SessType
  <2>4. sess' = [sess EXCEPT ![o] = y]
    BY <2>2
  <2> HIDE DEF y
  <2> QED BY <2>2, <2>3, <2>4, SilentStep, TypesAtHand DEF IInv
<1> QED BY <1>1, <1>2

LEMMA RunTold ==
  ASSUME IInv, SInv, NEW o \in Objects, Run(o)
  PROVE  SInv'
<1>1. CASE Tells(o)
  <2>1. PICK x \in SessType, phase \in Phases : AddEvent(o, x, phase) /\ Fits(o, x)
    BY <1>1 DEF Tells
  <2> QED BY <2>1, AddEventTold
<1>2. CASE Moves(o)
  <2>1. sess[o] \in SessType
    BY TypesAtHand DEF IInv
  <2>2. PICK y : /\ sess' = [sess EXCEPT ![o] = y] /\ UNCHANGED stream
                 /\ y.events = sess[o].events /\ y.status = sess[o].status
    <3>1. CASE sess' = [sess EXCEPT ![o] = Stopped(@)]
      <4>1. Stopped(sess[o]).events = sess[o].events /\ Stopped(sess[o]).status = sess[o].status
        BY <2>1 DEF Stopped, SessType
      <4> QED BY <1>2, <3>1, <4>1 DEF Moves
    <3>2. CASE \E pc \in {"phase", "tail"} : sess' = [sess EXCEPT ![o].pc = pc]
      <4>1. PICK pc \in {"phase", "tail"} : sess' = [sess EXCEPT ![o].pc = pc]
        BY <3>2
      <4> DEFINE y == [sess[o] EXCEPT !.pc = pc]
      <4>2. y.events = sess[o].events /\ y.status = sess[o].status
        BY <2>1 DEF SessType
      <4>3. sess' = [sess EXCEPT ![o] = y]
        BY <4>1
      <4> HIDE DEF y
      <4> QED BY <1>2, <4>2, <4>3 DEF Moves
    <3> QED BY <1>2, <3>1, <3>2 DEF Moves
  <2> QED BY <2>2, SilentStep, TypesAtHand DEF IInv
<1> QED BY <1>1, <1>2, RunTells

LEMMA NextTold == ASSUME IInv, SInv, [Next]_vars PROVE SInv'
<1>1. CASE UNCHANGED vars
  BY <1>1, SilentStep DEF vars
<1>2. ASSUME NEW s \in Sids, Cancel(s)
      PROVE  SInv'
  <2>1. PICK o \in Objects, x \in SessType :
          AddEvent(o, x, sess[o].status) /\ Fits(o, x) /\ sess[o].status \in Phases
    BY <1>2, CancelTells
  <2> QED BY <2>1, AddEventTold
<1> QED BY <1>1, <1>2, RunTold, UserTold, ServeTold, ConnectTold DEF Next

LEMMA AlwaysSInv == Spec => [](IInv /\ SInv)
<1>1. Init => SInv
  <2>1. Init => StatusIsLast
    BY DEF Init, StatusIsLast, NoSession
  <2>2. Init => StreamsInStep
    BY DEF Init, StreamsInStep, NoStream, Open
  <2> QED BY <2>1, <2>2 DEF SInv
<1>2. IInv /\ SInv /\ [Next]_vars => SInv'
  BY NextTold
<1> QED BY <1>1, <1>2, AlwaysIInv, PTL DEF Spec

\* What a stream in step was and will be sent, place by place.
LEMMA SaidInOrder ==
  ASSUME NEW y \in StreamType, NEW e \in Seq(Phases), InStep(y, e)
  PROVE  LET said == y.got \o y.queue
             n    == Len(e)
             p    == y.at - 1
         IN  /\ n \in Nat /\ p \in Nat /\ y.since \in 0 .. n /\ Len(said) = p + (n - y.since)
             /\ \A k \in 1 .. p : said[k] = k
             /\ \A j \in 1 .. n - y.since : said[p + j] = y.since + j
<1> DEFINE n == Len(e)
           l == Len(y.queue)
           m == Len(y.got)
           d == n - l
           p == y.at - 1
           said == y.got \o y.queue
           since == y.since
<1>1. n \in Nat /\ d \in Nat /\ p \in Nat /\ since <= d
  BY CoverBounds
<1>2. l \in Nat /\ m \in Nat /\ since \in Nat
  BY StreamTyped
<1>3. /\ Len(said) = m + l
      /\ \A k \in 1 .. m + l : said[k] = IF k <= m THEN y.got[k] ELSE y.queue[k - m]
  BY StreamTyped, ConcatProperties
<1>4. /\ m = p + (d - since)
      /\ \A k \in 1 .. p : y.got[k] = k
      /\ \A j \in 1 .. d - since : y.got[p + j] = since + j
      /\ \A k \in 1 .. l : y.queue[k] = d + k
  BY DEF InStep, Covers
<1> HIDE DEF l
<1>5. n = d + l
  BY <1>1, <1>2
<1> HIDE DEF n, d, p, m, said, since
<1>6. since \in 0 .. n /\ Len(said) = p + (n - since)
  BY <1>1, <1>2, <1>3, <1>4, <1>5
<1>7. \A k \in 1 .. p : said[k] = k
  <2> TAKE k \in 1 .. p
  <2>1. k \in 1 .. m + l /\ k <= m
    BY <1>1, <1>2, <1>4
  <2> QED BY <1>3, <1>4, <2>1
<1>8. \A j \in 1 .. n - since : said[p + j] = since + j
  <2> TAKE j \in 1 .. n - since
  <2>0. j \in Nat \ {0} /\ j <= n - since
    BY <1>1, <1>2
  <2>1. p + j \in 1 .. m + l
    BY <1>1, <1>2, <1>4, <1>5, <2>0
  <2>2. CASE j <= d - since
    <3>1. p + j <= m /\ j \in 1 .. d - since
      BY <1>1, <1>2, <1>4, <2>0, <2>2
    <3> QED BY <1>3, <1>4, <2>1, <3>1
  <2>3. CASE ~ j <= d - since
    <3>1. ~ p + j <= m /\ (p + j) - m \in 1 .. l /\ d + ((p + j) - m) = since + j
      BY <1>1, <1>2, <1>4, <1>5, <2>0, <2>3
    <3>2. said[p + j] = y.queue[(p + j) - m]
      BY <1>3, <2>1, <3>1
    <3> QED BY <1>4, <3>1, <3>2
  <2> QED BY <2>2, <2>3
<1> QED BY <1>1, <1>6, <1>7, <1>8 DEF n, p, said, since
LEMMA OpenIsTold ==
  ASSUME NEW y \in StreamType, NEW e \in Seq(Phases), InStep(y, e),
         y.pc \in {"open", "replay", "live", "ending"}
  PROVE  LET told == y.got \o y.queue
             past == IF y.again THEN y.at - 1 ELSE 0
         IN  /\ \A i \in 1 .. Len(told) :
                  IF i <= past THEN told[i] = i
                  ELSE IF i = past + 1 THEN told[i] = y.since + 1
                  ELSE told[i] = told[i - 1] + 1
             /\ y.pc \in {"live", "ending"} => past >= IF y.again THEN y.since ELSE 0
             /\ told # << >> => \/ told[Len(told)] = Len(e)
                                \/ y.pc = "replay" /\ y.queue = << >>
<1> DEFINE n == Len(e)
           l == Len(y.queue)
           p == y.at - 1
           told == y.got \o y.queue
           past == IF y.again THEN y.at - 1 ELSE 0
           since == y.since
<1>1. /\ n \in Nat /\ p \in Nat /\ since \in 0 .. n /\ Len(told) = p + (n - since)
      /\ \A k \in 1 .. p : told[k] = k
      /\ \A j \in 1 .. n - since : told[p + j] = since + j
  BY SaidInOrder
<1>2. Covers(y, e, n, n - l, p)
  BY DEF InStep
<1>3. y.again \in BOOLEAN /\ l \in Nat /\ y.queue \in Seq(Nat)
  BY StreamTyped
<1>4. past = p
  BY <1>2, <1>3 DEF Covers
<1>5. told \in Seq(Nat)
  BY StreamTyped, ConcatProperties
<1> HIDE DEF n, p, told, past, since
<1>6. ASSUME NEW i \in 1 .. Len(told)
      PROVE  IF i <= past THEN told[i] = i
             ELSE IF i = past + 1 THEN told[i] = since + 1
             ELSE told[i] = told[i - 1] + 1
  <2>0. i \in Nat \ {0} /\ i <= p + (n - since) /\ since \in Nat /\ since <= n
    BY <1>1
  <2>1. CASE i <= p
    <3>1. i \in 1 .. p
      BY <1>1, <2>0, <2>1
    <3> QED BY <1>1, <1>4, <2>1, <3>1
  <2>2. CASE i = p + 1
    <3>1. 1 \in 1 .. n - since /\ ~ i <= p
      BY <1>1, <2>0, <2>2
    <3>2. told[p + 1] = since + 1
      BY <1>1, <3>1
    <3> QED BY <1>4, <2>2, <3>1, <3>2
  <2>3. CASE ~ i <= p /\ i # p + 1
    <3> DEFINE j == i - p
    <3>1. j \in 1 .. n - since /\ j - 1 \in 1 .. n - since /\ j \in Nat
      BY <1>1, <2>0, <2>3
    <3>2. p + j = i /\ p + (j - 1) = i - 1
      BY <1>1, <2>0
    <3> HIDE DEF j
    <3>3. told[i] = since + j /\ told[i - 1] = since + (j - 1)
      BY <1>1, <3>1, <3>2
    <3>4. told[i] = told[i - 1] + 1
      BY <2>0, <3>1, <3>3
    <3> QED BY <1>4, <2>3, <3>4
  <2> QED BY <2>1, <2>2, <2>3
<1>7. y.pc \in {"live", "ending"} => past >= IF y.again THEN since ELSE 0
  <2> SUFFICES ASSUME y.pc \in {"live", "ending"}
               PROVE  past >= IF y.again THEN since ELSE 0
    OBVIOUS
  <2>1. ~ y.again \/ since <= p
    BY <1>2 DEF Covers, since
  <2>2. since \in Nat
    BY <1>1
  <2> QED BY <1>1, <1>3, <1>4, <2>1, <2>2
<1>8. ASSUME told # << >>
      PROVE  told[Len(told)] = n \/ (y.pc = "replay" /\ y.queue = << >>)
  <2>1. Len(told) \in Nat \ {0}
    BY <1>5, <1>8
  <2>0. since \in Nat /\ since <= n
    BY <1>1
  <2>2. CASE since < n
    <3>1. n - since \in 1 .. n - since /\ since + (n - since) = n
      BY <1>1, <2>0, <2>2
    <3>2. told[p + (n - since)] = n
      BY <1>1, <3>1
    <3> QED BY <1>1, <3>2
  <2>3. CASE since = n
    <3>1. Len(told) = p /\ p # 0
      BY <1>1, <2>1, <2>3
    <3>2. y.pc # "open"
      BY <1>2, <3>1 DEF Covers
    <3>3. CASE y.pc = "replay"
      <4>1. n - l = n
        BY <1>2, <2>3, <3>3 DEF Covers, since
      <4> HIDE DEF l
      <4>2. l = 0
        BY <1>1, <1>3, <4>1
      <4> QED BY <1>3, <3>3, <4>2 DEF l
    <3>4. CASE y.pc \in {"live", "ending"}
      <4>1. since <= p /\ p \in 0 .. n
        BY <1>2, <1>3, <3>1, <3>4 DEF Covers, since
      <4>2. p = n
        BY <1>1, <2>3, <4>1
      <4>3. told[p] = p
        BY <1>1, <3>1
      <4> QED BY <3>1, <4>2, <4>3
    <3> QED BY <3>2, <3>3, <3>4
  <2> QED BY <1>1, <2>0, <2>2, <2>3
<1> QED BY <1>6, <1>7, <1>8 DEF n, told, past, since

\* A stream is sent every event of its session from its connection on, in order
\* and once, and the earlier ones first when it reconnects, however the run, the
\* user and other streams interleave (stream_progress, add_event).
THEOREM NothingIsMissed == Spec => []NothingMissed
<1>1. IInv /\ SInv => NothingMissed
  <2>1. ASSUME IInv, SInv, NEW c \in Streams, Open(c)
        PROVE  /\ stream[c] \in StreamType /\ sess[stream[c].obj].events \in Seq(Phases)
               /\ InStep(stream[c], sess[stream[c].obj].events)
               /\ stream[c].pc \in {"open", "replay", "live", "ending"}
    BY <2>1, TypesAtHand DEF IInv, SInv, StreamsInStep, Open, SessType
  <2>2. ASSUME IInv, SInv, NEW c \in Streams, Open(c)
        PROVE  LET y    == stream[c]
                   told == y.got \o y.queue
                   past == IF y.again THEN y.at - 1 ELSE 0
               IN  /\ \A i \in 1 .. Len(told) :
                        IF i <= past THEN told[i] = i
                        ELSE IF i = past + 1 THEN told[i] = y.since + 1
                        ELSE told[i] = told[i - 1] + 1
                   /\ y.pc \in {"live", "ending"} => past >= IF y.again THEN y.since ELSE 0
                   /\ told # << >> => \/ told[Len(told)] = Len(sess[y.obj].events)
                                      \/ y.pc = "replay" /\ y.queue = << >>
    BY <2>1, <2>2, OpenIsTold
  <2> QED BY <2>2 DEF NothingMissed
<1> QED BY <1>1, AlwaysSInv, PTL

-----------------------------------------------------------------------------
(* How a stream ends *)

\* A session is made before anything happens to it.
Made ==
  /\ \A o \in Objects : /\ sess[o].sid = None => sess[o].events = << >> /\ sess[o].pc = "off"
                        /\ sess[o].events = << >> => sess[o].status = "upload"
  /\ \A s \in Sids : Known(s) => sess[registry[s]].sid # None

\* Of a run that is not a design run: a last event is an end of a run, or tells
\* of a cancel request after one; after such a request no other event comes.
EndsKnown(x) ==
  \A i \in 1 .. Len(x.events) : x.events[i] \in Final =>
    /\ \E k \in 1 .. i : k \in x.ends
    /\ i \notin x.ends =>
         /\ i - 1 \in 1 .. Len(x.events) /\ x.events[i - 1] \in Final /\ x.cancelled
         /\ \A j \in i .. Len(x.events) : x.events[j] \in Final

\* What a stream was sent tells an end of a run; or it was sent no last event
\* yet, and the next one will be an end.
TellsEnd(y, x) == \E k \in 1 .. Len(y.got) : y.got[k] \in x.ends

TellsNoEnd(y, x) ==
  /\ y.pc = "live"
  /\ \A k \in 1 .. Len(y.got) : x.events[y.got[k]] \notin Final
  /\ y.since \in 1 .. Len(x.events) /\ x.events[y.since] \in Final =>
       /\ y.since + 1 \in 1 .. Len(x.events)
       /\ x.events[y.since + 1] \in Final => y.since + 1 \in x.ends

Telling(y, x) ==
  y.pc \in {"live", "ending"} /\ x.mode # "design" => TellsEnd(y, x) \/ TellsNoEnd(y, x)

VInv ==
  /\ Made
  /\ \A o \in Objects : sess[o].mode # "design" => EndsKnown(sess[o])
  /\ \A c \in Streams : Open(c) => Telling(stream[c], sess[stream[c].obj])

\* What was sent is in the list of events.
LEMMA SentIsThere ==
  ASSUME NEW y \in StreamType, NEW e \in Seq(Phases), InStep(y, e)
  PROVE  \A k \in 1 .. Len(y.got) : y.got[k] \in 1 .. Len(e)
<1> DEFINE n == Len(e)
           d == n - Len(y.queue)
           p == y.at - 1
           l == Len(y.got)
<1>1. /\ n \in Nat /\ d \in Nat /\ p \in Nat /\ y.since \in Nat /\ y.since <= d /\ l \in Nat
      /\ Len(y.queue) \in Nat
  BY CoverBounds, StreamTyped
<1>2. /\ p \in 0 .. n /\ l = p + (d - y.since)
      /\ \A k \in 1 .. p : y.got[k] = k
      /\ \A j \in 1 .. d - y.since : y.got[p + j] = y.since + j
  BY DEF InStep, Covers
<1>3. d <= n
  <2> DEFINE q == Len(y.queue)
  <2>1. q \in Nat /\ n \in Nat /\ d = n - q
    BY <1>1
  <2> HIDE DEF q, n, d
  <2> QED BY <2>1
<1> HIDE DEF n, d, p, l
<1>4. SUFFICES ASSUME NEW k \in 1 .. l PROVE y.got[k] \in 1 .. n
  BY DEF n, l
<1>5. CASE k <= p
  BY <1>1, <1>2, <1>5
<1>6. CASE ~ k <= p
  <2>1. k - p \in 1 .. d - y.since /\ p + (k - p) = k
    BY <1>1, <1>2, <1>6
  <2>2. y.got[k] = y.since + (k - p)
    BY <1>2, <2>1
  <2> QED BY <1>1, <1>3, <2>1, <2>2
<1> QED BY <1>5, <1>6

\* What a run adds to its session's history.
LEMMA EndsGrow ==
  ASSUME NEW x \in SessType, NEW z \in SessType, NEW phase \in Phases,
         z.mode # "design" => EndsKnown(x),
         z.events = Append(x.events, phase),
         z.ends = x.ends \/ z.ends = x.ends \union {Len(x.events) + 1},
         x.cancelled => z.cancelled,
         \/ /\ phase \in Final => z.ends = x.ends \union {Len(x.events) + 1} \/ z.mode = "design"
            /\ x.cancelled => phase \in Final
         \/ z.cancelled /\ (x.events # << >> => phase = x.events[Len(x.events)])
            /\ (x.events = << >> => phase \notin Final)
  PROVE  z.mode # "design" => EndsKnown(z)
<1> SUFFICES ASSUME z.mode # "design" PROVE EndsKnown(z)
  OBVIOUS
<1> DEFINE n == Len(x.events)
           e == x.events
           u == z.events
<1>1. /\ n \in Nat /\ Len(u) = n + 1 /\ u[n + 1] = phase /\ \A i \in 1 .. n : u[i] = e[i]
      /\ e # << >> <=> n # 0
  BY DEF SessType
<1>2. \A i \in 1 .. n : e[i] \in Final =>
        /\ \E k \in 1 .. i : k \in x.ends
        /\ i \notin x.ends =>
             /\ i - 1 \in 1 .. n /\ e[i - 1] \in Final /\ x.cancelled
             /\ \A j \in i .. n : e[j] \in Final
  BY DEF EndsKnown
<1> HIDE DEF n, e, u
<1>3. ASSUME NEW i \in 1 .. n, u[i] \in Final
      PROVE  /\ \E k \in 1 .. i : k \in z.ends
             /\ i \notin z.ends =>
                  /\ i - 1 \in 1 .. n + 1 /\ u[i - 1] \in Final /\ z.cancelled
                  /\ \A j \in i .. n + 1 : u[j] \in Final
  <2>1. e[i] \in Final
    BY <1>1, <1>3
  <2>2. \E k \in 1 .. i : k \in z.ends
    BY <1>2, <2>1
  <2>3. ASSUME i \notin z.ends
        PROVE  /\ i - 1 \in 1 .. n + 1 /\ u[i - 1] \in Final /\ z.cancelled
               /\ \A j \in i .. n + 1 : u[j] \in Final
    <3>1. /\ i - 1 \in 1 .. n /\ e[i - 1] \in Final /\ x.cancelled
          /\ \A j \in i .. n : e[j] \in Final
      BY <1>2, <2>1, <2>3
    <3>2. n \in i .. n /\ n # 0
      BY <1>1
    <3>3. phase \in Final
      BY <1>1, <3>1, <3>2 DEF n, e
    <3>4. i - 1 \in 1 .. n + 1 /\ u[i - 1] \in Final
      BY <1>1, <3>1
    <3>5. \A j \in i .. n + 1 : j \in i .. n \/ j = n + 1
      BY <1>1
    <3>6. \A j \in i .. n + 1 : u[j] \in Final
      BY <1>1, <3>1, <3>3, <3>5
    <3> QED BY <3>1, <3>4, <3>6
  <2> QED BY <2>2, <2>3
<1>4. ASSUME phase \in Final
      PROVE  /\ \E k \in 1 .. n + 1 : k \in z.ends
             /\ n + 1 \notin z.ends =>
                  /\ n \in 1 .. n + 1 /\ u[n] \in Final /\ z.cancelled
  <2>1. CASE n + 1 \in z.ends
    BY <1>1, <2>1
  <2>2. CASE n + 1 \notin z.ends
    <3>1. z.cancelled /\ e # << >> /\ phase = e[n]
      BY <1>4, <2>2 DEF n, e
    <3>2. n \in 1 .. n /\ e[n] \in Final
      BY <1>1, <1>4, <3>1
    <3>3. \E k \in 1 .. n : k \in x.ends
      BY <1>2, <3>2
    <3> QED BY <1>1, <3>1, <3>2, <3>3
  <2> QED BY <2>1, <2>2
<1>5. \A i \in 1 .. n + 1 : i \in 1 .. n \/ i = n + 1
  BY <1>1
<1>6. \A j \in n + 1 .. n + 1 : j = n + 1
  BY <1>1
<1>7. (n + 1) - 1 = n
  BY <1>1
<1>8. ASSUME NEW i \in 1 .. n + 1, u[i] \in Final
      PROVE  /\ \E k \in 1 .. i : k \in z.ends
             /\ i \notin z.ends =>
                  /\ i - 1 \in 1 .. n + 1 /\ u[i - 1] \in Final /\ z.cancelled
                  /\ \A j \in i .. n + 1 : u[j] \in Final
  <2>1. CASE i \in 1 .. n
    BY <1>3, <1>8, <2>1
  <2>2. CASE i = n + 1
    BY <1>1, <1>4, <1>6, <1>7, <1>8, <2>2
  <2> QED BY <1>5, <2>1, <2>2
<1> QED BY <1>1, <1>8 DEF EndsKnown, u

\* One more event leaves what a stream was sent as it was.
LEMMA TellingGrows ==
  ASSUME NEW y \in StreamType, NEW x \in SessType, NEW z \in SessType, NEW w, NEW phase \in Phases,
         InStep(y, x.events), Telling(y, x), z.mode = x.mode,
         z.events = Append(x.events, phase), x.ends \subseteq z.ends,
         w.pc = y.pc, w.got = y.got, w.since = y.since
  PROVE  Telling(w, z)
<1> SUFFICES ASSUME y.pc \in {"live", "ending"}, x.mode # "design"
             PROVE  TellsEnd(w, z) \/ TellsNoEnd(w, z)
  BY DEF Telling
<1>1. CASE TellsEnd(y, x)
  BY <1>1 DEF TellsEnd
<1>2. CASE TellsNoEnd(y, x)
  <2> DEFINE e == x.events
             n == Len(e)
             u == z.events
  <2>1. n \in Nat /\ Len(u) = n + 1 /\ u[n + 1] = phase /\ \A i \in 1 .. n : u[i] = e[i]
    BY DEF SessType
  <2>2. \A k \in 1 .. Len(y.got) : y.got[k] \in 1 .. n
    BY SentIsThere DEF SessType
  <2>3. y.since \in Nat /\ y.since <= n
    <3>1. e \in Seq(Phases)
      BY DEF SessType
    <3> DEFINE q == Len(y.queue)
    <3>2. n \in Nat /\ n - q \in Nat /\ y.since <= n - q /\ y.since \in Nat /\ q \in Nat
      BY <3>1, CoverBounds, StreamTyped
    <3> HIDE DEF q, n
    <3> QED BY <3>2
  <2> HIDE DEF e, n, u
  <2>4. /\ y.pc = "live"
        /\ \A k \in 1 .. Len(y.got) : e[y.got[k]] \notin Final
        /\ y.since \in 1 .. n /\ e[y.since] \in Final =>
             /\ y.since + 1 \in 1 .. n
             /\ e[y.since + 1] \in Final => y.since + 1 \in x.ends
    BY <1>2 DEF TellsNoEnd, e, n
  <2>5. \A k \in 1 .. Len(w.got) : u[w.got[k]] \notin Final
    BY <2>1, <2>2, <2>4
  <2>6. ASSUME w.since \in 1 .. n + 1, u[w.since] \in Final
        PROVE  /\ w.since + 1 \in 1 .. n + 1
               /\ u[w.since + 1] \in Final => w.since + 1 \in z.ends
    <3>1. y.since \in 1 .. n /\ e[y.since] \in Final
      BY <2>1, <2>3, <2>6
    <3>2. y.since + 1 \in 1 .. n /\ (e[y.since + 1] \in Final => y.since + 1 \in x.ends)
      BY <2>4, <3>1
    <3> QED BY <2>1, <3>2
  <2>7. Len(z.events) = n + 1
    BY <2>1 DEF u
  <2> QED BY <2>4, <2>5, <2>6, <2>7 DEF TellsNoEnd, u
<1> QED BY <1>1, <1>2 DEF Telling

LEMMA AddEventTelling ==
  ASSUME IInv, SInv, VInv, IInv', SInv', NEW o \in Objects, NEW x \in SessType,
         NEW phase \in Phases, AddEvent(o, x, phase), Fits(o, x), UNCHANGED registry,
         sess[o].sid # None,
         \/ /\ sess[o].pc # "off" /\ (sess[o].cancelled => phase \in Final)
            /\ phase \in Final => x.pc = "off" \/ x.mode = "design"
         \/ x.cancelled /\ phase = sess[o].status
  PROVE  VInv'
<1> DEFINE a == sess[o]
           m == IF a.pc # "off" /\ x.pc = "off" THEN x.ends \union {Len(x.events) + 1} ELSE x.ends
           z == [x EXCEPT !.events = Append(@, phase), !.status = phase, !.ends = m]
<1>1. /\ sess' = [sess EXCEPT ![o] = z]
      /\ stream' = [c \in Streams |-> IF c \in x.queues
                      THEN [stream[c] EXCEPT !.queue = Append(@, Len(x.events) + 1)] ELSE stream[c]]
  BY DEF AddEvent
<1>2. /\ a \in SessType /\ x.events = a.events /\ x.sid = a.sid /\ x.mode = a.mode
      /\ x.ends = a.ends /\ (a.cancelled => x.cancelled)
  BY TypesAtHand DEF IInv, Fits
<1>3. /\ z.events = Append(a.events, phase) /\ z.sid = a.sid /\ z.mode = a.mode /\ z.ends = m
      /\ z.cancelled = x.cancelled /\ z.pc = x.pc /\ z.status = phase
  BY <1>2 DEF SessType
<1>4. sess'[o] = z /\ \A q \in Objects : q # o => sess'[q] = sess[q]
  BY <1>1, TypesAtHand DEF IInv
<1>5. z \in SessType
  BY <1>4, TypesAtHand, IInv' DEF IInv, SessType, TypeOK
<1>6. m = a.ends \/ m = a.ends \union {Len(a.events) + 1}
  BY <1>2
<1>7. a.pc # "off" /\ x.pc = "off" => m = a.ends \union {Len(a.events) + 1}
  BY <1>2
<1> HIDE DEF z, m, a
<1>8. z.events # << >>
  BY <1>2, <1>3 DEF SessType
<1>9. /\ a.events # << >> => a.status = a.events[Len(a.events)]
      /\ a.events = << >> => a.status = "upload"
      /\ a.mode # "design" => EndsKnown(a)
  BY DEF SInv, StatusIsLast, VInv, Made, a
<1>10. z.mode # "design" => EndsKnown(z)
  <2>1. \/ /\ phase \in Final => z.ends = a.ends \union {Len(a.events) + 1} \/ z.mode = "design"
           /\ a.cancelled => phase \in Final
        \/ z.cancelled /\ (a.events # << >> => phase = a.events[Len(a.events)])
           /\ (a.events = << >> => phase \notin Final)
    BY <1>2, <1>3, <1>7, <1>9 DEF a, Final
  <2>2. z.mode # "design" => EndsKnown(a)
    BY <1>3, <1>9
  <2>3. (z.ends = a.ends \/ z.ends = a.ends \union {Len(a.events) + 1}) /\ (a.cancelled => z.cancelled)
    BY <1>2, <1>3, <1>6
  <2> QED BY <1>2, <1>3, <1>5, <2>1, <2>2, <2>3, EndsGrow
<1>11. ASSUME NEW c \in Streams, Open(c)'
       PROVE  Telling(stream'[c], sess'[stream'[c].obj])
  <2> DEFINE y == stream[c]
             w == stream'[c]
  <2>1. y \in StreamType /\ w.pc = y.pc /\ w.got = y.got /\ w.since = y.since /\ w.obj = y.obj
    BY <1>1, TypesAtHand DEF IInv, StreamType
  <2>2. Open(c) /\ y.obj \in Objects /\ InStep(y, sess[y.obj].events) /\ Telling(y, sess[y.obj])
    BY <1>11, <2>1 DEF Open, SInv, StreamsInStep, VInv
  <2> HIDE DEF y, w
  <2>3. CASE y.obj = o
    <3>1. a.ends \subseteq z.ends
      BY <1>3, <1>6
    <3>2. InStep(y, a.events) /\ Telling(y, a)
      BY <2>2, <2>3 DEF a
    <3>3. Telling(w, z)
      BY <1>2, <1>3, <1>5, <2>1, <3>1, <3>2, TellingGrows
    <3> QED BY <1>4, <2>1, <2>3, <3>3 DEF w
  <2>4. CASE y.obj # o
    <3>1. sess'[w.obj] = sess[y.obj]
      BY <1>4, <2>1, <2>2, <2>4
    <3>2. Telling(w, sess[y.obj])
      BY <2>1, <2>2 DEF Telling, TellsEnd, TellsNoEnd
    <3> QED BY <3>1, <3>2 DEF w
  <2> QED BY <2>3, <2>4
<1>12. Made'
  <2>1. z.sid # None
    BY <1>3 DEF a
  <2>2. \A q \in Objects : sess'[q].sid = sess[q].sid
    BY <1>3, <1>4 DEF a
  <2>3. \A s \in Sids : Known(s) => registry[s] \in Objects
    BY DEF Known, IInv, TypeOK
  <2> QED BY <1>4, <1>8, <2>1, <2>2, <2>3 DEF Made, VInv, Known
<1>13. \A q \in Objects : sess'[q].mode # "design" => EndsKnown(sess'[q])
  BY <1>4, <1>10 DEF VInv
<1> QED BY <1>11, <1>12, <1>13 DEF VInv, Open

\* Steps that tell nothing.
Silent(q) ==
  LET a == sess[q]
      b == sess'[q]
  IN  /\ b.events = a.events /\ b.ends = a.ends /\ b.cancelled = a.cancelled
      /\ b.status = a.status
      /\ \/ b.mode = a.mode /\ b.sid = a.sid
         \/ a.events = << >> /\ b.sid # None
      /\ b.sid = None => b.pc = "off"

LEMMA SilentTelling ==
  ASSUME IInv, SInv, VInv, IInv', SInv', \A q \in Objects : Silent(q),
         \A s \in Sids : registry'[s] # None => \/ registry'[s] = registry[s]
                                                \/ sess'[registry'[s]].sid # None,
         \A c \in Streams :
           Open(c)' => \/ stream'[c] = stream[c]
                       \/ Telling(stream'[c], sess[stream'[c].obj])
  PROVE  VInv'
<1>1. \A q \in Objects : sess[q].sid # None => sess'[q].sid # None
  BY DEF Silent
<1>2. \A s \in Sids : registry[s] # None => registry[s] \in Objects
  BY DEF IInv, TypeOK
<1>3. Made'
  <2>1. \A q \in Objects : /\ sess'[q].sid = None => sess'[q].events = << >> /\ sess'[q].pc = "off"
                           /\ sess'[q].events = << >> => sess'[q].status = "upload"
    BY DEF Silent, VInv, Made
  <2>2. \A s \in Sids : registry'[s] # None => sess'[registry'[s]].sid # None
    BY <1>1, <1>2 DEF VInv, Made, Known
  <2> QED BY <2>1, <2>2 DEF Made, Known
<1>4. ASSUME NEW q \in Objects, sess'[q].mode # "design" PROVE EndsKnown(sess'[q])
  <2>1. CASE sess[q].mode # "design"
    BY <2>1 DEF VInv, Silent, EndsKnown
  <2>2. CASE sess'[q].events = << >>
    BY <2>2 DEF EndsKnown
  <2> QED BY <1>4, <2>1, <2>2 DEF Silent
<1>5. ASSUME NEW c \in Streams, Open(c)'
      PROVE  Telling(stream'[c], sess'[stream'[c].obj])
  <2> DEFINE y == stream'[c]
             q == y.obj
  <2>1. y \in StreamType /\ q \in Objects /\ InStep(y, sess'[q].events)
    BY <1>5, TypesAtHand, IInv', SInv' DEF IInv, TypeOK, SessType, StreamType, SInv, StreamsInStep, Open
  <2>2. Telling(y, sess[q])
    BY <1>5 DEF VInv, Open
  <2>3. sess'[q].events \in Seq(Phases)
    BY <2>1, IInv' DEF IInv, TypeOK
  <2>4. \A k \in 1 .. Len(y.got) : y.got[k] \in 1 .. Len(sess'[q].events)
    BY <2>1, <2>3, SentIsThere
  <2> HIDE DEF y, q
  <2>5. ASSUME sess'[q].mode = sess[q].mode PROVE Telling(y, sess'[q])
    <3>1. sess'[q].events = sess[q].events /\ sess'[q].ends = sess[q].ends
      BY <2>1 DEF Silent
    <3> QED BY <2>2, <2>5, <3>1 DEF Telling, TellsEnd, TellsNoEnd
  <2>6. ASSUME sess'[q].events = << >> PROVE Telling(y, sess'[q])
    <3>1. Len(sess'[q].events) = 0 /\ y.got \in Seq(Nat) /\ Len(y.got) \in Nat
      BY <2>1, <2>6, StreamTyped
    <3>2. \A k \in 1 .. Len(y.got) : FALSE
      BY <2>4, <3>1
    <3>3. y.got = << >>
      BY <3>1, <3>2
    <3>4. y.pc # "ending"
      BY <2>1, <3>3 DEF InStep, Covers
    <3>5. \A k \in 1 .. Len(sess'[q].events) : FALSE
      BY <3>1
    <3> QED BY <3>2, <3>4, <3>5 DEF Telling, TellsNoEnd
  <2> QED BY <2>1, <2>5, <2>6 DEF Silent, y, q
<1> QED BY <1>3, <1>4, <1>5 DEF VInv, Open

\* A stream past its replay of a session that is not over.
LEMMA GoLiveTelling ==
  ASSUME IInv, SInv, VInv, NEW c \in Streams, stream[c].pc \in {"open", "replay"},
         sess[stream[c].obj].status \notin Final,
         NEW w, w.pc = "live", w.got = stream[c].got, w.since = stream[c].since
  PROVE  Telling(w, sess[stream[c].obj])
<1> DEFINE y == stream[c]
           x == sess[y.obj]
           e == x.events
           n == Len(e)
           d == n - Len(y.queue)
           p == y.at - 1
<1>1. y \in StreamType /\ y.obj \in Objects /\ InStep(y, e)
  BY TypesAtHand DEF IInv, SInv, StreamsInStep, Open
<1>2. e \in Seq(Phases) /\ (x.mode # "design" => EndsKnown(x)) /\ (e # << >> => x.status = e[n])
  BY <1>1, TypesAtHand DEF IInv, SessType, VInv, SInv, StatusIsLast
<1>3. n \in Nat /\ d \in Nat /\ p \in Nat /\ y.since \in Nat /\ y.since <= d /\ (n # 0 => e # << >>)
      /\ Len(y.queue) \in Nat
  <2>1. n \in Nat /\ d \in Nat /\ p \in Nat /\ y.since <= d
    BY <1>1, <1>2, CoverBounds
  <2>2. y.since \in Nat /\ Len(y.queue) \in Nat
    BY <1>1, StreamTyped
  <2>3. n # 0 => e # << >>
    OBVIOUS
  <2> QED BY <2>1, <2>2, <2>3
<1>4. /\ p \in 0 .. n /\ d = y.since /\ Len(y.got) = p + (d - y.since)
      /\ \A k \in 1 .. p : y.got[k] = k
  BY <1>1 DEF InStep, Covers
<1> SUFFICES ASSUME x.mode # "design" PROVE TellsEnd(w, x) \/ TellsNoEnd(w, x)
  BY DEF Telling
<1>5. \A i \in 1 .. n : e[i] \in Final =>
        /\ \E k \in 1 .. i : k \in x.ends
        /\ i \notin x.ends => \A j \in i .. n : e[j] \in Final
  BY <1>2 DEF EndsKnown
<1>6. x.status \notin Final /\ w.got = y.got /\ w.since = y.since
  OBVIOUS
<1>7. d <= n
  <2> DEFINE q == Len(y.queue)
  <2>1. q \in Nat /\ n \in Nat /\ d = n - q
    BY <1>3
  <2> HIDE DEF q, n, d
  <2> QED BY <2>1
<1>8. TellsNoEnd(w, x) <=>
        /\ \A k \in 1 .. Len(w.got) : e[w.got[k]] \notin Final
        /\ w.since \in 1 .. n /\ e[w.since] \in Final =>
             w.since + 1 \in 1 .. n /\ (e[w.since + 1] \in Final => w.since + 1 \in x.ends)
  BY DEF TellsNoEnd
<1> HIDE DEF y, x, e, n, d, p
<1>9. Len(y.got) = p
  BY <1>3, <1>4
<1>10. CASE \E i \in 1 .. p : e[i] \in Final
  <2>1. PICK i \in 1 .. p : e[i] \in Final
    BY <1>10
  <2>2. i \in 1 .. n
    BY <1>3, <1>4
  <2>3. PICK k \in 1 .. i : k \in x.ends
    BY <1>5, <2>1, <2>2
  <2>4. k \in 1 .. p
    BY <1>3
  <2>5. y.got[k] = k
    BY <1>4, <2>4
  <2> QED BY <1>6, <1>9, <2>3, <2>4, <2>5 DEF TellsEnd
<1>11. CASE ~ \E i \in 1 .. p : e[i] \in Final
  <2>1. \A k \in 1 .. Len(w.got) : e[w.got[k]] \notin Final
    BY <1>4, <1>6, <1>9, <1>11
  <2>2. ASSUME w.since \in 1 .. n, e[w.since] \in Final
        PROVE  w.since + 1 \in 1 .. n /\ (e[w.since + 1] \in Final => w.since + 1 \in x.ends)
    <3>1. n \in 1 .. n /\ e[n] \notin Final
      BY <1>2, <1>3, <1>6, <2>2
    <3>2. w.since + 1 \in 1 .. n /\ n \in w.since + 1 .. n
      BY <1>3, <2>2, <3>1
    <3>3. e[w.since + 1] \in Final => w.since + 1 \in x.ends
      BY <1>5, <3>1, <3>2
    <3> QED BY <3>2, <3>3
  <2> QED BY <1>8, <2>1, <2>2
<1> QED BY <1>10, <1>11

\* The next event of the queue is sent.
LEMMA DeliverTelling ==
  ASSUME IInv, SInv, VInv, NEW c \in Streams, stream[c].pc = "live", stream[c].queue # << >>,
         NEW w, w.got = Append(stream[c].got, Head(stream[c].queue)), w.since = stream[c].since,
         w.pc = IF sess[stream[c].obj].events[Head(stream[c].queue)] \in Final
                THEN "ending" ELSE "live"
  PROVE  Telling(w, sess[stream[c].obj])
<1> DEFINE y == stream[c]
           x == sess[y.obj]
           e == x.events
           n == Len(e)
           q == Len(y.queue)
           d == n - q
           p == y.at - 1
           i == Head(y.queue)
           l == Len(y.got)
<1>1. y \in StreamType /\ y.obj \in Objects /\ InStep(y, e) /\ Telling(y, x)
  BY TypesAtHand DEF IInv, SInv, StreamsInStep, Open, VInv
<1>2. e \in Seq(Phases) /\ (x.mode # "design" => EndsKnown(x))
  BY <1>1, TypesAtHand DEF IInv, SessType, VInv
<1>3. /\ n \in Nat /\ d \in Nat /\ p \in Nat /\ y.since \in Nat /\ y.since <= d
      /\ y.got \in Seq(Nat) /\ l \in Nat /\ q \in Nat /\ q # 0 /\ i = y.queue[1]
  <2>1. n \in Nat /\ d \in Nat /\ p \in Nat /\ y.since <= d
    BY <1>1, <1>2, CoverBounds
  <2>2. /\ y.since \in Nat /\ y.got \in Seq(Nat) /\ l \in Nat /\ y.queue \in Seq(Nat)
        /\ q \in Nat
    BY <1>1, StreamTyped
  <2>3. q # 0 /\ i = y.queue[1]
    BY <2>2
  <2> QED BY <2>1, <2>2, <2>3
<1>4. /\ l = p + (d - y.since)
      /\ \A j \in 1 .. d - y.since : y.got[p + j] = y.since + j
      /\ \A k \in 1 .. q : y.queue[k] = d + k
  BY <1>1 DEF InStep, Covers
<1> SUFFICES ASSUME x.mode # "design" PROVE TellsEnd(w, x) \/ TellsNoEnd(w, x)
  BY DEF Telling
<1>5. TellsEnd(y, x) \/ TellsNoEnd(y, x)
  BY <1>1 DEF Telling
<1>6. \A j \in 1 .. n : e[j] \in Final /\ j \notin x.ends => j - 1 \in 1 .. n /\ e[j - 1] \in Final
  BY <1>2 DEF EndsKnown
<1>7. /\ Len(w.got) = l + 1 /\ w.got[l + 1] = i /\ \A k \in 1 .. l : w.got[k] = y.got[k]
      /\ w.since = y.since /\ w.pc = (IF e[i] \in Final THEN "ending" ELSE "live")
  <2>1. i \in Nat
    BY <1>1, <1>3 DEF StreamType
  <2> QED BY <1>3, <2>1
<1>8. n = d + q
  <2>1. d = n - q
    OBVIOUS
  <2> HIDE DEF d, n, q
  <2> QED BY <1>3, <2>1
<1>9. TellsNoEnd(y, x) =>
        /\ \A k \in 1 .. l : e[y.got[k]] \notin Final
        /\ y.since \in 1 .. n /\ e[y.since] \in Final =>
             y.since + 1 \in 1 .. n /\ (e[y.since + 1] \in Final => y.since + 1 \in x.ends)
  BY DEF TellsNoEnd
<1>10. TellsNoEnd(w, x) <=>
        /\ w.pc = "live"
        /\ \A k \in 1 .. Len(w.got) : e[w.got[k]] \notin Final
        /\ w.since \in 1 .. n /\ e[w.since] \in Final =>
             w.since + 1 \in 1 .. n /\ (e[w.since + 1] \in Final => w.since + 1 \in x.ends)
  BY DEF TellsNoEnd
<1>11. TellsEnd(y, x) <=> \E k \in 1 .. l : y.got[k] \in x.ends
  BY DEF TellsEnd
<1> HIDE DEF y, x, e, n, q, d, p, i, l
<1>12. i = d + 1 /\ i \in 1 .. n
  BY <1>3, <1>4, <1>8
<1>13. \A k \in 1 .. l + 1 : k \in 1 .. l \/ k = l + 1
  BY <1>3
<1>14. CASE TellsEnd(y, x)
  <2>1. PICK k \in 1 .. l : y.got[k] \in x.ends
    BY <1>11, <1>14
  <2>2. k \in 1 .. l + 1
    BY <1>3
  <2> QED BY <1>7, <2>1, <2>2 DEF TellsEnd
<1>15. CASE TellsNoEnd(y, x) /\ e[i] \notin Final
  BY <1>7, <1>9, <1>10, <1>13, <1>15
<1>16. CASE TellsNoEnd(y, x) /\ e[i] \in Final
  <2>1. i \in x.ends
    <3> SUFFICES ASSUME i \notin x.ends PROVE FALSE
      OBVIOUS
    <3>1. i - 1 \in 1 .. n /\ e[i - 1] \in Final /\ i - 1 = d
      BY <1>3, <1>6, <1>12, <1>16
    <3>2. CASE y.since < d
      <4>1. d - y.since \in 1 .. d - y.since /\ p + (d - y.since) = l /\ l \in 1 .. l
        BY <1>3, <1>4, <3>2
      <4>2. y.got[l] = d
        BY <1>3, <1>4, <4>1
      <4> QED BY <1>9, <1>16, <3>1, <4>1, <4>2
    <3>3. CASE y.since = d
      BY <1>9, <1>12, <1>16, <3>1, <3>3
    <3> QED BY <1>3, <3>2, <3>3
  <2>2. l + 1 \in 1 .. Len(w.got)
    BY <1>3, <1>7
  <2> QED BY <1>7, <2>1, <2>2 DEF TellsEnd
<1> QED BY <1>5, <1>14, <1>15, <1>16

\* One stream moves, and nothing is told.
LEMMA OneStreamTelling ==
  ASSUME IInv, SInv, VInv, IInv', SInv', NEW c \in Streams, NEW y, stream' = [stream EXCEPT ![c] = y],
         UNCHANGED << registry, sess >>, Telling(y, sess[y.obj])
  PROVE  VInv'
<1>1. stream'[c] = y /\ \A d \in Streams : d # c => stream'[d] = stream[d]
  BY TypesAtHand DEF IInv
<1>2. \A q \in Objects : Silent(q)
  BY DEF Silent, VInv, Made
<1> QED BY <1>1, <1>2, SilentTelling

LEMMA CloseTelling ==
  ASSUME IInv, SInv, VInv, IInv', SInv', NEW c \in Streams, NEW how \in {"closed", "left"},
         Close(c, how)
  PROVE  VInv'
<1> DEFINE o == stream[c].obj
           x == [sess[o] EXCEPT !.queues = @ \ {c}]
           y == [NoStream EXCEPT !.pc = how]
<1>1. /\ sess' = [sess EXCEPT ![o] = x] /\ stream' = [stream EXCEPT ![c] = y]
      /\ registry' = registry \/ registry' = [registry EXCEPT ![x.sid] = None]
  BY DEF Close
<1>2. y.pc = how
  BY DEF NoStream
<1>3. o \in Objects =>
        /\ x.events = sess[o].events /\ x.status = sess[o].status /\ x.ends = sess[o].ends
        /\ x.cancelled = sess[o].cancelled /\ x.mode = sess[o].mode /\ x.sid = sess[o].sid
        /\ x.pc = sess[o].pc
  BY TypesAtHand DEF IInv, SessType
<1> HIDE DEF x, y
<1>4. \A q \in Objects : Silent(q)
  <2> TAKE q \in Objects
  <2>1. sess'[q] = IF q = o THEN x ELSE sess[q]
    BY <1>1, TypesAtHand DEF IInv
  <2>2. sess[q].sid = None => sess[q].pc = "off"
    BY DEF VInv, Made
  <2> QED BY <1>3, <2>1, <2>2 DEF Silent
<1>5. \A s \in Sids : registry'[s] # None => registry'[s] = registry[s]
  BY <1>1 DEF IInv, TypeOK
<1>6. \A d \in Streams : Open(d)' => stream'[d] = stream[d]
  BY <1>1, <1>2, TypesAtHand DEF IInv, Open
<1> QED BY <1>4, <1>5, <1>6, SilentTelling

LEMMA ServeTelling ==
  ASSUME IInv, SInv, VInv, IInv', SInv', NEW c \in Streams, Serve(c) \/ Leave(c)
  PROVE  VInv'
<1> DEFINE s == stream[c]
<1>1. s \in StreamType
  BY TypesAtHand DEF IInv
<1>2. CASE \E how \in {"closed", "left"} : Close(c, how)
  BY <1>2, CloseTelling
<1>3. ASSUME NEW pc \in {"replay", "gone"}, stream' = [stream EXCEPT ![c].pc = pc],
             UNCHANGED << registry, sess >>
      PROVE  VInv'
  <2> DEFINE y == [s EXCEPT !.pc = pc]
  <2>1. stream' = [stream EXCEPT ![c] = y] /\ y.pc = pc
    BY <1>1, <1>3 DEF StreamType
  <2> HIDE DEF y
  <2>2. Telling(y, sess[y.obj])
    BY <2>1 DEF Telling
  <2> QED BY <1>3, <2>1, <2>2, OneStreamTelling
<1>4. ASSUME GoLive(c, s), s.pc \in {"open", "replay"}
      PROVE  VInv'
  <2>1. CASE sess[s.obj].status \in Final
    BY <1>2, <1>4, <2>1 DEF GoLive
  <2>2. CASE sess[s.obj].status \notin Final
    <3> DEFINE y == [s EXCEPT !.pc = "live"]
    <3>1. /\ stream' = [stream EXCEPT ![c] = y] /\ UNCHANGED << registry, sess >>
      BY <1>4, <2>2 DEF GoLive
    <3>2. y.pc = "live" /\ y.got = s.got /\ y.since = s.since /\ y.obj = s.obj
      BY <1>1 DEF StreamType
    <3> HIDE DEF y
    <3>3. Telling(y, sess[y.obj])
      BY <1>4, <2>2, <3>2, GoLiveTelling
    <3> QED BY <3>1, <3>3, OneStreamTelling
  <2> QED BY <2>1, <2>2
<1>5. CASE StartGenerator(c)
  <2>1. CASE GoLive(c, s)
    BY <1>4, <1>5, <2>1 DEF StartGenerator
  <2>2. CASE stream' = [stream EXCEPT ![c].pc = "replay"] /\ UNCHANGED << registry, sess >>
    BY <1>3, <2>2
  <2> QED BY <1>5, <2>1, <2>2 DEF StartGenerator
<1>6. CASE Replay(c)
  <2>1. CASE GoLive(c, s)
    BY <1>4, <1>6, <2>1 DEF Replay
  <2>2. CASE /\ stream' = [stream EXCEPT ![c].got = Append(@, s.at), ![c].at = @ + 1]
             /\ UNCHANGED << registry, sess >>
    <3> DEFINE y == [s EXCEPT !.got = Append(@, s.at), !.at = @ + 1]
    <3>1. stream' = [stream EXCEPT ![c] = y]
      BY <1>1, <2>2, TypesAtHand DEF IInv, StreamType
    <3>2. y.pc = "replay"
      BY <1>1, <1>6 DEF StreamType, Replay
    <3> HIDE DEF y
    <3>3. Telling(y, sess[y.obj])
      BY <3>2 DEF Telling
    <3> QED BY <2>2, <3>1, <3>3, OneStreamTelling
  <2> QED BY <1>6, <2>1, <2>2 DEF Replay
<1>7. CASE Deliver(c)
  <2> DEFINE i == Head(s.queue)
             h == IF sess[s.obj].events[i] \in Final THEN "ending" ELSE "live"
             y == [s EXCEPT !.got = Append(@, i), !.queue = Tail(@), !.pc = h]
  <2>1. s.pc = "live" /\ s.queue # << >> /\ UNCHANGED << registry, sess >>
    BY <1>7 DEF Deliver
  <2>2. stream' = [stream EXCEPT ![c] = y]
    BY <1>1, <1>7, <2>1, TypesAtHand DEF Deliver, IInv, StreamType
  <2>3. y.pc = h /\ y.got = Append(s.got, i) /\ y.since = s.since /\ y.obj = s.obj
    BY <1>1 DEF StreamType
  <2> HIDE DEF y
  <2>4. Telling(y, sess[s.obj])
    BY <2>1, <2>3, DeliverTelling
  <2> QED BY <2>1, <2>2, <2>3, <2>4, OneStreamTelling
<1> QED BY <1>2, <1>3, <1>5, <1>6, <1>7 DEF Serve, End, Leave

LEMMA ConnectTelling ==
  ASSUME IInv, SInv, VInv, IInv', SInv', NEW c \in Streams, NEW s \in Sids, NEW again \in BOOLEAN,
         Connect(c, s, again)
  PROVE  VInv'
<1> DEFINE o == registry[s]
           x == [sess[o] EXCEPT !.queues = @ \union {c}]
           w == IF x.running THEN x
                ELSE [x EXCEPT !.running = TRUE, !.pc = "ready", !.runs = @ + 1, !.work = 0]
           y == [NoStream EXCEPT !.pc = "open", !.obj = o, !.again = again, !.since = Len(x.events)]
<1>1. o \in Objects /\ sess[o].sid # None
  BY DEF Connect, Known, IInv, TypeOK, VInv, Made
<1>2. sess' = [sess EXCEPT ![o] = w] /\ stream' = [stream EXCEPT ![c] = y] /\ UNCHANGED registry
  BY DEF Connect
<1>3. sess[o] \in SessType
  BY <1>1, TypesAtHand DEF IInv
<1>4. /\ w.events = sess[o].events /\ w.status = sess[o].status /\ w.ends = sess[o].ends
      /\ w.cancelled = sess[o].cancelled /\ w.mode = sess[o].mode /\ w.sid = sess[o].sid
  BY <1>3 DEF SessType
<1>5. y.pc = "open"
  BY DEF NoStream
<1> HIDE DEF w, x, y, o
<1>6. \A q \in Objects : Silent(q)
  <2> TAKE q \in Objects
  <2>1. sess'[q] = IF q = o THEN w ELSE sess[q]
    BY <1>2, TypesAtHand DEF IInv
  <2>2. sess[q].sid = None => sess[q].pc = "off"
    BY DEF VInv, Made
  <2> QED BY <1>1, <1>4, <2>1, <2>2 DEF Silent
<1>7. \A d \in Streams : stream'[d] = IF d = c THEN y ELSE stream[d]
  BY <1>2, TypesAtHand DEF IInv
<1> QED BY <1>2, <1>5, <1>6, <1>7, SilentTelling DEF Telling

LEMMA UserTelling ==
  ASSUME IInv, SInv, VInv, IInv', SInv', NEW s \in Sids,
         Pause(s) \/ Resume(s) \/ \E mode \in Modes : CreateSession(s, mode)
  PROVE  VInv'
<1>1. ASSUME NEW mode \in Modes, CreateSession(s, mode)
      PROVE  VInv'
  <2>1. PICK o \in Objects :
          /\ sess[o].sid = None /\ sess' = [sess EXCEPT ![o].sid = s, ![o].mode = mode]
          /\ registry' = [registry EXCEPT ![s] = o] /\ UNCHANGED stream
    BY <1>1 DEF CreateSession
  <2> DEFINE y == [sess[o] EXCEPT !.sid = s, !.mode = mode]
  <2>2. sess[o] \in SessType /\ s # None
    BY TypesAtHand, ConstantsAssumption DEF IInv
  <2>3. /\ y.events = sess[o].events /\ y.status = sess[o].status /\ y.ends = sess[o].ends
        /\ y.cancelled = sess[o].cancelled /\ y.sid = s /\ y.pc = sess[o].pc
    BY <2>2 DEF SessType
  <2>4. sess' = [sess EXCEPT ![o] = y]
    BY <2>1, <2>2, TypesAtHand DEF IInv, SessType
  <2> HIDE DEF y
  <2>5. \A q \in Objects : Silent(q)
    <3> TAKE q \in Objects
    <3>1. sess'[q] = IF q = o THEN y ELSE sess[q]
      BY <2>4, TypesAtHand DEF IInv
    <3>2. sess[q].sid = None => sess[q].pc = "off" /\ sess[q].events = << >>
      BY DEF VInv, Made
    <3> QED BY <2>1, <2>2, <2>3, <3>1, <3>2 DEF Silent
  <2>6. \A t \in Sids : registry'[t] = registry[t] \/ registry'[t] = o
    BY <2>1 DEF IInv, TypeOK
  <2>7. sess'[o].sid # None
    BY <2>2, <2>3, <2>4, TypesAtHand DEF IInv
  <2> QED BY <2>1, <2>5, <2>6, <2>7, SilentTelling
<1>2. CASE Pause(s) \/ Resume(s)
  <2>1. registry[s] \in Objects
    BY <1>2 DEF Pause, Resume, Known, IInv, TypeOK
  <2>2. PICK o \in Objects, z \in BOOLEAN :
          sess' = [sess EXCEPT ![o].paused = z] /\ UNCHANGED << registry, stream >>
    BY <1>2, <2>1 DEF Pause, Resume
  <2> DEFINE y == [sess[o] EXCEPT !.paused = z]
  <2>3. /\ y.events = sess[o].events /\ y.status = sess[o].status /\ y.ends = sess[o].ends
        /\ y.cancelled = sess[o].cancelled /\ y.sid = sess[o].sid /\ y.pc = sess[o].pc
        /\ y.mode = sess[o].mode
    BY TypesAtHand DEF IInv, SessType
  <2>4. sess' = [sess EXCEPT ![o] = y]
    BY <2>2
  <2> HIDE DEF y
  <2>5. \A q \in Objects : Silent(q)
    <3> TAKE q \in Objects
    <3>1. sess'[q] = IF q = o THEN y ELSE sess[q]
      BY <2>4, TypesAtHand DEF IInv
    <3>2. sess[q].sid = None => sess[q].pc = "off"
      BY DEF VInv, Made
    <3> QED BY <2>3, <3>1, <3>2 DEF Silent
  <2> QED BY <2>2, <2>5, SilentTelling
<1> QED BY <1>1, <1>2

LEMMA RunTelling ==
  ASSUME IInv, SInv, VInv, IInv', SInv', NEW o \in Objects, Run(o)
  PROVE  VInv'
<1>1. CASE Tells(o)
  <2>1. PICK x \in SessType, phase \in Phases :
          /\ AddEvent(o, x, phase) /\ Fits(o, x)
          /\ sess[o].pc # "off"
          /\ sess[o].cancelled => phase \in Final
          /\ phase \in Final => x.pc = "off" \/ x.mode = "design"
    BY <1>1 DEF Tells
  <2>2. UNCHANGED registry /\ sess[o].sid # None
    BY <1>1, <2>1 DEF Tells, VInv, Made
  <2> QED BY <2>1, <2>2, AddEventTelling
<1>2. CASE Moves(o)
  <2>1. sess[o] \in SessType
    BY TypesAtHand DEF IInv
  <2>2. PICK y : /\ sess' = [sess EXCEPT ![o] = y]
                 /\ y.events = sess[o].events /\ y.status = sess[o].status /\ y.ends = sess[o].ends
                 /\ y.cancelled = sess[o].cancelled /\ y.sid = sess[o].sid /\ y.mode = sess[o].mode
    <3>1. CASE sess' = [sess EXCEPT ![o] = Stopped(@)]
      <4> DEFINE y == Stopped(sess[o])
      <4>1. /\ y.events = sess[o].events /\ y.status = sess[o].status /\ y.ends = sess[o].ends
            /\ y.cancelled = sess[o].cancelled /\ y.sid = sess[o].sid /\ y.mode = sess[o].mode
        BY <2>1 DEF Stopped, SessType
      <4>2. sess' = [sess EXCEPT ![o] = y]
        BY <3>1
      <4> HIDE DEF y
      <4> QED BY <4>1, <4>2
    <3>2. CASE \E pc \in {"phase", "tail"} : sess' = [sess EXCEPT ![o].pc = pc]
      <4>1. PICK pc \in {"phase", "tail"} : sess' = [sess EXCEPT ![o].pc = pc]
        BY <3>2
      <4> DEFINE y == [sess[o] EXCEPT !.pc = pc]
      <4>2. /\ y.events = sess[o].events /\ y.status = sess[o].status /\ y.ends = sess[o].ends
            /\ y.cancelled = sess[o].cancelled /\ y.sid = sess[o].sid /\ y.mode = sess[o].mode
        BY <2>1 DEF SessType
      <4>3. sess' = [sess EXCEPT ![o] = y]
        BY <4>1
      <4> HIDE DEF y
      <4> QED BY <4>2, <4>3
    <3> QED BY <1>2, <3>1, <3>2 DEF Moves
  <2>3. sess[o].pc # "off" /\ UNCHANGED << registry, stream >>
    BY <1>2 DEF Moves
  <2>4. \A q \in Objects : Silent(q)
    <3> TAKE q \in Objects
    <3>1. sess'[q] = IF q = o THEN y ELSE sess[q]
      BY <2>2, TypesAtHand DEF IInv
    <3>2. sess[q].sid = None => sess[q].pc = "off"
      BY DEF VInv, Made
    <3> QED BY <2>2, <2>3, <3>1, <3>2 DEF Silent
  <2> QED BY <2>3, <2>4, SilentTelling
<1> QED BY <1>1, <1>2, RunTells

LEMMA NextTelling ==
  ASSUME IInv, SInv, VInv, IInv', SInv', [Next]_vars PROVE VInv'
<1>1. CASE UNCHANGED vars
  <2>1. \A q \in Objects : Silent(q)
    BY <1>1 DEF vars, Silent, VInv, Made
  <2> QED BY <1>1, <2>1, SilentTelling DEF vars
<1>2. ASSUME NEW s \in Sids, Cancel(s)
      PROVE  VInv'
  <2>1. PICK o \in Objects, x \in SessType :
          /\ AddEvent(o, x, sess[o].status) /\ Fits(o, x)
          /\ sess[o].status \in Phases /\ x.cancelled /\ o = registry[s]
    BY <1>2, CancelTells
  <2>2. sess[o].sid # None /\ UNCHANGED registry
    BY <1>2, <2>1, CancelTells DEF Cancel, VInv, Made
  <2> QED BY <2>1, <2>2, AddEventTelling
<1> QED BY <1>1, <1>2, RunTelling, UserTelling, ServeTelling, ConnectTelling DEF Next

LEMMA AlwaysVInv == Spec => [](IInv /\ SInv /\ VInv)
<1>1. Init => VInv
  BY DEF Init, VInv, Made, Known, NoSession, NoStream, Open, EndsKnown
<1>2. ASSUME IInv, SInv, VInv, [Next]_vars, IInv', SInv' PROVE VInv'
  BY <1>2, NextTelling
<1> QED BY <1>1, <1>2, AlwaysSInv, PTL DEF Spec

\* A stream that is at the end of its replay, or was sent a last event, was sent
\* the end of a run.
LEMMA EndIsTold ==
  ASSUME IInv, SInv, VInv, NEW c \in Streams, stream[c].got # << >>,
         sess[stream[c].obj].mode # "design",
         LET x == sess[stream[c].obj]
         IN  \/ stream[c].pc = "ending"
             \/ x.status \in Final /\ stream[c].pc = "open"
             \/ x.status \in Final /\ stream[c].pc = "replay" /\ ~ stream[c].at <= Len(x.events)
  PROVE  TellsEnd(stream[c], sess[stream[c].obj])
<1> DEFINE s == stream[c]
           o == s.obj
           e == sess[o].events
           n == Len(e)
           p == s.at - 1
<1>1. s \in StreamType /\ o \in Objects /\ InStep(s, e)
  BY TypesAtHand DEF IInv, SInv, StreamsInStep, Open
<1>2. e \in Seq(Phases) /\ sess[o].status \in Phases
  BY <1>1, TypesAtHand DEF IInv, SessType
<1>3. Covers(s, e, n, n - Len(s.queue), p)
  BY <1>1 DEF InStep
<1>4. CASE s.pc = "ending"
  BY <1>4 DEF VInv, Open, Telling, TellsNoEnd
<1>5. CASE s.pc \in {"open", "replay"}
  <2> DEFINE d == n - Len(s.queue)
             l == Len(s.got)
  <2>1. n \in Nat /\ p \in Nat /\ d \in Nat /\ s.since \in Nat /\ s.at \in Nat /\ l \in Nat
        /\ s.got \in Seq(Nat)
    <3>1. n \in Nat /\ p \in Nat /\ d \in Nat
      BY <1>1, <1>2, CoverBounds
    <3>2. s.since \in Nat /\ s.at \in Nat /\ l \in Nat /\ s.got \in Seq(Nat)
      BY <1>1, StreamTyped
    <3> QED BY <3>1, <3>2
  <2>2. /\ p \in 0 .. n /\ d = s.since /\ l = p + (d - s.since)
        /\ \A k \in 1 .. p : s.got[k] = k
        /\ s.pc = "open" => p = 0
    BY <1>3, <1>5 DEF Covers
  <2>3. l # 0
    BY <2>1
  <2>4. s.pc = "replay" => ~ s.at <= n
    BY <1>5
  <2>5. sess[o].status \in Final
    BY <1>5
  <2>6. e # << >> => sess[o].status = e[n]
    BY <1>1 DEF SInv, StatusIsLast
  <2>7. p = s.at - 1
    OBVIOUS
  <2>8. /\ n # 0 => e # << >>
        /\ \A i \in 1 .. n : e[i] \in Final => \E k \in 1 .. i : k \in sess[o].ends
    <3>1. EndsKnown(sess[o])
      BY <1>1 DEF VInv
    <3> QED BY <3>1 DEF EndsKnown
  <2> HIDE DEF s, e, n, p, d, l
  <2>9. l = p /\ p # 0
    BY <2>1, <2>2, <2>3
  <2>10. p = n
    BY <1>5, <2>1, <2>2, <2>4, <2>7, <2>9
  <2>11. n \in 1 .. n
    BY <2>1, <2>9, <2>10
  <2>12. e[n] \in Final
    BY <2>5, <2>6, <2>8, <2>9, <2>10
  <2>13. PICK k \in 1 .. n : k \in sess[o].ends
    BY <2>8, <2>11, <2>12
  <2>14. k \in 1 .. l /\ s.got[k] = k
    BY <2>2, <2>9, <2>10
  <2>15. \E j \in 1 .. Len(s.got) : s.got[j] \in sess[o].ends
    BY <2>13, <2>14 DEF l
  <2> QED BY <2>15 DEF TellsEnd, s
<1> QED BY <1>4, <1>5

\* A stream the server ends, and on which anything was sent at all, has told the
\* client of an end of a run of its session -- not an error a phase reports and
\* the run survives, nor a cancel request that repeats the last phase -- unless
\* it watched a design run (stream_progress, _run, add_event).
THEOREM VerdictIsTold == Spec => EndsWithVerdict
<1>1. ASSUME IInv, SInv, VInv, [Next]_vars, NEW c \in Streams,
             stream'[c].pc = "closed", stream[c].got # << >>,
             sess[stream[c].obj].mode # "design"
      PROVE  TellsEnd(stream[c], sess[stream[c].obj])
  <2>1. Open(c) /\ stream[c].pc # "closed"
    BY <1>1 DEF SInv, StreamsInStep, Open
  <2>2. ASSUME NEW d \in Streams, NEW y, stream' = [stream EXCEPT ![d] = y], y.pc # "closed"
        PROVE  FALSE
    BY <1>1, <2>1, <2>2, TypesAtHand DEF IInv
  <2>3. ASSUME NEW d \in Streams, NEW how, Close(d, how)
        PROVE  d = c /\ how = "closed"
    <3> DEFINE y == [NoStream EXCEPT !.pc = how]
    <3>1. stream' = [stream EXCEPT ![d] = y] /\ y.pc = how
      BY <2>3 DEF Close, NoStream
    <3> HIDE DEF y
    <3> QED BY <1>1, <2>1, <3>1, TypesAtHand DEF IInv
  <2>4. ASSUME NEW o \in Objects, NEW x \in SessType, NEW phase \in Phases, AddEvent(o, x, phase)
        PROVE  FALSE
    <3> DEFINE q == Append(stream[c].queue, Len(x.events) + 1)
               y == [stream[c] EXCEPT !.queue = q]
    <3>1. y.pc = stream[c].pc
      BY TypesAtHand, <1>1 DEF IInv, StreamType
    <3>2. stream'[c] = y \/ stream'[c] = stream[c]
      BY <2>4 DEF AddEvent
    <3> HIDE DEF y
    <3> QED BY <1>1, <2>1, <3>1, <3>2
  <2>5. stream' # stream
    BY <1>1, <2>1
  <2>6. ASSUME NEW o \in Objects, Run(o) PROVE FALSE
    BY <1>1, <2>4, <2>5, <2>6, RunTells DEF Tells, Moves
  <2>7. ASSUME NEW s \in Sids, Cancel(s) PROVE FALSE
    BY <1>1, <2>4, <2>7, CancelTells
  <2>8. ASSUME NEW s \in Sids,
               Pause(s) \/ Resume(s) \/ \E mode \in Modes : CreateSession(s, mode)
        PROVE  FALSE
    BY <2>5, <2>8 DEF Pause, Resume, CreateSession
  <2>9. ASSUME NEW d \in Streams, NEW s \in Sids, NEW again \in BOOLEAN, Connect(d, s, again)
        PROVE  FALSE
    <3> DEFINE y == [NoStream EXCEPT !.pc = "open", !.obj = registry[s], !.again = again,
                                     !.since = Len([sess[registry[s]] EXCEPT !.queues = @ \union {d}].events)]
    <3>1. stream' = [stream EXCEPT ![d] = y]
      BY <2>9 DEF Connect
    <3>2. y.pc = "open"
      BY DEF NoStream
    <3> HIDE DEF y
    <3> QED BY <2>2, <3>1, <3>2
  <2>10. ASSUME NEW d \in Streams, Leave(d) PROVE FALSE
    <3> DEFINE y == [stream[d] EXCEPT !.pc = "gone"]
    <3>1. y.pc = "gone"
      BY <1>1, TypesAtHand DEF IInv, StreamType
    <3>2. CASE stream' = [stream EXCEPT ![d] = y]
      <4> HIDE DEF y
      <4> QED BY <2>2, <3>1, <3>2
    <3> QED BY <2>3, <2>10, <3>2 DEF Leave
  <2>11. ASSUME NEW d \in Streams, Deliver(d) PROVE FALSE
    <3> DEFINE i == Head(stream[d].queue)
               h == IF sess[stream[d].obj].events[i] \in Final THEN "ending" ELSE stream[d].pc
               y == [stream[d] EXCEPT !.got = Append(@, i), !.queue = Tail(@), !.pc = h]
    <3>1. stream[d] \in StreamType /\ h # "closed"
      BY <1>1, <2>11, TypesAtHand DEF IInv, Deliver
    <3>2. stream' = [stream EXCEPT ![d] = y]
      BY <2>11, <3>1 DEF Deliver, StreamType
    <3>3. y.pc = h
      BY <3>1 DEF StreamType
    <3> HIDE DEF y, h
    <3> QED BY <2>2, <3>1, <3>2, <3>3
  <2>12. ASSUME NEW d \in Streams, GoLive(d, stream[d])
         PROVE  d = c /\ sess[stream[d].obj].status \in Final
    <3> DEFINE y == [stream[d] EXCEPT !.pc = "live"]
    <3>1. y.pc = "live"
      BY <1>1, TypesAtHand DEF IInv, StreamType
    <3>2. CASE stream' = [stream EXCEPT ![d] = y]
      <4> HIDE DEF y
      <4> QED BY <2>2, <3>1, <3>2
    <3> QED BY <2>3, <2>12, <3>2 DEF GoLive
  <2>13. ASSUME NEW d \in Streams, StartGenerator(d)
         PROVE  d = c /\ sess[stream[d].obj].status \in Final /\ stream[d].pc = "open"
    <3> DEFINE y == [stream[d] EXCEPT !.pc = "replay"]
    <3>1. y.pc = "replay"
      BY <1>1, TypesAtHand DEF IInv, StreamType
    <3>2. CASE stream' = [stream EXCEPT ![d] = y]
      <4> HIDE DEF y
      <4> QED BY <2>2, <3>1, <3>2
    <3> QED BY <2>12, <2>13, <3>2 DEF StartGenerator
  <2>14. ASSUME NEW d \in Streams, Replay(d)
         PROVE  /\ d = c /\ sess[stream[d].obj].status \in Final /\ stream[d].pc = "replay"
                /\ ~ stream[d].at <= Len(sess[stream[d].obj].events)
    <3> DEFINE y == [stream[d] EXCEPT !.got = Append(@, stream[d].at), !.at = @ + 1]
    <3>1. y.pc = stream[d].pc
      BY <1>1, TypesAtHand DEF IInv, StreamType
    <3>2. CASE stream' = [stream EXCEPT ![d].got = Append(@, stream[d].at), ![d].at = @ + 1]
      <4>1. stream' = [stream EXCEPT ![d] = y]
        BY <1>1, <3>2, TypesAtHand DEF IInv, StreamType
      <4>2. y.pc = "replay"
        BY <2>14, <3>1 DEF Replay
      <4> HIDE DEF y
      <4> QED BY <2>2, <4>1, <4>2
    <3> QED BY <2>12, <2>14, <3>2 DEF Replay
  <2>15. ASSUME NEW d \in Streams, End(d)
         PROVE  d = c /\ stream[d].pc = "ending"
    BY <2>3, <2>15 DEF End
  <2>16. ASSUME NEW d \in Streams, Serve(d)
         PROVE  LET x == sess[stream[c].obj]
                IN  \/ stream[c].pc = "ending"
                    \/ x.status \in Final /\ stream[c].pc = "open"
                    \/ x.status \in Final /\ stream[c].pc = "replay"
                       /\ ~ stream[c].at <= Len(x.events)
    BY <2>11, <2>13, <2>14, <2>15, <2>16 DEF Serve
  <2>17. \E d \in Streams : Serve(d)
    BY <1>1, <2>5, <2>6, <2>7, <2>8, <2>9, <2>10 DEF Next, vars
  <2> QED BY <1>1, <2>16, <2>17, EndIsTold
<1>2. IInv /\ SInv /\ VInv /\ [Next]_vars =>
        [ \A c \in Streams :
            LET got == stream[c].got
                x   == sess[stream[c].obj]
            IN  (stream'[c].pc = "closed" /\ got # << >> /\ x.mode # "design") =>
                  \E k \in 1 .. Len(got) : got[k] \in x.ends ]_vars
  BY <1>1 DEF TellsEnd
<1> QED BY <1>2, AlwaysVInv, PTL DEF Spec, EndsWithVerdict
=============================================================================
