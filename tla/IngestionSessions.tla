-------------------------- MODULE IngestionSessions --------------------------
(***************************************************************************)
(* Ingestion runs and the progress streams that watch them.  An upload     *)
(* makes a session; the first stream of a session starts its workflow in a *)
(* task of its own; the workflow's events are stored in the session and    *)
(* put into the queue of every open stream; a stream that ends last, after *)
(* the workflow did, deletes the session.  The user may pause, resume and  *)
(* cancel, and streams come and go.                                        *)
(*                                                                         *)
(* Everything runs on one event loop: an action is what happens between    *)
(* two awaits.  The workflow is one of three: the full one and the one for *)
(* chosen user stories ("design") go through _run_phase, which knows pause *)
(* and cancel; the hybrid one does not.  What its phases write is left out *)
(* but for the events they yield, of which there are at most MaxWork, and  *)
(* so are tokens and the texts of the events.                              *)
(***************************************************************************)
EXTENDS Naturals, Sequences, FiniteSets

CONSTANTS
  Sids,        \* session ids
  Streams,     \* requests for /stream, each made once
  MaxObjects,  \* bound on the sessions ever created
  MaxWork,     \* bound on the events a workflow yields before the last one
  MaxRuns,     \* bound on the runs of one session
  MaxCancels,  \* bound on the cancel requests for one session
  None

ASSUME ConstantsAssumption ==
  /\ MaxObjects \in Nat /\ MaxWork \in Nat
  /\ MaxRuns \in Nat /\ MaxCancels \in Nat
  /\ None \notin Sids \union Nat

VARIABLES
  registry,  \* _sessions
  sess,      \* IngestionSession objects, each with the task that runs it
  stream     \* stream_progress requests: their queue and generator

vars == << registry, sess, stream >>

Objects == 1 .. MaxObjects
Modes   == {"full", "design", "hybrid"}
Phases  == {"upload", "work", "paused", "complete", "error"}
Final   == {"complete", "error"}

\* pc: the task was created ("ready"), awaits in a phase ("phase"), waits for
\* the end of a pause with an event in hand ("held"), or is past the last
\* phase ("tail").  ends, a history of the model: the events, by their place, with
\* which a run ended.
NoSession == [sid |-> None, mode |-> "full", status |-> "upload", events |-> << >>,
              paused |-> FALSE, cancelled |-> FALSE, suspend |-> "running",
              running |-> FALSE, queues |-> {}, pc |-> "off", work |-> 0,
              runs |-> 0, cancels |-> 0, ends |-> {}]

\* got: the events sent, by their place in the session's list; since: how many
\* there were when the queue was made; at: the event to replay next.
NoStream == [pc |-> "off", obj |-> None, again |-> FALSE, queue |-> << >>,
             got |-> << >>, since |-> 0, at |-> 1]

Open(c) == stream[c].pc \in {"open", "replay", "live", "ending"}

\* Nobody takes the queue of a client that was gone before its generator began.
Queued(c) == Open(c) \/ stream[c].pc = "gone"

TypeOK ==
  /\ registry \in [Sids -> Objects \union {None}]
  /\ sess \in [Objects -> [sid: Sids \union {None}, mode: Modes, status: Phases,
                           events: Seq(Phases), paused: BOOLEAN, cancelled: BOOLEAN,
                           suspend: {"running", "suspending", "suspended"},
                           running: BOOLEAN, queues: SUBSET Streams,
                           pc: {"off", "ready", "phase", "held", "tail"},
                           work: 0 .. MaxWork, runs: 0 .. MaxRuns,
                           cancels: 0 .. MaxCancels, ends: SUBSET Nat]]
  /\ stream \in [Streams -> [pc: {"off", "open", "replay", "live", "ending", "closed", "left",
                                  "gone"},
                             obj: Objects \union {None}, again: BOOLEAN, queue: Seq(Nat),
                             got: Seq(Nat), since: Nat, at: Nat]]
  /\ \A o \in Objects : /\ sess[o].running <=> sess[o].pc # "off"
                        /\ sess[o].queues = {c \in Streams : stream[c].obj = o /\ Queued(c)}

Init ==
  /\ registry = [s \in Sids |-> None]
  /\ sess = [o \in Objects |-> NoSession]
  /\ stream = [c \in Streams |-> NoStream]

Known(s) == registry[s] # None
Used(s)  == \E o \in Objects : sess[o].sid = s

-----------------------------------------------------------------------------
(* Sessions and events *)

\* create_session: upload and design give a fresh id, the promotion of a hybrid
\* session gives its own id again, and what was registered is replaced.
CreateSession(s, mode) ==
  /\ Used(s) => mode = "full" /\ \E o \in Objects : sess[o].sid = s /\ sess[o].mode = "hybrid"
  /\ \E o \in Objects :
       /\ sess[o].sid = None /\ \A x \in 1 .. o - 1 : sess[x].sid # None
       /\ sess' = [sess EXCEPT ![o].sid = s, ![o].mode = mode]
       /\ registry' = [registry EXCEPT ![s] = o]
  /\ UNCHANGED stream

\* add_event: x is the session with whatever else the step changes in it.
AddEvent(o, x, phase) ==
  /\ sess' = [sess EXCEPT ![o] =
       [x EXCEPT !.events = Append(@, phase), !.status = phase,
                 !.ends = IF sess[o].pc # "off" /\ x.pc = "off"
                          THEN @ \union {Len(x.events) + 1} ELSE @]]
  /\ stream' = [c \in Streams |->
       IF c \in x.queues
       THEN [stream[c] EXCEPT !.queue = Append(@, Len(x.events) + 1)]
       ELSE stream[c]]

\* Mutant: the flag stays.
StoppedButRunning(x) == [x EXCEPT !.pc = "off"]

\* _run's finally.
Stopped(x) == [x EXCEPT !.running = FALSE, !.pc = "off"]

\* Mutant: an event is added without a look at is_cancelled.
YieldUnchecked(o, x, phase) ==
  AddEvent(o, IF phase \in Final THEN Stopped(x) ELSE x, phase)

\* _run takes the event its workflow yields.
Yield(o, x, phase) ==
  IF x.cancelled THEN AddEvent(o, Stopped(x), "error")
  ELSE AddEvent(o, IF phase = "complete" THEN Stopped(x) ELSE x, phase)

-----------------------------------------------------------------------------
(* The workflow's task *)

\* get_llm, clear_event_storming_nodes and the first event.
BeginRun(o) ==
  /\ sess[o].pc = "ready"
  /\ Yield(o, [sess[o] EXCEPT !.pc = "phase"], "work")
  /\ UNCHANGED registry

\* The graph is cleared, or a design run starts, and nothing is yielded yet.
BeginRunSilently(o) ==
  /\ sess[o].pc = "ready"
  /\ sess' = [sess EXCEPT ![o].pc = "phase"]
  /\ UNCHANGED << registry, stream >>

\* An exception before the workflow's own handlers; of a cancelled session
\* nothing is told, but for a hybrid one.
BeginRunFails(o) ==
  /\ sess[o].pc = "ready"
  /\ IF sess[o].cancelled /\ sess[o].mode # "hybrid"
     THEN sess' = [sess EXCEPT ![o] = Stopped(@)] /\ UNCHANGED stream
     ELSE AddEvent(o, Stopped(sess[o]), "error")
  /\ UNCHANGED registry

\* _run_phase: a phase yields an event (the hybrid workflow yields it as it is).
PhaseYields(o) ==
  LET x == sess[o] IN
  /\ x.pc = "phase" /\ x.work < MaxWork
  /\ IF x.mode = "hybrid"
     THEN Yield(o, [x EXCEPT !.work = @ + 1], "work")
     ELSE IF x.cancelled THEN Yield(o, [x EXCEPT !.suspend = "suspended"], "error")
     ELSE IF x.paused /\ x.status # "paused" THEN Yield(o, [x EXCEPT !.pc = "held"], "paused")
     ELSE Yield(o, [x EXCEPT !.work = @ + 1], "work")
  /\ UNCHANGED registry

\* The ERROR event of a phase: the full workflow returns, the design workflow
\* takes the next phase.
YieldError(o, x) ==
  IF x.mode = "design" /\ ~ x.cancelled THEN AddEvent(o, x, "error")
  ELSE AddEvent(o, Stopped(x), "error")

PhaseReportsError(o) ==
  LET x == sess[o] IN
  /\ x.pc = "phase" /\ x.mode # "hybrid" /\ x.work < MaxWork
  /\ IF x.cancelled THEN Yield(o, [x EXCEPT !.suspend = "suspended"], "error")
     ELSE IF x.paused /\ x.status # "paused" THEN Yield(o, [x EXCEPT !.pc = "held"], "paused")
     ELSE YieldError(o, [x EXCEPT !.work = @ + 1])
  /\ UNCHANGED registry

\* Mutant: the pause is waited for once only.
PauseEndsAnyway(o) ==
  /\ sess[o].pc = "held"
  /\ LET x == [sess[o] EXCEPT !.pc = "phase", !.work = @ + 1]
     IN  Yield(o, x, "work") \/ YieldError(o, x)
  /\ UNCHANGED registry

\* wait_if_paused sees that the pause is over; the event in hand is yielded.
PauseEnds(o) ==
  /\ sess[o].pc = "held" /\ ~ sess[o].paused
  /\ LET x == [sess[o] EXCEPT !.pc = "phase", !.work = @ + 1]
     IN  Yield(o, x, "work") \/ YieldError(o, x)
  /\ UNCHANGED registry

\* session_call_slot: no LLM call is begun once the session is cancelled.  Only
\* the full workflow turns the CancelledError into an event of its own.
GateFires(o) ==
  /\ sess[o].pc = "phase" /\ sess[o].mode # "hybrid" /\ sess[o].cancelled
  /\ Yield(o, [sess[o] EXCEPT !.suspend = IF sess[o].mode = "full" THEN "suspended" ELSE @],
           "error")
  /\ UNCHANGED registry

\* A phase raises, or the synchronisation after a pause, or the hook below: one
\* event, and the workflow is over.
PhaseRaises(o) ==
  /\ \/ sess[o].pc = "phase"
     \/ sess[o].pc = "held" /\ ~ sess[o].paused
     \/ sess[o].pc = "tail" /\ sess[o].mode = "full"
  /\ AddEvent(o, Stopped(sess[o]), "error")
  /\ UNCHANGED registry

\* The last phase is over.  What follows knows no pause: hybrid_post_workflow_hook,
\* the tagging of the nodes, and in a thread the repair of the coverage.
PhasesEnd(o) ==
  /\ sess[o].pc = "phase"
  /\ sess' = [sess EXCEPT ![o].pc = "tail"]
  /\ UNCHANGED << registry, stream >>

HookYields(o) ==
  /\ sess[o].pc = "tail" /\ sess[o].mode = "full" /\ sess[o].work < MaxWork
  /\ Yield(o, [sess[o] EXCEPT !.work = @ + 1], "work")
  /\ UNCHANGED registry

Complete(o) ==
  /\ sess[o].pc = "tail"
  /\ Yield(o, sess[o], "complete")
  /\ UNCHANGED registry

-----------------------------------------------------------------------------
(* The user *)

Pause(s) ==
  /\ Known(s)
  /\ sess' = [sess EXCEPT ![registry[s]].paused = TRUE]
  /\ UNCHANGED << registry, stream >>

Resume(s) ==
  /\ Known(s) /\ sess[registry[s]].paused
  /\ sess' = [sess EXCEPT ![registry[s]].paused = FALSE]
  /\ UNCHANGED << registry, stream >>

\* The event tells the request, under the phase the session is in.
Cancel(s) ==
  /\ Known(s) /\ sess[registry[s]].cancels < MaxCancels
  /\ LET x == sess[registry[s]]
     IN  AddEvent(registry[s], [x EXCEPT !.cancelled = TRUE, !.paused = FALSE,
                                         !.suspend = "suspending", !.cancels = @ + 1],
                  x.status)
  /\ UNCHANGED registry

-----------------------------------------------------------------------------
(* Streams *)

\* stream_progress up to its return: the queue is made, and the workflow is
\* started unless it is running.
Connect(c, s, again) ==
  /\ Known(s) /\ stream[c].pc = "off"
  /\ LET o == registry[s]
         x == [sess[o] EXCEPT !.queues = @ \union {c}]
     IN  /\ x.running \/ x.runs < MaxRuns
         /\ sess' = [sess EXCEPT ![o] =
              IF x.running THEN x
              ELSE [x EXCEPT !.running = TRUE, !.pc = "ready", !.runs = @ + 1, !.work = 0]]
         /\ stream' = [stream EXCEPT ![c] =
              [NoStream EXCEPT !.pc = "open", !.obj = o, !.again = again,
                               !.since = Len(x.events)]]
  /\ UNCHANGED registry

\* event_generator's finally: by id, whatever is registered under it by now.
Close(c, how) ==
  LET o == stream[c].obj
      x == [sess[o] EXCEPT !.queues = @ \ {c}]
  IN  /\ sess' = [sess EXCEPT ![o] = x]
      /\ registry' = IF x.status \in Final /\ x.queues = {}
                     THEN [registry EXCEPT ![x.sid] = None] ELSE registry
      /\ stream' = [stream EXCEPT ![c] = [NoStream EXCEPT !.pc = how]]

\* Mutant: nor is one that was cancelled.
GoLiveUnlessCancelled(c, next) ==
  IF sess[stream[c].obj].status \in Final \/ sess[stream[c].obj].cancelled
  THEN Close(c, "closed")
  ELSE /\ stream' = [stream EXCEPT ![c] = [next EXCEPT !.pc = "live"]]
       /\ UNCHANGED << registry, sess >>

\* Past the replay: a session that is over is not waited for.
GoLive(c, next) ==
  IF sess[stream[c].obj].status \in Final
  THEN Close(c, "closed")
  ELSE /\ stream' = [stream EXCEPT ![c] = [next EXCEPT !.pc = "live"]]
       /\ UNCHANGED << registry, sess >>

\* Mutant: the queue is made by the generator, not by the handler.
StartGeneratorWithQueue(c) ==
  /\ stream[c].pc = "open"
  /\ IF stream[c].again /\ sess[stream[c].obj].events # << >>
     THEN /\ stream' = [stream EXCEPT ![c].pc = "replay", ![c].queue = << >>]
          /\ UNCHANGED << registry, sess >>
     ELSE GoLive(c, [stream[c] EXCEPT !.queue = << >>])

StartGenerator(c) ==
  /\ stream[c].pc = "open"
  /\ IF stream[c].again /\ sess[stream[c].obj].events # << >>
     THEN stream' = [stream EXCEPT ![c].pc = "replay"] /\ UNCHANGED << registry, sess >>
     ELSE GoLive(c, stream[c])

\* `for stored in session.events` walks the list as it is by then.
Replay(c) ==
  /\ stream[c].pc = "replay"
  /\ IF stream[c].at <= Len(sess[stream[c].obj].events)
     THEN /\ stream' = [stream EXCEPT ![c].got = Append(@, stream[c].at), ![c].at = @ + 1]
          /\ UNCHANGED << registry, sess >>
     ELSE GoLive(c, stream[c])

\* Mutant: only the end of a run that was completed ends a stream.
DeliverUntilComplete(c) ==
  /\ stream[c].pc = "live" /\ stream[c].queue # << >>
  /\ LET e == Head(stream[c].queue)
     IN  stream' = [stream EXCEPT ![c].got = Append(@, e), ![c].queue = Tail(@),
                      ![c].pc = IF sess[stream[c].obj].events[e] = "complete"
                                THEN "ending" ELSE @]
  /\ UNCHANGED << registry, sess >>

\* The queue's next event is sent; a last one ends the stream.
Deliver(c) ==
  /\ stream[c].pc = "live" /\ stream[c].queue # << >>
  /\ LET e == Head(stream[c].queue)
     IN  stream' = [stream EXCEPT ![c].got = Append(@, e), ![c].queue = Tail(@),
                      ![c].pc = IF sess[stream[c].obj].events[e] \in Final
                                THEN "ending" ELSE @]
  /\ UNCHANGED << registry, sess >>

End(c) ==
  /\ stream[c].pc = "ending"
  /\ Close(c, "closed")

\* The client goes away: the generator's finally runs if the generator began.
Leave(c) ==
  \/ stream[c].pc \in {"replay", "live"} /\ Close(c, "left")
  \/ /\ stream[c].pc = "open"
     /\ stream' = [stream EXCEPT ![c].pc = "gone"]
     /\ UNCHANGED << registry, sess >>

-----------------------------------------------------------------------------

Run(o) == \/ BeginRun(o) \/ BeginRunSilently(o) \/ BeginRunFails(o)
          \/ PhaseYields(o) \/ PauseEnds(o) \/ GateFires(o) \/ PhaseRaises(o)
          \/ PhaseReportsError(o) \/ PhasesEnd(o) \/ HookYields(o) \/ Complete(o)

Serve(c) == StartGenerator(c) \/ Replay(c) \/ Deliver(c) \/ End(c)

Next ==
  \/ \E s \in Sids, mode \in Modes : CreateSession(s, mode)
  \/ \E s \in Sids : Pause(s) \/ Resume(s) \/ Cancel(s)
  \/ \E o \in Objects : Run(o)
  \/ \E c \in Streams, s \in Sids, again \in BOOLEAN : Connect(c, s, again)
  \/ \E c \in Streams : Serve(c) \/ Leave(c)

Spec == Init /\ [][Next]_vars

\* The event loop runs every task that can go on.
Fairness == /\ \A o \in Objects : WF_vars(Run(o))
            /\ \A c \in Streams : WF_vars(Serve(c))

FairSpec == Spec /\ Fairness

-----------------------------------------------------------------------------
(* Properties *)

\* A stream is sent every event of its session from its connection on, in
\* order and once; a stream that reconnects is sent the earlier ones first and
\* no gap is left between the two -- events that come while it replays may be
\* sent twice -- however the run, the user and other streams interleave.
NothingMissed ==
  \A c \in Streams :
    LET y    == stream[c]
        told == y.got \o y.queue           \* what it was and will be sent
        past == IF y.again THEN y.at - 1 ELSE 0
    IN  Open(c) =>
          /\ \A i \in 1 .. Len(told) :
               IF i <= past THEN told[i] = i
               ELSE IF i = past + 1 THEN told[i] = y.since + 1
               ELSE told[i] = told[i - 1] + 1
          /\ y.pc \in {"live", "ending"} => past >= IF y.again THEN y.since ELSE 0
          /\ told # << >> => \/ told[Len(told)] = Len(sess[y.obj].events)
                             \/ y.pc = "replay" /\ y.queue = << >>

\* A stream the server ends, and on which anything was sent at all, has told
\* the client of an end of a run of its session.  A design run, whose phases may
\* report an error and go on, is left out; so is a stream on which nothing was
\* sent, because the run was over before the generator began.
EndsWithVerdict ==
  [][ \A c \in Streams :
        LET got == stream[c].got
            x   == sess[stream[c].obj]
        IN  (stream'[c].pc = "closed" /\ got # << >> /\ x.mode # "design") =>
              \E k \in 1 .. Len(got) : got[k] \in x.ends ]_vars

NewEvent(o) == /\ Len(sess'[o].events) > Len(sess[o].events)
               /\ sess'[o].status # sess[o].status

\* Once a run was cancelled it does not end as completed, not even when the
\* last phase was already over.
CancelWins ==
  [][ \A o \in Objects : sess[o].cancelled /\ NewEvent(o) => sess'[o].status # "complete" ]_vars

\* Between the event that tells of a pause and the end of the pause the run
\* tells of no progress.
PausedHolds ==
  [][ \A o \in Objects : sess[o].paused /\ sess[o].status = "paused" => ~ NewEvent(o) ]_vars

\* A cancelled run that failed at its start tells nobody.
Mute(o) == sess[o].cancelled /\ ~ sess[o].running /\ sess[o].status \notin Final

\* A stream does not stay open for ever, unless the user pauses the run and
\* does not resume it, or the run ended mute.
StreamEnds ==
  \A c \in Streams :
    Open(c) ~> ~ Open(c) \/ sess[stream[c].obj].paused \/ Mute(stream[c].obj)
=============================================================================
