----------------------------- MODULE PtySessions -----------------------------
(***************************************************************************)
(* The registry of claude terminals: each session keeps a process alive    *)
(* while WebSockets come and go.  A connection with a known session id     *)
(* takes the session over, is sent the scrollback and becomes the sink of  *)
(* its reader; a session whose process ends is unregistered by its reader; *)
(* sessions are killed by id when they are closed or reaped.               *)
(*                                                                         *)
(* Everything runs on one event loop, so an action is what happens between *)
(* two awaits.  The lock of a session is held over an await only while the *)
(* scrollback is sent (`replaying`).                                       *)
(*                                                                         *)
(* Output is a count of chunks, and the scrollback its last RingSize ones. *)
(* Input, window sizes and the text of the messages are left out.          *)
(***************************************************************************)
EXTENDS Integers, FiniteSets, Sequences

CONSTANTS
  Sids,         \* session ids the clients use
  Conns,        \* connections, each made once
  MaxObjects,   \* bound on the sessions ever created
  SessionMax,   \* _SESSION_MAX
  RingSize,     \* _RING_BYTES, in chunks
  MaxOutput,    \* bound on the chunks a process writes
  None

ASSUME ConstantsAssumption ==
  /\ MaxObjects \in Nat /\ SessionMax \in Nat \ {0}
  /\ RingSize \in Nat \ {0} /\ MaxOutput \in Nat
  /\ None \notin Sids \union Conns \union Nat

VARIABLES
  registry,   \* _sessions
  sess,       \* _PtySession objects, and the reader task and process of each
  conn,       \* handlers of terminal_ws
  doomed      \* session ids with a scheduled _destroy_session

vars == << registry, sess, conn, doomed >>

Objects == 1 .. MaxObjects
NewConn == [pc |-> "off", obj |-> None, snapshot |-> << >>, screen |-> << >>, gap |-> FALSE]
NoSess  == [sid |-> None, alive |-> FALSE, proc |-> "none", count |-> 0, ws |-> None,
            old |-> FALSE, reader |-> "none", to |-> None]

Chunks == Seq(1 .. MaxOutput)

TypeOK ==
  /\ registry \in [Sids -> Objects \union {None}]
  /\ sess \in [Objects -> [sid: Sids \union {None}, alive: BOOLEAN,
                           proc: {"none", "running", "exited", "killed"},
                           count: 0 .. MaxOutput, ws: Conns \union {None}, old: BOOLEAN,
                           reader: {"none", "reading", "sending", "last", "ending", "ended"},
                           to: Conns \union {None}]]
  /\ conn \in [Conns -> [pc: {"off", "waiting", "closing", "replaying", "open", "shut", "gone"},
                         obj: Objects \union {None}, snapshot: Chunks, screen: Chunks,
                         gap: BOOLEAN]]
  /\ doomed \subseteq Sids

Init ==
  /\ registry = [s \in Sids |-> None]
  /\ sess = [o \in Objects |-> NoSess]
  /\ conn = [c \in Conns |-> NewConn]
  /\ doomed = {}

Registered == {s \in Sids : registry[s] # None}
Locked(o)  == \E c \in Conns : conn[c].pc = "replaying" /\ conn[c].obj = o

\* Mutant: one byte too early.
RingOffByOne(o) ==
  LET dropped == IF sess[o].count > RingSize THEN sess[o].count - RingSize ELSE 0
  IN  [i \in 1 .. sess[o].count - dropped |-> dropped + i - 1]

\* The scrollback, oldest chunk first.
Ring(o) ==
  LET dropped == IF sess[o].count > RingSize THEN sess[o].count - RingSize ELSE 0
  IN  [i \in 1 .. sess[o].count - dropped |-> dropped + i]

-----------------------------------------------------------------------------
(* Ends of sessions *)

\* _reap_stale_sessions: the killing is scheduled, by session id.  `old`: the
\* session was created, attached or detached longer ago than the limit.
Stale == {s \in Registered : sess[registry[s]].ws = None /\ sess[registry[s]].old}

\* What it wrote, and how old it is, is of no interest any more.
Ended(o) ==
  [sess[o] EXCEPT !.alive = FALSE, !.reader = "ended", !.to = None, !.count = 0, !.old = FALSE,
                  !.proc = IF @ = "running" THEN "killed" ELSE @]

\* _destroy_session; it does not await.
Killed(S) ==
  /\ registry' = [s \in Sids |-> IF s \in S THEN None ELSE registry[s]]
  /\ sess' = [o \in Objects |->
       IF \E s \in S : registry[s] = o
       THEN Ended(o)
       ELSE sess[o]]

RunDestroy(s) ==
  /\ s \in doomed
  /\ Killed({s})
  /\ doomed' = doomed \ {s}
  /\ UNCHANGED conn

\* close_terminal_session.
Close(s) ==
  /\ registry[s] # None
  /\ Killed({s})
  /\ UNCHANGED << conn, doomed >>

\* list_terminal_sessions.
List ==
  /\ doomed' = doomed \union Stale
  /\ UNCHANGED << registry, sess, conn >>

\* reap_detached_sessions: no await between the look and the kill.
ReapDetached ==
  /\ Killed({s \in Registered : sess[registry[s]].ws = None})
  /\ UNCHANGED << conn, doomed >>

Age(o) ==
  /\ \E s \in Registered : registry[s] = o
  /\ sess' = [sess EXCEPT ![o].old = TRUE]
  /\ UNCHANGED << registry, conn, doomed >>

-----------------------------------------------------------------------------
(* terminal_ws: a new session *)

Create(c, s) ==
  /\ conn[c].pc = "off"
  /\ registry[s] # None => ~sess[registry[s]].alive
  /\ Cardinality(Registered) < SessionMax
  /\ doomed' = doomed \union Stale
  /\ \E o \in Objects :
       /\ sess[o] = NoSess /\ \A q \in 1 .. o - 1 : sess[q] # NoSess
       /\ sess' = [sess EXCEPT ![o] = [NoSess EXCEPT !.sid = s, !.alive = TRUE,
                                         !.proc = "running", !.ws = c, !.reader = "reading"]]
       /\ registry' = [registry EXCEPT ![s] = o]
       /\ conn' = [conn EXCEPT ![c].pc = "open", ![c].obj = o]

Refuse(c, s) ==
  /\ conn[c].pc = "off"
  /\ registry[s] # None => ~sess[registry[s]].alive
  /\ Cardinality(Registered) >= SessionMax
  /\ doomed' = doomed \union Stale
  /\ conn' = [conn EXCEPT ![c].pc = "gone"]
  /\ UNCHANGED << registry, sess >>

-----------------------------------------------------------------------------
(* terminal_ws: re-attach *)

\* Mutant: the connection becomes the sink when it takes the snapshot.
TakeOverAtOnce(c, o, waited) ==
  LET was == sess[o].ws IN
  /\ sess' = [sess EXCEPT ![o].ws = c]
  /\ conn' = [k \in Conns |->
       IF k = c THEN [conn[c] EXCEPT !.obj = o, !.snapshot = Ring(o),
                        !.gap = (was # None \/ waited),
                        !.pc = IF was # None \/ waited THEN "closing" ELSE "replaying"]
       ELSE IF k = was /\ conn[k].pc = "open" THEN [conn[k] EXCEPT !.pc = "shut"]
       ELSE conn[k]]

\* The first locked block, and old.close().  Nothing is awaited between the
\* snapshot and the replay when no connection has to be closed and nobody else
\* waits for the lock.
TakeOver(c, o, waited) ==
  LET was == sess[o].ws IN
  /\ sess' = [sess EXCEPT ![o].ws = None]
  /\ conn' = [k \in Conns |->
       IF k = c THEN [conn[c] EXCEPT !.obj = o, !.snapshot = Ring(o),
                        !.gap = (was # None \/ waited),
                        !.pc = IF was # None \/ waited THEN "closing" ELSE "replaying"]
       ELSE IF k = was /\ conn[k].pc = "open" THEN [conn[k] EXCEPT !.pc = "shut"]
       ELSE conn[k]]

Reattach(c, s) ==
  /\ conn[c].pc = "off"
  /\ registry[s] # None
  /\ LET o == registry[s] IN
       /\ sess[o].alive
       /\ \/ ~Locked(o) /\ TakeOver(c, o, FALSE)
          \/ Locked(o) /\ conn' = [conn EXCEPT ![c].pc = "waiting", ![c].obj = o]
                       /\ UNCHANGED sess
  /\ doomed' = doomed \union Stale
  /\ UNCHANGED registry

GetLock(c) ==
  /\ conn[c].pc = "waiting"
  /\ ~Locked(conn[c].obj)
  /\ TakeOver(c, conn[c].obj, TRUE)
  /\ UNCHANGED << registry, doomed >>

StartReplay(c) ==
  /\ conn[c].pc = "closing"
  /\ ~Locked(conn[c].obj)
  /\ conn' = [conn EXCEPT ![c].pc = "replaying"]
  /\ UNCHANGED << registry, sess, doomed >>

\* The scrollback is sent; the lock is released.
Attach(c) ==
  /\ conn[c].pc = "replaying"
  /\ conn' = [conn EXCEPT ![c].pc = "open", ![c].screen = @ \o conn[c].snapshot,
                          ![c].snapshot = << >>]
  /\ sess' = [sess EXCEPT ![conn[c].obj].ws = c, ![conn[c].obj].old = FALSE]
  /\ UNCHANGED << registry, doomed >>

\* The finally of the handler.
Disconnected(c, S) ==          \* what it showed is of no interest any more
  /\ conn' = [conn EXCEPT ![c] = [NewConn EXCEPT !.pc = "gone"]]
  /\ sess' = [o \in Objects |->
       IF o = conn[c].obj /\ S[o].ws = c THEN [S[o] EXCEPT !.ws = None, !.old = FALSE]
       ELSE S[o]]

\* The client goes away, or its socket was closed by another connection.
Disconnect(c) ==
  /\ conn[c].pc \in {"open", "shut"}
  /\ Disconnected(c, sess)
  /\ UNCHANGED << registry, doomed >>

\* A "close" message kills what has the session id now.
CloseMessage(c) ==
  /\ conn[c].pc \in {"open", "shut"}
  /\ \E s \in {sess[conn[c].obj].sid} :
       /\ registry' = [registry EXCEPT ![s] = None]
       /\ Disconnected(c, [o \in Objects |->
            IF registry[s] = o
            THEN Ended(o)
            ELSE sess[o]])
  /\ UNCHANGED doomed

-----------------------------------------------------------------------------
(* _session_reader *)

Exit(o) ==
  /\ sess[o].proc = "running"
  /\ sess' = [sess EXCEPT ![o].proc = "exited"]
  /\ UNCHANGED << registry, conn, doomed >>

\* `last`: the reader has the last chunk in hand, and has seen the end of input.
After(o) == IF sess[o].alive THEN "reading" ELSE "ending"

\* Mutant: the scrollback is appended to without the lock.
ReadChunkUnlocked(o) ==
  /\ sess[o].reader \in {"reading", "last"}
  /\ sess[o].count < MaxOutput
  /\ sess' = [sess EXCEPT ![o].count = @ + 1, ![o].to = sess[o].ws,
                          ![o].reader = IF sess[o].ws = None THEN After(o) ELSE "sending"]
  /\ UNCHANGED << registry, conn, doomed >>

ReadChunk(o) ==
  /\ sess[o].reader \in {"reading", "last"}
  /\ sess[o].count < MaxOutput                                   \* bound
  /\ ~Locked(o)
  /\ sess' = [sess EXCEPT ![o].count = @ + 1, ![o].to = sess[o].ws,
                          ![o].reader = IF sess[o].ws = None THEN After(o) ELSE "sending"]
  /\ UNCHANGED << registry, conn, doomed >>

\* To the connection that was the sink when the lock was released; sending on a
\* closed socket raises, and is passed over.
SendChunk(o) ==
  /\ sess[o].reader = "sending"
  /\ sess' = [sess EXCEPT ![o].reader = After(o), ![o].to = None]
  /\ conn' = [conn EXCEPT ![sess[o].to].screen =
       IF conn[sess[o].to].pc \in {"shut", "gone"} THEN @ ELSE Append(@, sess[o].count)]
  /\ UNCHANGED << registry, doomed >>

\* Mutant: the end of input is taken for "nothing to read".
ReadEofIdle(o) ==
  /\ sess[o].reader = "reading" /\ sess[o].proc = "exited"
  /\ UNCHANGED vars

ReadEof(o) ==
  /\ sess[o].reader = "reading" /\ sess[o].proc = "exited"
  /\ \E next \in {"ending"} \union (IF sess[o].count < MaxOutput THEN {"last"} ELSE {}) :
       sess' = [sess EXCEPT ![o].alive = FALSE, ![o].reader = next]
  /\ UNCHANGED << registry, conn, doomed >>

\* Mutant: whatever has the session id is unregistered.
EndReaderBySid(o) ==
  /\ sess[o].reader = "ending"
  /\ ~Locked(o)
  /\ registry' = [registry EXCEPT ![sess[o].sid] = None]
  /\ sess' = [sess EXCEPT ![o] = Ended(o)]
  /\ UNCHANGED << conn, doomed >>

\* The attached connection is told, and the session unregistered if it still is
\* the one with its id.
EndReader(o) ==
  /\ sess[o].reader = "ending"
  /\ ~Locked(o)
  /\ registry' = [s \in Sids |-> IF registry[s] = o THEN None ELSE registry[s]]
  /\ sess' = [sess EXCEPT ![o] = Ended(o)]
  /\ UNCHANGED << conn, doomed >>

-----------------------------------------------------------------------------

Attaching(c) == GetLock(c) \/ StartReplay(c) \/ Attach(c)

ConnStep(c) ==
  \/ \E s \in Sids : Create(c, s) \/ Refuse(c, s) \/ Reattach(c, s)
  \/ Attaching(c)
  \/ Disconnect(c)
  \/ CloseMessage(c)

ReaderStep(o) ==
  \/ SendChunk(o)
  \/ ReadEof(o)
  \/ sess[o].reader = "last" /\ ReadChunk(o)
  \/ EndReader(o)

Next ==
  \/ \E c \in Conns : ConnStep(c)
  \/ \E o \in Objects : Age(o) \/ Exit(o) \/ ReadChunk(o) \/ SendChunk(o) \/ ReadEof(o) \/ EndReader(o)
  \/ List
  \/ ReapDetached
  \/ \E s \in Sids : RunDestroy(s) \/ Close(s)

Spec == Init /\ [][Next]_vars

\* The event loop resumes what can go on, and a send ends: its client reads, or
\* its socket fails.
FairSpec ==
  /\ Spec
  /\ \A o \in Objects : WF_vars(ReaderStep(o))
  /\ \A c \in Conns : WF_vars(Attaching(c))
  /\ \A s \in Sids : WF_vars(RunDestroy(s))

-----------------------------------------------------------------------------
(* Properties *)

\* Every process that runs can be listed, closed and reaped: its session is the
\* one registered under its id, although a session that ends is replaced while
\* its reader is still on the way out (_session_reader, terminal_ws).
RunningIsRegistered ==
  \A o \in Objects : sess[o].proc = "running" => registry[sess[o].sid] = o

\* No connection is sent a chunk twice or out of order, although the scrollback
\* and the live output come from two tasks (the two locked blocks).
NothingRepeated ==
  \A c \in Conns : \A i \in 2 .. Len(conn[c].screen) :
    conn[c].screen[i - 1] < conn[c].screen[i]

\* A connection that created its session, or attached to one that nobody was
\* viewing, shows all its output from the first chunk it was sent; the one being
\* sent excepted (the lock held over the replay).
NothingLost ==
  \A o \in Objects :
    LET c == sess[o].ws IN
      c # None /\ ~conn[c].gap /\ conn[c].pc = "open" /\ sess[o].reader # "ended" =>
        LET shown == IF sess[o].to = c THEN sess[o].count - 1 ELSE sess[o].count
            seen  == conn[c].screen
        IN  \/ Len(seen) > 0 /\ \A i \in 1 .. Len(seen) : seen[i] = shown - Len(seen) + i
            \/ Len(seen) = 0 /\ shown = 0

\* A process that ends is forgotten, and its id free for a new session, whoever
\* attaches meanwhile (_session_reader).
ExitedIsForgotten ==
  \A o \in Objects :
    sess[o].proc = "exited" ~> \A s \in Sids : registry[s] # o
=============================================================================
