------------------------- MODULE PtySessions_proofs -------------------------
(***************************************************************************)
(* Proofs about PtySessions, for any numbers of session ids, connections,  *)
(* sessions and chunks, in two layers.  Registers: a process that runs has *)
(* a session that counts as alive, so it is never replaced under its id.   *)
(* Screens: connections, readers and the registry point at each other as   *)
(* the code assumes (Sink), nothing newer than the chunk being sent is on  *)
(* any screen, and a scrollback under way holds the lock, so that it stays *)
(* the end of the output (Shown).                                          *)
(***************************************************************************)
EXTENDS PtySessions, TLAPS

\* A sequence of chunks in order, without repetition; none newer than n; the
\* last ones of n.
Rising(s)  == \A i \in 2 .. Len(s) : s[i - 1] < s[i]
UpTo(s, n) == \A i \in 1 .. Len(s) : s[i] <= n
EndOf(s, n) ==
  \/ Len(s) > 0 /\ \A i \in 1 .. Len(s) : s[i] = n - Len(s) + i
  \/ Len(s) = 0 /\ n = 0

\* A process that runs has a session that counts as alive.
RunsAlive == \A o \in Objects : sess[o].proc = "running" => sess[o].alive /\ sess[o].sid \in Sids

\* The registry knows sessions that were created.
Known == \A s \in Sids : registry[s] # None => sess[registry[s]].reader # "none"

\* What a screen of c, attached to o, may hold by now.
Bound(c, o) == IF sess[o].to = c /\ conn[c].pc = "open" THEN sess[o].count - 1 ELSE sess[o].count

\* The sink of a session is an open connection to it, and shows the end of the
\* output; a chunk on its way goes to a connection that was the sink.
Sink(o) ==
  /\ sess[o].ws # None =>
       /\ conn[sess[o].ws].pc = "open" /\ conn[sess[o].ws].obj = o
       /\ ~ conn[sess[o].ws].gap /\ sess[o].reader # "ended" =>
            EndOf(conn[sess[o].ws].screen, Bound(sess[o].ws, o))
  /\ sess[o].to # None =>
       /\ sess[o].reader = "sending"
       /\ \/ conn[sess[o].to].pc \in {"shut", "gone"}
          \/ conn[sess[o].to].pc = "open" /\ conn[sess[o].to].obj = o
  /\ sess[o].reader = "sending" => sess[o].to # None

\* Nothing is on a screen before the scrollback is, nothing newer than the chunk
\* being sent is on it, and the scrollback stays the end of the output while it
\* is sent.
Shown(c) ==
  /\ Rising(conn[c].screen) /\ Rising(conn[c].snapshot)
  /\ conn[c].pc \notin {"open", "shut"} => conn[c].screen = << >>
  /\ conn[c].pc \in {"off", "waiting", "gone"} => conn[c].snapshot = << >>
  /\ conn[c].pc = "closing" => conn[c].gap
  /\ conn[c].pc \notin {"off", "gone"} =>
       /\ sess[conn[c].obj].reader # "none"
       /\ sess[conn[c].obj].reader # "ended" =>
            /\ UpTo(conn[c].snapshot, sess[conn[c].obj].count)
            /\ UpTo(conn[c].screen, Bound(c, conn[c].obj))
            /\ conn[c].pc = "replaying" /\ ~ conn[c].gap =>
                 EndOf(conn[c].snapshot, sess[conn[c].obj].count)

-----------------------------------------------------------------------------
(* Types *)

SessType == [sid: Sids \union {None}, alive: BOOLEAN,
             proc: {"none", "running", "exited", "killed"},
             count: 0 .. MaxOutput, ws: Conns \union {None}, old: BOOLEAN,
             reader: {"none", "reading", "sending", "last", "ending", "ended"},
             to: Conns \union {None}]

ConnType == [pc: {"off", "waiting", "closing", "replaying", "open", "shut", "gone"},
             obj: Objects \union {None}, snapshot: Chunks, screen: Chunks, gap: BOOLEAN]

\* A chunk is in hand while it is sent.
InHand == \A o \in Objects : sess[o].reader = "sending" => sess[o].count >= 1

LEMMA TypesAtHand ==
  ASSUME TypeOK
  PROVE  sess \in [Objects -> SessType] /\ conn \in [Conns -> ConnType]
BY DEF TypeOK, SessType, ConnType

LEMMA NewTyped == NoSess \in SessType /\ NewConn \in ConnType
BY ConstantsAssumption DEF NoSess, NewConn, SessType, ConnType, Chunks

LEMMA EndedTyped ==
  ASSUME TypeOK, NEW o \in Objects
  PROVE  /\ Ended(o) \in SessType
         /\ Ended(o).proc # "running" /\ Ended(o).reader = "ended" /\ ~ Ended(o).alive
         /\ Ended(o).sid = sess[o].sid /\ Ended(o).ws = sess[o].ws /\ Ended(o).to = None
<1> DEFINE p == IF sess[o].proc = "running" THEN "killed" ELSE sess[o].proc
<1>1. sess[o] \in SessType /\ p \in {"none", "exited", "killed"}
  BY TypesAtHand DEF SessType
<1>2. Ended(o) = [sess[o] EXCEPT !.alive = FALSE, !.reader = "ended", !.to = None,
                                 !.count = 0, !.old = FALSE, !.proc = p]
  BY DEF Ended
<1> HIDE DEF p
<1>3. Ended(o) \in SessType
  <2>1. Ended(o) = [sid |-> sess[o].sid, alive |-> FALSE, proc |-> p, count |-> 0,
                    ws |-> sess[o].ws, old |-> FALSE, reader |-> "ended", to |-> None]
    BY <1>1, <1>2 DEF SessType
  <2>2. 0 \in 0 .. MaxOutput
    BY ConstantsAssumption
  <2> QED BY <1>1, <2>1, <2>2 DEF SessType
<1>4. Ended(o).proc = p /\ Ended(o).reader = "ended" /\ Ended(o).alive = FALSE
  BY <1>1, <1>2 DEF SessType
<1>5. Ended(o).sid = sess[o].sid /\ Ended(o).ws = sess[o].ws /\ Ended(o).to = None
  BY <1>1, <1>2 DEF SessType
<1> QED BY <1>1, <1>3, <1>4, <1>5

LEMMA RingTyped ==
  ASSUME TypeOK, NEW o \in Objects
  PROVE  Ring(o) \in Chunks
<1> DEFINE n == sess[o].count
           d == IF n > RingSize THEN n - RingSize ELSE 0
<1>1. n \in 0 .. MaxOutput
  BY TypesAtHand DEF SessType
<1>2. d \in Nat /\ n - d \in Nat
  BY <1>1, ConstantsAssumption
<1>3. Ring(o) = [i \in 1 .. n - d |-> d + i]
  BY DEF Ring
<1>4. \A i \in 1 .. n - d : d + i \in 1 .. MaxOutput
  BY <1>1, <1>2, ConstantsAssumption
<1> DEFINE F(i) == d + i
           m == n - d
<1>5. Ring(o) = [i \in 1 .. m |-> F(i)] /\ m \in Nat /\ \A i \in 1 .. m : F(i) \in 1 .. MaxOutput
  BY <1>2, <1>3, <1>4
<1> HIDE DEF m, F
<1> QED BY <1>5 DEF Chunks

LEMMA KilledTyped ==
  ASSUME TypeOK, NEW S \in SUBSET Sids, Killed(S)
  PROVE  registry' \in [Sids -> Objects \union {None}] /\ sess' \in [Objects -> SessType]
BY TypesAtHand, EndedTyped DEF Killed, TypeOK

LEMMA DisconnectedTyped ==
  ASSUME TypeOK, NEW c \in Conns, NEW S \in [Objects -> SessType], Disconnected(c, S)
  PROVE  sess' \in [Objects -> SessType] /\ conn' \in [Conns -> ConnType]
<1>1. [NewConn EXCEPT !.pc = "gone"] \in ConnType
  BY NewTyped DEF ConnType
<1>2. \A o \in Objects : [S[o] EXCEPT !.ws = None, !.old = FALSE] \in SessType
  BY DEF SessType
<1> QED BY <1>1, <1>2, TypesAtHand DEF Disconnected

LEMMA TakeOverTyped ==
  ASSUME TypeOK, NEW c \in Conns, NEW o \in Objects, NEW waited \in BOOLEAN,
         TakeOver(c, o, waited)
  PROVE  sess' \in [Objects -> SessType] /\ conn' \in [Conns -> ConnType]
<1> DEFINE gap == sess[o].ws # None \/ waited
           next == IF gap THEN "closing" ELSE "replaying"
           y == [conn[c] EXCEPT !.obj = o, !.snapshot = Ring(o), !.gap = gap, !.pc = next]
<1>1. y \in ConnType
  <2>1. gap \in BOOLEAN /\ next \in {"closing", "replaying"}
    OBVIOUS
  <2> HIDE DEF gap, next
  <2> QED BY <2>1, RingTyped, TypesAtHand DEF ConnType
<1>2. \A k \in Conns : [conn[k] EXCEPT !.pc = "shut"] \in ConnType
  BY TypesAtHand DEF ConnType
<1>3. \A k \in Conns : conn'[k] = y \/ conn'[k] = conn[k] \/ conn'[k] = [conn[k] EXCEPT !.pc = "shut"]
  BY DEF TakeOver
<1>4. conn' = [k \in Conns |-> conn'[k]]
  BY DEF TakeOver
<1>5. sess' \in [Objects -> SessType]
  BY TypesAtHand DEF TakeOver, SessType
<1> HIDE DEF y
<1> QED BY <1>1, <1>2, <1>3, <1>4, <1>5, TypesAtHand
-----------------------------------------------------------------------------
(* Types, and the registry *)

\* A handler under way has a session.
Attached == \A c \in Conns : conn[c].pc \notin {"off", "gone"} => conn[c].obj \in Objects

Registers == TypeOK /\ InHand /\ Attached /\ RunningIsRegistered /\ RunsAlive

LEMMA InitRegisters == ASSUME Init PROVE Registers
BY NewTyped, ConstantsAssumption
DEF Init, Registers, TypeOK, InHand, Attached, RunningIsRegistered, RunsAlive, SessType, ConnType,
    NoSess, NewConn

\* What is killed by id is what is registered: nothing that runs is let go of.
LEMMA KilledRegisters ==
  ASSUME Registers, NEW S \in SUBSET Sids, Killed(S),
         doomed' \subseteq Sids, UNCHANGED conn
  PROVE  Registers'
<1> USE DEF Registers
<1>1. registry' \in [Sids -> Objects \union {None}] /\ sess' \in [Objects -> SessType]
  BY KilledTyped
<1>2. TypeOK'
  BY <1>1 DEF TypeOK, SessType
<1>3. \A o \in Objects : sess'[o] = sess[o] \/ sess'[o] = Ended(o)
  BY DEF Killed
<1>4. InHand' /\ RunsAlive' /\ Attached'
  BY <1>3, EndedTyped DEF InHand, RunsAlive, Attached
<1>5. ASSUME NEW o \in Objects, sess'[o].proc = "running"
      PROVE  registry'[sess'[o].sid] = o
  <2>1. sess'[o] = sess[o] /\ ~ \E s \in S : registry[s] = o
    BY <1>5, EndedTyped DEF Killed
  <2>2. sess[o].sid \in Sids /\ registry[sess[o].sid] = o
    BY <1>5, <2>1 DEF RunsAlive, RunningIsRegistered
  <2> QED BY <2>1, <2>2 DEF Killed
<1> QED BY <1>2, <1>4, <1>5 DEF RunningIsRegistered

\* A step that touches no process and no id.
LEMMA QuietRegisters ==
  ASSUME Registers, sess' \in [Objects -> SessType], conn' \in [Conns -> ConnType],
         UNCHANGED registry, doomed' \subseteq Sids, Attached',
         \A o \in Objects :
           /\ sess'[o].sid = sess[o].sid
           /\ sess'[o].proc = sess[o].proc \/ sess'[o].proc = "exited"
           /\ sess'[o].alive = sess[o].alive \/ sess'[o].proc # "running"
           /\ sess'[o].reader = "sending" => sess'[o].count >= 1
  PROVE  Registers'
<1>1. TypeOK'
  BY DEF Registers, TypeOK, SessType, ConnType
<1> QED BY <1>1 DEF Registers, InHand, RunningIsRegistered, RunsAlive
LEMMA StaleIds == Stale \subseteq Sids
BY DEF Stale, Registered

\* A session is only replaced once its own process has ended.
LEMMA CreateRegisters ==
  ASSUME Registers, NEW c \in Conns, NEW s \in Sids, Create(c, s)
  PROVE  Registers'
<1> USE DEF Registers
<1>1. PICK o \in Objects :
        /\ sess[o] = NoSess
        /\ sess' = [sess EXCEPT ![o] = [NoSess EXCEPT !.sid = s, !.alive = TRUE,
                                          !.proc = "running", !.ws = c, !.reader = "reading"]]
        /\ registry' = [registry EXCEPT ![s] = o]
        /\ conn' = [conn EXCEPT ![c].pc = "open", ![c].obj = o]
  BY DEF Create
<1> DEFINE y == [NoSess EXCEPT !.sid = s, !.alive = TRUE, !.proc = "running", !.ws = c,
                               !.reader = "reading"]
<1>2. y \in SessType /\ y.sid = s /\ y.proc = "running" /\ y.alive = TRUE /\ y.reader = "reading"
  BY NewTyped DEF NoSess, SessType
<1>3. sess' = [sess EXCEPT ![o] = y]
  BY <1>1
<1> HIDE DEF y
<1>4. sess' \in [Objects -> SessType] /\ conn' \in [Conns -> ConnType]
  <2>1. [conn[c] EXCEPT !.pc = "open", !.obj = o] \in ConnType
    BY TypesAtHand DEF ConnType
  <2>2. conn' = [conn EXCEPT ![c] = [conn[c] EXCEPT !.pc = "open", !.obj = o]]
    BY <1>1, TypesAtHand DEF ConnType
  <2> QED BY <1>2, <1>3, <2>1, <2>2, TypesAtHand
<1>5. TypeOK'
  BY <1>1, <1>4, StaleIds DEF TypeOK, SessType, ConnType, Create
<1>6. InHand' /\ RunsAlive' /\ Attached'
  BY <1>1, <1>2, <1>3, TypesAtHand DEF InHand, RunsAlive, Attached, ConnType
<1>7. ASSUME NEW q \in Objects, sess'[q].proc = "running"
      PROVE  registry'[sess'[q].sid] = q
  <2>1. CASE q = o
    BY <1>1, <1>2, <1>3, <2>1, TypesAtHand DEF TypeOK
  <2>2. CASE q # o
    <3>1. sess'[q] = sess[q]
      BY <1>3, <2>2, TypesAtHand
    <3>2. sess[q].alive /\ sess[q].sid \in Sids /\ registry[sess[q].sid] = q
      BY <1>7, <3>1 DEF RunsAlive, RunningIsRegistered
    <3>3. sess[q].sid # s
      BY <3>2, ConstantsAssumption DEF Create, Objects
    <3> QED BY <1>1, <3>1, <3>2, <3>3 DEF TypeOK
  <2> QED BY <2>1, <2>2
<1> QED BY <1>5, <1>6, <1>7 DEF RunningIsRegistered

LEMMA TakeOverRegisters ==
  ASSUME Registers, NEW c \in Conns, NEW o \in Objects, NEW waited \in BOOLEAN,
         TakeOver(c, o, waited), UNCHANGED registry, doomed' \subseteq Sids
  PROVE  Registers'
<1>1. sess' \in [Objects -> SessType] /\ conn' \in [Conns -> ConnType]
  BY TakeOverTyped DEF Registers
<1>2. \A q \in Objects :
        /\ sess'[q].sid = sess[q].sid /\ sess'[q].proc = sess[q].proc
        /\ sess'[q].alive = sess[q].alive /\ sess'[q].reader = sess[q].reader
        /\ sess'[q].count = sess[q].count
  BY TypesAtHand DEF TakeOver, Registers, SessType
<1>3. Attached'
  BY TypesAtHand DEF TakeOver, Registers, Attached, ConnType
<1> QED BY <1>1, <1>2, <1>3, QuietRegisters DEF Registers, InHand

\* What a closed terminal is killed by is its id; what has the id now is killed.
LEMMA CloseMessageRegisters ==
  ASSUME Registers, NEW c \in Conns, CloseMessage(c)
  PROVE  Registers'
<1> USE DEF Registers
<1>1. PICK s : /\ s = sess[conn[c].obj].sid
               /\ registry' = [registry EXCEPT ![s] = None]
               /\ Disconnected(c, [o \in Objects |-> IF registry[s] = o THEN Ended(o) ELSE sess[o]])
  BY DEF CloseMessage
<1> DEFINE S == [o \in Objects |-> IF registry[s] = o THEN Ended(o) ELSE sess[o]]
<1>2. S \in [Objects -> SessType]
  BY EndedTyped, TypesAtHand
<1>3. Disconnected(c, S)
  BY <1>1
<1>4. \A o \in Objects : IF registry[s] = o THEN S[o] = Ended(o) ELSE S[o] = sess[o]
  OBVIOUS
<1> HIDE DEF S
<1>5. sess' \in [Objects -> SessType] /\ conn' \in [Conns -> ConnType]
  BY <1>2, <1>3, DisconnectedTyped
<1>6. \A o \in Objects :
        /\ sess'[o].sid = S[o].sid /\ sess'[o].proc = S[o].proc /\ sess'[o].alive = S[o].alive
        /\ sess'[o].reader = S[o].reader /\ sess'[o].count = S[o].count
  BY <1>2, <1>3 DEF Disconnected, SessType
<1>7. registry' \in [Sids -> Objects \union {None}]
  BY <1>1 DEF TypeOK
<1>8. TypeOK'
  BY <1>5, <1>7 DEF TypeOK, SessType, ConnType, CloseMessage
<1>9. InHand' /\ RunsAlive' /\ Attached'
  <2>1. InHand' /\ RunsAlive'
    BY <1>4, <1>6, EndedTyped DEF InHand, RunsAlive
  <2>2. Attached'
    BY <1>3, NewTyped, TypesAtHand DEF Disconnected, Attached, ConnType
  <2> QED BY <2>1, <2>2
<1>10. ASSUME NEW o \in Objects, sess'[o].proc = "running"
       PROVE  registry'[sess'[o].sid] = o
  <2>1. S[o] = sess[o] /\ registry[s] # o
    BY <1>4, <1>6, <1>10, EndedTyped
  <2>2. sess[o].sid \in Sids /\ registry[sess[o].sid] = o
    BY <1>6, <1>10, <2>1 DEF RunsAlive, RunningIsRegistered
  <2> QED BY <1>1, <1>6, <2>1, <2>2 DEF TypeOK
<1> QED BY <1>8, <1>9, <1>10 DEF RunningIsRegistered

\* A reader unregisters its own session, and no other.
LEMMA EndReaderRegisters ==
  ASSUME Registers, NEW o \in Objects, EndReader(o)
  PROVE  Registers'
<1> USE DEF Registers
<1>1. sess' = [sess EXCEPT ![o] = Ended(o)] /\ registry' \in [Sids -> Objects \union {None}]
  BY DEF EndReader, TypeOK
<1>2. sess' \in [Objects -> SessType]
  BY <1>1, EndedTyped, TypesAtHand
<1>3. TypeOK'
  BY <1>1, <1>2 DEF TypeOK, SessType, EndReader
<1>4. InHand' /\ RunsAlive' /\ Attached'
  BY <1>1, EndedTyped, TypesAtHand DEF InHand, RunsAlive, Attached, EndReader
<1>5. ASSUME NEW q \in Objects, sess'[q].proc = "running"
      PROVE  registry'[sess'[q].sid] = q
  <2>1. q # o /\ sess'[q] = sess[q]
    BY <1>1, <1>5, EndedTyped, TypesAtHand
  <2>2. sess[q].sid \in Sids /\ registry[sess[q].sid] = q
    BY <1>5, <2>1 DEF RunsAlive, RunningIsRegistered
  <2> QED BY <2>1, <2>2 DEF EndReader
<1> QED BY <1>3, <1>4, <1>5 DEF RunningIsRegistered
LEMMA ReattachRegisters ==
  ASSUME Registers, NEW c \in Conns, NEW s \in Sids, Reattach(c, s)
  PROVE  Registers'
<1> DEFINE o == registry[s]
<1>1. o \in Objects /\ UNCHANGED registry /\ doomed' \subseteq Sids
  BY StaleIds DEF Reattach, Registers, TypeOK
<1>2. CASE TakeOver(c, o, FALSE)
  <2> HIDE DEF o
  <2> QED BY <1>1, <1>2, TakeOverRegisters
<1>3. CASE /\ conn' = [conn EXCEPT ![c].pc = "waiting", ![c].obj = o]
           /\ UNCHANGED sess
  <2> HIDE DEF o
  <2> DEFINE y == [conn[c] EXCEPT !.pc = "waiting", !.obj = o]
  <2>1. y \in ConnType /\ conn' = [conn EXCEPT ![c] = y]
    BY <1>1, <1>3, TypesAtHand DEF Registers, ConnType
  <2> HIDE DEF y
  <2>2. conn' \in [Conns -> ConnType] /\ sess' \in [Objects -> SessType]
    BY <1>3, <2>1, TypesAtHand DEF Registers
  <2>3. Attached'
    BY <1>1, <1>3, TypesAtHand DEF Registers, Attached, ConnType
  <2> QED BY <1>1, <1>3, <2>2, <2>3, QuietRegisters DEF Registers, InHand
<1> QED BY <1>2, <1>3 DEF Reattach

LEMMA ConnRegisters ==
  ASSUME Registers, NEW c \in Conns, ConnStep(c)
  PROVE  Registers'
<1> USE DEF Registers
<1>1. ASSUME NEW s \in Sids, Refuse(c, s) PROVE Registers'
  <2>1. conn' \in [Conns -> ConnType]
    BY <1>1, TypesAtHand DEF Refuse, ConnType
  <2>2. Attached' /\ UNCHANGED << registry, sess >> /\ doomed' \subseteq Sids
    BY <1>1, StaleIds, TypesAtHand DEF Refuse, Attached, ConnType, TypeOK
  <2> QED BY <2>1, <2>2, TypesAtHand, QuietRegisters DEF InHand
<1>2. CASE GetLock(c)
  <2>1. conn[c].obj \in Objects
    BY <1>2 DEF GetLock, Attached
  <2> QED BY <1>2, <2>1, TakeOverRegisters DEF GetLock, TypeOK
<1>3. CASE StartReplay(c)
  <2>1. conn' \in [Conns -> ConnType]
    BY <1>3, TypesAtHand DEF StartReplay, ConnType
  <2>2. Attached' /\ UNCHANGED << registry, sess, doomed >>
    BY <1>3, TypesAtHand DEF StartReplay, Attached, ConnType
  <2> QED BY <2>1, <2>2, TypesAtHand, QuietRegisters DEF InHand, TypeOK
<1>4. CASE Attach(c)
  <2> DEFINE y == [conn[c] EXCEPT !.pc = "open", !.screen = @ \o conn[c].snapshot, !.snapshot = << >>]
  <2>1. conn[c].screen \o conn[c].snapshot \in Chunks /\ << >> \in Chunks
    BY TypesAtHand DEF ConnType, Chunks
  <2>2. y \in ConnType /\ conn' = [conn EXCEPT ![c] = y]
    BY <1>4, <2>1, TypesAtHand DEF Attach, ConnType
  <2> HIDE DEF y
  <2>3. conn' \in [Conns -> ConnType]
    BY <2>2, TypesAtHand
  <2>4. sess' \in [Objects -> SessType]
    <3> DEFINE o == conn[c].obj
    <3>1. o \in Objects /\ sess' = [sess EXCEPT ![o].ws = c, ![o].old = FALSE]
      BY <1>4 DEF Attach, Attached
    <3> HIDE DEF o
    <3>2. [sess[o] EXCEPT !.ws = c, !.old = FALSE] \in SessType
      BY <3>1, TypesAtHand DEF SessType
    <3>3. sess' = [sess EXCEPT ![o] = [sess[o] EXCEPT !.ws = c, !.old = FALSE]]
      BY <3>1, TypesAtHand DEF SessType
    <3> QED BY <3>1, <3>2, <3>3, TypesAtHand
  <2>5. \A o \in Objects :
          /\ sess'[o].sid = sess[o].sid /\ sess'[o].proc = sess[o].proc
          /\ sess'[o].alive = sess[o].alive /\ sess'[o].reader = sess[o].reader
          /\ sess'[o].count = sess[o].count
    BY <1>4, TypesAtHand DEF Attach, SessType
  <2>6. Attached'
    BY <1>4, TypesAtHand DEF Attach, Attached, ConnType
  <2>7. UNCHANGED << registry, doomed >>
    BY <1>4 DEF Attach
  <2> QED BY <2>3, <2>4, <2>5, <2>6, <2>7, QuietRegisters DEF InHand, TypeOK
<1>5. CASE Disconnect(c)
  <2>1. sess' \in [Objects -> SessType] /\ conn' \in [Conns -> ConnType]
    BY <1>5, TypesAtHand, DisconnectedTyped DEF Disconnect
  <2>2. \A o \in Objects :
          /\ sess'[o].sid = sess[o].sid /\ sess'[o].proc = sess[o].proc
          /\ sess'[o].alive = sess[o].alive /\ sess'[o].reader = sess[o].reader
          /\ sess'[o].count = sess[o].count
    BY <1>5, TypesAtHand DEF Disconnect, Disconnected, SessType
  <2>3. Attached'
    BY <1>5, NewTyped, TypesAtHand DEF Disconnect, Disconnected, Attached, ConnType
  <2>4. UNCHANGED << registry, doomed >>
    BY <1>5 DEF Disconnect
  <2> QED BY <2>1, <2>2, <2>3, <2>4, QuietRegisters DEF InHand, TypeOK
<1> QED BY <1>1, <1>2, <1>3, <1>4, <1>5, CreateRegisters, ReattachRegisters, CloseMessageRegisters
        DEF ConnStep, Attaching

LEMMA ReaderRegisters ==
  ASSUME Registers, NEW o \in Objects,
         \/ Age(o) \/ Exit(o) \/ ReadChunk(o) \/ SendChunk(o) \/ ReadEof(o) \/ EndReader(o)
  PROVE  Registers'
<1> USE DEF Registers
<1>1. CASE Age(o)
  <2>1. sess' \in [Objects -> SessType]
    BY ZenonT(60), <1>1, TypesAtHand DEF Age, SessType
  <2>2. \A q \in Objects :
          /\ sess'[q].sid = sess[q].sid /\ sess'[q].proc = sess[q].proc
          /\ sess'[q].alive = sess[q].alive
          /\ sess'[q].reader = "sending" => sess'[q].count >= 1
    BY <1>1, TypesAtHand DEF Age, InHand, SessType
  <2>3. UNCHANGED << registry, conn, doomed >>
    BY <1>1 DEF Age
  <2> QED BY <2>1, <2>2, <2>3, TypesAtHand, QuietRegisters DEF Attached, TypeOK
<1>2. CASE Exit(o)
  <2>1. sess' \in [Objects -> SessType]
    BY <1>2, TypesAtHand DEF Exit, SessType
  <2>2. \A q \in Objects :
          /\ sess'[q].sid = sess[q].sid /\ (sess'[q].proc = sess[q].proc \/ sess'[q].proc = "exited")
          /\ sess'[q].alive = sess[q].alive
          /\ sess'[q].reader = "sending" => sess'[q].count >= 1
    BY <1>2, TypesAtHand DEF Exit, InHand, SessType
  <2>3. UNCHANGED << registry, conn, doomed >>
    BY <1>2 DEF Exit
  <2> QED BY <2>1, <2>2, <2>3, TypesAtHand, QuietRegisters DEF Attached, TypeOK
<1>3. CASE ReadChunk(o)
  <2>1. sess' \in [Objects -> SessType]
    <3> DEFINE n == sess[o].count + 1
               r == IF sess[o].ws = None THEN After(o) ELSE "sending"
    <3>1. n \in 0 .. MaxOutput
      BY <1>3, TypesAtHand, ConstantsAssumption DEF ReadChunk, SessType
    <3>2. r \in {"reading", "ending", "sending"}
      BY DEF After
    <3>3. sess' = [sess EXCEPT ![o] = [sess[o] EXCEPT !.count = n, !.to = sess[o].ws, !.reader = r]]
      BY <1>3, TypesAtHand DEF ReadChunk, SessType
    <3> HIDE DEF n, r
    <3>4. [sess[o] EXCEPT !.count = n, !.to = sess[o].ws, !.reader = r] \in SessType
      BY <3>1, <3>2, TypesAtHand DEF SessType
    <3> QED BY <3>3, <3>4, TypesAtHand
  <2>2. \A q \in Objects :
          /\ sess'[q].sid = sess[q].sid /\ sess'[q].proc = sess[q].proc
          /\ sess'[q].alive = sess[q].alive
          /\ sess'[q].reader = "sending" => sess'[q].count >= 1
    BY <1>3, TypesAtHand DEF ReadChunk, After, InHand, SessType
  <2>3. UNCHANGED << registry, conn, doomed >>
    BY <1>3 DEF ReadChunk
  <2> QED BY <2>1, <2>2, <2>3, TypesAtHand, QuietRegisters DEF Attached, TypeOK
<1>4. CASE SendChunk(o)
  <2> DEFINE c == sess[o].to
             y == [conn[c] EXCEPT !.screen =
                     IF conn[c].pc \in {"shut", "gone"} THEN @ ELSE Append(@, sess[o].count)]
  <2>1. conn' = [conn EXCEPT ![c] = y]
    BY <1>4, TypesAtHand DEF SendChunk
  <2>2. ASSUME c \in Conns
        PROVE  y \in ConnType /\ y.pc = conn[c].pc /\ y.obj = conn[c].obj
    <3>1. sess[o].count \in 1 .. MaxOutput
      BY <1>4, TypesAtHand DEF SendChunk, InHand, SessType
    <3> DEFINE t == IF conn[c].pc \in {"shut", "gone"} THEN conn[c].screen
                    ELSE Append(conn[c].screen, sess[o].count)
    <3>2. t \in Chunks
      <4>1. conn[c].screen \in Seq(1 .. MaxOutput)
        BY <2>2, TypesAtHand DEF ConnType, Chunks
      <4>2. Append(conn[c].screen, sess[o].count) \in Seq(1 .. MaxOutput)
        BY <3>1, <4>1
      <4> QED BY <4>1, <4>2 DEF Chunks
    <3>3. y = [conn[c] EXCEPT !.screen = t]
      BY <2>2, TypesAtHand DEF ConnType
    <3> HIDE DEF y, t
    <3> QED BY <2>2, <3>2, <3>3, TypesAtHand DEF ConnType
  <2> HIDE DEF y
  <2>3. conn' \in [Conns -> ConnType] /\ Attached'
    BY <2>1, <2>2, TypesAtHand DEF Attached
  <2>4. sess' \in [Objects -> SessType]
    <3>1. After(o) \in {"reading", "ending"}
      BY DEF After
    <3>2. sess' = [sess EXCEPT ![o] = [sess[o] EXCEPT !.reader = After(o), !.to = None]]
      BY <1>4, TypesAtHand DEF SendChunk, SessType
    <3>3. [sess[o] EXCEPT !.reader = After(o), !.to = None] \in SessType
      BY <3>1, TypesAtHand DEF SessType
    <3> QED BY <3>2, <3>3, TypesAtHand
  <2>5. \A q \in Objects :
          /\ sess'[q].sid = sess[q].sid /\ sess'[q].proc = sess[q].proc
          /\ sess'[q].alive = sess[q].alive
          /\ sess'[q].reader = "sending" => sess'[q].count >= 1
    BY <1>4, TypesAtHand DEF SendChunk, After, InHand, SessType
  <2>6. UNCHANGED << registry, doomed >>
    BY <1>4 DEF SendChunk
  <2> QED BY <2>3, <2>4, <2>5, <2>6, QuietRegisters DEF TypeOK
<1>5. CASE ReadEof(o)
  <2>1. PICK next \in {"ending", "last"} :
          sess' = [sess EXCEPT ![o].alive = FALSE, ![o].reader = next]
    BY <1>5 DEF ReadEof
  <2>2. sess' = [sess EXCEPT ![o] = [sess[o] EXCEPT !.alive = FALSE, !.reader = next]]
    BY <2>1, TypesAtHand DEF SessType
  <2>3. [sess[o] EXCEPT !.alive = FALSE, !.reader = next] \in SessType
    BY TypesAtHand DEF SessType
  <2>4. sess' \in [Objects -> SessType]
    BY <2>2, <2>3, TypesAtHand
  <2>5. \A q \in Objects : q # o => sess'[q] = sess[q]
    BY <2>2, TypesAtHand
  <2>6. /\ sess'[o].sid = sess[o].sid /\ sess'[o].proc = sess[o].proc
        /\ sess'[o].proc # "running" /\ sess'[o].reader = next
    BY <1>5, <2>2, TypesAtHand DEF ReadEof, SessType
  <2>7. UNCHANGED << registry, conn, doomed >>
    BY <1>5 DEF ReadEof
  <2> QED BY <2>4, <2>5, <2>6, <2>7, TypesAtHand, QuietRegisters DEF Attached, InHand, TypeOK
<1> QED BY <1>1, <1>2, <1>3, <1>4, <1>5, EndReaderRegisters

LEMMA NextRegisters == ASSUME Registers, [Next]_vars PROVE Registers'
<1> USE DEF Registers
<1>1. CASE UNCHANGED vars
  BY <1>1 DEF vars, TypeOK, InHand, Attached, RunningIsRegistered, RunsAlive
<1>2. CASE List
  BY <1>2, StaleIds, TypesAtHand, QuietRegisters DEF List, InHand, Attached, TypeOK
<1>3. CASE ReapDetached
  <2>1. {s \in Registered : sess[registry[s]].ws = None} \in SUBSET Sids
    BY DEF Registered
  <2> QED BY <1>3, <2>1, TypesAtHand, KilledRegisters DEF ReapDetached, TypeOK
<1>4. ASSUME NEW s \in Sids, RunDestroy(s) \/ Close(s) PROVE Registers'
  <2>1. {s} \in SUBSET Sids
    OBVIOUS
  <2> QED BY <1>4, <2>1, TypesAtHand, KilledRegisters DEF RunDestroy, Close, TypeOK
<1> QED BY <1>1, <1>2, <1>3, <1>4, ConnRegisters, ReaderRegisters DEF Next

LEMMA AlwaysRegisters == Spec => []Registers
BY InitRegisters, NextRegisters, PTL DEF Spec

\* The registry, its sessions and the handlers have the shapes the code gives
\* them (_sessions, _PtySession, terminal_ws).
THEOREM TypeCorrect == Spec => []TypeOK
BY AlwaysRegisters, PTL DEF Registers

\* A process that runs can always be reached through the id it was started
\* under, whatever ends, is closed, reaped or replaced meanwhile
\* (_session_reader, _destroy_session, terminal_ws).
THEOREM NothingUnregistered == Spec => []RunningIsRegistered
BY AlwaysRegisters, PTL DEF Registers
-----------------------------------------------------------------------------
(* Screens *)

Screens == Known /\ (\A o \in Objects : Sink(o)) /\ (\A c \in Conns : Shown(c))

IInv == Registers /\ Screens

LEMMA EmptySeq ==
  /\ Rising(<< >>) /\ (\A n : UpTo(<< >>, n)) /\ EndOf(<< >>, 0)
BY DEF Rising, UpTo, EndOf

LEMMA UpToLonger ==
  ASSUME NEW q \in Chunks, NEW m \in Int, NEW n \in Int, UpTo(q, m), m <= n
  PROVE  UpTo(q, n)
<1>1. \A i \in 1 .. Len(q) : q[i] \in Int
  BY ConstantsAssumption DEF Chunks
<1> QED BY <1>1 DEF UpTo

\* The chunk that follows what is shown.
LEMMA NextChunk ==
  ASSUME NEW q \in Chunks, NEW n \in 1 .. MaxOutput
  PROVE  /\ Rising(q) /\ UpTo(q, n - 1) => Rising(Append(q, n))
         /\ UpTo(q, n - 1) => UpTo(Append(q, n), n)
         /\ EndOf(q, n - 1) => EndOf(Append(q, n), n)
<1>1. q \in Seq(Int) /\ n \in Int /\ Len(q) \in Nat /\ \A i \in 1 .. Len(q) : q[i] \in Int
  BY ConstantsAssumption DEF Chunks
<1>2. /\ Len(Append(q, n)) = Len(q) + 1
      /\ \A i \in 1 .. Len(q) : Append(q, n)[i] = q[i]
      /\ Append(q, n)[Len(q) + 1] = n
  BY <1>1
<1> DEFINE t == Append(q, n)
<1> HIDE DEF t
<1>3. ASSUME Rising(q), UpTo(q, n - 1) PROVE Rising(t)
  <2>1. ASSUME NEW i \in 2 .. Len(q) + 1 PROVE t[i - 1] < t[i]
    <3>1. CASE i \in 2 .. Len(q)
      BY <1>1, <1>2, <1>3, <3>1 DEF Rising, t
    <3>2. CASE i = Len(q) + 1
      <4>1. Len(q) \in 1 .. Len(q) /\ i - 1 = Len(q)
        BY <1>1, <2>1, <3>2
      <4>2. q[Len(q)] <= n - 1 /\ q[Len(q)] \in Int
        BY <1>1, <1>3, <4>1 DEF UpTo
      <4> QED BY <1>1, <1>2, <3>2, <4>1, <4>2 DEF t
    <3> QED BY <1>1, <2>1, <3>1, <3>2
  <2> QED BY <1>2, <2>1 DEF Rising, t
<1>4. ASSUME UpTo(q, n - 1) PROVE UpTo(t, n)
  <2>1. ASSUME NEW i \in 1 .. Len(q) + 1 PROVE t[i] <= n
    BY <1>1, <1>2, <1>4 DEF UpTo, t
  <2> QED BY <1>2, <2>1 DEF UpTo, t
<1>5. ASSUME EndOf(q, n - 1) PROVE EndOf(t, n)
  <2>1. ASSUME NEW i \in 1 .. Len(q) + 1 PROVE t[i] = n - (Len(q) + 1) + i
    <3>1. CASE i \in 1 .. Len(q)
      BY <1>1, <1>2, <1>5, <3>1 DEF EndOf, t
    <3>2. CASE i = Len(q) + 1
      BY <1>1, <1>2, <3>2 DEF t
    <3> QED BY <1>1, <2>1, <3>1, <3>2
  <2> QED BY <1>1, <1>2, <2>1 DEF EndOf, t
<1> QED BY <1>3, <1>4, <1>5 DEF t

LEMMA RingShown ==
  ASSUME TypeOK, NEW o \in Objects
  PROVE  Rising(Ring(o)) /\ UpTo(Ring(o), sess[o].count) /\ EndOf(Ring(o), sess[o].count)
<1> DEFINE n == sess[o].count
           d == IF n > RingSize THEN n - RingSize ELSE 0
           F(i) == d + i
           m == n - d
<1>1. n \in 0 .. MaxOutput
  BY TypesAtHand DEF SessType
<1>2. d \in Nat /\ m \in Nat /\ n = d + m /\ (m = 0 => n = 0)
  BY <1>1, ConstantsAssumption
<1>3. Ring(o) = [i \in 1 .. m |-> F(i)]
  BY DEF Ring
<1> DEFINE r == Ring(o)
<1> HIDE DEF n, d, m, r
<1>4. Len(r) = m /\ \A i \in 1 .. m : r[i] = d + i
  BY <1>2, <1>3 DEF r
<1>5. Rising(r) /\ UpTo(r, n) /\ EndOf(r, n)
  BY <1>2, <1>4 DEF Rising, UpTo, EndOf
<1> QED BY <1>5 DEF r, n

\* Nothing is shown to c that was not, and nothing newer is on its way.
LEMMA ShownKept ==
  ASSUME NEW c \in Conns, Shown(c), UNCHANGED conn[c],
         conn[c].pc \notin {"off", "gone"} =>
           \E o \in {conn[c].obj} :
             \/ sess'[o].reader = "ended"
             \/ /\ sess'[o].to = sess[o].to /\ sess'[o].count = sess[o].count
                /\ sess'[o].reader # "none" /\ sess[o].reader # "ended"
  PROVE  Shown(c)'
BY DEF Shown, Bound

LEMMA SinkKept ==
  ASSUME NEW o \in Objects, Sink(o),
         sess[o].ws # None => conn'[sess[o].ws] = conn[sess[o].ws],
         sess[o].to # None =>
           conn'[sess[o].to] = conn[sess[o].to] \/ conn'[sess[o].to].pc \in {"shut", "gone"},
         sess'[o].ws = sess[o].ws,
         \/ sess'[o].reader = "ended" /\ sess'[o].to = None
         \/ /\ sess'[o].to = sess[o].to /\ sess'[o].count = sess[o].count
            /\ sess[o].reader # "ended"
            /\ sess'[o].reader = "sending" <=> sess[o].reader = "sending"
  PROVE  Sink(o)'
BY DEF Sink, Bound
LEMMA InitScreens == ASSUME Init PROVE Screens
BY EmptySeq, ConstantsAssumption DEF Init, Screens, Known, Sink, Shown, NoSess, NewConn

\* Sessions are let go of: killed, or unregistered by their readers.
LEMMA LetGoScreens ==
  ASSUME IInv, Registers', UNCHANGED conn,
         \A s \in Sids : registry'[s] = registry[s] \/ registry'[s] = None,
         \A o \in Objects : sess'[o] = sess[o] \/ sess'[o] = Ended(o)
  PROVE  Screens'
<1> USE DEF IInv, Screens
<1>1. \A o \in Objects :
        \/ sess'[o] = sess[o]
        \/ sess'[o].reader = "ended" /\ sess'[o].to = None /\ sess'[o].ws = sess[o].ws
  BY EndedTyped DEF Registers
<1>2. Known'
  BY <1>1 DEF Known, Registers, TypeOK
<1>3. ASSUME NEW o \in Objects PROVE Sink(o)'
  <2>1. CASE sess'[o] = sess[o]
    <3>1. Sink(o) /\ conn' = conn
      OBVIOUS
    <3> QED BY <2>1, <3>1 DEF Sink, Bound
  <2>2. CASE sess'[o] # sess[o]
    <3>1. Sink(o) /\ conn' = conn
      OBVIOUS
    <3> QED BY <1>1, <2>2, <3>1, SinkKept
  <2> QED BY <2>1, <2>2
<1>4. ASSUME NEW c \in Conns PROVE Shown(c)'
  <2>1. conn[c].pc \notin {"off", "gone"} => conn[c].obj \in Objects
    BY DEF Registers, Attached
  <2>2. CASE conn[c].pc \in {"off", "gone"}
    BY <2>2, ShownKept
  <2>3. CASE conn[c].pc \notin {"off", "gone"}
    <3>1. PICK o \in Objects : o = conn[c].obj
      BY <2>1, <2>3
    <3>2. CASE sess'[o].reader = "ended"
      BY <3>1, <3>2, ShownKept
    <3>3. CASE sess'[o] = sess[o] /\ sess'[o].reader # "ended"
      BY <2>3, <3>1, <3>3, ShownKept DEF Shown
    <3> QED BY <1>1, <3>2, <3>3
  <2> QED BY <2>2, <2>3
<1> QED BY <1>2, <1>3, <1>4

\* Steps that change neither a connection nor what a session holds for it.
LEMMA IdleScreens ==
  ASSUME IInv, Registers', UNCHANGED << registry, conn >>,
         \A o \in Objects :
           /\ sess'[o].ws = sess[o].ws /\ sess'[o].to = sess[o].to /\ sess'[o].count = sess[o].count
           /\ \/ sess'[o].reader = sess[o].reader
              \/ {sess[o].reader, sess'[o].reader} \subseteq {"reading", "last", "ending"}
  PROVE  Screens'
<1> USE DEF IInv, Screens
<1>1. Known'
  BY DEF Known, Registers, TypeOK
<1>2. ASSUME NEW o \in Objects PROVE Sink(o)'
  BY DEF Sink, Bound
<1>3. ASSUME NEW c \in Conns PROVE Shown(c)'
  BY DEF Shown, Bound, Registers, Attached
<1> QED BY <1>1, <1>2, <1>3

LEMMA CreateScreens ==
  ASSUME IInv, Registers', NEW c \in Conns, NEW s \in Sids, Create(c, s)
  PROVE  Screens'
<1> USE DEF IInv, Screens
<1>1. PICK o \in Objects :
        /\ sess[o] = NoSess
        /\ sess' = [sess EXCEPT ![o] = [NoSess EXCEPT !.sid = s, !.alive = TRUE,
                                          !.proc = "running", !.ws = c, !.reader = "reading"]]
        /\ registry' = [registry EXCEPT ![s] = o]
        /\ conn' = [conn EXCEPT ![c].pc = "open", ![c].obj = o]
  BY DEF Create
<1>2. /\ sess'[o].ws = c /\ sess'[o].reader = "reading" /\ sess'[o].count = 0 /\ sess'[o].to = None
      /\ sess[o].reader = "none"
      /\ \A q \in Objects : q # o => sess'[q] = sess[q]
  BY <1>1, TypesAtHand DEF Registers, NoSess
<1>3. /\ conn[c].pc = "off" /\ conn'[c].pc = "open" /\ conn'[c].obj = o
      /\ conn'[c].screen = << >> /\ conn'[c].snapshot = << >>
      /\ \A k \in Conns : k # c => conn'[k] = conn[k]
  BY <1>1, TypesAtHand DEF Create, Registers, Shown, ConnType
<1>4. Known'
  BY <1>1, <1>2 DEF Known, Registers, TypeOK
<1>5. ASSUME NEW q \in Objects PROVE Sink(q)'
  <2>1. CASE q = o
    BY <1>2, <1>3, <2>1, EmptySeq, ConstantsAssumption DEF Sink, Bound
  <2>2. CASE q # o
    <3>1. sess'[q] = sess[q] /\ Sink(q) /\ sess[q] \in SessType
      BY <1>2, <2>2, TypesAtHand DEF Registers
    <3>2. sess[q].ws # c /\ sess[q].to # c
      BY <1>3, <3>1, ConstantsAssumption DEF Sink
    <3> QED BY <1>3, <3>1, <3>2 DEF Sink, Bound, SessType
  <2> QED BY <2>1, <2>2
<1>6. ASSUME NEW k \in Conns PROVE Shown(k)'
  <2>1. CASE k = c
    BY <1>2, <1>3, <2>1, EmptySeq, ConstantsAssumption DEF Shown, Bound
  <2>2. CASE k # c
    <3>1. conn'[k] = conn[k]
      BY <1>3, <2>2
    <3>2. conn[k].pc \notin {"off", "gone"} =>
            conn[k].obj \in Objects /\ conn[k].obj # o /\ sess'[conn[k].obj] = sess[conn[k].obj]
      BY <1>2 DEF Shown, Registers, Attached
    <3> QED BY <3>1, <3>2 DEF Shown, Bound
  <2> QED BY <2>1, <2>2
<1> QED BY <1>4, <1>5, <1>6

LEMMA TakeOverScreens ==
  ASSUME IInv, Registers', NEW c \in Conns, NEW o \in Objects, NEW waited \in BOOLEAN,
         conn[c].pc \in {"off", "waiting"}, sess[o].reader # "none",
         TakeOver(c, o, waited), UNCHANGED registry
  PROVE  Screens'
<1> USE DEF IInv, Screens
<1> DEFINE was == sess[o].ws
<1>1. /\ sess'[o].ws = None /\ sess'[o].to = sess[o].to /\ sess'[o].count = sess[o].count
      /\ sess'[o].reader = sess[o].reader
      /\ \A q \in Objects : q # o => sess'[q] = sess[q]
  BY TypesAtHand DEF TakeOver, Registers, SessType
<1>2. /\ conn'[c].pc \in {"closing", "replaying"} /\ conn'[c].obj = o
      /\ conn'[c].snapshot = Ring(o) /\ conn'[c].screen = conn[c].screen
      /\ conn'[c].pc = "closing" => conn'[c].gap
  BY TypesAtHand DEF TakeOver, Registers, ConnType
<1>3. \A k \in Conns : k # c =>
        /\ conn'[k].obj = conn[k].obj /\ conn'[k].snapshot = conn[k].snapshot
        /\ conn'[k].screen = conn[k].screen /\ conn'[k].gap = conn[k].gap
        /\ IF k = was /\ conn[k].pc = "open" THEN conn'[k].pc = "shut" ELSE conn'[k].pc = conn[k].pc
  BY TypesAtHand DEF TakeOver, Registers, ConnType
<1> HIDE DEF was
<1>4. Known'
  BY <1>1 DEF Known, Registers, TypeOK
<1>5. ASSUME NEW q \in Objects PROVE Sink(q)'
  <2>1. Sink(q) /\ sess[q] \in SessType
    BY TypesAtHand DEF Registers
  <2>2. sess[q].to # None => sess[q].to # c /\ sess[q].to \in Conns
    BY <2>1 DEF Sink, SessType
  <2>3. CASE q = o
    BY <1>1, <1>3, <2>1, <2>2, <2>3 DEF Sink
  <2>4. CASE q # o
    <3>1. sess'[q] = sess[q]
      BY <1>1, <2>4
    <3>2. sess[q].ws # None => sess[q].ws \in Conns /\ sess[q].ws # c /\ sess[q].ws # was
      <4>1. Sink(o)
        OBVIOUS
      <4> QED BY <2>1, <2>4, <4>1 DEF Sink, SessType, was
    <3> QED BY <1>3, <2>1, <2>2, <3>1, <3>2 DEF Sink, Bound
  <2> QED BY <2>3, <2>4
<1>6. ASSUME NEW k \in Conns PROVE Shown(k)'
  <2>1. CASE k = c
    <3>1. conn[c].screen = << >> /\ Shown(c)
      BY DEF Shown
    <3>2. /\ Rising(Ring(o)) /\ UpTo(Ring(o), sess[o].count) /\ EndOf(Ring(o), sess[o].count)
      BY RingShown DEF Registers
    <3> QED BY <1>1, <1>2, <2>1, <3>1, <3>2, EmptySeq DEF Shown
  <2>2. CASE k # c /\ conn[k].pc \in {"off", "gone"}
    BY <1>3, <2>2 DEF Shown
  <2>3. CASE k # c /\ conn[k].pc \notin {"off", "gone"}
    <3>1. PICK q \in Objects : q = conn[k].obj
      BY <2>3 DEF Registers, Attached
    <3>2. /\ sess'[q].to = sess[q].to /\ sess'[q].count = sess[q].count
          /\ sess'[q].reader = sess[q].reader
      BY <1>1
    <3>3. Shown(k) /\ conn[k].screen \in Chunks /\ sess[q].count \in Nat
      BY TypesAtHand DEF Registers, ConnType, SessType
    <3>4. UpTo(conn[k].screen, Bound(k, q)) => UpTo(conn[k].screen, sess[q].count)
      BY <3>3, UpToLonger DEF Bound
    <3>5. CASE conn'[k].pc = conn[k].pc
      BY <1>3, <2>3, <3>1, <3>2, <3>3, <3>5 DEF Shown, Bound
    <3>6. CASE conn[k].pc = "open" /\ conn'[k].pc = "shut"
      BY <1>3, <2>3, <3>1, <3>2, <3>3, <3>4, <3>6 DEF Shown, Bound
    <3> QED BY <1>3, <2>3, <3>5, <3>6
  <2> QED BY <2>1, <2>2, <2>3
<1> QED BY <1>4, <1>5, <1>6
LEMMA AttachScreens ==
  ASSUME IInv, Registers', NEW c \in Conns, Attach(c)
  PROVE  Screens'
<1> USE DEF IInv, Screens
<1>1. PICK o \in Objects : o = conn[c].obj
  BY DEF Attach, Registers, Attached
<1>2. /\ conn[c].pc = "replaying" /\ conn[c].screen = << >> /\ conn[c].snapshot \in Chunks
      /\ Shown(c)
  BY TypesAtHand DEF Attach, Registers, Shown, ConnType
<1>3. /\ sess' = [sess EXCEPT ![o].ws = c, ![o].old = FALSE]
      /\ conn' = [conn EXCEPT ![c].pc = "open", ![c].screen = @ \o conn[c].snapshot,
                              ![c].snapshot = << >>]
      /\ UNCHANGED registry
  BY <1>1 DEF Attach
<1>4. /\ sess'[o].ws = c /\ sess'[o].to = sess[o].to /\ sess'[o].count = sess[o].count
      /\ sess'[o].reader = sess[o].reader
      /\ \A q \in Objects : q # o => sess'[q] = sess[q]
  BY <1>3, TypesAtHand DEF Registers, SessType
<1>5. << >> \o conn[c].snapshot = conn[c].snapshot
  BY <1>2 DEF Chunks
<1>6. /\ conn'[c].pc = "open" /\ conn'[c].obj = o /\ conn'[c].gap = conn[c].gap
      /\ conn'[c].screen = conn[c].snapshot /\ conn'[c].snapshot = << >>
      /\ \A k \in Conns : k # c => conn'[k] = conn[k]
  BY <1>1, <1>2, <1>3, <1>5, TypesAtHand DEF Registers, ConnType
<1>7. \A q \in Objects : sess[q].to # c /\ sess[q].ws # c /\ Sink(q) /\ sess[q] \in SessType
  BY <1>2, TypesAtHand, ConstantsAssumption DEF Sink, Registers
<1>8. Known'
  BY <1>3, <1>4 DEF Known, Registers, TypeOK
<1>9. ASSUME NEW q \in Objects PROVE Sink(q)'
  <2>1. sess[q].to # None => conn'[sess[q].to] = conn[sess[q].to]
    BY <1>6, <1>7 DEF SessType
  <2>2. CASE q = o
    <3>1. sess[o].reader # "ended" /\ ~ conn[c].gap => EndOf(conn[c].snapshot, sess[o].count)
      BY <1>1, <1>2 DEF Shown
    <3> QED BY <1>4, <1>6, <1>7, <2>1, <2>2, <3>1 DEF Sink, Bound
  <2>3. CASE q # o
    <3>1. sess'[q] = sess[q] /\ (sess[q].ws # None => conn'[sess[q].ws] = conn[sess[q].ws])
      BY <1>4, <1>6, <1>7, <2>3 DEF SessType
    <3> QED BY <1>7, <2>1, <3>1 DEF Sink, Bound
  <2> QED BY <2>2, <2>3
<1>10. ASSUME NEW k \in Conns PROVE Shown(k)'
  <2>1. CASE k = c
    BY <1>1, <1>2, <1>4, <1>6, <1>7, <2>1, EmptySeq DEF Shown, Bound
  <2>2. CASE k # c
    <3>1. conn'[k] = conn[k] /\ Shown(k)
      BY <1>6, <2>2
    <3>2. conn[k].pc \notin {"off", "gone"} =>
            \E q \in {conn[k].obj} :
              /\ sess'[q].to = sess[q].to /\ sess'[q].count = sess[q].count
              /\ sess'[q].reader = sess[q].reader
      BY <1>4 DEF Registers, Attached
    <3> QED BY <3>1, <3>2 DEF Shown, Bound
  <2> QED BY <2>1, <2>2
<1> QED BY <1>8, <1>9, <1>10

LEMMA DisconnectedScreens ==
  ASSUME IInv, Registers', NEW c \in Conns, conn[c].pc \in {"open", "shut"},
         NEW S \in [Objects -> SessType],
         \A o \in Objects : S[o] = sess[o] \/ S[o] = Ended(o),
         \A s \in Sids : registry'[s] = registry[s] \/ registry'[s] = None,
         Disconnected(c, S)
  PROVE  Screens'
<1> USE DEF IInv, Screens
<1>1. /\ conn'[c].pc = "gone" /\ conn'[c].screen = << >> /\ conn'[c].snapshot = << >>
      /\ \A k \in Conns : k # c => conn'[k] = conn[k]
  BY TypesAtHand DEF Disconnected, NewConn, Registers
<1>2. \A o \in Objects :
        /\ sess'[o].ws = IF o = conn[c].obj /\ S[o].ws = c THEN None ELSE S[o].ws
        /\ sess'[o].to = S[o].to /\ sess'[o].reader = S[o].reader /\ sess'[o].count = S[o].count
  BY DEF Disconnected, SessType
<1>3. \A o \in Objects :
        /\ sess'[o].ws = IF o = conn[c].obj /\ sess[o].ws = c THEN None ELSE sess[o].ws
        /\ \/ /\ sess'[o].to = sess[o].to /\ sess'[o].reader = sess[o].reader
              /\ sess'[o].count = sess[o].count
           \/ sess'[o].reader = "ended" /\ sess'[o].to = None
  BY <1>2, EndedTyped DEF Registers
<1>4. Known'
  BY <1>3 DEF Known, Registers, TypeOK
<1>5. ASSUME NEW q \in Objects PROVE Sink(q)'
  <2>1. Sink(q) /\ sess[q] \in SessType
    BY TypesAtHand DEF Registers
  <2>2. sess[q].to # None => conn'[sess[q].to] = conn[sess[q].to] \/ conn'[sess[q].to].pc = "gone"
    BY <1>1, <2>1 DEF SessType
  <2>3. CASE sess[q].ws = c
    <3>1. sess'[q].ws = None
      BY <1>3, <2>1, <2>3, ConstantsAssumption DEF Sink
    <3> QED BY <1>3, <2>1, <2>2, <3>1 DEF Sink
  <2>4. CASE sess[q].ws # c
    <3>1. /\ sess'[q].ws = sess[q].ws
          /\ sess[q].ws # None => conn'[sess[q].ws] = conn[sess[q].ws]
      BY <1>1, <1>3, <2>1, <2>4 DEF SessType
    <3> QED BY <1>3, <2>1, <2>2, <3>1 DEF Sink, Bound
  <2> QED BY <2>3, <2>4
<1>6. ASSUME NEW k \in Conns PROVE Shown(k)'
  <2>1. CASE k = c
    BY <1>1, <2>1, EmptySeq DEF Shown
  <2>2. CASE k # c
    <3>1. conn'[k] = conn[k] /\ Shown(k)
      BY <1>1, <2>2
    <3>2. conn[k].pc \notin {"off", "gone"} => conn[k].obj \in Objects
      BY DEF Registers, Attached
    <3> QED BY <1>3, <3>1, <3>2 DEF Shown, Bound
  <2> QED BY <2>1, <2>2
<1> QED BY <1>4, <1>5, <1>6

LEMMA ReadChunkScreens ==
  ASSUME IInv, Registers', NEW o \in Objects, ReadChunk(o)
  PROVE  Screens'
<1> USE DEF IInv, Screens
<1>1. /\ sess[o].reader \in {"reading", "last"} /\ ~ Locked(o)
      /\ UNCHANGED << registry, conn >>
      /\ Sink(o) /\ sess[o].to = None /\ sess[o].count \in Nat
      /\ \A q \in Objects : sess[q] \in SessType
  BY TypesAtHand DEF ReadChunk, Sink, Registers, SessType
<1>2. /\ sess'[o].ws = sess[o].ws /\ sess'[o].to = sess[o].ws /\ sess'[o].count = sess[o].count + 1
      /\ sess'[o].reader = IF sess[o].ws = None THEN After(o) ELSE "sending"
      /\ \A q \in Objects : q # o => sess'[q] = sess[q]
  BY <1>1 DEF ReadChunk, SessType, Registers, TypeOK
<1>3. sess'[o].reader \notin {"none", "ended"} /\ (sess'[o].reader = "sending" <=> sess[o].ws # None)
  BY <1>2 DEF After
<1>4. Known'
  BY <1>1, <1>2, <1>3 DEF Known, Registers, TypeOK
<1>5. ASSUME NEW q \in Objects PROVE Sink(q)'
  <2>1. CASE q = o
    <3>1. sess[o].ws # None /\ ~ conn[sess[o].ws].gap => EndOf(conn[sess[o].ws].screen, sess[o].count)
      BY <1>1, ConstantsAssumption DEF Sink, Bound
    <3>2. sess[o].count + 1 - 1 = sess[o].count
      BY <1>1
    <3> QED BY <1>1, <1>2, <1>3, <2>1, <3>1, <3>2 DEF Sink, Bound
  <2>2. CASE q # o
    <3>1. Sink(q) /\ sess'[q] = sess[q] /\ conn' = conn
      BY <1>1, <1>2, <2>2
    <3> QED BY <3>1 DEF Sink, Bound
  <2> QED BY <2>1, <2>2
<1>6. ASSUME NEW k \in Conns PROVE Shown(k)'
  <2>1. Shown(k) /\ conn' = conn /\ conn[k] \in ConnType
    BY <1>1, TypesAtHand DEF Registers
  <2>2. CASE conn[k].pc \in {"off", "gone"}
    BY <2>1, <2>2 DEF Shown
  <2>3. CASE conn[k].pc \notin {"off", "gone"} /\ conn[k].obj # o
    BY <1>2, <2>1, <2>3 DEF Shown, Bound, Registers, Attached
  <2>4. CASE conn[k].pc \notin {"off", "gone"} /\ conn[k].obj = o
    <3>1. conn[k].pc # "replaying"
      BY <1>1, <2>4 DEF Locked
    <3>2. UpTo(conn[k].snapshot, sess[o].count) /\ UpTo(conn[k].screen, sess[o].count)
      BY <1>1, <2>1, <2>4, ConstantsAssumption DEF Shown, Bound
    <3>3. UpTo(conn[k].snapshot, sess[o].count + 1) /\ UpTo(conn[k].screen, sess[o].count + 1)
      BY <1>1, <2>1, <3>2, UpToLonger DEF ConnType
    <3>4. Bound(k, o)' \in {sess[o].count, sess[o].count + 1}
      BY <1>1, <1>2 DEF Bound
    <3> QED BY <1>2, <1>3, <2>1, <2>4, <3>1, <3>2, <3>3, <3>4 DEF Shown
  <2> QED BY <2>2, <2>3, <2>4
<1> QED BY <1>4, <1>5, <1>6

LEMMA SendChunkScreens ==
  ASSUME IInv, Registers', NEW o \in Objects, SendChunk(o)
  PROVE  Screens'
<1> USE DEF IInv, Screens
<1>1. PICK d \in Conns : d = sess[o].to
  BY TypesAtHand DEF SendChunk, Sink, Registers, SessType
<1>2. /\ sess[o].reader = "sending" /\ UNCHANGED registry /\ Sink(o)
      /\ conn[d].pc \in {"shut", "gone"} \/ (conn[d].pc = "open" /\ conn[d].obj = o)
      /\ sess[o].count \in 1 .. MaxOutput
  BY <1>1, TypesAtHand, ConstantsAssumption DEF SendChunk, Sink, Registers, InHand, SessType
<1>3. /\ sess'[o].ws = sess[o].ws /\ sess'[o].to = None /\ sess'[o].count = sess[o].count
      /\ sess'[o].reader \in {"reading", "ending"}
      /\ \A q \in Objects : q # o => sess'[q] = sess[q]
  BY TypesAtHand DEF SendChunk, After, SessType, Registers
<1>4. /\ \A k \in Conns : k # d => conn'[k] = conn[k]
      /\ conn'[d] = [conn[d] EXCEPT !.screen =
           IF conn[d].pc \in {"shut", "gone"} THEN @ ELSE Append(@, sess[o].count)]
  BY <1>1, TypesAtHand DEF SendChunk, Registers
<1>5. /\ conn'[d].pc = conn[d].pc /\ conn'[d].obj = conn[d].obj /\ conn'[d].gap = conn[d].gap
      /\ conn'[d].snapshot = conn[d].snapshot
      /\ conn'[d].screen = IF conn[d].pc = "open" THEN Append(conn[d].screen, sess[o].count)
                           ELSE conn[d].screen
  BY <1>2, <1>4, TypesAtHand DEF Registers, ConnType
<1>6. conn[d].screen \in Chunks /\ \A q \in Objects : sess[q] \in SessType /\ Sink(q)
  BY TypesAtHand DEF Registers, ConnType
<1>7. Known'
  BY <1>2, <1>3 DEF Known, Registers, TypeOK
<1>8. ASSUME NEW q \in Objects PROVE Sink(q)'
  <2>1. CASE q = o
    <3>1. CASE sess[o].ws = d
      <4>1. conn[d].pc = "open" /\ conn[d].obj = o
        BY <1>6, <3>1, ConstantsAssumption DEF Sink
      <4>2. ~ conn[d].gap => EndOf(conn[d].screen, sess[o].count - 1)
        BY <1>1, <1>2, <3>1, <4>1, ConstantsAssumption DEF Sink, Bound
      <4>3. ~ conn[d].gap => EndOf(conn'[d].screen, sess[o].count)
        BY <1>2, <1>5, <1>6, <4>1, <4>2, NextChunk
      <4> QED BY <1>3, <1>5, <2>1, <3>1, <4>1, <4>3, ConstantsAssumption DEF Sink, Bound
    <3>2. CASE sess[o].ws # d
      <4>1. sess[o].ws # None => conn'[sess[o].ws] = conn[sess[o].ws] /\ sess[o].ws \in Conns
        BY <1>4, <1>6, <3>2 DEF SessType
      <4> QED BY <1>1, <1>2, <1>3, <2>1, <3>2, <4>1, ConstantsAssumption DEF Sink, Bound
    <3> QED BY <3>1, <3>2
  <2>2. CASE q # o
    <3>1. sess'[q] = sess[q] /\ Sink(q) /\ sess[q] \in SessType
      BY <1>3, <1>6, <2>2
    <3>2. sess[q].ws # None => sess[q].ws # d /\ conn'[sess[q].ws] = conn[sess[q].ws]
      <4>1. sess[q].ws = d => sess[q].ws = None \/ conn[d].pc = "open"
        BY <3>1 DEF Sink
      <4>2. sess[q].ws # None => sess[q].ws # d
        BY <1>2, <2>2, <3>1, <4>1, ConstantsAssumption DEF Sink
      <4> QED BY <1>4, <3>1, <4>2 DEF SessType
    <3>3. sess[q].to # None =>
            conn'[sess[q].to].pc = conn[sess[q].to].pc /\ conn'[sess[q].to].obj = conn[sess[q].to].obj
      BY <1>4, <1>5, <3>1 DEF SessType
    <3> QED BY <3>1, <3>2, <3>3 DEF Sink, Bound
  <2> QED BY <2>1, <2>2
<1>9. ASSUME NEW k \in Conns PROVE Shown(k)'
  <2>1. Shown(k) /\ (conn[k].pc \notin {"off", "gone"} => conn[k].obj \in Objects)
    BY DEF Registers, Attached
  <2>2. CASE k = d /\ conn[d].pc = "open"
    <3>1. conn[d].obj = o /\ Rising(conn[d].screen) /\ UpTo(conn[d].screen, sess[o].count - 1)
      BY <1>1, <1>2, <2>1, <2>2 DEF Shown, Bound
    <3>2. Rising(conn'[d].screen) /\ UpTo(conn'[d].screen, sess[o].count)
      BY <1>2, <1>5, <1>6, <2>2, <3>1, NextChunk
    <3> QED BY ZenonT(60), <1>2, <1>3, <1>5, <2>1, <2>2, <3>1, <3>2, ConstantsAssumption DEF Shown, Bound
  <2>3. CASE ~ (k = d /\ conn[d].pc = "open")
    <3>1. /\ conn'[k].pc = conn[k].pc /\ conn'[k].obj = conn[k].obj /\ conn'[k].gap = conn[k].gap
          /\ conn'[k].snapshot = conn[k].snapshot /\ conn'[k].screen = conn[k].screen
      BY <1>4, <1>5, <2>3
    <3>2. CASE conn[k].pc \notin {"off", "gone"} /\ conn[k].obj = o
      BY <1>1, <1>2, <1>3, <2>1, <2>3, <3>1, <3>2, ConstantsAssumption DEF Shown, Bound
    <3>3. CASE ~ (conn[k].pc \notin {"off", "gone"} /\ conn[k].obj = o)
      BY <1>3, <2>1, <3>1, <3>3 DEF Shown, Bound
    <3> QED BY <3>2, <3>3
  <2> QED BY <2>2, <2>3
<1> QED BY <1>7, <1>8, <1>9
LEMMA ConnScreens ==
  ASSUME IInv, Registers', NEW c \in Conns, ConnStep(c)
  PROVE  Screens'
<1> USE DEF IInv, Screens
<1>1. ASSUME NEW s \in Sids, Refuse(c, s) PROVE Screens'
  <2>1. /\ UNCHANGED << registry, sess >> /\ conn[c].pc = "off" /\ conn'[c].pc = "gone"
        /\ conn'[c].screen = conn[c].screen /\ conn'[c].snapshot = conn[c].snapshot
        /\ \A k \in Conns : k # c => conn'[k] = conn[k]
    BY <1>1, TypesAtHand DEF Refuse, Registers, ConnType
  <2>2. ASSUME NEW q \in Objects PROVE Sink(q)'
    <3>1. Sink(q) /\ sess[q] \in SessType
      BY TypesAtHand DEF Registers
    <3> QED BY <2>1, <3>1 DEF Sink, Bound, SessType
  <2>3. ASSUME NEW k \in Conns PROVE Shown(k)'
    BY <2>1 DEF Shown, Bound
  <2> QED BY <2>1, <2>2, <2>3 DEF Known
<1>2. ASSUME NEW s \in Sids, Reattach(c, s) PROVE Screens'
  <2>1. PICK o \in Objects : o = registry[s] /\ sess[o].reader # "none"
    BY <1>2 DEF Reattach, Registers, TypeOK, Known
  <2>2. conn[c].pc = "off" /\ UNCHANGED registry
    BY <1>2 DEF Reattach
  <2>3. CASE TakeOver(c, o, FALSE)
    BY <2>1, <2>2, <2>3, TakeOverScreens
  <2>4. CASE conn' = [conn EXCEPT ![c].pc = "waiting", ![c].obj = o] /\ UNCHANGED sess
    <3>1. /\ UNCHANGED sess /\ conn'[c].pc = "waiting" /\ conn'[c].obj = o
          /\ conn'[c].screen = conn[c].screen /\ conn'[c].snapshot = conn[c].snapshot
          /\ \A k \in Conns : k # c => conn'[k] = conn[k]
      BY <2>4, TypesAtHand DEF Registers, ConnType
    <3>2. ASSUME NEW q \in Objects PROVE Sink(q)'
      <4>1. Sink(q) /\ sess[q] \in SessType
        BY TypesAtHand DEF Registers
      <4>2. sess[q].ws # c /\ sess[q].to # c
        BY <2>2, <4>1, ConstantsAssumption DEF Sink
      <4> QED BY <3>1, <4>1, <4>2 DEF Sink, Bound, SessType
    <3>3. ASSUME NEW k \in Conns PROVE Shown(k)'
      <4>1. CASE k = c
        <5>1. conn[c].screen = << >> /\ conn[c].snapshot = << >> /\ Shown(c)
          BY <2>2 DEF Shown
        <5> QED BY <2>1, <3>1, <4>1, <5>1, EmptySeq DEF Shown
      <4>2. CASE k # c
        BY <3>1, <4>2 DEF Shown, Bound
      <4> QED BY <4>1, <4>2
    <3> QED BY <2>2, <2>4, <3>2, <3>3 DEF Known
  <2> QED BY <1>2, <2>1, <2>3, <2>4 DEF Reattach
<1>3. CASE GetLock(c)
  <2>1. PICK o \in Objects : o = conn[c].obj /\ sess[o].reader # "none"
    BY <1>3 DEF GetLock, Registers, Attached, Shown
  <2> QED BY <1>3, <2>1, TakeOverScreens DEF GetLock
<1>4. CASE StartReplay(c)
  <2>1. /\ UNCHANGED << registry, sess >> /\ conn[c].pc = "closing" /\ conn[c].gap
        /\ conn'[c].pc = "replaying" /\ conn'[c].gap = conn[c].gap /\ conn'[c].obj = conn[c].obj
        /\ conn'[c].screen = conn[c].screen /\ conn'[c].snapshot = conn[c].snapshot
        /\ \A k \in Conns : k # c => conn'[k] = conn[k]
    BY <1>4, TypesAtHand DEF StartReplay, Shown, Registers, ConnType
  <2>2. ASSUME NEW q \in Objects PROVE Sink(q)'
    <3>1. Sink(q) /\ sess[q] \in SessType
      BY TypesAtHand DEF Registers
    <3> QED BY <2>1, <3>1 DEF Sink, Bound, SessType
  <2>3. ASSUME NEW k \in Conns PROVE Shown(k)'
    BY ZenonT(60), <2>1 DEF Shown, Bound
  <2> QED BY <2>1, <2>2, <2>3 DEF Known
<1>5. CASE Disconnect(c)
  <2>1. sess \in [Objects -> SessType]
    BY TypesAtHand DEF Registers
  <2> QED BY <1>5, <2>1, DisconnectedScreens DEF Disconnect
<1>6. CASE CloseMessage(c)
  <2>1. PICK s : /\ registry' = [registry EXCEPT ![s] = None]
                 /\ Disconnected(c, [o \in Objects |-> IF registry[s] = o THEN Ended(o) ELSE sess[o]])
    BY <1>6 DEF CloseMessage
  <2> DEFINE S == [o \in Objects |-> IF registry[s] = o THEN Ended(o) ELSE sess[o]]
  <2>2. S \in [Objects -> SessType] /\ \A o \in Objects : S[o] = sess[o] \/ S[o] = Ended(o)
    BY EndedTyped, TypesAtHand DEF Registers
  <2>3. Disconnected(c, S)
    BY <2>1
  <2> HIDE DEF S
  <2>4. \A q \in Sids : registry'[q] = registry[q] \/ registry'[q] = None
    BY <2>1 DEF Registers, TypeOK
  <2>5. conn[c].pc \in {"open", "shut"}
    BY <1>6 DEF CloseMessage
  <2> QED BY <2>2, <2>3, <2>4, <2>5, DisconnectedScreens
<1> QED BY <1>1, <1>2, <1>3, <1>4, <1>5, <1>6, CreateScreens, AttachScreens DEF ConnStep, Attaching

LEMMA ReaderScreens ==
  ASSUME IInv, Registers', NEW o \in Objects,
         \/ Age(o) \/ Exit(o) \/ ReadChunk(o) \/ SendChunk(o) \/ ReadEof(o) \/ EndReader(o)
  PROVE  Screens'
<1> USE DEF IInv
<1>1. CASE Age(o)
  BY <1>1, TypesAtHand, IdleScreens DEF Age, Registers, SessType
<1>2. CASE Exit(o)
  BY <1>2, TypesAtHand, IdleScreens DEF Exit, Registers, SessType
<1>3. CASE ReadEof(o)
  <2>1. UNCHANGED << registry, conn >>
    BY <1>3 DEF ReadEof
  <2>2. PICK next \in {"ending", "last"} : sess' = [sess EXCEPT ![o].alive = FALSE, ![o].reader = next]
    BY <1>3 DEF ReadEof
  <2>3. sess[o].reader = "reading"
    BY <1>3 DEF ReadEof
  <2>4. /\ sess'[o].reader = next /\ sess'[o].ws = sess[o].ws /\ sess'[o].to = sess[o].to
        /\ sess'[o].count = sess[o].count
        /\ \A q \in Objects : q # o => sess'[q] = sess[q]
    BY <2>2, TypesAtHand DEF Registers, SessType
  <2> QED BY <2>1, <2>3, <2>4, IdleScreens
<1>4. CASE EndReader(o)
  BY <1>4, TypesAtHand, LetGoScreens DEF EndReader, Registers
<1> QED BY <1>1, <1>2, <1>3, <1>4, ReadChunkScreens, SendChunkScreens

LEMMA NextIInv == ASSUME IInv, [Next]_vars PROVE IInv'
<1> USE DEF IInv
<1>1. Registers'
  BY NextRegisters
<1>2. CASE UNCHANGED vars
  <2>1. UNCHANGED << registry, sess, conn >>
    BY <1>2 DEF vars
  <2> QED BY <1>1, <2>1, IdleScreens
<1>3. CASE List
  BY <1>1, <1>3, IdleScreens DEF List
<1>4. ASSUME NEW S \in SUBSET Sids, Killed(S), UNCHANGED conn PROVE Screens'
  BY <1>1, <1>4, LetGoScreens DEF Killed
<1>5. CASE ReapDetached
  <2>1. {s \in Registered : sess[registry[s]].ws = None} \in SUBSET Sids
    BY DEF Registered
  <2> QED BY <1>1, <1>4, <1>5, <2>1 DEF ReapDetached
<1>6. ASSUME NEW s \in Sids, RunDestroy(s) \/ Close(s) PROVE Screens'
  <2>1. {s} \in SUBSET Sids
    OBVIOUS
  <2> QED BY <1>1, <1>4, <1>6, <2>1 DEF RunDestroy, Close
<1> QED BY <1>1, <1>2, <1>3, <1>5, <1>6, ConnScreens, ReaderScreens DEF Next

LEMMA AlwaysIInv == Spec => []IInv
<1>1. Init => IInv
  BY InitRegisters, InitScreens DEF IInv
<1> QED BY <1>1, NextIInv, PTL DEF Spec

\* The scrollback and the live output come from two tasks; whatever order they
\* and the connections run in, nothing is shown twice or out of order
\* (_session_reader, and the two locked blocks of terminal_ws).
THEOREM ShownOnce == Spec => []NothingRepeated
<1>1. IInv => NothingRepeated
  BY DEF IInv, Screens, Shown, Rising, NothingRepeated
<1> QED BY <1>1, AlwaysIInv, PTL

\* A connection that nobody stood in the way of shows all its session writes: the
\* lock keeps the scrollback the end of the output until the reader sees the
\* new sink (terminal_ws).
THEOREM ShownInFull == Spec => []NothingLost
<1>1. ASSUME IInv PROVE NothingLost
  <2>1. SUFFICES ASSUME NEW o \in Objects, sess[o].ws # None, ~ conn[sess[o].ws].gap,
                        conn[sess[o].ws].pc = "open", sess[o].reader # "ended"
                 PROVE  EndOf(conn[sess[o].ws].screen, Bound(sess[o].ws, o))
    BY DEF NothingLost, EndOf, Bound
  <2> QED BY <1>1, <2>1 DEF IInv, Screens, Sink
<1> QED BY <1>1, AlwaysIInv, PTL
=============================================================================
