-------------------------- MODULE FigmaPages_proofs --------------------------
(***************************************************************************)
(* Proofs about FigmaPages, for any number of files, storyboards, UIs and  *)
(* jobs, and any number of faults and changes of the binding.              *)
(***************************************************************************)
EXTENDS FigmaPages, FiniteSetTheorems, TLAPS

JobRecords == [pc: {"off", "begin", "pages", "frames", "join", "done"},
               kind: {"run", "retry"}, key: Files \union {None},
               file: Files \union {None}, cmds: SUBSET Cmds,
               page: [Cmds -> NodeIds \union {None}], uis: SUBSET Uis,
               call: SUBSET (Cmds \union Uis), out: [Uis -> Outcomes],
               future: [Uis -> Outcomes], joins: [Uis -> Jobs \union {None}]]

\* A page that was made for a storyboard; a frame that was made for a UI, on a page
\* of its storyboard if the id of the page is from the same file.
PageOf(c, n)  == n \in NodeIds /\ MadeFor(n, c)
FrameOf(u, n) ==
  /\ n \in NodeIds /\ n.id \in 1 .. Len(frames[n.from])
  /\ frames[n.from][n.id].ui = u
  /\ LET p == frames[n.from][n.id].page IN p.from = n.from => PageOf(Owner[u], p)

\* A message asks for a frame on a page made for the UI's storyboard, and an answer
\* names what the message asked for.
Mails ==
  /\ \A m \in sent : m.of \in Uis => PageOf(Owner[m.of], m.page)
  /\ \A a \in acks : IF a.msg.of \in Cmds THEN PageOf(a.msg.of, a.id)
                     ELSE FrameOf(a.msg.of, a.id)

\* What a job holds is a page of the storyboard.
PagesFound(j) ==
  \A c \in Cmds : job[j].page[c] # None => PageOf(c, job[j].page[c])

\* A job waits for pages while it looks for pages, for frames while it pushes
\* frames, and never for one that is settled; no page is looked for without a
\* file, and no frame pushed without a page.
CallsFit(j) ==
  /\ job[j].pc = "pages" => /\ job[j].call \subseteq job[j].cmds
                            /\ job[j].cmds # {} => job[j].file # None
  /\ job[j].pc = "frames" =>
       /\ job[j].call \subseteq {u \in job[j].uis : job[j].out[u] = "none"}
       /\ \A u \in job[j].uis : job[j].out[u] = "none" => job[j].page[Owner[u]] # None
  /\ job[j].pc \notin {"pages", "frames"} => job[j].call = {}

\* A future is settled when the job is past its frames, not before; and only runs
\* have a beginning of their own.
Early(j) ==
  /\ job[j].pc \in {"off", "begin", "pages", "frames"} =>
       \A u \in Uis : job[j].future[u] = "none"
  /\ job[j].pc \in {"off", "begin"} => job[j].kind = "run"

\* The store holds the claims of the retries at work, and nothing else.
AtWork(j) == job[j].kind = "retry" /\ job[j].pc \in {"pages", "frames"}
Claims ==
  \A u \in Uis : \A j \in Jobs : inflight[u] = j <=> AtWork(j) /\ u \in job[j].uis

IInv ==
  /\ TypeOK /\ Mails /\ OkHasFrame /\ Claims /\ JoinedIsAnswered
  /\ \A j \in Jobs : PagesFound(j) /\ CallsFit(j) /\ Early(j)

-----------------------------------------------------------------------------
(* Frame lemmas *)

\* A step that replaces one job.
LEMMA OneJob ==
  ASSUME TypeOK, NEW j \in Jobs, NEW x \in JobRecords,
         job' = [job EXCEPT ![j] = x]
  PROVE  /\ job' \in [Jobs -> JobRecords]
         /\ job'[j] = x
         /\ \A k \in Jobs \ {j} : job'[k] = job[k]
  BY DEF TypeOK, JobRecords

\* What is said of pages and frames stays true when more of them are made.
LEMMA Growth ==
  ASSUME TypeOK,
         \A f \in Files : /\ Len(pages[f]) <= Len(pages'[f]) /\ Len(frames[f]) <= Len(frames'[f])
                          /\ Len(pages'[f]) \in Nat /\ Len(frames'[f]) \in Nat
                          /\ \A i \in 1 .. Len(pages[f]) : pages'[f][i] = pages[f][i]
                          /\ \A i \in 1 .. Len(frames[f]) : frames'[f][i] = frames[f][i]
  PROVE  /\ \A c, n : PageOf(c, n) => PageOf(c, n)'
         /\ \A u, n : FrameOf(u, n) => FrameOf(u, n)'
<1>1. \A f \in Files : Len(pages[f]) \in Nat /\ Len(frames[f]) \in Nat
  BY DEF TypeOK
<1>2. \A n \in NodeIds : n.from \in Files /\ n.id \in Nat
  BY DEF NodeIds
<1>3. ASSUME NEW c, NEW n, PageOf(c, n)  PROVE PageOf(c, n)'
  <2>1. n \in NodeIds /\ n.from \in Files /\ n.id \in 1 .. Len(pages[n.from])
        /\ pages[n.from][n.id] = c
    BY <1>2, <1>3 DEF PageOf, MadeFor
  <2>2. n.id \in 1 .. Len(pages'[n.from]) /\ pages'[n.from][n.id] = c
    BY <1>1, <2>1
  <2> QED  BY <2>1, <2>2 DEF PageOf, MadeFor, NodeIds
<1>4. ASSUME NEW u, NEW n, FrameOf(u, n)  PROVE FrameOf(u, n)'
  <2>1. n \in NodeIds /\ n.from \in Files /\ n.id \in 1 .. Len(frames[n.from])
    BY <1>2, <1>4 DEF FrameOf
  <2>2. n.id \in 1 .. Len(frames'[n.from]) /\ frames'[n.from][n.id] = frames[n.from][n.id]
    BY <1>1, <2>1
  <2>3. frames[n.from][n.id].ui = u
        /\ (frames[n.from][n.id].page.from = n.from => PageOf(Owner[u], frames[n.from][n.id].page))
    BY <1>4 DEF FrameOf
  <2>4. LET p == frames[n.from][n.id].page
        IN  p.from = n.from => /\ p \in NodeIds /\ p.id \in 1 .. Len(pages'[p.from])
                               /\ pages'[p.from][p.id] = Owner[u]
    <3> DEFINE p == frames[n.from][n.id].page
    <3>1. p.from = n.from => PageOf(Owner[u], p)
      BY <2>3
    <3> HIDE DEF p
    <3>2. PageOf(Owner[u], p) => /\ p \in NodeIds /\ p.id \in 1 .. Len(pages'[p.from])
                                 /\ pages'[p.from][p.id] = Owner[u]
      BY <1>1, <1>2 DEF PageOf, MadeFor
    <3> QED  BY <3>1, <3>2 DEF p
  <2> QED  BY <2>1, <2>2, <2>3, <2>4 DEF FrameOf, PageOf, MadeFor, NodeIds
<1> QED  BY <1>3, <1>4

\* What makes a UI rightly shown as synchronised, after a step.
LEMMA OkShown ==
  ASSUME \A u \in Uis : \A n : ui'[u].status = "ok" /\ ui'[u].frame = n => FrameOf(u, n)'
  PROVE  OkHasFrame'
<1> SUFFICES ASSUME NEW u \in Uis, NEW n, ui'[u].status = "ok", ui'[u].frame = n
             PROVE  /\ n # None /\ n.id \in 1 .. Len(frames'[n.from])
                    /\ frames'[n.from][n.id].ui = u
                    /\ LET p == frames'[n.from][n.id].page
                       IN  p.from = n.from => /\ p.id \in 1 .. Len(pages'[p.from])
                                              /\ pages'[p.from][p.id] = Owner[u]
  BY DEF OkHasFrame, MadeFor
<1>1. \A v \in Uis : \A i : ui'[v].status = "ok" /\ ui'[v].frame = i => FrameOf(v, i)'
  OBVIOUS
<1>2. FrameOf(u, n)'
  BY <1>1
<1> QED  BY <1>2, ConstantsAssumption DEF FrameOf, PageOf, MadeFor

LEMMA OkFrames == TypeOK /\ OkHasFrame => \A u \in Uis : ui[u].status = "ok" => FrameOf(u, ui[u].frame)
<1> SUFFICES ASSUME TypeOK, OkHasFrame, NEW u \in Uis, ui[u].status = "ok"
             PROVE  FrameOf(u, ui[u].frame)
  OBVIOUS
<1> DEFINE n == ui[u].frame
           x == frames[n.from][n.id]
           F == [page: NodeIds, ui: Uis]
<1>1. /\ n # None /\ n.id \in 1 .. Len(frames[n.from]) /\ x.ui = u
      /\ x.page.from = n.from => MadeFor(x.page, Owner[u])
  BY DEF OkHasFrame
<1>2. n \in NodeIds /\ n.from \in Files
  BY <1>1 DEF TypeOK, NodeIds
<1>3. frames[n.from] \in Seq(F)
  BY <1>2 DEF TypeOK
<1>4. \A e \in F : e.page \in NodeIds
  OBVIOUS
<1> HIDE DEF F
<1>5. x \in F
  BY <1>1, <1>3
<1> QED  BY <1>1, <1>2, <1>4, <1>5 DEF FrameOf, PageOf

\* A step that makes neither.
LEMMA Standstill ==
  ASSUME UNCHANGED << pages, frames >>
  PROVE  /\ \A c, id : PageOf(c, id)' <=> PageOf(c, id)
         /\ \A u, id : FrameOf(u, id)' <=> FrameOf(u, id)
  BY DEF PageOf, FrameOf, MadeFor, NodeIds

\* What a step that replaces one job, and makes no page and no frame, leaves
\* true of the other jobs.
LEMMA OtherJobs ==
  ASSUME IInv, NEW j \in Jobs, NEW x \in JobRecords,
         job' = [job EXCEPT ![j] = x], UNCHANGED << pages, frames >>
  PROVE  /\ \A k \in Jobs \ {j} : PagesFound(k)' /\ CallsFit(k)' /\ Early(k)'
         /\ \A k \in Jobs \ {j} : AtWork(k)' <=> AtWork(k)
<1>1. \A k \in Jobs \ {j} : job'[k] = job[k]
  BY OneJob DEF IInv
<1>2. \A k \in Jobs \ {j} : PagesFound(k)'
  BY <1>1, Standstill DEF IInv, PagesFound
<1>3. \A k \in Jobs \ {j} : CallsFit(k)'
  BY <1>1 DEF IInv, CallsFit
<1>4. \A k \in Jobs \ {j} : Early(k)'
  BY <1>1 DEF IInv, Early
<1>5. \A k \in Jobs \ {j} : AtWork(k)' <=> AtWork(k)
  BY <1>1 DEF AtWork
<1> QED  BY <1>2, <1>3, <1>4, <1>5

\* Who joined a job is answered as before, if the job keeps its claims or
\* settles their futures.
LEMMA JoinsKept ==
  ASSUME IInv, NEW j \in Jobs, NEW x \in JobRecords,
         job' = [job EXCEPT ![j] = x],
         x.joins = job[j].joins,
         \A u \in Uis : job[j].future[u] # "none" => x.future[u] # "none",
         \A u \in Uis : \A k \in Jobs \ {j} : inflight[u] = k => inflight'[u] = k,
         \A u \in Uis : inflight[u] = j =>
           \/ x.future[u] # "none"
           \/ inflight'[u] = j /\ u \in x.uis /\ x.pc \in {"pages", "frames"}
  PROVE  JoinedIsAnswered'
<1>1. job'[j] = x /\ \A k \in Jobs \ {j} : job'[k] = job[k]
  BY OneJob DEF IInv
<1> SUFFICES ASSUME NEW u \in Uis, NEW i \in Jobs, job'[i].joins[u] # None
             PROVE  LET k == job'[i].joins[u] IN
                      \/ job'[k].future[u] # "none"
                      \/ inflight'[u] = k /\ u \in job'[k].uis /\ job'[k].pc \in {"pages", "frames"}
  BY DEF JoinedIsAnswered
<1>2. job'[i].joins[u] = job[i].joins[u]
  BY <1>1
<1> DEFINE k == job[i].joins[u]
<1>3. k \in Jobs
  BY <1>2 DEF IInv, TypeOK
<1>4. \/ job[k].future[u] # "none"
      \/ inflight[u] = k /\ u \in job[k].uis /\ job[k].pc \in {"pages", "frames"}
  BY <1>2 DEF IInv, JoinedIsAnswered
<1>5. CASE k = j
  BY <1>1, <1>2, <1>4, <1>5
<1>6. CASE k # j
  BY <1>1, <1>2, <1>3, <1>4, <1>6
<1> QED  BY <1>5, <1>6

\* A step of a job that begins or ends no retry.
LEMMA QuietStep ==
  ASSUME IInv, NEW j \in Jobs, NEW x \in JobRecords,
         job' = [job EXCEPT ![j] = x], UNCHANGED << pages, frames, inflight >>,
         x.kind = job[j].kind, x.joins = job[j].joins, x.future = job[j].future,
         \/ x.kind = "run"
         \/ x.uis = job[j].uis /\ (x.pc \in {"pages", "frames"} <=> job[j].pc \in {"pages", "frames"})
  PROVE  Claims' /\ JoinedIsAnswered'
<1>1. job'[j] = x /\ \A k \in Jobs \ {j} : job'[k] = job[k]
  BY OneJob DEF IInv
<1>2. AtWork(j)' <=> AtWork(j)
  BY <1>1 DEF AtWork
<1>3. AtWork(j) => job'[j].uis = job[j].uis
  BY <1>1 DEF AtWork
<1>4. Claims'
  <2> SUFFICES ASSUME NEW u \in Uis, NEW k \in Jobs
               PROVE  inflight'[u] = k <=> AtWork(k)' /\ u \in job'[k].uis
    BY DEF Claims
  <2>1. inflight[u] = k <=> AtWork(k) /\ u \in job[k].uis
    BY DEF IInv, Claims
  <2>2. AtWork(k)' <=> AtWork(k)
    BY <1>2, OtherJobs
  <2> QED  BY <1>1, <1>3, <2>1, <2>2
<1>5. \A u \in Uis : inflight[u] = j =>
        inflight'[u] = j /\ u \in x.uis /\ x.pc \in {"pages", "frames"}
  BY <1>1, <1>2, <1>3 DEF IInv, Claims, AtWork
<1>6. /\ \A u \in Uis : job[j].future[u] # "none" => x.future[u] # "none"
      /\ \A u \in Uis : \A k \in Jobs \ {j} : inflight[u] = k => inflight'[u] = k
  OBVIOUS
<1>7. JoinedIsAnswered'
  BY <1>5, <1>6, JoinsKept
<1> QED  BY <1>4, <1>7

-----------------------------------------------------------------------------
(* The binding, and jobs that begin *)

LEMMA Bindings ==
  ASSUME IInv, EditBinding  PROVE IInv'
<1> DEFINE archived == [c \in Cmds |-> IF mapping[c].status = "active"
                                       THEN [mapping[c] EXCEPT !.status = "archived"]
                                       ELSE mapping[c]]
           cleared == [u \in Uis |-> [ui[u] EXCEPT !.status = "none"]]
<1>1. UNCHANGED << pages, frames, sent, acks, job, inflight, faults >>
  BY DEF EditBinding, figma
<1>2. \/ bound' \in Files \union {None} /\ UNCHANGED << mapping, ui >>
      \/ bound' \in Files /\ mapping' = archived /\ ui' = cleared
  <2>1. CASE Disconnect
    BY <2>1 DEF Disconnect
  <2>2. ASSUME NEW f \in Files, Connect(f) \/ Replace(f)
        PROVE  \/ bound' \in Files /\ UNCHANGED << mapping, ui >>
               \/ bound' \in Files /\ mapping' = archived /\ ui' = cleared
    BY <2>2 DEF Connect, Replace
  <2> QED  BY <2>1, <2>2 DEF EditBinding
<1>3. /\ bound' \in Files \union {None} /\ edits' \in 0 .. MaxEdits
      /\ mapping' \in [Cmds -> [status: {"none", "active", "archived"}, page: NodeIds \union {None}]]
      /\ \A c \in Cmds : mapping'[c].status = "active" =>
           mapping'[c].page = mapping[c].page /\ mapping[c].status = "active"
  <2>1. edits' \in 0 .. MaxEdits
    BY ConstantsAssumption DEF EditBinding, IInv, TypeOK
  <2>2. mapping \in [Cmds -> [status: {"none", "active", "archived"}, page: NodeIds \union {None}]]
    BY DEF IInv, TypeOK
  <2>3. CASE mapping' = archived /\ bound' \in Files
    BY <2>1, <2>2, <2>3
  <2>4. CASE mapping' = mapping /\ bound' \in Files \union {None}
    BY <2>1, <2>2, <2>4
  <2> QED  BY <1>2, <2>3, <2>4
<1>9. /\ ui' \in [Uis -> [status: Outcomes, frame: NodeIds \union {None}, key: Files \union {None}]]
      /\ \A u \in Uis : ui'[u].status = "ok" => ui'[u] = ui[u]
  <2>1. ui \in [Uis -> [status: Outcomes, frame: NodeIds \union {None}, key: Files \union {None}]]
    BY DEF IInv, TypeOK
  <2>2. CASE ui' = cleared
    BY <2>1, <2>2 DEF Outcomes
  <2>3. CASE ui' = ui
    BY <2>1, <2>3
  <2> QED  BY <1>2, <2>2, <2>3
<1>4. TypeOK'
  BY <1>1, <1>3, <1>9 DEF IInv, TypeOK, MadeFor
<1>5. OkHasFrame'
  BY <1>1, <1>9, OkFrames, OkShown, Standstill DEF IInv
<1>6. Mails'
  BY <1>1, Standstill DEF IInv, Mails
<1>7. Claims' /\ JoinedIsAnswered'
  BY <1>1 DEF IInv, Claims, AtWork, JoinedIsAnswered
<1>8. \A j \in Jobs : PagesFound(j)' /\ CallsFit(j)' /\ Early(j)'
  BY <1>1, Standstill DEF IInv, PagesFound, CallsFit, Early
<1> QED  BY <1>4, <1>5, <1>6, <1>7, <1>8 DEF IInv

\* What is not touched by a step that changes one job only.
LEMMA JobOnly ==
  ASSUME IInv, NEW j \in Jobs, NEW x \in JobRecords,
         job' = [job EXCEPT ![j] = x],
         UNCHANGED << bound, mapping, ui, figma, edits >>,
         inflight' \in [Uis -> Jobs \union {None}], faults' \in 0 .. MaxFaults
  PROVE  TypeOK' /\ OkHasFrame' /\ Mails'
<1>1. UNCHANGED << pages, frames, sent, acks >>
  BY DEF figma
<1>2. TypeOK'
  BY <1>1, OneJob DEF IInv, TypeOK, JobRecords, Messages, MadeFor
<1>3. OkHasFrame'
  BY <1>1, OkFrames, OkShown, Standstill DEF IInv
<1>4. Mails'
  BY <1>1, Standstill DEF IInv, Mails
<1> QED  BY <1>2, <1>3, <1>4

LEMMA RunStarts ==
  ASSUME IInv, NEW j \in Jobs, StartRun(j)  PROVE IInv'
<1> DEFINE x == [job[j] EXCEPT !.pc = "begin", !.key = bound, !.uis = Uis]
<1>1. job[j] \in JobRecords /\ job[j].pc = "off" /\ job[j].kind = "run"
  BY DEF StartRun, IInv, TypeOK, JobRecords, Early
<1>2. x \in JobRecords
  BY <1>1 DEF JobRecords, IInv, TypeOK
<1>3. job' = [job EXCEPT ![j] = x] /\ job'[j] = x
  BY DEF StartRun, IInv, TypeOK
<1>4. UNCHANGED << bound, mapping, ui, figma, faults, edits, inflight, pages, frames >>
  BY DEF StartRun, figma, bounds
<1>5. /\ x.kind = job[j].kind /\ x.joins = job[j].joins /\ x.future = job[j].future
      /\ x.kind = "run"
  BY <1>1 DEF JobRecords
<1>6. TypeOK' /\ OkHasFrame' /\ Mails'
  BY <1>2, <1>3, <1>4, JobOnly DEF IInv, TypeOK
<1>7. PagesFound(j)' /\ CallsFit(j)' /\ Early(j)'
  BY <1>1, <1>3, <1>4, Standstill DEF IInv, PagesFound, CallsFit, Early, JobRecords
<1>8. Claims' /\ JoinedIsAnswered'
  BY <1>2, <1>3, <1>4, <1>5, QuietStep
<1>9. \A k \in Jobs \ {j} : PagesFound(k)' /\ CallsFit(k)' /\ Early(k)'
  BY <1>2, <1>3, <1>4, OtherJobs
<1> QED  BY <1>6, <1>7, <1>8, <1>9 DEF IInv

LEMMA RunBegins ==
  ASSUME IInv, NEW j \in Jobs, BeginPages(j)  PROVE IInv'
<1> DEFINE x == [job[j] EXCEPT !.pc = "pages", !.file = bound,
                               !.cmds = IF bound = None THEN {} ELSE Owners(job[j].uis)]
<1>1. job[j] \in JobRecords /\ job[j].pc = "begin" /\ job[j].kind = "run"
  BY DEF BeginPages, IInv, TypeOK, JobRecords, Early
<1>2. x \in JobRecords
  <2>1. Owners(job[j].uis) \subseteq Cmds
    BY <1>1, ConstantsAssumption DEF JobRecords, Owners
  <2>2. bound \in Files \union {None}
    BY DEF IInv, TypeOK
  <2> QED  BY <1>1, <2>1, <2>2 DEF JobRecords
<1>3. job' = [job EXCEPT ![j] = x] /\ job'[j] = x
  BY DEF BeginPages, IInv, TypeOK
<1>4. UNCHANGED << bound, mapping, ui, figma, faults, edits, inflight, pages, frames >>
  BY DEF BeginPages, figma, bounds
<1>5. /\ x.kind = job[j].kind /\ x.joins = job[j].joins /\ x.future = job[j].future
      /\ x.kind = "run"
  BY <1>1 DEF JobRecords
<1>6. TypeOK' /\ OkHasFrame' /\ Mails'
  BY <1>2, <1>3, <1>4, JobOnly DEF IInv, TypeOK
<1>7. PagesFound(j)' /\ CallsFit(j)' /\ Early(j)'
  BY <1>1, <1>3, <1>4, Standstill DEF IInv, PagesFound, CallsFit, Early, JobRecords
<1>8. Claims' /\ JoinedIsAnswered'
  BY <1>2, <1>3, <1>4, <1>5, QuietStep
<1>9. \A k \in Jobs \ {j} : PagesFound(k)' /\ CallsFit(k)' /\ Early(k)'
  BY <1>2, <1>3, <1>4, OtherJobs
<1> QED  BY <1>6, <1>7, <1>8, <1>9 DEF IInv

\* A retry claims what is free, and joins what others have claimed.
LEMMA RetryStarts ==
  ASSUME IInv, NEW j \in Jobs, NEW wanted \in SUBSET Uis, StartRetry(j, wanted)
  PROVE  IInv'
<1> DEFINE us  == {u \in wanted : Retryable(u)}
           own == {u \in us : inflight[u] = None}
           x   == [job[j] EXCEPT !.kind = "retry", !.key = bound, !.file = bound, !.uis = own,
                     !.joins = [u \in Uis |-> IF u \in us \ own THEN inflight[u] ELSE None]]
           claimed == [x EXCEPT !.pc = "pages", !.cmds = Owners(own)]
           refused == [x EXCEPT !.pc = "join",
                         !.future = [u \in Uis |-> IF u \in own THEN "failed" ELSE "none"]]
           taken == [u \in Uis |-> IF u \in own THEN j ELSE inflight[u]]
<1>1. job[j] \in JobRecords /\ job[j].pc = "off"
  BY DEF StartRetry, IInv, TypeOK, JobRecords
<1>2. own \subseteq Uis /\ us \subseteq Uis
  OBVIOUS
<1>3. inflight \in [Uis -> Jobs \union {None}] /\ bound \in Files \union {None}
  BY DEF IInv, TypeOK
<1>4. UNCHANGED << bound, mapping, ui, figma, faults, edits, pages, frames >>
  BY DEF StartRetry, figma, bounds
<1>5. \/ job' = [job EXCEPT ![j] = claimed] /\ inflight' = taken /\ bound # None
      \/ job' = [job EXCEPT ![j] = refused] /\ inflight' = inflight
  BY DEF StartRetry
<1> HIDE DEF us, own
<1>6. x \in JobRecords
  BY <1>1, <1>2, <1>3 DEF JobRecords
<1>7. claimed \in JobRecords /\ refused \in JobRecords
  <2>1. Owners(own) \subseteq Cmds
    BY <1>2, ConstantsAssumption DEF Owners
  <2> HIDE DEF x
  <2> QED  BY <1>6, <2>1 DEF JobRecords, Outcomes
<1>8. PICK y \in JobRecords :
        /\ (y = claimed /\ bound # None) \/ y = refused
        /\ job' = [job EXCEPT ![j] = y]
        /\ inflight' = IF y = claimed THEN taken ELSE inflight
        /\ y.pc = IF y = claimed THEN "pages" ELSE "join"
  <2>1. claimed.pc = "pages" /\ refused.pc = "join"
    BY <1>1 DEF JobRecords
  <2> QED  BY <1>5, <1>7, <2>1
<1>9. /\ y.kind = "retry" /\ y.uis = own /\ y.call = job[j].call /\ y.page = job[j].page
      /\ y.joins = [u \in Uis |-> IF u \in us \ own THEN inflight[u] ELSE None]
      /\ y.pc = "pages" => y.future = job[j].future /\ y.file # None
  BY <1>1, <1>8 DEF JobRecords
<1> HIDE DEF x, claimed, refused
<1>10. /\ job'[j] = y /\ \A k \in Jobs \ {j} : job'[k] = job[k]
       /\ \A k \in Jobs \ {j} : AtWork(k)' <=> AtWork(k)
  BY <1>4, <1>8, OneJob, OtherJobs DEF IInv
<1>11. inflight' \in [Uis -> Jobs \union {None}]
  BY <1>3, <1>8
<1>12. TypeOK' /\ OkHasFrame' /\ Mails'
  BY <1>4, <1>8, <1>11, JobOnly DEF IInv, TypeOK
<1>13. PagesFound(j)'
  BY <1>4, <1>9, <1>10, Standstill DEF IInv, PagesFound
<1>14. CallsFit(j)'
  BY <1>1, <1>8, <1>9, <1>10 DEF IInv, CallsFit
<1>15. Early(j)'
  BY <1>1, <1>8, <1>9, <1>10 DEF IInv, Early
<1>16. \A u \in Uis : inflight[u] # j /\ (u \in own => inflight[u] = None)
  BY <1>1 DEF IInv, Claims, AtWork, own
<1>17. Claims'
  <2> SUFFICES ASSUME NEW u \in Uis, NEW k \in Jobs
               PROVE  inflight'[u] = k <=> AtWork(k)' /\ u \in job'[k].uis
    BY DEF Claims
  <2>1. k # None
    BY ConstantsAssumption
  <2>2. CASE k = j
    <3>1. AtWork(j)' <=> y.pc = "pages"
      BY <1>8, <1>9, <1>10 DEF AtWork
    <3> QED  BY <1>8, <1>9, <1>10, <1>16, <2>2, <3>1
  <2>3. CASE k # j
    <3>1. inflight[u] = k <=> AtWork(k) /\ u \in job[k].uis
      BY DEF IInv, Claims
    <3>2. inflight'[u] = k <=> inflight[u] = k
      BY <1>8, <1>16, <2>1, <2>3
    <3> QED  BY <1>10, <2>3, <3>1, <3>2
  <2> QED  BY <2>2, <2>3
<1>18. JoinedIsAnswered'
  <2> SUFFICES ASSUME NEW u \in Uis, NEW i \in Jobs, job'[i].joins[u] # None
               PROVE  LET k == job'[i].joins[u] IN
                        \/ job'[k].future[u] # "none"
                        \/ inflight'[u] = k /\ u \in job'[k].uis /\ job'[k].pc \in {"pages", "frames"}
    BY DEF JoinedIsAnswered
  <2> DEFINE k == job'[i].joins[u]
  <2>1. CASE i = j
    <3>1. k = inflight[u] /\ u \notin own /\ k \in Jobs /\ k # j
      BY <1>3, <1>9, <1>10, <1>16, <2>1
    <3>2. u \in job[k].uis /\ job[k].pc \in {"pages", "frames"}
      BY <3>1 DEF IInv, Claims, AtWork
    <3> QED  BY <1>8, <1>10, <3>1, <3>2
  <2>2. CASE i # j
    <3>1. k = job[i].joins[u] /\ k \in Jobs
      BY <1>10, <2>2 DEF IInv, TypeOK
    <3>2. \/ job[k].future[u] # "none"
          \/ inflight[u] = k /\ u \in job[k].uis /\ job[k].pc \in {"pages", "frames"}
      BY <3>1, <2>2 DEF IInv, JoinedIsAnswered
    <3>3. k # j
      BY <1>1, <3>2 DEF IInv, Early
    <3>4. inflight[u] = k => inflight'[u] = k
      BY <1>8, <1>16, <3>1, ConstantsAssumption
    <3> QED  BY <1>10, <3>1, <3>2, <3>3, <3>4
  <2> QED  BY <2>1, <2>2
<1>19. \A k \in Jobs \ {j} : PagesFound(k)' /\ CallsFit(k)' /\ Early(k)'
  BY <1>4, <1>8, OtherJobs
<1> QED  BY <1>12, <1>13, <1>14, <1>15, <1>17, <1>18, <1>19 DEF IInv

-----------------------------------------------------------------------------
(* Jobs at work *)

\* What a step of a job does to mappings and UIs.
LEMMA Written ==
  ASSUME IInv, NEW j \in Jobs, NEW x \in JobRecords, job' = [job EXCEPT ![j] = x],
         UNCHANGED << bound, pages, frames, edits >>,
         sent' \subseteq Messages, acks' \subseteq acks,
         inflight' \in [Uis -> Jobs \union {None}], faults' \in 0 .. MaxFaults,
         mapping' \in [Cmds -> [status: {"none", "active", "archived"}, page: NodeIds \union {None}]],
         \A c \in Cmds : mapping'[c] = mapping[c] \/ PageOf(c, mapping'[c].page),
         ui' \in [Uis -> [status: Outcomes, frame: NodeIds \union {None}, key: Files \union {None}]],
         \A u \in Uis : \/ ui'[u] = ui[u] \/ ui'[u].status # "ok"
                        \/ FrameOf(u, ui'[u].frame)
  PROVE  TypeOK' /\ OkHasFrame'
<1>1. job' \in [Jobs -> JobRecords]
  BY OneJob DEF IInv
<1>2. \A c \in Cmds : mapping'[c].status = "active" =>
        mapping'[c].page # None /\ MadeFor(mapping'[c].page, c)
  BY ConstantsAssumption DEF IInv, TypeOK, PageOf, MadeFor
<1>3. TypeOK'
  BY <1>1, <1>2 DEF IInv, TypeOK, JobRecords, MadeFor
<1>4. \A u \in Uis : ui'[u].status = "ok" => FrameOf(u, ui'[u].frame)
  BY OkFrames DEF IInv
<1>5. OkHasFrame'
  BY <1>4, OkShown, Standstill
<1> QED  BY <1>3, <1>5

\* A message goes out only for what is open, and with the page it needs.
LEMMA Sends ==
  ASSUME IInv, NEW j \in Jobs, NEW q \in Cmds \union Uis, NEW f \in Files,
         NEW id \in NodeIds \union {None}, Send(j, q, f, id),
         UNCHANGED << bound, mapping, ui, inflight, faults, edits >>,
         \/ job[j].pc = "pages" /\ q \in job[j].cmds
         \/ job[j].pc = "frames" /\ q \in job[j].uis /\ job[j].out[q] = "none",
         q \in Uis => PageOf(Owner[q], id)
  PROVE  IInv'
<1> DEFINE x == [job[j] EXCEPT !.call = @ \union {q}]
           m == [job |-> j, of |-> q, file |-> f, page |-> id]
<1>1. job[j] \in JobRecords
  BY DEF IInv, TypeOK, JobRecords
<1>2. x \in JobRecords
  BY <1>1 DEF JobRecords
<1>3. job' = [job EXCEPT ![j] = x] /\ job'[j] = x
  BY DEF Send, IInv, TypeOK
<1>4. UNCHANGED << pages, frames, acks >> /\ sent' = sent \union {m}
  BY DEF Send
<1>5. m \in Messages
  BY DEF Messages
<1>6. TypeOK' /\ OkHasFrame'
  BY <1>2, <1>3, <1>4, <1>5, Written DEF IInv, TypeOK
<1>7. Mails'
  <2>1. m.of = q /\ m.page = id
    OBVIOUS
  <2> HIDE DEF m
  <2>2. \A n \in sent' : n.of \in Uis => PageOf(Owner[n.of], n.page)
    BY <1>4, <2>1 DEF IInv, Mails
  <2> QED  BY <1>4, <2>2, Standstill DEF IInv, Mails
<1>8. PagesFound(j)' /\ CallsFit(j)' /\ Early(j)'
  <2>1. /\ x.call = job[j].call \union {q}
        /\ x.pc = job[j].pc /\ x.cmds = job[j].cmds /\ x.uis = job[j].uis /\ x.out = job[j].out
        /\ x.page = job[j].page /\ x.future = job[j].future /\ x.kind = job[j].kind
        /\ x.file = job[j].file
    BY <1>1 DEF JobRecords
  <2> HIDE DEF x
  <2>2. PagesFound(j)'
    BY <1>3, <1>4, <2>1, Standstill DEF IInv, PagesFound
  <2>3. CallsFit(j)'
    BY <1>3, <2>1 DEF IInv, CallsFit
  <2>4. Early(j)'
    BY <1>3, <2>1 DEF IInv, Early
  <2> QED  BY <2>2, <2>3, <2>4
<1>9. /\ x.kind = job[j].kind /\ x.joins = job[j].joins /\ x.future = job[j].future
      /\ x.uis = job[j].uis /\ x.pc = job[j].pc
  BY <1>1 DEF JobRecords
<1>10. Claims' /\ JoinedIsAnswered'
  BY <1>2, <1>3, <1>4, <1>9, QuietStep
<1>11. \A k \in Jobs \ {j} : PagesFound(k)' /\ CallsFit(k)' /\ Early(k)'
  BY <1>2, <1>3, <1>4, OtherJobs
<1> QED  BY <1>6, <1>7, <1>8, <1>10, <1>11 DEF IInv

LEMMA Looks ==
  ASSUME IInv, NEW j \in Jobs, NEW c \in Cmds, EnsurePage(j, c)  PROVE IInv'
<1> USE DEF EnsurePage, bounds
<1>1. CASE mapping[c].status = "active"
  <2> DEFINE x == [job[j] EXCEPT !.page[c] = mapping[c].page, !.cmds = @ \ {c}]
  <2>1. job[j] \in JobRecords
    BY DEF IInv, TypeOK, JobRecords
  <2>2. mapping[c].page \in NodeIds \union {None} /\ PageOf(c, mapping[c].page)
    BY <1>1 DEF IInv, TypeOK, PageOf
  <2>3. x \in JobRecords
    BY <2>1, <2>2 DEF JobRecords
  <2>4. job' = [job EXCEPT ![j] = x] /\ job'[j] = x
    BY <1>1 DEF IInv, TypeOK
  <2>5. UNCHANGED << bound, mapping, ui, figma, faults, edits, inflight, pages, frames >>
    BY <1>1 DEF figma
  <2>6. TypeOK' /\ OkHasFrame' /\ Mails'
    BY ZenonT(60), <2>3, <2>4, <2>5, JobOnly DEF IInv, TypeOK
  <2>7. /\ x.kind = job[j].kind /\ x.joins = job[j].joins /\ x.future = job[j].future
        /\ x.uis = job[j].uis /\ x.pc = job[j].pc /\ x.pc = "pages" /\ x.call = {}
        /\ x.page = [job[j].page EXCEPT ![c] = mapping[c].page] /\ x.file = job[j].file
        /\ x.cmds = job[j].cmds \ {c}
    BY <2>1 DEF JobRecords
  <2>8. job[j].page \in [Cmds -> NodeIds \union {None}]
    BY <2>1 DEF JobRecords
  <2> HIDE DEF x
  <2>9. PagesFound(j)'
    BY <2>2, <2>4, <2>5, <2>7, <2>8, Standstill DEF IInv, PagesFound
  <2>10. CallsFit(j)' /\ Early(j)'
    BY <2>4, <2>7 DEF IInv, CallsFit, Early
  <2>11. Claims' /\ JoinedIsAnswered'
    BY <2>3, <2>4, <2>5, <2>7, QuietStep
  <2>12. \A k \in Jobs \ {j} : PagesFound(k)' /\ CallsFit(k)' /\ Early(k)'
    BY <2>3, <2>4, <2>5, OtherJobs
  <2> QED  BY <2>6, <2>9, <2>10, <2>11, <2>12 DEF IInv
<1>2. CASE mapping[c].status # "active"
  <2>1. job[j].file \in Files
    BY DEF IInv, TypeOK, CallsFit
  <2>2. c \notin Uis
    BY ConstantsAssumption
  <2> QED  BY <1>2, <2>1, <2>2, Sends
<1> QED  BY <1>1, <1>2

LEMMA MarkedTypes ==
  ASSUME TypeOK, NEW j \in Jobs, NEW u \in Uis, NEW id \in NodeIds \union {None}
  PROVE  /\ Marked(j, u, id) \in [status: Outcomes, frame: NodeIds \union {None}, key: Files \union {None}]
         /\ Marked(j, u, id).status = "ok" => id # None /\ Marked(j, u, id).frame = id
<1>1. ui[u] \in [status: Outcomes, frame: NodeIds \union {None}, key: Files \union {None}]
  BY DEF TypeOK
<1>2. job[j].key \in Files \union {None}
  BY DEF TypeOK
<1> QED  BY <1>1, <1>2 DEF Marked, Outcomes

LEMMA Turns ==
  ASSUME IInv, NEW j \in Jobs, PagesEnd(j)  PROVE IInv'
<1> DEFINE lost == {u \in job[j].uis : job[j].page[Owner[u]] = None}
<1>1. /\ job[j] \in JobRecords /\ job[j].pc = "pages" /\ job[j].cmds = {} /\ job[j].call = {}
      /\ ui \in [Uis -> [status: Outcomes, frame: NodeIds \union {None}, key: Files \union {None}]]
  BY DEF PagesEnd, IInv, TypeOK, JobRecords, CallsFit
<1>2. UNCHANGED << bound, mapping, figma, faults, edits, inflight, pages, frames, sent, acks >>
  BY DEF PagesEnd, figma, bounds
<1>3. Mails'
  BY <1>2, Standstill DEF IInv, Mails
<1>4. CASE job[j].kind = "run" /\ bound # job[j].key
  <2> DEFINE x == [job[j] EXCEPT !.pc = "done"]
  <2>1. x \in JobRecords
    BY <1>1 DEF JobRecords
  <2>2. job' = [job EXCEPT ![j] = x] /\ job'[j] = x /\ ui' = ui
    BY <1>4 DEF PagesEnd, IInv, TypeOK
  <2>3. TypeOK' /\ OkHasFrame'
    BY <1>2, <2>1, <2>2, JobOnly DEF IInv, TypeOK
  <2>4. PagesFound(j)' /\ CallsFit(j)' /\ Early(j)'
    BY <1>1, <1>2, <2>2, Standstill DEF IInv, PagesFound, CallsFit, Early, JobRecords
  <2>5. x.kind = "run" /\ x.kind = job[j].kind /\ x.joins = job[j].joins /\ x.future = job[j].future
    BY <1>1, <1>4 DEF JobRecords
  <2>6. Claims' /\ JoinedIsAnswered'
    BY <1>2, <2>1, <2>2, <2>5, QuietStep
  <2>7. \A k \in Jobs \ {j} : PagesFound(k)' /\ CallsFit(k)' /\ Early(k)'
    BY <1>2, <2>1, <2>2, OtherJobs
  <2> QED  BY <1>3, <2>3, <2>4, <2>6, <2>7 DEF IInv
<1>5. CASE ~ (job[j].kind = "run" /\ bound # job[j].key)
  <2> DEFINE o == [u \in Uis |-> IF u \in lost THEN "failed" ELSE job[j].out[u]]
             x == [job[j] EXCEPT !.pc = "frames", !.out = o]
  <2>1. o \in [Uis -> Outcomes]
    BY <1>1 DEF JobRecords, Outcomes
  <2>2. job' = [job EXCEPT ![j] = x] /\ job'[j] = x
    BY <1>5 DEF PagesEnd, IInv, TypeOK
  <2>3. ui' = [u \in Uis |-> IF u \in lost THEN Marked(j, u, None) ELSE ui[u]]
    BY <1>5 DEF PagesEnd
  <2>4. \A u \in Uis : u \in job[j].uis /\ o[u] = "none" => job[j].page[Owner[u]] # None
    OBVIOUS
  <2>5. /\ ui' \in [Uis -> [status: Outcomes, frame: NodeIds \union {None}, key: Files \union {None}]]
        /\ \A u \in Uis : ui'[u] = ui[u] \/ ui'[u].status # "ok"
    BY <1>1, <2>3, MarkedTypes DEF IInv
  <2> HIDE DEF o, lost
  <2>6. x \in JobRecords
    BY <1>1, <2>1 DEF JobRecords
  <2>7. sent' \subseteq Messages /\ acks' \subseteq acks
    BY <1>2 DEF IInv, TypeOK
  <2>8. TypeOK' /\ OkHasFrame'
    BY <1>2, <2>2, <2>5, <2>6, <2>7, Written DEF IInv, TypeOK
  <2>9. /\ x.kind = job[j].kind /\ x.joins = job[j].joins /\ x.future = job[j].future
        /\ x.uis = job[j].uis /\ x.pc = "frames" /\ x.call = {} /\ x.page = job[j].page
        /\ x.out = o /\ x.uis \subseteq Uis
    BY <1>1 DEF JobRecords
  <2> HIDE DEF x
  <2>10. PagesFound(j)' /\ CallsFit(j)' /\ Early(j)'
    BY <1>1, <1>2, <2>2, <2>4, <2>9, Standstill DEF IInv, PagesFound, CallsFit, Early
  <2>11. Claims' /\ JoinedIsAnswered'
    BY <1>1, <1>2, <2>2, <2>6, <2>9, QuietStep
  <2>12. \A k \in Jobs \ {j} : PagesFound(k)' /\ CallsFit(k)' /\ Early(k)'
    BY <1>2, <2>2, <2>6, OtherJobs
  <2> QED  BY <1>3, <2>8, <2>10, <2>11, <2>12 DEF IInv
<1> QED  BY <1>4, <1>5

\* A call of the plugin returns, to a job that waits for it: with what was made,
\* or with nothing.
LEMMA Returns ==
  ASSUME IInv, NEW j \in Jobs, NEW q \in job[j].call, NEW id \in NodeIds \union {None},
         Return(j, q, id),
         id # None => IF q \in Cmds THEN PageOf(q, id) ELSE FrameOf(q, id),
         UNCHANGED << bound, pages, frames, inflight, edits >>, faults' \in 0 .. MaxFaults,
         sent' \subseteq sent, acks' \subseteq acks
  PROVE  IInv'
<1>1. job[j] \in JobRecords /\ q \in Cmds \union Uis
  BY DEF IInv, TypeOK, JobRecords
<1>2. Mails'
  BY Standstill DEF IInv, Mails
<1>3. sent' \subseteq Messages /\ faults' \in 0 .. MaxFaults
      /\ inflight' \in [Uis -> Jobs \union {None}]
  BY DEF IInv, TypeOK
<1>4. CASE q \in Cmds
  <2> DEFINE x == [job[j] EXCEPT !.page[q] = id, !.cmds = @ \ {q}, !.call = {}]
  <2>1. job[j].pc = "pages"
    BY <1>1, <1>4, ConstantsAssumption DEF IInv, CallsFit, JobRecords
  <2>2. job' = [job EXCEPT ![j] = x] /\ job'[j] = x /\ ui' = ui
        /\ mapping' = IF id = None THEN mapping
                      ELSE [mapping EXCEPT ![q] = [status |-> "active", page |-> id]]
    BY <1>4 DEF Return, PageMade, IInv, TypeOK
  <2>3. x \in JobRecords
    BY <1>1 DEF JobRecords
  <2>4. mapping' \in [Cmds -> [status: {"none", "active", "archived"}, page: NodeIds \union {None}]]
    BY <1>4, <2>2 DEF IInv, TypeOK
  <2>5. \A c \in Cmds : mapping'[c] = mapping[c] \/ PageOf(c, mapping'[c].page)
    BY <1>4, <2>2 DEF IInv, TypeOK
  <2>6. TypeOK' /\ OkHasFrame'
    BY <1>3, <2>2, <2>3, <2>4, <2>5, Written DEF IInv, TypeOK
  <2>7. /\ x.kind = job[j].kind /\ x.joins = job[j].joins /\ x.future = job[j].future
        /\ x.uis = job[j].uis /\ x.pc = job[j].pc /\ x.call = {} /\ x.file = job[j].file
        /\ x.page = [job[j].page EXCEPT ![q] = id] /\ x.cmds = job[j].cmds \ {q}
        /\ job[j].page \in [Cmds -> NodeIds \union {None}]
    BY <1>1 DEF JobRecords
  <2> HIDE DEF x
  <2>8. PagesFound(j)'
    BY <1>4, <2>2, <2>7, Standstill DEF IInv, PagesFound
  <2>9. CallsFit(j)' /\ Early(j)'
    BY <2>1, <2>2, <2>7 DEF IInv, CallsFit, Early
  <2>10. Claims' /\ JoinedIsAnswered'
    BY <2>2, <2>3, <2>7, QuietStep
  <2>11. \A k \in Jobs \ {j} : PagesFound(k)' /\ CallsFit(k)' /\ Early(k)'
    BY <2>2, <2>3, OtherJobs
  <2> QED  BY <1>2, <2>6, <2>8, <2>9, <2>10, <2>11 DEF IInv
<1>5. CASE q \notin Cmds
  <2> DEFINE r == IF id = None THEN "failed" ELSE "ok"
             x == [job[j] EXCEPT !.call = @ \ {q}, !.out[q] = r]
  <2>1. job[j].pc = "frames" /\ q \in Uis
    BY <1>1, <1>5 DEF IInv, CallsFit, JobRecords
  <2>2. job' = [job EXCEPT ![j] = x] /\ job'[j] = x /\ mapping' = mapping
        /\ ui' = [ui EXCEPT ![q] = Marked(j, q, id)]
    BY <1>5 DEF Return, FrameMade, IInv, TypeOK
  <2>3. r \in Outcomes /\ r # "none"
    BY DEF Outcomes
  <2> HIDE DEF r
  <2>4. x \in JobRecords
    BY <1>1, <2>3 DEF JobRecords
  <2>5. /\ ui' \in [Uis -> [status: Outcomes, frame: NodeIds \union {None}, key: Files \union {None}]]
        /\ \A u \in Uis : \/ ui'[u] = ui[u] \/ ui'[u].status # "ok"
                          \/ FrameOf(u, ui'[u].frame)
    <3>1. ui \in [Uis -> [status: Outcomes, frame: NodeIds \union {None}, key: Files \union {None}]]
      BY DEF IInv, TypeOK
    <3>2. /\ Marked(j, q, id) \in [status: Outcomes, frame: NodeIds \union {None}, key: Files \union {None}]
          /\ Marked(j, q, id).status = "ok" => id # None /\ Marked(j, q, id).frame = id
      BY <2>1, MarkedTypes DEF IInv
    <3> QED  BY <1>5, <2>1, <2>2, <3>1, <3>2
  <2>6. TypeOK' /\ OkHasFrame'
    BY <1>3, <2>2, <2>4, <2>5, Written DEF IInv, TypeOK
  <2>7. /\ x.kind = job[j].kind /\ x.joins = job[j].joins /\ x.future = job[j].future
        /\ x.uis = job[j].uis /\ x.pc = job[j].pc /\ x.call = job[j].call \ {q}
        /\ x.page = job[j].page /\ x.out = [job[j].out EXCEPT ![q] = r]
        /\ job[j].out \in [Uis -> Outcomes] /\ job[j].uis \subseteq Uis
    BY <1>1 DEF JobRecords
  <2> HIDE DEF x
  <2>8. PagesFound(j)'
    BY <2>2, <2>7, Standstill DEF IInv, PagesFound
  <2>9. CallsFit(j)'
    BY <2>1, <2>2, <2>3, <2>7 DEF IInv, CallsFit
  <2>10. Early(j)'
    BY <2>1, <2>2, <2>7 DEF IInv, Early
  <2>11. Claims' /\ JoinedIsAnswered'
    BY <2>2, <2>4, <2>7, QuietStep
  <2>12. \A k \in Jobs \ {j} : PagesFound(k)' /\ CallsFit(k)' /\ Early(k)'
    BY <2>2, <2>4, OtherJobs
  <2> QED  BY <1>2, <2>6, <2>8, <2>9, <2>10, <2>11, <2>12 DEF IInv
<1> QED  BY <1>4, <1>5

LEMMA Pushes ==
  ASSUME IInv, NEW j \in Jobs, NEW u \in Uis, PushFrame(j, u)  PROVE IInv'
<1>1. /\ job[j] \in JobRecords /\ job[j].pc = "frames" /\ u \in job[j].uis \ job[j].call
      /\ job[j].out[u] = "none" /\ Owner[u] \in Cmds
  BY ConstantsAssumption DEF PushFrame, IInv, TypeOK, JobRecords
<1>2. UNCHANGED << bound, mapping, inflight, faults, edits >>
  BY DEF PushFrame, bounds
<1>3. CASE bound = None
  <2> DEFINE x == [job[j] EXCEPT !.out[u] = "failed"]
  <2>1. x \in JobRecords
    BY <1>1 DEF JobRecords, Outcomes
  <2>2. job' = [job EXCEPT ![j] = x] /\ job'[j] = x /\ UNCHANGED << pages, frames, sent, acks >>
        /\ ui' = [ui EXCEPT ![u] = Marked(j, u, None)]
    BY <1>3 DEF PushFrame, figma, IInv, TypeOK
  <2>3. /\ ui' \in [Uis -> [status: Outcomes, frame: NodeIds \union {None}, key: Files \union {None}]]
        /\ \A v \in Uis : ui'[v] = ui[v] \/ ui'[v].status # "ok"
    <3>1. ui \in [Uis -> [status: Outcomes, frame: NodeIds \union {None}, key: Files \union {None}]]
      BY DEF IInv, TypeOK
    <3>2. /\ Marked(j, u, None) \in [status: Outcomes, frame: NodeIds \union {None}, key: Files \union {None}]
          /\ Marked(j, u, None).status # "ok"
      BY MarkedTypes DEF IInv
    <3> QED  BY <2>2, <3>1, <3>2
  <2>4. TypeOK' /\ OkHasFrame'
    BY <1>2, <2>1, <2>2, <2>3, Written DEF IInv, TypeOK
  <2>5. Mails'
    BY <2>2, Standstill DEF IInv, Mails
  <2>6. /\ x.kind = job[j].kind /\ x.joins = job[j].joins /\ x.future = job[j].future
        /\ x.uis = job[j].uis /\ x.pc = job[j].pc /\ x.call = job[j].call
        /\ x.page = job[j].page /\ x.out = [job[j].out EXCEPT ![u] = "failed"]
        /\ job[j].out \in [Uis -> Outcomes] /\ job[j].uis \subseteq Uis
    BY <1>1 DEF JobRecords
  <2> HIDE DEF x
  <2>7. PagesFound(j)'
    BY <2>2, <2>6, Standstill DEF IInv, PagesFound
  <2>8. CallsFit(j)' /\ Early(j)'
    BY <1>1, <2>2, <2>6 DEF IInv, CallsFit, Early
  <2>9. Claims' /\ JoinedIsAnswered'
    BY <1>2, <2>1, <2>2, <2>6, QuietStep
  <2>10. \A k \in Jobs \ {j} : PagesFound(k)' /\ CallsFit(k)' /\ Early(k)'
    BY <2>1, <2>2, OtherJobs
  <2> QED  BY <2>4, <2>5, <2>7, <2>8, <2>9, <2>10 DEF IInv
<1>4. CASE bound # None
  <2>1. bound \in Files
    BY <1>4 DEF IInv, TypeOK
  <2>2. Send(j, u, bound, job[j].page[Owner[u]]) /\ ui' = ui
    BY <1>4 DEF PushFrame
  <2>3. job[j].page[Owner[u]] \in NodeIds \union {None} /\ PageOf(Owner[u], job[j].page[Owner[u]])
    BY <1>1 DEF JobRecords, IInv, PagesFound, CallsFit
  <2> QED  BY <1>1, <1>2, <2>1, <2>2, <2>3, Sends
<1> QED  BY <1>3, <1>4

\* A retry that ends settles its claims and gives them back.
LEMMA RetryEnds ==
  ASSUME IInv, NEW j \in Jobs, AtWork(j), NEW x \in JobRecords,
         job' = [job EXCEPT ![j] = x], UNCHANGED << bound, mapping, ui, figma, edits >>,
         faults' \in 0 .. MaxFaults,
         inflight' = [u \in Uis |-> IF u \in job[j].uis THEN None ELSE inflight[u]],
         x.pc \in {"join", "done"}, job[j].call = {}, x.call = {}, x.page = job[j].page,
         x.joins = job[j].joins,
         \A u \in job[j].uis : x.future[u] # "none"
  PROVE  IInv'
<1>1. UNCHANGED << pages, frames >>
  BY DEF figma
<1>2. inflight' \in [Uis -> Jobs \union {None}]
  BY DEF IInv, TypeOK
<1>3. TypeOK' /\ OkHasFrame' /\ Mails'
  BY <1>2, JobOnly DEF IInv, TypeOK
<1>4. job'[j] = x /\ \A k \in Jobs \ {j} : job'[k] = job[k] /\ (AtWork(k)' <=> AtWork(k))
  BY <1>1, OneJob, OtherJobs DEF IInv
<1>5. PagesFound(j)' /\ CallsFit(j)' /\ Early(j)'
  BY <1>1, <1>4, Standstill DEF IInv, PagesFound, CallsFit, Early
<1>6. \A u \in Uis : inflight[u] = j <=> u \in job[j].uis
  BY DEF IInv, Claims
<1>7. \A u \in Uis : \A k \in Jobs \ {j} : inflight'[u] = k <=> inflight[u] = k
  BY <1>6, ConstantsAssumption
<1>8. Claims'
  <2> SUFFICES ASSUME NEW u \in Uis, NEW k \in Jobs
               PROVE  inflight'[u] = k <=> AtWork(k)' /\ u \in job'[k].uis
    BY DEF Claims
  <2>1. CASE k = j
    <3>1. ~ AtWork(j)'
      BY <1>4 DEF AtWork
    <3> QED  BY <1>6, <2>1, <3>1, ConstantsAssumption
  <2>2. CASE k # j
    BY <1>4, <1>7, <2>2 DEF IInv, Claims
  <2> QED  BY <2>1, <2>2
<1>9. /\ \A u \in Uis : job[j].future[u] # "none" => x.future[u] # "none"
      /\ \A u \in Uis : inflight[u] = j => x.future[u] # "none"
      /\ \A u \in Uis : \A k \in Jobs \ {j} : inflight[u] = k => inflight'[u] = k
  BY <1>6, <1>7 DEF IInv, Early, AtWork
<1>10. JoinedIsAnswered'
  <2>1. \A u \in Uis : inflight[u] = j =>
          \/ x.future[u] # "none"
          \/ inflight'[u] = j /\ u \in x.uis /\ x.pc \in {"pages", "frames"}
    BY <1>9
  <2> QED  BY <1>9, <2>1, JoinsKept
<1>11. \A k \in Jobs \ {j} : PagesFound(k)' /\ CallsFit(k)' /\ Early(k)'
  BY <1>1, OtherJobs
<1> QED  BY <1>3, <1>5, <1>8, <1>10, <1>11 DEF IInv

\* Other steps that only end a job.
LEMMA JobEnds ==
  ASSUME IInv, NEW j \in Jobs, job[j].pc = "join" \/ job[j].kind = "run",
         job[j].call = {}, job' = [job EXCEPT ![j].pc = "done"],
         UNCHANGED << bound, mapping, ui, inflight, figma, faults, edits >>
  PROVE  IInv'
<1> DEFINE x == [job[j] EXCEPT !.pc = "done"]
<1>1. job[j] \in JobRecords /\ UNCHANGED << pages, frames >>
  BY DEF IInv, TypeOK, JobRecords, figma
<1>2. x \in JobRecords
  BY <1>1 DEF JobRecords
<1>3. job' = [job EXCEPT ![j] = x] /\ job'[j] = x
  BY DEF IInv, TypeOK
<1>4. /\ x.kind = job[j].kind /\ x.joins = job[j].joins /\ x.future = job[j].future
      /\ x.uis = job[j].uis /\ x.pc = "done" /\ x.call = {} /\ x.page = job[j].page
  BY <1>1 DEF JobRecords
<1> HIDE DEF x
<1>5. TypeOK' /\ OkHasFrame' /\ Mails'
  BY <1>2, <1>3, JobOnly DEF IInv, TypeOK
<1>6. PagesFound(j)' /\ CallsFit(j)' /\ Early(j)'
  BY <1>1, <1>3, <1>4, Standstill DEF IInv, PagesFound, CallsFit, Early
<1>7. Claims' /\ JoinedIsAnswered'
  <2>1. CASE job[j].kind = "run"
    <3>1. x.kind = "run" /\ UNCHANGED << pages, frames, inflight >>
      BY <1>1, <1>4, <2>1
    <3> QED  BY <1>2, <1>3, <1>4, <3>1, QuietStep
  <2>2. CASE job[j].pc = "join"
    <3>1. x.pc \in {"pages", "frames"} <=> job[j].pc \in {"pages", "frames"}
      BY <1>4, <2>2
    <3> QED  BY <1>1, <1>2, <1>3, <1>4, <3>1, QuietStep
  <2> QED  BY <2>1, <2>2
<1>8. \A k \in Jobs \ {j} : PagesFound(k)' /\ CallsFit(k)' /\ Early(k)'
  BY <1>1, <1>2, <1>3, OtherJobs
<1> QED  BY <1>5, <1>6, <1>7, <1>8 DEF IInv

LEMMA Finishes ==
  ASSUME IInv, NEW j \in Jobs, FramesEnd(j)  PROVE IInv'
<1>1. /\ job[j] \in JobRecords /\ job[j].pc = "frames"
      /\ \A u \in job[j].uis : job[j].out[u] # "none"
      /\ UNCHANGED << bound, mapping, ui, figma, faults, edits >>
  BY DEF FramesEnd, bounds, IInv, TypeOK, JobRecords
<1>2. job[j].call = {}
  BY <1>1 DEF IInv, CallsFit
<1>3. CASE job[j].kind = "run"
  <2>1. job' = [job EXCEPT ![j].pc = "done"] /\ inflight' = inflight
    BY <1>3 DEF FramesEnd
  <2> QED  BY <1>1, <1>2, <1>3, <2>1, JobEnds
<1>4. CASE job[j].kind # "run"
  <2> DEFINE x == [job[j] EXCEPT !.pc = "join", !.future = job[j].out]
  <2>1. x \in JobRecords /\ x.pc = "join" /\ x.call = {} /\ x.page = job[j].page
        /\ x.future = job[j].out /\ x.joins = job[j].joins
    BY <1>1, <1>2 DEF JobRecords
  <2>2. job' = [job EXCEPT ![j] = x]
        /\ inflight' = [u \in Uis |-> IF u \in job[j].uis THEN None ELSE inflight[u]]
    BY <1>4 DEF FramesEnd, IInv, TypeOK
  <2>3. AtWork(j)
    BY <1>1, <1>4 DEF AtWork, JobRecords
  <2>4. faults' \in 0 .. MaxFaults
    BY <1>1 DEF IInv, TypeOK
  <2>5. x.pc \in {"join", "done"} /\ \A u \in job[j].uis : x.future[u] # "none"
    BY <1>1, <2>1
  <2> HIDE DEF x
  <2> QED  BY <1>1, <1>2, <2>1, <2>2, <2>3, <2>4, <2>5, RetryEnds
<1> QED  BY <1>3, <1>4

LEMMA Breaks ==
  ASSUME IInv, NEW j \in Jobs, RetryBreaks(j)  PROVE IInv'
<1> DEFINE f == [u \in Uis |-> IF u \in job[j].uis THEN "failed" ELSE "none"]
           x == [job[j] EXCEPT !.pc = "done", !.future = f]
<1>1. /\ job[j] \in JobRecords /\ job[j].call = {} /\ AtWork(j)
      /\ UNCHANGED << bound, mapping, ui, figma, edits >>
  BY DEF RetryBreaks, AtWork, IInv, TypeOK, JobRecords
<1>2. f \in [Uis -> Outcomes] /\ \A u \in job[j].uis : f[u] # "none"
  BY <1>1 DEF Outcomes, JobRecords
<1>3. job' = [job EXCEPT ![j] = x]
      /\ inflight' = [u \in Uis |-> IF u \in job[j].uis THEN None ELSE inflight[u]]
  BY DEF RetryBreaks, IInv, TypeOK
<1>4. faults' \in 0 .. MaxFaults
  BY ConstantsAssumption DEF RetryBreaks, IInv, TypeOK
<1> HIDE DEF f
<1>5. x \in JobRecords /\ x.pc = "done" /\ x.call = {} /\ x.page = job[j].page
      /\ x.future = f /\ x.joins = job[j].joins
  BY <1>1, <1>2 DEF JobRecords
<1> QED  BY <1>1, <1>2, <1>3, <1>4, <1>5, RetryEnds

LEMMA Joins ==
  ASSUME IInv, NEW j \in Jobs, Join(j)  PROVE IInv'
<1>1. job[j].call = {}
  BY DEF Join, IInv, CallsFit
<1>2. /\ job[j].pc = "join" /\ job' = [job EXCEPT ![j].pc = "done"]
      /\ UNCHANGED << bound, mapping, ui, inflight, figma, faults, edits >>
  BY DEF Join, bounds
<1> QED  BY <1>1, <1>2, JobEnds

-----------------------------------------------------------------------------
(* The plugin *)

\* Something is made, and its answer is on the way.
LEMMA PluginWorks ==
  ASSUME IInv, NEW m \in sent, PluginDoes(m)  PROVE IInv'
<1> DEFINE F == [page: NodeIds, ui: Uis]
           f == m.file
           drawn == [page |-> m.page, ui |-> m.of]
<1>1. /\ m \in Messages /\ f \in Files /\ m.of \in Cmds \union Uis
      /\ m.page \in NodeIds \union {None}
  BY DEF IInv, TypeOK, Messages
<1>2. /\ UNCHANGED << bound, mapping, ui, job, inflight, faults, edits >>
      /\ sent' = sent \ {m}
  BY DEF PluginDoes, bounds
<1>3. /\ pages \in [Files -> Seq(Cmds)] /\ frames \in [Files -> Seq(F)]
      /\ \A g \in Files : Len(pages[g]) \in Nat /\ Len(frames[g]) \in Nat
  <2>1. pages \in [Files -> Seq(Cmds)] /\ frames \in [Files -> Seq(F)]
    BY DEF IInv, TypeOK
  <2> HIDE DEF F
  <2> QED  BY <2>1
<1>4. /\ \A g \in Files :
           /\ Len(pages[g]) <= Len(pages'[g]) /\ Len(frames[g]) <= Len(frames'[g])
           /\ Len(pages'[g]) \in Nat /\ Len(frames'[g]) \in Nat
           /\ \A i \in 1 .. Len(pages[g]) : pages'[g][i] = pages[g][i]
           /\ \A i \in 1 .. Len(frames[g]) : frames'[g][i] = frames[g][i]
      /\ pages' \in [Files -> Seq(Cmds)] /\ frames' \in [Files -> Seq(F)]
      /\ \E n \in NodeIds : /\ acks' = acks \union {[msg |-> m, id |-> n]}
                            /\ IF m.of \in Cmds THEN PageOf(m.of, n)' ELSE FrameOf(m.of, n)'
  <2>1. CASE m.of \in Cmds
    <3> DEFINE n == [from |-> f, id |-> Len(pages[f]) + 1]
               s == Append(pages[f], m.of)
    <3>1. /\ pages' = [pages EXCEPT ![f] = s] /\ frames' = frames
          /\ acks' = acks \union {[msg |-> m, id |-> n]}
      BY <2>1 DEF PluginDoes, Answer
    <3>2. n \in NodeIds /\ n.from = f /\ n.id = Len(pages[f]) + 1
      BY <1>1, <1>3 DEF NodeIds
    <3>3. /\ s \in Seq(Cmds) /\ Len(s) = Len(pages[f]) + 1
          /\ \A i \in 1 .. Len(pages[f]) : s[i] = pages[f][i]
          /\ s[Len(pages[f]) + 1] = m.of
      BY <1>1, <1>3, <2>1
    <3> HIDE DEF n, s, f
    <3>4. pages'[f] = s /\ \A g \in Files : g # f => pages'[g] = pages[g]
      BY <1>1, <1>3, <3>1
    <3>5. \A i : i = n => PageOf(m.of, i)'
      BY <1>1, <1>3, <3>2, <3>3, <3>4 DEF PageOf, MadeFor, NodeIds
    <3>6. pages' \in [Files -> Seq(Cmds)]
      BY <1>3, <3>1, <3>3
    <3>7. ASSUME NEW g \in Files
          PROVE  /\ Len(pages[g]) <= Len(pages'[g]) /\ Len(pages'[g]) \in Nat
                 /\ \A i \in 1 .. Len(pages[g]) : pages'[g][i] = pages[g][i]
      <4>1. CASE g = f
        BY <1>1, <1>3, <3>3, <3>4, <4>1
      <4>2. CASE g # f
        BY <1>3, <3>4, <4>2
      <4> QED  BY <4>1, <4>2
    <3>8. \E i \in NodeIds : /\ acks' = acks \union {[msg |-> m, id |-> i]}
                             /\ PageOf(m.of, i)'
      BY <3>1, <3>2, <3>5
    <3>9. frames' = frames /\ \A g \in Files : Len(frames[g]) \in Nat
      BY <1>3, <3>1
    <3> HIDE DEF F
    <3>10. \A g \in Files :
            /\ Len(pages[g]) <= Len(pages'[g]) /\ Len(frames[g]) <= Len(frames'[g])
            /\ Len(pages'[g]) \in Nat /\ Len(frames'[g]) \in Nat
            /\ \A i \in 1 .. Len(pages[g]) : pages'[g][i] = pages[g][i]
            /\ \A i \in 1 .. Len(frames[g]) : frames'[g][i] = frames[g][i]
      BY <3>7, <3>9
    <3> QED  BY <1>3, <2>1, <3>6, <3>8, <3>9, <3>10
  <2>2. CASE m.of \notin Cmds
    <3> DEFINE n == [from |-> f, id |-> Len(frames[f]) + 1]
               s == Append(frames[f], drawn)
    <3>1. /\ frames' = [frames EXCEPT ![f] = s] /\ pages' = pages
          /\ acks' = acks \union {[msg |-> m, id |-> n]}
      BY <2>2 DEF PluginDoes, Answer
    <3>2. PageOf(Owner[m.of], m.page)
      BY <1>1, <2>2 DEF IInv, Mails
    <3>3. drawn \in F /\ drawn.page = m.page /\ drawn.ui = m.of
      BY <1>1, <2>2, <3>2 DEF PageOf
    <3>4. n \in NodeIds /\ n.from = f /\ n.id = Len(frames[f]) + 1
      BY <1>1, <1>3 DEF NodeIds
    <3> HIDE DEF drawn, F
    <3>5. /\ s \in Seq(F) /\ Len(s) = Len(frames[f]) + 1
          /\ \A i \in 1 .. Len(frames[f]) : s[i] = frames[f][i]
          /\ s[Len(frames[f]) + 1] = drawn
      BY <1>1, <1>3, <3>3
    <3> HIDE DEF n, s, f
    <3>6. frames'[f] = s /\ \A g \in Files : g # f => frames'[g] = frames[g]
      BY <1>1, <1>3, <3>1
    <3>7. PageOf(Owner[m.of], m.page)'
      BY <3>1, <3>2 DEF PageOf, MadeFor, NodeIds
    <3>8. n.id \in 1 .. Len(frames'[f]) /\ frames'[f][n.id] = drawn
      BY <1>1, <1>3, <3>4, <3>5, <3>6
    <3>9. \A i : i = n => FrameOf(m.of, i)'
      BY <3>3, <3>4, <3>7, <3>8 DEF FrameOf, PageOf, MadeFor, NodeIds
    <3>10. frames' \in [Files -> Seq(F)]
      BY <1>3, <3>1, <3>5
    <3>11. ASSUME NEW g \in Files
          PROVE  /\ Len(frames[g]) <= Len(frames'[g]) /\ Len(frames'[g]) \in Nat
                 /\ \A i \in 1 .. Len(frames[g]) : frames'[g][i] = frames[g][i]
      <4>1. CASE g = f
        BY <1>1, <1>3, <3>5, <3>6, <4>1
      <4>2. CASE g # f
        BY <1>3, <3>6, <4>2
      <4> QED  BY <4>1, <4>2
    <3>12. \E i \in NodeIds : /\ acks' = acks \union {[msg |-> m, id |-> i]}
                              /\ FrameOf(m.of, i)'
      BY <3>1, <3>4, <3>9
    <3>13. pages' = pages /\ \A g \in Files : Len(pages[g]) \in Nat
      BY <1>3, <3>1
    <3>14. \A g \in Files :
            /\ Len(pages[g]) <= Len(pages'[g]) /\ Len(frames[g]) <= Len(frames'[g])
            /\ Len(pages'[g]) \in Nat /\ Len(frames'[g]) \in Nat
            /\ \A i \in 1 .. Len(pages[g]) : pages'[g][i] = pages[g][i]
            /\ \A i \in 1 .. Len(frames[g]) : frames'[g][i] = frames[g][i]
      BY <3>11, <3>13
    <3> QED  BY <1>3, <2>2, <3>10, <3>12, <3>13, <3>14
  <2> QED  BY <2>1, <2>2
<1> HIDE DEF drawn
<1>5. /\ \A c, id : PageOf(c, id) => PageOf(c, id)'
      /\ \A u, id : FrameOf(u, id) => FrameOf(u, id)'
  BY <1>4, Growth DEF IInv
<1>6. PICK id \in NodeIds : /\ acks' = acks \union {[msg |-> m, id |-> id]}
                        /\ IF m.of \in Cmds THEN PageOf(m.of, id)' ELSE FrameOf(m.of, id)'
  BY <1>4
<1>7. TypeOK'
  <2>1. acks' \subseteq [msg: Messages, id: NodeIds] /\ sent' \subseteq Messages
    BY <1>1, <1>2, <1>6 DEF IInv, TypeOK
  <2>2. \A c \in Cmds : mapping[c].status = "active" => PageOf(c, mapping[c].page)'
    BY <1>2, <1>5, ConstantsAssumption DEF IInv, TypeOK, PageOf
  <2>3. \A c \in Cmds : mapping[c].status = "active" => mapping[c].page # None
    BY DEF IInv, TypeOK
  <2> QED  BY <1>2, <1>4, <2>1, <2>2, <2>3 DEF IInv, TypeOK, PageOf, MadeFor, Messages, NodeIds
<1>8. Mails'
  <2>1. \A n \in sent' : n.of \in Uis => PageOf(Owner[n.of], n.page)'
    BY <1>2, <1>5 DEF IInv, Mails
  <2>2. \A a \in acks' : IF a.msg.of \in Cmds THEN PageOf(a.msg.of, a.id)'
                         ELSE FrameOf(a.msg.of, a.id)'
    <3>1. \A a \in acks : IF a.msg.of \in Cmds THEN PageOf(a.msg.of, a.id)'
                          ELSE FrameOf(a.msg.of, a.id)'
      BY <1>5 DEF IInv, Mails
    <3> QED  BY <1>6, <3>1
  <2> QED  BY <2>1, <2>2 DEF Mails
<1>9. OkHasFrame'
  <2>1. \A u \in Uis : \A n : ui[u].status = "ok" /\ ui[u].frame = n => FrameOf(u, n)'
    BY <1>2, <1>5, OkFrames DEF IInv
  <2> QED  BY <1>2, <2>1, OkShown
<1>10. Claims' /\ JoinedIsAnswered'
  BY <1>2 DEF IInv, Claims, AtWork, JoinedIsAnswered
<1>11. \A j \in Jobs : PagesFound(j)' /\ CallsFit(j)' /\ Early(j)'
  <2>1. \A j \in Jobs : PagesFound(j)'
    BY <1>2, <1>5 DEF IInv, PagesFound
  <2>2. \A j \in Jobs : CallsFit(j)' /\ Early(j)'
    BY <1>2 DEF IInv, CallsFit, Early
  <2> QED  BY <2>1, <2>2
<1> QED  BY <1>7, <1>8, <1>9, <1>10, <1>11 DEF IInv

\* An answer that nobody waits for, and a message that fails unheard.
LEMMA Dropped ==
  ASSUME IInv, UNCHANGED << bound, mapping, ui, job, pages, frames, inflight, faults, edits >>,
         sent' \subseteq sent, acks' \subseteq acks
  PROVE  IInv'
<1>1. TypeOK'
  BY DEF IInv, TypeOK, Messages, MadeFor
<1>2. Mails'
  BY Standstill DEF IInv, Mails
<1>3. OkHasFrame'
  BY OkFrames, OkShown, Standstill DEF IInv
<1>5. Claims' /\ JoinedIsAnswered'
  BY DEF IInv, Claims, AtWork, JoinedIsAnswered
<1>4. \A j \in Jobs : PagesFound(j)' /\ CallsFit(j)' /\ Early(j)'
  BY Standstill DEF IInv, PagesFound, CallsFit, Early
<1> QED  BY <1>1, <1>2, <1>3, <1>4, <1>5 DEF IInv

LEMMA Answers ==
  ASSUME IInv, \/ \E m \in sent : PluginFails(m)
               \/ \E a \in acks : AckArrives(a)
               \/ \E j \in Jobs : Timeout(j)
  PROVE  IInv'
<1>1. ASSUME NEW m \in sent, PluginFails(m)  PROVE IInv'
  <2>1. m.job \in Jobs
    BY DEF IInv, TypeOK, Messages
  <2>2. /\ sent' \subseteq sent /\ acks' \subseteq acks
        /\ UNCHANGED << bound, pages, frames, inflight, faults, edits >> /\ faults' \in 0 .. MaxFaults
    BY <1>1 DEF PluginFails, bounds, IInv, TypeOK
  <2>3. CASE m.of \in job[m.job].call
    BY <1>1, <2>1, <2>2, <2>3, Returns DEF PluginFails
  <2>4. CASE m.of \notin job[m.job].call
    BY <1>1, <2>2, <2>4, Dropped DEF PluginFails
  <2> QED  BY <2>3, <2>4
<1>2. ASSUME NEW a \in acks, AckArrives(a)  PROVE IInv'
  <2>1. a.msg.job \in Jobs /\ a.id \in NodeIds
    BY DEF IInv, TypeOK, Messages
  <2>2. /\ sent' \subseteq sent /\ acks' \subseteq acks
        /\ UNCHANGED << bound, pages, frames, inflight, faults, edits >> /\ faults' \in 0 .. MaxFaults
    BY <1>2 DEF AckArrives, bounds, IInv, TypeOK
  <2>3. IF a.msg.of \in Cmds THEN PageOf(a.msg.of, a.id) ELSE FrameOf(a.msg.of, a.id)
    BY DEF IInv, Mails
  <2>4. CASE a.msg.of \in job[a.msg.job].call
    BY <1>2, <2>1, <2>2, <2>3, <2>4, Returns DEF AckArrives
  <2>5. CASE a.msg.of \notin job[a.msg.job].call
    BY <1>2, <2>2, <2>5, Dropped DEF AckArrives
  <2> QED  BY <2>4, <2>5
<1>3. ASSUME NEW j \in Jobs, Timeout(j)  PROVE IInv'
  <2>1. PICK q \in job[j].call : Return(j, q, None)
    BY <1>3 DEF Timeout
  <2>2. /\ sent' \subseteq sent /\ acks' \subseteq acks
        /\ UNCHANGED << bound, pages, frames, inflight, edits >> /\ faults' \in 0 .. MaxFaults
    BY <1>3, ConstantsAssumption DEF Timeout, figma, IInv, TypeOK
  <2> QED  BY <2>1, <2>2, Returns
<1> QED  BY <1>1, <1>2, <1>3

-----------------------------------------------------------------------------
(* Theorems *)

LEMMA Initially == Init => IInv
<1> SUFFICES ASSUME Init PROVE IInv
  OBVIOUS
<1>1. NoJob \in JobRecords /\ NoJob.pc = "off" /\ NoJob.kind = "run" /\ NoJob.call = {}
      /\ (\A c \in Cmds : NoJob.page[c] = None)
      /\ (\A u \in Uis : NoJob.future[u] = "none" /\ NoJob.joins[u] = None)
  BY DEF NoJob, JobRecords, Outcomes
<1>2. \A j \in Jobs : job[j] = NoJob
  BY DEF Init
<1>3. TypeOK
  <2>1. job \in [Jobs -> JobRecords]
    BY <1>1 DEF Init
  <2> QED  BY <2>1, ConstantsAssumption DEF Init, TypeOK, JobRecords, Outcomes
<1>4. Mails /\ OkHasFrame
  BY DEF Init, Mails, OkHasFrame
<1>5. Claims /\ JoinedIsAnswered
  BY <1>1, <1>2, ConstantsAssumption DEF Init, Claims, AtWork, JoinedIsAnswered
<1>6. \A j \in Jobs : PagesFound(j) /\ CallsFit(j) /\ Early(j)
  BY <1>1, <1>2 DEF PagesFound, CallsFit, Early
<1> QED  BY <1>3, <1>4, <1>5, <1>6 DEF IInv

LEMMA Inductive == IInv /\ [Next]_vars => IInv'
<1> SUFFICES ASSUME IInv, [Next]_vars PROVE IInv'
  OBVIOUS
<1>1. CASE UNCHANGED vars
  BY <1>1, Dropped DEF vars
<1>2. ASSUME NEW j \in Jobs, Continue(j)  PROVE IInv'
  BY <1>2, Looks, Turns, Pushes, Finishes, Breaks DEF Continue
<1>3. ASSUME NEW j \in Jobs, Await(j)  PROVE IInv'
  <2>1. CASE StartRun(j)
    BY <2>1, RunStarts
  <2>2. CASE BeginPages(j)
    BY <2>2, RunBegins
  <2>3. CASE \E us \in SUBSET Uis : StartRetry(j, us)
    BY <2>3, RetryStarts
  <2>4. CASE FramesEnd(j)
    BY <2>4, Finishes
  <2>5. CASE \E u \in Uis : PushFrame(j, u)
    BY <2>5, Pushes
  <2>6. CASE Timeout(j)
    BY <2>6, Answers
  <2>7. CASE Join(j)
    BY <2>7, Joins
  <2> QED  BY <1>3, <2>1, <2>2, <2>3, <2>4, <2>5, <2>6, <2>7 DEF Await
<1>4. CASE EditBinding
  BY <1>4, Bindings
<1>5. CASE \E m \in sent : PluginDoes(m) \/ PluginFails(m)
  BY <1>5, PluginWorks, Answers
<1>6. CASE \E a \in acks : AckArrives(a)
  BY <1>6, Answers
<1> QED  BY <1>1, <1>2, <1>3, <1>4, <1>5, <1>6 DEF Next

LEMMA Invariance == Spec => []IInv
<1> QED  BY Initially, Inductive, PTL DEF Spec

\* A UI shown as synchronised has its frame, on a page of its storyboard unless the
\* id of the page is from another file
\* (push_frame_for_ui, mark_ui_sync_ok, plugin_messages.resolve).
THEOREM ShownIsDrawn == Spec => []OkHasFrame
<1>1. IInv => OkHasFrame
  BY DEF IInv
<1> QED  BY <1>1, Invariance, PTL

\* At most one retry of a UI talks to the plugin (RetryDedupeStore.claim_or_join).
THEOREM DispatchedOnce == Spec => []OneDispatch
<1>1. ASSUME IInv, NEW u \in Uis
      PROVE  Cardinality({j \in Jobs : /\ job[j].kind = "retry" /\ u \in job[j].uis
                                       /\ job[j].pc \in {"pages", "frames"}}) <= 1
  <2> DEFINE S == {j \in Jobs : /\ job[j].kind = "retry" /\ u \in job[j].uis
                                /\ job[j].pc \in {"pages", "frames"}}
  <2>1. \A j \in S : j = inflight[u]
    BY <1>1 DEF IInv, Claims, AtWork
  <2>2. S = {} \/ S = {inflight[u]}
    BY <2>1
  <2>3. Cardinality({}) = 0 /\ Cardinality({inflight[u]}) = 1
    BY FS_EmptySet, FS_Singleton
  <2> HIDE DEF S
  <2>4. Cardinality(S) <= 1
    BY <2>2, <2>3
  <2> QED  BY <2>4 DEF S
<1>2. IInv => OneDispatch
  BY <1>1 DEF OneDispatch
<1> QED  BY <1>2, Invariance, PTL

\* Who joined a retry is told how it went, or the retry is still at work
\* (RetryDedupeStore.complete, post_retry_sync).
THEOREM JoinedAreTold == Spec => []JoinedIsAnswered
<1>1. IInv => JoinedIsAnswered
  BY DEF IInv
<1> QED  BY <1>1, Invariance, PTL

=============================================================================
