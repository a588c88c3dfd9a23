----------------------------- MODULE MCFigmaSync -----------------------------
EXTENDS FigmaSync, TLC
Symmetric == Permutations(Files) \union Permutations(Streams)

\* The contract of the stream endpoint says that the stream of a run closes when
\* the run reaches a terminal status.
FollowedToTheEnd ==
  \A c \in Streams :
    LET y == stream[c]
    IN  y.pc = "closed" /\ y.end # "unknown" => row[y.run] \in Ends \/ task[y.run].pc = "over"

\* The data model says that a run has succeeded when every page and UI is synced.
SuccessIsWhole ==
  [][ \A r \in Runs : row'[r] = "succeeded" /\ row[r] # "succeeded" =>
        LET x == IF task'[r].pc = "over" THEN task'[r] ELSE task[r]
        IN  x.page = Pages /\ x.batch = Batches ]_vars

\* The data model says that the lock is set only while there is a running row.
LockHasRow == binding.lock # None => row[binding.lock] = "running"
=============================================================================
