------------------------- MODULE MCIngestionSessions -------------------------
EXTENDS IngestionSessions
CONSTANTS c1, c2

\* Streams are alike: the names go to them in the order they connect.
InOrder == stream[c2].pc # "off" => stream[c1].pc # "off"

\* A second run of the session yields its first event and its last one only.
SecondRunIsShort == \A o \in Objects : sess[o].runs = 2 => sess[o].work = 0

MaxEvents == 4
Bounds ==
  InOrder /\ SecondRunIsShort /\ \A o \in Objects : Len(sess[o].events) <= MaxEvents

\* The spec of the stream endpoint says that a client which reconnects gets the
\* events again and does not start the workflow again.
RunsOnce ==
  [][ \A c \in Streams, o \in Objects :
        stream[c].pc = "off" /\ stream'[c].again /\ sess'[o].runs > sess[o].runs
          => sess[o].runs = 0 ]_vars

\* The spec of the stream endpoint says that the events are delivered until a
\* complete or error event closes the stream.
ClosedByVerdict ==
  [][ \A c \in Streams :
        LET got == stream[c].got
        IN  stream[c].pc # "closed" /\ stream'[c].pc = "closed" =>
              /\ got # << >>
              /\ sess[stream[c].obj].events[got[Len(got)]] \in Final ]_vars
=============================================================================
