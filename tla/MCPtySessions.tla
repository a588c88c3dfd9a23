---------------------------- MODULE MCPtySessions ----------------------------
EXTENDS PtySessions
CONSTANTS c1, c2, c3, s1, s2

\* Connections are alike: the names go to them in the order they are made.
InOrder ==
  /\ conn[c2].pc # "off" => conn[c1].pc # "off"
  /\ conn[c3].pc # "off" => conn[c2].pc # "off"

\* The second id is there to fill the registry: its sessions write nothing.
SecondIsQuiet == \A o \in Objects : sess[o].sid = s2 => sess[o].count = 0

Bounds == InOrder /\ SecondIsQuiet
=============================================================================
