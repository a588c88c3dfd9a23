----------------------------- MODULE MCSkillStream -----------------------------
EXTENDS SkillStream
CONSTANTS s1, s2

\* Streams are alike: the names go to them in the order they begin.
InOrder == client[s2].pc # "off" => client[s1].pc # "off"

\* The second stream competes for the worker: it writes nothing, and has no
\* verdict to save.
SecondIsShort == proc[s2].out = 0 /\ proc[s2].pc # "writing" /\ ~ client[s2].saved

Bounds == InOrder /\ SecondIsShort

\* The skill runner says that whichever way a stream ends, its process is ended.
NoProcessLeft == \A s \in Streams : Ended(s) ~> ~ Alive(s)
=============================================================================
