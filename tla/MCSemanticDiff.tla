--------------------------- MODULE MCSemanticDiff ---------------------------
(* Three ids, two of which share a name; diffs that meet on them. *)
EXTENDS SemanticDiff, TLC

CONSTANTS p1, p2, x1, x2, y1

MCIds  == {x1, x2, y1}
MCName == (x1 :> "X") @@ (x2 :> "X") @@ (y1 :> "Y")
MCValues == {"null", "a", "b", "7", "seven"}   \* "7" is a number, "seven" its text
MCToText == [v \in MCValues |-> IF v = "7" THEN "seven" ELSE v]
MCItems == {"i", "j"}

SetTo(v)  == [op |-> "set", value |-> v]
Append_(S) == [op |-> "append", items |-> S]
Remove(S) == [op |-> "remove", items |-> S]
Ent(kind, id, x, ops, withChildren) ==
  [kind |-> kind, id |-> id, name |-> x, ops |-> ops, children |-> withChildren]

MCStart == (x1 :> NoNode) @@ (x2 :> NoNode) @@
           (y1 :> [by |-> Base, text |-> "7", list |-> {"i"}])

MCDiffs == {
  [entries |-> << Ent("create", None, "X", << >>, TRUE),
                  Ent("modify", y1, "Y", << SetTo("a"), Append_({"i", "j"}) >>, TRUE) >>,
   journeys |-> TRUE],
  [entries |-> << Ent("modify", None, "X", << Append_({"j"}) >>, FALSE),
                  Ent("modify", None, "Y", << Remove({"i"}), SetTo("b") >>, FALSE),
                  Ent("ensure", None, "X", << SetTo("b") >>, FALSE) >>,
   journeys |-> FALSE],
  [entries |-> << Ent("modify", x1, "X", << SetTo("a") >>, TRUE) >>, journeys |-> FALSE] }

Symmetric == Permutations(Proposals)
=============================================================================
