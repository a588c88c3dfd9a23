---------------------------- MODULE MCFigmaPages -----------------------------
EXTENDS FigmaPages, TLC

CONSTANTS u1, u2, k1, k2

TwoStoryboards == u1 :> k1 @@ u2 :> k2

\* The UIs and their storyboards change places together.
Swapped   == u1 :> u2 @@ u2 :> u1 @@ k1 :> k2 @@ k2 :> k1
Symmetric == Permutations(Files) \union Permutations(Jobs) \union {Swapped}

\* The specification of the storyboard pages has every frame made on the page of
\* its storyboard.
OnItsStoryboard ==
  \A u \in Uis : ui[u].status = "ok" =>
    LET n == ui[u].frame
    IN  pages[n.from][frames[n.from][n.id].page.id] = Owner[u]
=============================================================================
