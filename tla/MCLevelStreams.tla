--------------------------- MODULE MCLevelStreams ---------------------------
\* Two publications that share an element; an authored history of three
\* revisions, 0 -> 1 -> 2, that sets a Level to 0, 1 and 0 again.
EXTENDS LevelStreams, TLC

CONSTANTS s1, s2, u1, u2, u3, p1, p2, o1, o2

Scope == s1 :> {u1, u2} @@ s2 :> {u2, u3}
Target == s1 :> u1 @@ s2 :> u3
Origin == [s \in Streams |-> 0]
Parent == 0 :> None @@ 1 :> 0 @@ 2 :> 1
Elev == 0 :> 0 @@ 1 :> 1 @@ 2 :> 0
Symmetry == Permutations(Publishers) \union Permutations(Ops)
=============================================================================
