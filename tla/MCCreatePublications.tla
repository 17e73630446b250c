----------------------- MODULE MCCreatePublications -----------------------
(* CreatePublications on a small instance: two archives share an output.      *)
EXTENDS CreatePublications, TLC

CONSTANTS a1, a2, op1, op2, x, y

SharedOutputOpOf == (a1 :> op1) @@ (a2 :> op2)
SharedOutputOutputsOf == (a1 :> {x}) @@ (a2 :> {x, y})
FirstSource == [a \in Archives |-> 0]

Symmetry == Permutations(Publishers)
=============================================================================
