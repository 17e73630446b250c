---------------------------- MODULE MCConnector ----------------------------
(* Connector on small instances. *)
EXTENDS Connector, TLC

Symmetry == Permutations(Ops) \union Permutations(Inputs)
            \union Permutations(Sessions) \union Permutations(ItemIds)
=============================================================================
