-------------------------- MODULE MCContextQueries --------------------------
(* ContextQueries on a small instance. *)
EXTENDS ContextQueries, TLC

\* Documents, clients and queries are only compared for equality.
Symmetry == Permutations(Docs) \union Permutations(Clients) \union Permutations(Queries)
=============================================================================
