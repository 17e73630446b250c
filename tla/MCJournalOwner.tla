--------------------------- MODULE MCJournalOwner ---------------------------
(* JournalOwner on a small instance. *)
EXTENDS JournalOwner, TLC

\* Operation ids, inputs and processes are only compared for equality.
Symmetry == Permutations(Ops) \union Permutations(Inputs) \union Permutations(Procs)
=============================================================================
