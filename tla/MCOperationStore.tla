-------------------------- MODULE MCOperationStore --------------------------
(* OperationStore on a small instance. *)
EXTENDS OperationStore, TLC

\* Workers, receipts and bodies are only compared for equality.
Symmetry == Permutations(Workers) \union Permutations(Receipts) \union Permutations(Bodies)
=============================================================================
