------------------------ MODULE MCExecutionArchive ------------------------
\* Three processes and two inputs for one path.
EXTENDS ExecutionArchive, TLC

Symmetry == Permutations(Publishers) \union Permutations(Inputs)
=============================================================================
