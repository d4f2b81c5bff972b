-------------------------- MODULE MCTaskRepository --------------------------
EXTENDS TaskRepository, TLC

Symmetry == Permutations(Tasks)

=============================================================================
