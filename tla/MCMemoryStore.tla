--------------------------- MODULE MCMemoryStore ---------------------------
(* MemoryStore on small instances.                                         *)
EXTENDS MemoryStore, TLC

Symmetry == Permutations(Procs)

=============================================================================
