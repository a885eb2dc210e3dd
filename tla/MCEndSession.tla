---------------------------- MODULE MCEndSession ----------------------------
(* EndSession on small instances.                                          *)
EXTENDS EndSession, TLC

Symmetry == Permutations(Sessions) \cup Permutations(Insts)

=============================================================================
