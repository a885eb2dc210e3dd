---------------------------- MODULE MCSupervisor ----------------------------
(* Commands and their children are interchangeable. *)
EXTENDS Supervisor, TLC
Symmetry == Permutations(Starters)
=============================================================================
