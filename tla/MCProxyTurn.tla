---------------------------- MODULE MCProxyTurn ----------------------------
(* ProxyTurn on small instances.                                           *)
EXTENDS ProxyTurn, TLC

Symmetry == Permutations(Reqs)

=============================================================================
