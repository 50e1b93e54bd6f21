----------------------------- MODULE MCImConns -----------------------------
(* A few nodes and connections; which is which does not matter.            *)
EXTENDS ImConns, TLC

Perms == Permutations(Nodes) \cup Permutations(Conns)
=============================================================================
