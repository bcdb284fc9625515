---------------------------- MODULE MCGenerations ----------------------------
(* Small instances of Generations. *)
EXTENDS Generations, TLC

Symmetry == Permutations(Servers) \cup Permutations(Clients)
=============================================================================
