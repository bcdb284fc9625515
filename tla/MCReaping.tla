----------------------------- MODULE MCReaping -----------------------------
(* Small instances of Reaping. *)
EXTENDS Reaping, TLC

Symmetry == Permutations(Pids)
=============================================================================
