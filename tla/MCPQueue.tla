------------------------------ MODULE MCPQueue ------------------------------
(***************************************************************************)
(* A small heap for TLC: six elements are three levels, and the least for  *)
(* which pqueue_remove moves a node to where it has to rise.               *)
(***************************************************************************)
EXTENDS PQueue, TLC

CONSTANTS e1, e2, e3, e4, e5, e6, none

Symmetry == Permutations(Elements)
=============================================================================
