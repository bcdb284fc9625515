---------------------------- MODULE MCPipeProgs ----------------------------
(***************************************************************************)
(* A small pipeline for TLC.                                               *)
(***************************************************************************)
EXTENDS PipeProgs
=============================================================================
