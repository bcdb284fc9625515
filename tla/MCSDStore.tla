----------------------------- MODULE MCSDStore -----------------------------
(***************************************************************************)
(* Small instances of SDStore for TLC: model values, the limits of a       *)
(* configuration file, and the sets of command lines that clients choose   *)
(* from.                                                                   *)
(***************************************************************************)
EXTENDS Claims, TLC

CONSTANTS c1, c2, c3, p1, p2, p3, nop, bcompress, none

Symmetry == Permutations({c1, c2, c3}) \cup Permutations({p1, p2, p3})

\* Two configuration files.
Limits == (bcompress :> 1) @@ (nop :> 2)
WideLimits == (bcompress :> 1) @@ (nop :> 3)

ProcFile(pri, b, n) ==
  [name |-> "PROC_FILE", pri |-> pri, ops |-> (bcompress :> b) @@ (nop :> n)]
StatusQuery ==
  [name |-> "STATUS", pri |-> NULL, ops |-> (bcompress :> 0) @@ (nop :> 0)]

\* For three clients and WideLimits.  Two of the first task exclude each other by
\* bcompress, it leaves room for one of the second kind, by nop, and three of the
\* second kind are within the limits.  The second one has the higher priority.
CrowdCommands == {ProcFile(1, 1, 2), ProcFile(3, 0, 1)}

\* Two tasks that exclude each other and differ in priority.
RivalCommands == {ProcFile(1, 1, 1), ProcFile(3, 1, 0), StatusQuery}

\* Command lines that are legal for the client and hard on the server: without
\* an argument, without a transformation, and beyond the limits.
HarshCommands ==
  {ProcFile(1, 1, 1), ProcFile(5, 2, 0), ProcFile(1, 0, 0), ProcFile(NULL, 0, 0),
   StatusQuery}

\* As many instances as the counter of the task cannot tell from -128.
ManyCommands == {ProcFile(1, 0, 128), ProcFile(1, 0, 3)}

\* One command, for the runs about processes and not about tasks.
OneCommand == {ProcFile(1, 1, 1)}
=============================================================================
