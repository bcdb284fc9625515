----------------------------- MODULE PipeProgs -----------------------------
(***************************************************************************)
(* pipe_progs in server.c, one system call at a time: a monitor forks one  *)
(* child per transformation of its task and connects them by pipes, each   *)
(* child arranges its ends and executes its transformation, and the        *)
(* monitor waits for all of them.                                          *)
(*                                                                         *)
(* Pipe k goes from child k to child k + 1.  A dup2 and the close after it *)
(* leave the process with the same end under another number, so what a     *)
(* process holds is a set of ends.  The transformations are external       *)
(* programs: filters, that read and write a block at a time, end when      *)
(* their input does, and may fail.  The monitor has the handler of SIGCHLD *)
(* of the server, which forked it (sig_child, set by signal: SIGCHLD is    *)
(* blocked while it runs, and it restarts the call that it interrupts).    *)
(***************************************************************************)
EXTENDS Integers, Sequences

CONSTANTS
  ProgramNum,   \* program_num: the transformations of the task
  Blocks,       \* bound: the length of the source file, in blocks
  OldBlocks,    \* bound: the length that the destination file had before
  PipeSize,     \* what a pipe holds, in blocks
  Faults        \* bound: how many failures are injected

ASSUME ProgramAssumption == ProgramNum \in Nat \ {0}
ASSUME PipeAssumption ==
  /\ Blocks \in Nat /\ OldBlocks \in Nat
  /\ PipeSize \in Nat \ {0} /\ Faults \in Nat

Programs == 0 .. ProgramNum - 1
Pipes == 0 .. ProgramNum - 2
last == ProgramNum - 1
monitor == ProgramNum
Processes == Programs \cup {monitor}

\* The two ends of pips[cs].
READ_END(cs) == <<cs, 0>>
WRITE_END(cs) == <<cs, 1>>

VARIABLES
  pc,        \* the monitor: the next call of pipe_progs
  cs,        \* the variable of its loop
  handling,  \* sig_child runs in the monitor
  sigchld,   \* SIGCHLD is pending for the monitor
  child,     \* the state of each child
  held,      \* the block that a transformation has read and not written yet
  open,      \* the ends that each process has open
  pipe,      \* the blocks in each pipe
  src,       \* the blocks of src not read yet
  dst,       \* the content of dst
  written,   \* the blocks written to it, which is where the next one goes
  faults     \* the failures injected so far

monitorVars == <<pc, cs, handling>>
dataVars == <<held, pipe, src, dst, written>>
vars == <<monitorVars, sigchld, child, open, dataVars, faults>>

NoBlock == << >>
OldBlock == <<0>>

\* A block is its number followed by the transformations it has been through.
File(trail) == [n \in 1 .. Blocks |-> <<n>> \o trail]

Init ==
  /\ pc = "pipe" /\ cs = 0 /\ handling = FALSE /\ sigchld = FALSE
  /\ child = [p \in Programs |-> "none"]
  /\ held = [p \in Programs |-> NoBlock]
  /\ open = [p \in Processes |-> {}]
  /\ pipe = [k \in Pipes |-> << >>]
  /\ src = File(<< >>)
  /\ dst = [n \in 1 .. OldBlocks |-> OldBlock] /\ written = 0
  /\ faults = 0

Closes(p, ends) == open' = [open EXCEPT ![p] = @ \ ends]

\* A child ends, with its files closed, and is a zombie until it is waited for.
Terminates(p) ==
  /\ child' = [child EXCEPT ![p] = "zombie"]
  /\ open' = [open EXCEPT ![p] = {}]
  /\ sigchld' = TRUE

-----------------------------------------------------------------------------
(* The monitor *)

\* The code of the monitor runs while the handler does not.
At(label) == pc = label /\ ~handling

Pipe ==
  /\ At("pipe")
  /\ open' = [open EXCEPT ![monitor] =
                @ \cup IF cs # last THEN {READ_END(cs), WRITE_END(cs)} ELSE {}]
  /\ pc' = "fork"
  /\ UNCHANGED <<cs, handling, sigchld, child, dataVars, faults>>

Fork ==
  /\ At("fork")
  /\ child' = [child EXCEPT ![cs] = "forked"]
  /\ open' = [open EXCEPT ![cs] = open[monitor]]
  /\ pc' = "close_w"
  /\ UNCHANGED <<cs, handling, sigchld, dataVars, faults>>

CloseWriteEnd ==
  /\ At("close_w")
  /\ Closes(monitor, {WRITE_END(cs)})
  /\ pc' = "close_r"
  /\ UNCHANGED <<cs, handling, sigchld, child, dataVars, faults>>

\* Faulty: closes the end that the next child is to read from.
NotNeeded == READ_END(cs)

\* The end that the child just forked reads from.
PreviousEnd == READ_END(cs - 1)

CloseReadEnd ==
  /\ At("close_r")
  /\ Closes(monitor, {PreviousEnd})
  /\ cs' = cs + 1
  /\ pc' = IF cs = last THEN "wait" ELSE "pipe"
  /\ UNCHANGED <<handling, sigchld, child, dataVars, faults>>

Reaps(p) == child[p] = "zombie" /\ child' = [child EXCEPT ![p] = "reaped"]

NoChildren == \A p \in Programs : child[p] \in {"none", "reaped"}

\* Faulty: waits for one child only.
WaitOnce ==
  /\ At("wait")
  /\ \E p \in Programs : Reaps(p)
  /\ pc' = "done"
  /\ UNCHANGED <<cs, handling, sigchld, open, dataVars, faults>>

\* waitpid(-1, ...) until it fails, for want of children.
Wait ==
  /\ At("wait")
  /\ \/ \E p \in Programs : Reaps(p) /\ UNCHANGED pc
     \/ NoChildren /\ pc' = "done" /\ UNCHANGED child
  /\ UNCHANGED <<cs, handling, sigchld, open, dataVars, faults>>

MonitorStep == Pipe \/ Fork \/ CloseWriteEnd \/ CloseReadEnd \/ Wait

MonitorAlive == pc # "failed"

\* pipe or fork fails: ppipe or ffork ends the monitor.
MonitorFails ==
  /\ (At("pipe") /\ cs # last) \/ At("fork")
  /\ faults < Faults
  /\ faults' = faults + 1
  /\ pc' = "failed"
  /\ open' = [open EXCEPT ![monitor] = {}]
  /\ UNCHANGED <<cs, handling, sigchld, child, dataVars>>

\* sig_child: a child has ended, and the handler interrupts the monitor ...
SigChild ==
  /\ sigchld /\ MonitorAlive /\ ~handling
  /\ handling' = TRUE
  /\ sigchld' = FALSE
  /\ UNCHANGED <<pc, cs, child, open, dataVars, faults>>

\* ... until waitpid(-1, ...) returns: the monitor's own call may have been
\* faster, and this one then waits for another child, or finds none.
SigChildReturns ==
  /\ handling
  /\ \/ \E p \in Programs : Reaps(p)
     \/ NoChildren /\ UNCHANGED child
  /\ handling' = FALSE
  /\ UNCHANGED <<pc, cs, sigchld, open, dataVars, faults>>

-----------------------------------------------------------------------------
(* The children *)

\* Faulty: the child keeps the end it does not use.
KeepsReadEnd(p) ==
  /\ child[p] = "forked"
  /\ child' = [child EXCEPT ![p] = "opening"]
  /\ UNCHANGED <<monitorVars, sigchld, open, dataVars, faults>>

CloseOwnReadEnd(p) ==
  /\ child[p] = "forked"
  /\ Closes(p, {READ_END(p)})
  /\ child' = [child EXCEPT ![p] = "opening"]
  /\ UNCHANGED <<monitorVars, sigchld, dataVars, faults>>

\* Opens src or dst if it is the first or the last, and executes the program,
\* with its input and output on the ends that it needs and no others.
Exec(p) ==
  /\ child[p] = "opening"
  /\ child' = [child EXCEPT ![p] = "running"]
  /\ UNCHANGED <<monitorVars, sigchld, open, dataVars, faults>>

\* oopen or eexecl fails, or the transformation does.
ChildFails(p) ==
  /\ child[p] \in {"opening", "running"}
  /\ faults < Faults
  /\ faults' = faults + 1
  /\ Terminates(p)
  /\ UNCHANGED <<monitorVars, dataVars>>

Idle(p) == child[p] = "running" /\ held[p] = NoBlock
Writing(p) == child[p] = "running" /\ held[p] # NoBlock
Holds(p, block) == held' = [held EXCEPT ![p] = block]

ReadSource(p) ==
  /\ Idle(p) /\ p = 0
  /\ src # << >>
  /\ Holds(p, Append(Head(src), p))
  /\ src' = Tail(src)
  /\ UNCHANGED <<monitorVars, sigchld, child, open, pipe, dst, written, faults>>

ReadPipe(p) ==
  /\ Idle(p) /\ p # 0
  /\ pipe[p - 1] # << >>
  /\ Holds(p, Append(Head(pipe[p - 1]), p))
  /\ pipe' = [pipe EXCEPT ![p - 1] = Tail(@)]
  /\ UNCHANGED <<monitorVars, sigchld, child, open, src, dst, written, faults>>

Empty(p) ==
  IF p = 0 THEN src = << >>
  ELSE pipe[p - 1] = << >> /\ \A q \in Processes : WRITE_END(p - 1) \notin open[q]

\* read returns 0: nobody can write any more.
ReadsEndOfFile(p) ==
  /\ Idle(p)
  /\ Empty(p)
  /\ Terminates(p)
  /\ UNCHANGED <<monitorVars, dataVars, faults>>

\* dst is opened without O_TRUNC: what it held before is overwritten as far as
\* the output goes.
WriteFile(p) ==
  /\ Writing(p) /\ p = last
  /\ dst' = IF written < Len(dst) THEN [dst EXCEPT ![written + 1] = held[p]]
                                 ELSE Append(dst, held[p])
  /\ written' = written + 1
  /\ Holds(p, NoBlock)
  /\ UNCHANGED <<monitorVars, sigchld, child, open, pipe, src, faults>>

HasReader(k) == \E q \in Processes : READ_END(k) \in open[q]

WritePipe(p) ==
  /\ Writing(p) /\ p # last
  /\ HasReader(p) /\ Len(pipe[p]) < PipeSize
  /\ pipe' = [pipe EXCEPT ![p] = Append(@, held[p])]
  /\ Holds(p, NoBlock)
  /\ UNCHANGED <<monitorVars, sigchld, child, open, src, dst, written, faults>>

\* SIGPIPE: nobody can read any more.
BreaksPipe(p) ==
  /\ Writing(p) /\ p # last
  /\ ~HasReader(p)
  /\ Terminates(p)
  /\ UNCHANGED <<monitorVars, dataVars, faults>>

ChildStep(p) ==
  \/ CloseOwnReadEnd(p) \/ Exec(p)
  \/ ReadSource(p) \/ ReadPipe(p) \/ ReadsEndOfFile(p)
  \/ WriteFile(p) \/ WritePipe(p) \/ BreaksPipe(p)

-----------------------------------------------------------------------------
Next ==
  \/ MonitorStep \/ MonitorFails \/ SigChild \/ SigChildReturns
  \/ \E p \in Programs : ChildStep(p) \/ ChildFails(p)

Spec == Init /\ [][Next]_vars

\* The operating system runs whoever can run, and delivers signals.  Nothing
\* has to fail.
FairSpec ==
  /\ Spec
  /\ WF_vars(MonitorStep) /\ WF_vars(SigChild) /\ WF_vars(SigChildReturns)
  /\ \A p \in Programs : WF_vars(ChildStep(p))

-----------------------------------------------------------------------------
(* Correctness *)

\* When pipe_progs returns, and the monitor reports the task as completed
\* (server.c:154, 181-184), no transformation is still running, and if none failed
\* dst begins with src after all the transformations, in the order of the command.
CompletedMeansComplete ==
  pc = "done" =>
    /\ NoChildren
    /\ faults = 0 =>
         /\ written = Blocks
         /\ SubSeq(dst, 1, written) = File([p \in 1 .. ProgramNum |-> p - 1])

\* No transformation is killed by SIGPIPE, unless something else failed first:
\* whenever a child can write, its reader, or the monitor that is about to fork
\* the reader, has the other end open (server.c:70-78).
NoBrokenPipe ==
  faults = 0 => \A p \in Programs \ {last} : Writing(p) => HasReader(p)

\* pipe_progs returns, and all the children end, even if some of them fail, or
\* the monitor does: a transformation that waits for the end of its input, or
\* for room in its output, is not left waiting for an end of the pipe that
\* somebody forgot to close (server.c:70-78, 92-100).
PipelineEnds ==
  <>[](/\ pc \in {"done", "failed"}
       /\ \A p \in Programs : child[p] \in {"none", "zombie", "reaped"})
=============================================================================
