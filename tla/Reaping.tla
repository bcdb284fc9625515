------------------------------ MODULE Reaping ------------------------------
(***************************************************************************)
(* The monitors as children of the server: the process table, SIGCHLD and  *)
(* its handler sig_child (server.c), and the reuse of process ids, which   *)
(* SDState leaves out.  A pid is taken as long as its process runs or is a *)
(* zombie; once the handler has waited for it, fork may return it again,   *)
(* although the server may still have to read what its former owner wrote. *)
(*                                                                         *)
(* Clients, replies and limits are in SDStore.  Here a request is a number *)
(* in the order of dispatch, whether it is possible now is left open, and  *)
(* only the number of unread FINISHED_TASK messages per pid is kept.       *)
(***************************************************************************)
EXTENDS Integers, FiniteSets

CONSTANTS
  Pids,        \* the process ids the operating system has for monitors
  MaxParallel, \* GLOBAL_MAX_PARALLEL_TASKS
  MaxTasks,    \* bound: tasks that clients submit
  NULL

ASSUME ReapingAssumption ==
  /\ IsFiniteSet(Pids) /\ NULL \notin Pids
  /\ MaxParallel \in Nat \ {0}
  /\ MaxTasks \in Nat

Slots == 0 .. MaxParallel - 1
Tasks == 1 .. MaxTasks

VARIABLES
  server_pc,   \* "receiving", "dispatching", "failed"
  in_handler,  \* sig_child has been entered and has not returned
  pending,     \* SIGCHLD is pending: one bit, however many children ended
  submitted,   \* tasks submitted so far
  dispatched,  \* tasks dispatched so far
  slot_pid,    \* active_tasks[i]->monitor, NULL for a free slot
  slot_task,   \* active_tasks[i], as the number of the task
  proc,        \* the process table: what the process with a pid is
  proc_task,   \* the task of the monitor with a pid
  unread,      \* number of FINISHED_TASK messages with a pid not processed yet
  merged,      \* history: number of times SIGCHLD was raised while pending
  reused       \* history: fork returned a pid that an unread message names

vars == <<server_pc, in_handler, pending, submitted, dispatched, slot_pid,
          slot_task, proc, proc_task, unread, merged, reused>>
slotVars == <<slot_pid, slot_task>>
procVars == <<proc, proc_task>>

\* A monitor runs, has written FINISHED_TASK, or is a zombie.
ProcStates == {"none", "running", "notified", "zombie"}

TypeOK ==
  /\ server_pc \in {"receiving", "dispatching", "failed"}
  /\ in_handler \in BOOLEAN
  /\ pending \in BOOLEAN
  /\ submitted \in 0..MaxTasks
  /\ dispatched \in 0..submitted
  /\ slot_pid \in [Slots -> Pids \cup {NULL}]
  /\ slot_task \in [Slots -> 0..MaxTasks]
  /\ proc \in [Pids -> ProcStates]
  /\ proc_task \in [Pids -> 0..MaxTasks]
  /\ unread \in [Pids -> Nat]
  /\ merged \in Nat
  /\ reused \in BOOLEAN

Init ==
  /\ server_pc = "receiving"
  /\ in_handler = FALSE
  /\ pending = FALSE
  /\ submitted = 0
  /\ dispatched = 0
  /\ slot_pid = [i \in Slots |-> NULL]
  /\ slot_task = [i \in Slots |-> 0]
  /\ proc = [p \in Pids |-> "none"]
  /\ proc_task = [p \in Pids |-> 0]
  /\ unread = [p \in Pids |-> 0]
  /\ merged = 0
  /\ reused = FALSE

-----------------------------------------------------------------------------
(* The server's thread of control, which the handler suspends *)

At(pc) == server_pc = pc /\ ~in_handler

SlotsOf(p) == {i \in Slots : slot_pid[i] = p}
FreeSlots == {i \in Slots : slot_pid[i] = NULL}
Lowest(S) == CHOOSE i \in S : \A j \in S : i <= j
Zombies == {p \in Pids : proc[p] = "zombie"}

\* A request for a task is read and queued.
Admit ==
  /\ At("receiving")
  /\ submitted < MaxTasks
  /\ submitted' = submitted + 1
  /\ UNCHANGED <<server_pc, in_handler, pending, dispatched, slotVars, procVars,
                 unread, merged, reused>>

\* Faulty: the first slot that is in use, whichever monitor it has.
FirstBusySlot(p) == Lowest(Slots \ FreeSlots)

SlotFound(p) == Lowest(SlotsOf(p))

\* FINISHED_TASK is read: the first slot with the pid is freed, and without one
\* the assertion fails.
Finish(p) ==
  /\ At("receiving")
  /\ unread[p] > 0
  /\ unread' = [unread EXCEPT ![p] = @ - 1]
  /\ IF SlotsOf(p) = {}
       THEN server_pc' = "failed" /\ UNCHANGED slotVars
       ELSE /\ slot_pid' = [slot_pid EXCEPT ![SlotFound(p)] = NULL]
            /\ slot_task' = [slot_task EXCEPT ![SlotFound(p)] = 0]
            /\ UNCHANGED server_pc
  /\ UNCHANGED <<in_handler, pending, submitted, dispatched, procVars, merged,
                 reused>>

\* The buffer is processed; the queue is looked at.
StartDispatching ==
  /\ At("receiving")
  /\ server_pc' = "dispatching"
  /\ UNCHANGED <<in_handler, pending, submitted, dispatched, slotVars, procVars,
                 unread, merged, reused>>

FreePids == {p \in Pids : proc[p] = "none"}

\* monitor_run_task: a monitor is forked for the next task.
Dispatch(p) ==
  /\ At("dispatching")
  /\ dispatched < submitted
  /\ FreeSlots # {}
  /\ p \in FreePids
  /\ dispatched' = dispatched + 1
  /\ proc' = [proc EXCEPT ![p] = "running"]
  /\ proc_task' = [proc_task EXCEPT ![p] = dispatched + 1]
  /\ slot_pid' = [slot_pid EXCEPT ![Lowest(FreeSlots)] = p]
  /\ slot_task' = [slot_task EXCEPT ![Lowest(FreeSlots)] = dispatched + 1]
  /\ reused' = (reused \/ unread[p] > 0)
  /\ UNCHANGED <<server_pc, in_handler, pending, submitted, unread, merged>>

\* next_pos finds no slot, or fork no pid, zombies included: the server exits.
DispatchFails ==
  /\ At("dispatching")
  /\ dispatched < submitted
  /\ FreeSlots = {} \/ FreePids = {}
  /\ server_pc' = "failed"
  /\ UNCHANGED <<in_handler, pending, submitted, dispatched, slotVars, procVars,
                 unread, merged, reused>>

\* The queue is empty or its head does not fit now: back to reading.
StopDispatching ==
  /\ At("dispatching")
  /\ server_pc' = "receiving"
  /\ UNCHANGED <<in_handler, pending, submitted, dispatched, slotVars, procVars,
                 unread, merged, reused>>

-----------------------------------------------------------------------------
(* The monitors *)

\* Faulty: the child's side of the fork goes on as a second server would, and
\* the message is written twice.
ReportTwice(p) == unread' = [unread EXCEPT ![p] = @ + 2]

Report(p) == unread' = [unread EXCEPT ![p] = @ + 1]

\* Writes FINISHED_TASK.
Notify(p) ==
  /\ proc[p] = "running"
  /\ Report(p)
  /\ proc' = [proc EXCEPT ![p] = "notified"]
  /\ UNCHANGED <<server_pc, in_handler, pending, submitted, dispatched, slotVars,
                 proc_task, merged, reused>>

\* Ends, after the message or, when its client has gone, without one.  The
\* kernel makes SIGCHLD pending for the server; if it was, nothing more happens.
Exit(p) ==
  /\ proc[p] \in {"running", "notified"}
  /\ proc' = [proc EXCEPT ![p] = "zombie"]
  /\ pending' = TRUE
  /\ merged' = IF pending THEN merged + 1 ELSE merged
  /\ UNCHANGED <<server_pc, in_handler, submitted, dispatched, slotVars, proc_task,
                 unread, reused>>

-----------------------------------------------------------------------------
(* The handler *)

\* SIGCHLD is delivered; it is blocked until the handler returns.
EnterHandler ==
  /\ server_pc # "failed"
  /\ pending /\ ~in_handler
  /\ pending' = FALSE
  /\ in_handler' = TRUE
  /\ UNCHANGED <<server_pc, submitted, dispatched, slotVars, procVars, unread, merged,
                 reused>>

\* Faulty: one call waits for every zombie there is.
WaitForAll == proc' = [p \in Pids |-> IF p \in Zombies THEN "none" ELSE proc[p]]

WaitForOne == \E p \in Zombies : proc' = [proc EXCEPT ![p] = "none"]

\* wwaitpid (-1, NULL, 0) waits for one zombie, and would block for want of one.
HandlerWaits ==
  /\ server_pc # "failed"
  /\ in_handler
  /\ Zombies # {}
  /\ WaitForOne
  /\ in_handler' = FALSE
  /\ UNCHANGED <<server_pc, pending, submitted, dispatched, slotVars, proc_task,
                 unread, merged, reused>>

-----------------------------------------------------------------------------
Next ==
  \/ Admit \/ StartDispatching \/ DispatchFails \/ StopDispatching
  \/ EnterHandler \/ HandlerWaits
  \/ \E p \in Pids : Finish(p) \/ Dispatch(p) \/ Notify(p) \/ Exit(p)

Spec == Init /\ [][Next]_vars

-----------------------------------------------------------------------------
Truth(b) == IF b THEN 1 ELSE 0

\* There is a zombie for every SIGCHLD that is pending or being handled, and one
\* more for each that was merged with a pending one.  So the waitpid of sig_child
\* (server.c:431, safe.c:175) never blocks the server until some other monitor
\* ends, and as it does not wait it is not interrupted by SIGINT, which would end
\* the server; but a zombie that was merged stays until the server ends.
HandlerNeverBlocks ==
  Cardinality(Zombies) = Truth(pending) + Truth(in_handler) + merged

\* Although pids come back and several slots may hold the same one, every
\* FINISHED_TASK finds a slot with its pid: the assertion of process_message
\* (server.c:264-268) holds for monitors that died and for reused pids, too.
ReportsFindSlots ==
  \A p \in Pids :
    unread[p] + Truth(proc[p] = "running") <= Cardinality(SlotsOf(p))

\* A monitor that runs has a slot with its own pid and task, so that its
\* instances of the transformations are counted, even if it has got the pid of
\* a dead monitor whose slot was never freed.  The exception is a pid that the
\* kernel returned while a message with it was unread (server.c:265-266).
RunningHoldsOwnSlot ==
  ~reused =>
    \A p \in Pids : proc[p] = "running" =>
      \E i \in SlotsOf(p) : slot_task[i] = proc_task[p]
=============================================================================
