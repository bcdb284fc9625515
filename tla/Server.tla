------------------------------- MODULE Server -------------------------------
(***************************************************************************)
(* The server process (server.c): main from the mkfifo of SERVER on, and   *)
(* listening_loop with everything it calls, up to the fork of a monitor.   *)
(*                                                                         *)
(* The server is one thread of control.  Its state changes at the calls    *)
(* that can block or that others can observe: an open, read or write of a  *)
(* FIFO, a fork, the handler of a signal.  What it does between two such   *)
(* calls is one action.                                                    *)
(***************************************************************************)
EXTENDS SDState

ServerGoesTo(pc) == server_pc' = pc

\* A server that ends closes its ends of SERVER; its variables are gone, but
\* what they held last stays readable for the properties.
Stopped == server_pc \in {"exited", "failed"}

-----------------------------------------------------------------------------
(* Start: main, from mkfifo to the call of listening_loop *)

\* mkfifo(SERVER).
ServerStart ==
  /\ server_pc = "start"
  /\ server_linked' = TRUE
  /\ ServerGoesTo("made")
  /\ UNCHANGED <<server_fifo, buf, reply, taskVars, has_been_interrupted, signals,
                 monitorVars, clientVars>>

Connecting == {c \in Clients : client_pc[c] = "connecting"}

\* open(SERVER, O_RDONLY): fails if the handler has unlinked SERVER meanwhile, goes
\* on with the writers that wait for it, or waits for one (ClientMeetsServer).
ServerOpensForReading ==
  /\ server_pc = "made"
  /\ IF ~server_linked THEN ServerGoesTo("failed") /\ UNCHANGED client_pc
     ELSE /\ ServerGoesTo(IF Connecting = {} THEN "open_rd" ELSE "connected")
          /\ client_pc' = [c \in Clients |-> IF c \in Connecting THEN "opened"
                                                                 ELSE client_pc[c]]
  /\ UNCHANGED <<sharedVars, buf, reply, taskVars, has_been_interrupted, signals,
                 monitorVars, client_fifo_linked, client_fifo, client_out>>

\* A signal arrived before or while it opened SERVER: _exit.
ServerTestsFlag ==
  /\ server_pc = "connected"
  /\ ServerGoesTo(IF has_been_interrupted THEN "exited" ELSE "open_wr")
  /\ UNCHANGED <<sharedVars, buf, reply, taskVars, has_been_interrupted, signals,
                 monitorVars, clientVars>>

\* open(SERVER, O_WRONLY): fails if the handler has unlinked SERVER meanwhile.
ServerOpensForWriting ==
  /\ server_pc = "open_wr"
  /\ ServerGoesTo(IF server_linked THEN "loop" ELSE "failed")
  /\ UNCHANGED <<sharedVars, buf, reply, taskVars, has_been_interrupted, signals,
                 monitorVars, clientVars>>

-----------------------------------------------------------------------------
(* block_read_fifo *)

ServerCallsRead ==
  /\ server_pc = "loop"
  /\ ServerGoesTo("reading")
  /\ UNCHANGED <<sharedVars, buf, reply, taskVars, has_been_interrupted, signals,
                 monitorVars, clientVars>>

Receive ==
  /\ buf' = server_fifo
  /\ server_fifo' = << >>

\* read returns what is in the FIFO, at most BUFSIZ: then the assertion that
\* the buffer is not full fails.
ServerReads ==
  /\ server_pc = "reading"
  /\ server_fifo # << >>
  /\ IF Len(server_fifo) < BufSize
       THEN Receive /\ ServerGoesTo("processing")
       ELSE /\ ServerGoesTo("failed")
            /\ UNCHANGED <<server_fifo, buf>>
  /\ UNCHANGED <<server_linked, reply, taskVars, has_been_interrupted, signals,
                 monitorVars, clientVars>>

\* The buffer is processed: back in listening_loop.
ServerHasRead ==
  /\ server_pc = "processing"
  /\ buf = << >>
  /\ ServerGoesTo("check")
  /\ UNCHANGED <<sharedVars, buf, reply, taskVars, has_been_interrupted, signals,
                 monitorVars, clientVars>>

-----------------------------------------------------------------------------
(* process_message *)

Processing(kind) ==
  /\ server_pc = "processing"
  /\ buf # << >>
  /\ Head(buf).kind = kind

SlotsOf(p) == {i \in Slots : active_tasks[i] # NULL /\ active_tasks[i].monitor = p}
Lowest(S) == CHOOSE i \in S : \A j \in S : i <= j

Decremented(task) == [t \in Transformations |-> active_count[t] - OpsTotals(task)[t]]

\* Faulty: the count of the transformations is not decremented.
ReleaseKeepsCount(i) ==
  /\ active_tasks' = [active_tasks EXCEPT ![i] = NULL]
  /\ num_active_tasks' = num_active_tasks - 1
  /\ UNCHANGED active_count

\* Faulty: num_active_tasks is not decremented.
ReleaseKeepsNumber(i) ==
  /\ active_count' = Decremented(active_tasks[i].task)
  /\ active_tasks' = [active_tasks EXCEPT ![i] = NULL]
  /\ UNCHANGED num_active_tasks

Release(i) ==
  /\ active_count' = Decremented(active_tasks[i].task)
  /\ active_tasks' = [active_tasks EXCEPT ![i] = NULL]
  /\ num_active_tasks' = num_active_tasks - 1

\* FINISHED_TASK: releases the slot of the task whose monitor has finished; if
\* no slot has it, assert (finished_task_index < GLOBAL_MAX_PARALLEL_TASKS)
\* ends the server.
FinishTask ==
  /\ Processing("FINISHED_TASK")
  /\ LET slots == SlotsOf(Head(buf).pid) IN
       IF slots # {}
         THEN /\ Release(Lowest(slots))
              /\ buf' = Tail(buf)
              /\ UNCHANGED server_pc
         ELSE /\ ServerGoesTo("failed")
              /\ UNCHANGED <<buf, active_tasks, num_active_tasks, active_count>>
  /\ UNCHANGED <<sharedVars, reply, queue, has_been_interrupted, signals,
                 monitorVars, clientVars>>

\* The server is about to open the FIFO of c to tell it text.
Answer(c, text) ==
  /\ reply' = [client |-> c, text |-> text]
  /\ ServerGoesTo("replying")

AnswerStatus ==
  /\ Processing("REQUEST")
  /\ Head(buf).cmd.name = "STATUS"
  /\ Answer(Head(buf).client, "status")
  /\ UNCHANGED <<sharedVars, buf, taskVars, has_been_interrupted, signals,
                 monitorVars, clientVars>>

TaskOf(m) == [client |-> m.client, pri |-> m.cmd.pri, ops |-> m.cmd.ops]

ProcessingProcFile ==
  /\ Processing("REQUEST")
  /\ Head(buf).cmd.name = "PROC_FILE"

\* Faulty: a missing field is taken for a priority.
HasAnyPriority(cmd) == TRUE

HasPriority(cmd) == cmd.pri # NULL

\* Without a priority field, strtok returns NULL and strtol is given it.
ParseFails ==
  /\ ProcessingProcFile
  /\ ~HasPriority(Head(buf).cmd)
  /\ ServerGoesTo("failed")
  /\ UNCHANGED <<sharedVars, buf, reply, taskVars, has_been_interrupted, signals,
                 monitorVars, clientVars>>

WithinLimits(task) == \A t \in Transformations : OpsTotals(task)[t] <= ActiveLimit[t]

\* Queues the task if the server could ever run it, and answers the client.
AdmitTask ==
  /\ ProcessingProcFile
  /\ HasPriority(Head(buf).cmd)
  /\ LET task == TaskOf(Head(buf)) IN
       IF WithinLimits(task)
         THEN /\ queue' = queue \cup {task}
              /\ Answer(task.client, "pending")
         ELSE /\ Answer(task.client, "impossible")
              /\ UNCHANGED queue
  /\ UNCHANGED <<sharedVars, buf, active_tasks, num_active_tasks, active_count,
                 has_been_interrupted, signals, monitorVars, clientVars>>

\* open(client's FIFO, O_WRONLY) returns at once: the client has called its open
\* already, and goes on as well if it waits there.
ReplyOpens ==
  /\ server_pc = "replying"
  /\ ClientListens(reply.client)
  /\ ServerGoesTo("writing")
  /\ client_pc' = [client_pc EXCEPT ![reply.client] = "reading"]
  /\ UNCHANGED <<sharedVars, buf, reply, taskVars, has_been_interrupted, signals,
                 monitorVars, client_fifo_linked, client_fifo, client_out>>

\* The FIFO is there, but the client does not listen yet: the server waits for
\* its open, whatever else happens (ClientMeetsReply), and whether or not the name
\* is still there when the client has ended.
ReplyWaits ==
  /\ server_pc = "replying"
  /\ client_fifo_linked[reply.client]
  /\ ~ClientListens(reply.client)
  /\ ServerGoesTo("waiting")
  /\ UNCHANGED <<sharedVars, buf, reply, taskVars, has_been_interrupted, signals,
                 monitorVars, clientVars>>

\* The FIFO is not there any more: oopen ends the server.
ReplyFindsNoClient ==
  /\ server_pc = "replying"
  /\ ~client_fifo_linked[reply.client]
  /\ ServerGoesTo("failed")
  /\ UNCHANGED <<sharedVars, buf, reply, taskVars, has_been_interrupted, signals,
                 monitorVars, clientVars>>

\* Writes, closes, and goes on to the next message of the buffer.
ReplyWritten ==
  /\ server_pc = "writing"
  /\ ClientReads(reply.client)
  /\ client_fifo' = [client_fifo EXCEPT ![reply.client] = Append(@, reply.text)]
  /\ reply' = NULL
  /\ buf' = Tail(buf)
  /\ ServerGoesTo("processing")
  /\ UNCHANGED <<sharedVars, taskVars, has_been_interrupted, signals,
                 monitorVars, client_pc, client_fifo_linked, client_out>>

\* The client has ended: the write raises SIGPIPE, which ends the server.
ReplyBreaksPipe ==
  /\ server_pc = "writing"
  /\ ~ClientReads(reply.client)
  /\ ServerGoesTo("failed")
  /\ UNCHANGED <<sharedVars, buf, reply, taskVars, has_been_interrupted, signals,
                 monitorVars, clientVars>>

-----------------------------------------------------------------------------
(* listening_loop, after the read *)

\* Faulty: exits with tasks still active.
MayExitWithActive == has_been_interrupted /\ queue = {}

MayExit == has_been_interrupted /\ queue = {} /\ num_active_tasks = 0

\* The exit test: main then unlinks SERVER and returns.
CheckExit ==
  /\ server_pc = "check"
  /\ IF MayExit
       THEN /\ server_linked' = FALSE
            /\ ServerGoesTo("exited")
       ELSE /\ ServerGoesTo("dispatch")
            /\ UNCHANGED server_linked
  /\ UNCHANGED <<server_fifo, buf, reply, taskVars, has_been_interrupted, signals,
                 monitorVars, clientVars>>

\* Faulty: the comparison of the heap is the wrong way round.
HeadsReversed == {task \in queue : \A other \in queue : task.pri <= other.pri}

\* pqueue_peek returns a task of the highest priority.  Among equals the heap
\* promises no order.
Heads == {task \in queue : \A other \in queue : other.pri <= task.pri}

\* Faulty: leaves out the instances that the task itself needs.
IsPossibleNow(task) == \A t \in Transformations : active_count[t] <= ActiveLimit[t]

\* Faulty: the limit itself is never reached.
IsPossibleBelow(task) ==
  \A t \in Transformations : active_count[t] + OpsTotals(task)[t] < ActiveLimit[t]

TaskIsPossible(task) ==
  \A t \in Transformations : active_count[t] + OpsTotals(task)[t] <= ActiveLimit[t]

FreeSlots == {i \in Slots : active_tasks[i] = NULL}

\* increment_active_transformations_count.
Incremented(task) == [t \in Transformations |-> active_count[t] + OpsTotals(task)[t]]

\* Faulty: tasks are dispatched before their clients have been told pending.
DispatchingEarly == server_pc \in {"dispatch", "replying"}

\* The loop over the queue.
Dispatching == server_pc = "dispatch"

\* Pops the head of the queue and forks its monitor, which gets a pid that no
\* process has had, in the lowest free slot.
DispatchTask ==
  /\ Dispatching
  /\ FreeSlots # {}
  /\ \E task \in Heads, p \in Pids :
       /\ TaskIsPossible(task)
       /\ monitor_pc[p] = "none"
       /\ queue' = queue \ {task}
       /\ active_count' = Incremented(task)
       /\ active_tasks' = [active_tasks EXCEPT ![Lowest(FreeSlots)] =
                             [task |-> task, monitor |-> p]]
       /\ monitor_pc' = [monitor_pc EXCEPT ![p] = "start"]
       /\ monitor_task' = [monitor_task EXCEPT ![p] = task]
  /\ num_active_tasks' = num_active_tasks + 1
  /\ UNCHANGED <<sharedVars, server_pc, buf, reply, has_been_interrupted, signals,
                 clientVars>>

\* next_pos finds no free slot: _exit (EXIT_FAILURE).
DispatchFindsNoSlot ==
  /\ Dispatching
  /\ FreeSlots = {}
  /\ \E task \in Heads : TaskIsPossible(task)
  /\ ServerGoesTo("failed")
  /\ UNCHANGED <<sharedVars, buf, reply, taskVars, has_been_interrupted, signals,
                 monitorVars, clientVars>>

\* The queue is empty, or its head does not fit now: whatever is behind the
\* head waits, too.
DispatchEnds ==
  /\ Dispatching
  /\ queue = {} \/ \E task \in Heads : ~TaskIsPossible(task)
  /\ ServerGoesTo("loop")
  /\ UNCHANGED <<sharedVars, buf, reply, taskVars, has_been_interrupted, signals,
                 monitorVars, clientVars>>

-----------------------------------------------------------------------------
(* SIGINT and SIGTERM, and SIGCHLD where it matters *)

\* sig_handler.
Interrupted ==
  /\ ~Stopped
  /\ signals < MaxSignals
  /\ signals' = signals + 1
  /\ has_been_interrupted' = TRUE
  /\ server_linked' = FALSE
  /\ UNCHANGED <<server_fifo, buf, reply, taskVars, monitorVars, clientVars>>

\* The handler runs between two calls, or in a call that is not waiting.
SignalBetweenCalls ==
  /\ Interrupted
  /\ server_pc \notin {"open_rd", "reading", "waiting"}
  /\ UNCHANGED server_pc

\* open(SERVER, O_RDONLY) ends with EINTR: the server is no reader any more, and
\* its handler has not run yet.
SignalInOpen ==
  /\ server_pc = "open_rd"
  /\ signals < MaxSignals
  /\ signals' = signals + 1
  /\ ServerGoesTo("handler")
  /\ UNCHANGED <<sharedVars, buf, reply, taskVars, has_been_interrupted,
                 monitorVars, clientVars>>

\* The handler of that signal; then oopen returns, the flag is set, and main ends.
HandlerRuns ==
  /\ server_pc = "handler"
  /\ has_been_interrupted' = TRUE
  /\ server_linked' = FALSE
  /\ ServerGoesTo("exited")
  /\ UNCHANGED <<server_fifo, buf, reply, taskVars, signals, monitorVars, clientVars>>

\* read fails with EINTR: rread returns 0, and nothing is processed.  With
\* messages to be read, read is about to return them.
SignalInRead ==
  /\ Interrupted
  /\ server_pc = "reading"
  /\ ServerGoesTo(IF server_fifo = << >> THEN "check" ELSE "reading")

\* open(client's FIFO) was waiting and fails with EINTR: oopen returns -1, and
\* the write to that descriptor ends the server.
SignalInReply ==
  /\ Interrupted
  /\ server_pc = "waiting"
  /\ ServerGoesTo("failed")

\* A monitor has ended: SIGCHLD restarts the open that waits, which looks the name
\* up again.  Signals are not counted here (Reaping does).
ChildRestartsOpen ==
  /\ server_pc = "waiting"
  /\ \E p \in Pids : monitor_pc[p] \in {"exited", "died"}
  /\ ServerGoesTo("replying")
  /\ UNCHANGED <<sharedVars, buf, reply, taskVars, has_been_interrupted, signals,
                 monitorVars, clientVars>>

Signal ==
  \/ SignalBetweenCalls \/ SignalInOpen \/ SignalInRead \/ SignalInReply
  \/ ChildRestartsOpen

\* What the server process does by itself.
ServerStep ==
  \/ ServerStart \/ ServerOpensForReading \/ HandlerRuns
  \/ ServerTestsFlag \/ ServerOpensForWriting
  \/ ServerCallsRead \/ ServerReads \/ ServerHasRead
  \/ FinishTask \/ AnswerStatus \/ ParseFails \/ AdmitTask
  \/ ReplyOpens \/ ReplyWaits \/ ReplyFindsNoClient \/ ReplyWritten \/ ReplyBreaksPipe
  \/ CheckExit \/ DispatchTask \/ DispatchFindsNoSlot \/ DispatchEnds
=============================================================================
