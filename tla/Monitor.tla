------------------------------ MODULE Monitor ------------------------------
(***************************************************************************)
(* The monitor process that the server forks for one task                  *)
(* (monitor_run_task in server.c, from the fork on): it tells the client   *)
(* that its file is being processed, runs the pipeline of transformations, *)
(* tells the client that it is completed, and tells the server that the    *)
(* task is finished.  SIGINT and SIGTERM are ignored in a monitor and in   *)
(* the transformations, which inherit that.                                *)
(***************************************************************************)
EXTENDS SDState

MonitorGoesTo(p, pc) == monitor_pc' = [monitor_pc EXCEPT ![p] = pc]
Tell(c, text) == client_fifo' = [client_fifo EXCEPT ![c] = Append(@, text)]

\* Faulty: forgets to write "processing".
MonitorOpensSilently(p) ==
  /\ monitor_pc[p] = "start"
  /\ ClientReads(monitor_task[p].client)
  /\ MonitorGoesTo(p, "running")
  /\ UNCHANGED <<sharedVars, serverVars, monitor_task, clientVars>>

\* Opens the client's FIFO and writes "processing".
MonitorOpens(p) ==
  LET c == monitor_task[p].client IN
  /\ monitor_pc[p] = "start"
  /\ ClientReads(c)
  /\ Tell(c, "processing")
  /\ MonitorGoesTo(p, "running")
  /\ UNCHANGED <<sharedVars, serverVars, monitor_task,
                 client_pc, client_fifo_linked, client_out>>

\* The client was interrupted and its FIFO is gone: oopen or wwrite ends the
\* monitor, and nobody tells the server.
MonitorFindsNoClient(p) ==
  LET c == monitor_task[p].client IN
  /\ monitor_pc[p] = "start"
  /\ ~client_fifo_linked[c]
  /\ MonitorGoesTo(p, "died")
  /\ UNCHANGED <<sharedVars, serverVars, monitor_task, clientVars>>

HasNoOps(task) == \A t \in Transformations : task.ops[t] = 0

\* pipe_progs: forks the transformations and waits for all of them.  Without a
\* transformation, pips has a negative size: what happens then is undefined.
MonitorRunsPipeline(p) ==
  /\ monitor_pc[p] = "running"
  /\ \/ MonitorGoesTo(p, "ran")
     \/ HasNoOps(monitor_task[p]) /\ MonitorGoesTo(p, "died")
  /\ UNCHANGED <<sharedVars, serverVars, monitor_task, clientVars>>

\* Writes "completed" and closes the client's FIFO.
MonitorCompletes(p) ==
  LET c == monitor_task[p].client IN
  /\ monitor_pc[p] = "ran"
  /\ ClientReads(c)
  /\ Tell(c, "completed")
  /\ MonitorGoesTo(p, "notify")
  /\ UNCHANGED <<sharedVars, serverVars, monitor_task,
                 client_pc, client_fifo_linked, client_out>>

\* The client was interrupted: the write raises SIGPIPE, and nobody tells the
\* server.
MonitorBreaksPipe(p) ==
  /\ monitor_pc[p] = "ran"
  /\ ~ClientReads(monitor_task[p].client)
  /\ MonitorGoesTo(p, "died")
  /\ UNCHANGED <<sharedVars, serverVars, monitor_task, clientVars>>

\* Faulty: does not end after the message, and writes it again.
MonitorNotifiesAgain(p) ==
  /\ monitor_pc[p] = "notify"
  /\ server_fifo' = Append(server_fifo, [kind |-> "FINISHED_TASK", pid |-> p])
  /\ Len(server_fifo) < BufSize
  /\ UNCHANGED <<server_linked, serverVars, monitorVars, clientVars>>

\* Writes FINISHED_TASK and its own pid to SERVER, and exits.  The monitor has
\* SERVER open for reading too, so this write raises no signal.
MonitorNotifies(p) ==
  /\ monitor_pc[p] = "notify"
  /\ server_fifo' = Append(server_fifo, [kind |-> "FINISHED_TASK", pid |-> p])
  /\ MonitorGoesTo(p, "exited")
  /\ UNCHANGED <<server_linked, serverVars, monitor_task, clientVars>>

MonitorStep(p) ==
  \/ MonitorOpens(p)
  \/ MonitorFindsNoClient(p)
  \/ MonitorRunsPipeline(p)
  \/ MonitorCompletes(p)
  \/ MonitorBreaksPipe(p)
  \/ MonitorNotifies(p)
=============================================================================
