------------------------------ MODULE SDStore ------------------------------
(***************************************************************************)
(* The whole system: one server, the monitors it forks and the clients,    *)
(* running concurrently.  One generation of the server is modelled: it     *)
(* starts in an empty directory and, once it has ended, is not restarted.  *)
(***************************************************************************)
EXTENDS Server, Monitor, Client

Init ==
  /\ server_linked = FALSE
  /\ server_fifo = << >>
  /\ server_pc = "start"
  /\ buf = << >>
  /\ reply = NULL
  /\ queue = {}
  /\ active_tasks = [i \in Slots |-> NULL]
  /\ num_active_tasks = 0
  /\ active_count = [t \in Transformations |-> 0]
  /\ has_been_interrupted = FALSE
  /\ signals = 0
  /\ monitor_pc = [p \in Pids |-> "none"]
  /\ monitor_task = [p \in Pids |-> NULL]
  /\ client_pc = [c \in Clients |-> "init"]
  /\ client_fifo_linked = [c \in Clients |-> FALSE]
  /\ client_fifo = [c \in Clients |-> << >>]
  /\ client_out = [c \in Clients |-> << >>]

Next ==
  \/ ServerStep
  \/ Signal
  \/ \E p \in Pids : MonitorStep(p)
  \/ \E c \in Clients : ClientStart(c) \/ ClientStep(c) \/ ClientInterrupted(c)

Spec == Init /\ [][Next]_vars

\* The operating system runs every process that can run.  Nothing makes a user
\* start a client or send a signal.
Fairness ==
  /\ WF_vars(ServerStep)
  /\ \A p \in Pids : WF_vars(MonitorStep(p))
  /\ \A c \in Clients : WF_vars(ClientStep(c))

FairSpec == Spec /\ Fairness

-----------------------------------------------------------------------------
(* Safety *)

BusySlots == {i \in Slots : active_tasks[i] # NULL}

\* One pair per transformation process that the task in a busy slot asked for.
Reserved(t) ==
  UNION {{i} \X (1 .. OpsTotals(active_tasks[i].task)[t]) : i \in BusySlots}

\* The counters the server schedules with are what the table of active tasks
\* says: num_active_tasks (server.c:272, 422) and the count of each
\* transformation (server.c:121, 238), updated at different places.
Bookkeeping ==
  /\ num_active_tasks = Cardinality(BusySlots)
  /\ \A t \in Transformations : active_count[t] = Cardinality(Reserved(t))

\* The transformation processes that may be running: those of the monitors in
\* pipe_progs.
Running(t) ==
  UNION {{p} \X (1 .. monitor_task[p].ops[t]) :
           p \in {q \in Pids : monitor_pc[q] = "running"}}

\* No transformation ever has more processes running than its configured limit
\* (README and report; task_is_possible, server.c:112), although the server
\* only knows its own counters and hears of the end of a task by a message.
ConcurrencyLimit ==
  \A t \in Transformations : Cardinality(Running(t)) <= ActiveLimit[t]

FinishedIn(msgs, p) ==
  Cardinality({i \in DOMAIN msgs : msgs[i] = [kind |-> "FINISHED_TASK", pid |-> p]})

\* Every task in a slot has a monitor of its own that is still going to report
\* its end or has reported it exactly once, and nobody reports twice or reports
\* a task that no slot holds: the assertion of process_message (server.c:268)
\* cannot fail and no slot is released twice.  The exception is a monitor that
\* died, whose slot stays.  While it copies the FIFO to buf, and after a crash,
\* the server's variables keep what they held last.
FinishAccounted ==
  \A p \in Pids :
    /\ Cardinality(SlotsOf(p)) <= 1
    /\ MonitorAlive(p) \/ monitor_pc[p] = "died" =>
         /\ SlotsOf(p) # {}
         /\ \A i \in SlotsOf(p) : active_tasks[i].task = monitor_task[p]
    /\ FinishedIn(server_fifo \o buf, p) =
         IF monitor_pc[p] = "exited" THEN Cardinality(SlotsOf(p)) ELSE 0

\* The process of c was ended by a signal.
Gone(c) == client_pc[c] = "gone"

Told(c) == client_out[c] \o client_fifo[c]

\* A client is told pending, processing, completed, in this order and at most
\* once each, or else impossible, or else the status: the server and a monitor
\* write to the client's FIFO without any synchronisation of their own
\* (server.c:152, 184, 292, 343, 357).
RepliesInOrder ==
  \A c \in Clients :
    \/ \E n \in 0..3 : Told(c) = SubSeq(<<"pending", "processing", "completed">>, 1, n)
    \/ Told(c) \in {<<"impossible">>, <<"status">>}

\* The server never waits for a message with a task in its queue and none
\* active, when it might wait for ever: after the exit test fails, and while it
\* reads, whatever is queued will be looked at again (server.c:412-426).
NeverStalls ==
  server_pc \in {"loop", "reading"} /\ queue # {} => num_active_tasks > 0

\* When the server ends in the orderly way, every task it told pending has been
\* completed and its client told so (server.c:412).
ExitsAfterWork ==
  server_pc = "exited" =>
    \A c \in Clients :
      (\E i \in DOMAIN Told(c) : Told(c)[i] = "pending") =>
        (\E i \in DOMAIN Told(c) : Told(c)[i] = "completed")

\* The server fails in this step, and for one of these reasons.
FailsForCause ==
  server_pc # "failed" /\ server_pc' = "failed" =>
    \/ server_pc \in {"made", "open_wr"} /\ has_been_interrupted
    \/ server_pc = "reading" /\ Len(server_fifo) >= BufSize
    \/ server_pc = "processing" /\ Head(buf).kind = "REQUEST" /\ Head(buf).cmd.pri = NULL
    \/ server_pc \in {"replying", "writing"} /\ Gone(reply.client)
    \/ server_pc = "waiting" /\ signals' # signals
    \/ server_pc = "dispatch" /\ num_active_tasks = MaxParallel

\* A step that ends the server otherwise than in the orderly way has one of these
\* causes.  A signal at start: the handler unlinked SERVER before one of the two opens
\* (server.c:501, 508).  A buffer that is full (server.c:377).  A request without a
\* priority (server.c:305), but never the assertion that a finished task has a slot
\* (server.c:268).  For an answer (server.c:291, 339, 356), a client that a signal
\* ended, but never one that ended by itself or has no FIFO yet; or a signal to the
\* server while it waits in open (safe.c:41).  All slots taken (server.c:396), as
\* counted by num_active_tasks.
FailureHasCause == [][FailsForCause]_vars

-----------------------------------------------------------------------------
(* Liveness, under FairSpec *)

\* The server waits in open for a client that was interrupted after it had
\* written its request and before it opened its own FIFO (client.c:128-138).  Nobody
\* will read that FIFO: its name is still there if the handler did not know it yet
\* (before client.c:132), else the handler has unlinked it while the server waited.
Stranded == server_pc = "waiting" /\ Gone(reply.client)

\* As long as nobody interrupts a client or the server, every request that reaches
\* the server is answered in full and its client ends, however the clients, the
\* monitors and the blocking opens of their FIFOs interleave, and although a task
\* at the head of the queue holds up the others.
EveryRequestAnswered ==
  \A c \in Clients :
    client_pc[c] = "sent" ~>
      client_pc[c] = "done" \/ has_been_interrupted \/ \E d \in Mortal : Gone(d)


\* A server that is interrupted while it has work to do ends: the message of
\* the last monitor wakes it up for the exit test (server.c:410-412).  It does
\* not if a monitor has died with its client, as that slot is never freed.
DrainTerminates ==
  has_been_interrupted /\ (queue # {} \/ num_active_tasks > 0) ~>
    Stopped \/ Stranded \/ \E p \in Pids : monitor_pc[p] = "died"

-----------------------------------------------------------------------------
(* Refinement *)

TasksOf(pcs) == {monitor_task[p] : p \in {q \in Pids : monitor_pc[q] \in pcs}}

\* The jobs of the abstract scheduler are the tasks themselves: those in the
\* heap wait, those whose monitor has been forked run until the pipeline of
\* transformations has ended, or the monitor has.
Promise ==
  INSTANCE Scheduler
    WITH Jobs <- {TaskOf([client |-> c, cmd |-> m]) :
                    c \in Clients,
                    m \in {n \in Commands : n.name = "PROC_FILE" /\ n.pri # NULL}},
         Limit <- ActiveLimit,
         waiting <- queue,
         running <- TasksOf({"start", "running"}),
         over <- TasksOf({"ran", "notify", "exited", "died"})

\* The server, its monitors and the messages between them implement the
\* scheduler: admission, priority order, the limits, and no task run twice.
ImplementsScheduler == Promise!Spec
=============================================================================
