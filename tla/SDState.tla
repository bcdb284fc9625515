------------------------------ MODULE SDState ------------------------------
(***************************************************************************)
(* The state that the processes of SDStore share, and its vocabulary: the  *)
(* server (server.c), the monitors it forks, one per task (server.c), and  *)
(* the clients (client.c).  They communicate through named pipes only: the *)
(* FIFO called SERVER, which everybody writes and the server reads, and    *)
(* one FIFO per client, named after the client's pid.                      *)
(*                                                                         *)
(* A write to a FIFO is atomic (every message is shorter than PIPE_BUF),   *)
(* so a FIFO is a sequence of messages.  Sizes in bytes are counted in     *)
(* messages.  A client process issues one command and then ends, so a      *)
(* client stands for its pid, its FIFO and its request.                    *)
(***************************************************************************)
EXTENDS Integers, Sequences, FiniteSets

CONSTANTS
  Clients,          \* client processes: one request each
  Pids,             \* process ids of monitors: fork never returns one twice
  Transformations,  \* NOP, BCOMPRESS, ... (common.h)
  ActiveLimit,      \* get_transformation_active_limit, from the config file
  Commands,         \* the command lines that pass the client's own checks
  MaxParallel,      \* GLOBAL_MAX_PARALLEL_TASKS
  BufSize,          \* BUFSIZ, in messages: the buffer of block_read_fifo
  MaxSignals,       \* bound: SIGINT or SIGTERM signals sent to the server
  Mortal,           \* the clients a user may interrupt
  NULL

ASSUME LimitAssumption == ActiveLimit \in [Transformations -> Nat]
ASSUME SizeAssumption ==
  /\ MaxParallel \in Nat \ {0}
  /\ BufSize \in Nat \ {0}
  /\ MaxSignals \in Nat
ASSUME ProcessAssumption ==
  /\ IsFiniteSet(Clients) /\ IsFiniteSet(Pids)
  /\ Cardinality(Clients) <= Cardinality(Pids)
  /\ Mortal \subseteq Clients
\* client.c lets through "status", and "proc-file" with a priority in 0..5, or
\* with no argument at all: then the message has no priority field (NULL).
ASSUME CommandAssumption ==
  /\ Commands \subseteq [name : {"PROC_FILE", "STATUS"},
                         pri  : (0..5) \cup {NULL},
                         ops  : [Transformations -> Nat]]
  /\ NULL \notin 0..5

-----------------------------------------------------------------------------
(* Messages and tasks *)

\* server.c:245-248: task_message ::= proc_file | status | finished_task
Messages ==
  [kind : {"REQUEST"}, client : Clients, cmd : Commands]
    \cup [kind : {"FINISHED_TASK"}, pid : Pids]

\* What a client reads; the last three end with EOO, the end of communication.
Replies == {"pending", "processing", "completed", "impossible", "status"}
Final == {"completed", "impossible", "status"}

\* task_t: ops counts the occurrences of each transformation in ops[].
Task == [client : Clients, pri : 0..5, ops : [Transformations -> Nat]]

\* task_t of an active task: task->monitor is the pid that fork returned.
ActiveTask == [task : Task, monitor : Pids]

\* ops_totals[] is an array of char, which is signed and 8 bits wide: ++ wraps.
SChar(n) == ((n + 128) % 256) - 128
OpsTotals(task) == [t \in Transformations |-> SChar(task.ops[t])]

Slots == 0 .. MaxParallel - 1

ASSUME NullAssumption == NULL \notin Task \cup ActiveTask
ASSUME NoReplyAssumption == NULL \notin [client : Clients, text : Replies]

-----------------------------------------------------------------------------
VARIABLES
  server_linked,        \* the directory has an entry SERVER for the FIFO
  server_fifo,          \* the unread messages of the FIFO SERVER
  \* the server process: its control point and the struct g
  server_pc,
  buf,                  \* block_read_fifo: the messages not processed yet
  reply,                \* the client being answered and what it is told
  queue,                \* g.queue, as the set of the tasks in it
  active_tasks,         \* g.active_tasks
  num_active_tasks,     \* g.num_active_tasks
  active_count,         \* g.get_transformation_active_count
  has_been_interrupted, \* g.has_been_interrupted
  signals,              \* signals sent so far, at most MaxSignals
  \* the monitor processes, by pid
  monitor_pc,
  monitor_task,         \* the monitor's copy of its task
  \* the client processes
  client_pc,
  client_fifo_linked,   \* the directory has an entry for the client's FIFO
  client_fifo,          \* the unread messages of the client's FIFO
  client_out            \* history: what the client has printed

sharedVars == <<server_linked, server_fifo>>
taskVars == <<queue, active_tasks, num_active_tasks, active_count>>
serverVars == <<server_pc, buf, reply, taskVars, has_been_interrupted, signals>>
monitorVars == <<monitor_pc, monitor_task>>
clientVars == <<client_pc, client_fifo_linked, client_fifo, client_out>>
vars == <<sharedVars, serverVars, monitorVars, clientVars>>

ServerPcs ==
  { "start",      \* main, before mkfifo
    "made",       \* SERVER is there, about to open(SERVER, O_RDONLY)
    "open_rd",    \* in that open
    "handler",    \* a signal has ended that open, sig_handler is about to run
    "connected",  \* about to test has_been_interrupted
    "open_wr",    \* about to open(SERVER, O_WRONLY)
    "loop",       \* listening_loop, before the call of read
    "reading",    \* in read
    "processing", \* block_read_fifo, the loop over buf
    "replying",   \* about to open the FIFO of the client to be answered
    "waiting",    \* in that open: the FIFO was found, and nobody reads it yet
    "writing",    \* the FIFO is open, about to write
    "check",      \* listening_loop, the exit test
    "dispatch",   \* listening_loop, the loop over the queue
    "exited",     \* ended with EXIT_SUCCESS
    "failed" }    \* ended with EXIT_FAILURE, or by abort or a signal
MonitorPcs ==
  { "none",       \* not forked yet
    "start",      \* forked, the client's FIFO not open
    "running",    \* in pipe_progs
    "ran",        \* pipe_progs returned
    "notify",     \* the client's FIFO is closed
    "exited",     \* has notified the server
    "died" }      \* ended before notifying the server
ClientPcs ==
  { "init",
    "made",       \* has its FIFO, about to look for SERVER
    "connecting", \* in open(SERVER, O_WRONLY): nobody reads SERVER
    "opened",     \* SERVER is open, about to write the request
    "sent",       \* the request is written
    "named",      \* the signal handler knows the name of the FIFO
    "opening",    \* in open of its own FIFO
    "reading",
    "done",       \* read a final reply and ended
    "refused",    \* ended for want of a server
    "gone" }      \* ended by a signal

ServerUp == server_pc \notin {"start", "exited", "failed"}
MonitorAlive(p) == monitor_pc[p] \notin {"none", "exited", "died"}

\* The monitors inherit server_fifo_rd, so they count as readers of SERVER.
ServerFifoHasReader ==
  \/ ServerUp /\ server_pc \notin {"made", "open_rd", "handler"}
  \/ \E p \in Pids : MonitorAlive(p)

\* An open for writing finds the reader: the client is in open or has opened.
ClientListens(c) == client_fifo_linked[c] /\ client_pc[c] \in {"opening", "reading"}

\* The process that writes to c's FIFO is killed by SIGPIPE if c has ended.
ClientReads(c) == client_pc[c] = "reading"

-----------------------------------------------------------------------------
TypeOK ==
  /\ server_linked \in BOOLEAN
  /\ server_fifo \in Seq(Messages)
  /\ server_pc \in ServerPcs
  /\ buf \in Seq(Messages)
  /\ reply \in [client : Clients, text : Replies] \cup {NULL}
  /\ queue \in SUBSET Task
  /\ active_tasks \in [Slots -> ActiveTask \cup {NULL}]
  /\ num_active_tasks \in Int
  /\ active_count \in [Transformations -> Int]
  /\ has_been_interrupted \in BOOLEAN
  /\ signals \in 0..MaxSignals
  /\ monitor_pc \in [Pids -> MonitorPcs]
  /\ monitor_task \in [Pids -> Task \cup {NULL}]
  /\ client_pc \in [Clients -> ClientPcs]
  /\ client_fifo_linked \in [Clients -> BOOLEAN]
  /\ client_fifo \in [Clients -> Seq(Replies)]
  /\ client_out \in [Clients -> Seq(Replies)]
=============================================================================
