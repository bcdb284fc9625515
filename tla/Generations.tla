----------------------------- MODULE Generations -----------------------------
(***************************************************************************)
(* Servers that follow one another, or overlap, in one directory: what main*)
(* (server.c) and sig_handler do to the directory entry SERVER, and what a *)
(* client (client.c) finds there.  A name is looked up at each call, so    *)
(* each call may meet the FIFO of another server.  A FIFO is identified by *)
(* the server that made it.  A crash (kill -9, a failed assertion, an error*)
(* that a wrapper of safe.c does not survive) leaves the entry.            *)
(*                                                                         *)
(* What the server does with requests is in SDStore, where one server runs.*)
(***************************************************************************)
EXTENDS Naturals, FiniteSets

CONSTANTS
  Servers,  \* bound: the server processes that users start
  Clients,  \* bound: the client processes
  NULL

ASSUME GenerationsAssumption == NULL \notin Servers

VARIABLES
  entry,       \* the FIFO that SERVER names, NULL if there is no entry
  pc,          \* of each server
  rd, wr,      \* g.server_fifo_rd, g.server_fifo_wr, NULL if not open
  interrupted, \* g.has_been_interrupted
  client_pc,
  to,          \* the FIFO that a client has found and opens or has open
  overlapped,  \* history: a server was started while another was up
  early,       \* history: the servers interrupted before they made the FIFO
  between      \* history: the clients that opened SERVER when a signal had ended
               \* the open of its reader and the handler was still to unlink it

vars == <<entry, pc, rd, wr, interrupted, client_pc, to, overlapped, early, between>>
clientVars == <<client_pc, to>>
history == <<overlapped, early, between>>

ServerPcs ==
  { "off", "access", "delete", "mkfifo",
    "open_rd", "waiting",     \* about to open (SERVER, O_RDONLY), in that open
    "handler",                \* a signal has ended it, sig_handler is about to run
    "test",
    "open_wr", "wr_waiting", "wr_handler",   \* the same of O_WRONLY
    "loop", "closed", "exited", "failed", "crashed" }
ClientPcs == {"init", "found", "opening", "connected", "sent", "refused", "gone"}

TypeOK ==
  /\ entry \in Servers \cup {NULL}
  /\ pc \in [Servers -> ServerPcs]
  /\ rd \in [Servers -> Servers \cup {NULL}]
  /\ wr \in [Servers -> Servers \cup {NULL}]
  /\ interrupted \in [Servers -> BOOLEAN]
  /\ client_pc \in [Clients -> ClientPcs]
  /\ to \in [Clients -> Servers \cup {NULL}]
  /\ overlapped \in BOOLEAN
  /\ early \in SUBSET Servers
  /\ between \in SUBSET Clients

\* No entry yet; the one that a server may find is what a crash has left.
Init ==
  /\ entry = NULL
  /\ pc = [s \in Servers |-> "off"]
  /\ rd = [s \in Servers |-> NULL]
  /\ wr = [s \in Servers |-> NULL]
  /\ interrupted = [s \in Servers |-> FALSE]
  /\ client_pc = [c \in Clients |-> "init"]
  /\ to = [c \in Clients |-> NULL]
  /\ overlapped = FALSE
  /\ early = {}
  /\ between = {}

Ended == {"exited", "failed", "crashed"}
Up(s) == pc[s] \notin {"off"} \cup Ended
Starting == {"access", "delete", "mkfifo"}

\* A process that waits in open for reading is a reader already.
HasReader(f) == \E s \in Servers : rd[s] = f
Goes(s, p) == pc' = [pc EXCEPT ![s] = p]
EndsAs(s, p) ==
  /\ Goes(s, p)
  /\ rd' = [rd EXCEPT ![s] = NULL]
  /\ wr' = [wr EXCEPT ![s] = NULL]

-----------------------------------------------------------------------------
(* The server: main *)

Start(s) ==
  /\ pc[s] = "off"
  /\ Goes(s, "access")
  /\ overlapped' = (overlapped \/ \E t \in Servers : Up(t))
  /\ UNCHANGED <<entry, rd, wr, interrupted, clientVars, early, between>>

\* Faulty: a FIFO that is there already is used.
ReuseFifo(s) ==
  /\ pc[s] = "access"
  /\ Goes(s, IF entry # NULL THEN "open_rd" ELSE "mkfifo")
  /\ UNCHANGED <<entry, rd, wr, interrupted, clientVars, history>>

\* Faulty: a file that is there already is not looked for.
NoAccess(s) ==
  /\ pc[s] = "access"
  /\ Goes(s, "mkfifo")
  /\ UNCHANGED <<entry, rd, wr, interrupted, clientVars, history>>

\* access (SERVER, F_OK).
Access(s) ==
  /\ pc[s] = "access"
  /\ Goes(s, IF entry # NULL THEN "delete" ELSE "mkfifo")
  /\ UNCHANGED <<entry, rd, wr, interrupted, clientVars, history>>

\* unlink (SERVER), whatever it names by now.
Delete(s) ==
  /\ pc[s] = "delete"
  /\ entry' = NULL
  /\ Goes(s, "mkfifo")
  /\ UNCHANGED <<rd, wr, interrupted, clientVars, history>>

MakeFifo(s) ==
  /\ pc[s] = "mkfifo"
  /\ IF entry = NULL
       THEN entry' = s /\ Goes(s, "open_rd")
       ELSE Goes(s, "failed") /\ UNCHANGED entry
  /\ UNCHANGED <<rd, wr, interrupted, clientVars, history>>

\* open (SERVER, O_RDONLY): looks the name up and waits for a writer.  Writers
\* that wait in open go on, and then the reader does not wait.
OpenForReading(s) ==
  /\ pc[s] = "open_rd"
  /\ IF entry = NULL
       THEN EndsAs(s, "failed") /\ UNCHANGED client_pc
       ELSE LET waits == {c \in Clients : client_pc[c] = "opening" /\ to[c] = entry}
                others == {t \in Servers : pc[t] = "wr_waiting" /\ wr[t] = entry} IN
            /\ rd' = [rd EXCEPT ![s] = entry]
            /\ client_pc' = [c \in Clients |-> IF c \in waits THEN "connected"
                                                              ELSE client_pc[c]]
            /\ pc' = [t \in Servers |->
                        IF t = s THEN IF waits \cup others = {} THEN "waiting" ELSE "test"
                        ELSE IF t \in others THEN "loop" ELSE pc[t]]
            /\ UNCHANGED wr
  /\ UNCHANGED <<entry, interrupted, to, history>>

\* The servers that wait for a writer of f go on when one has opened it.
Wake(f) == [s \in Servers |-> IF pc[s] = "waiting" /\ rd[s] = f THEN "test" ELSE pc[s]]

\* if (g.has_been_interrupted) _exit (EXIT_SUCCESS).
TestFlag(s) ==
  /\ pc[s] = "test"
  /\ IF interrupted[s] THEN EndsAs(s, "exited")
                       ELSE Goes(s, "open_wr") /\ UNCHANGED <<rd, wr>>
  /\ UNCHANGED <<entry, interrupted, clientVars, history>>

\* open (SERVER, O_WRONLY): looks the name up again, and waits for a reader.
OpenForWriting(s) ==
  /\ pc[s] = "open_wr"
  /\ IF entry = NULL
       THEN EndsAs(s, "failed")
       ELSE /\ wr' = [wr EXCEPT ![s] = entry]
            /\ pc' = [Wake(entry) EXCEPT ![s] = IF HasReader(entry) THEN "loop"
                                                                  ELSE "wr_waiting"]
            /\ UNCHANGED rd
  /\ UNCHANGED <<entry, interrupted, clientVars, history>>

\* listening_loop returns once the work is done: both ends are closed.  cclose
\* ends the server if it has no writing end.
LeaveLoop(s) ==
  /\ pc[s] = "loop"
  /\ interrupted[s]
  /\ EndsAs(s, IF wr[s] = NULL THEN "failed" ELSE "closed")
  /\ UNCHANGED <<entry, interrupted, clientVars, history>>

\* unlink (SERVER) again, although sig_handler did, and return.
UnlinkAtEnd(s) ==
  /\ pc[s] = "closed"
  /\ entry' = NULL
  /\ Goes(s, "exited")
  /\ UNCHANGED <<rd, wr, interrupted, clientVars, history>>

\* Faulty: sig_handler leaves the entry to the end of main.
HandlerKeepsEntry == UNCHANGED entry

\* sig_handler: unlink (SERVER), whatever it names.
HandlerUnlinks == entry' = NULL

\* The handler runs between two calls of the server.
SignalBetweenCalls(s) ==
  /\ Up(s) /\ pc[s] \notin {"waiting", "wr_waiting", "handler", "wr_handler"}
  /\ interrupted' = [interrupted EXCEPT ![s] = TRUE]
  /\ HandlerUnlinks
  /\ early' = IF pc[s] \in Starting THEN early \cup {s} ELSE early
  /\ UNCHANGED <<pc, rd, wr, clientVars, overlapped, between>>

\* A signal finds the server in an open, which ends with EINTR: it is no reader (or
\* writer) any more, and its handler has not run yet.
SignalInOpen(s) ==
  /\ \/ pc[s] = "waiting" /\ Goes(s, "handler") /\ rd' = [rd EXCEPT ![s] = NULL] /\ UNCHANGED wr
     \/ pc[s] = "wr_waiting" /\ Goes(s, "wr_handler") /\ wr' = [wr EXCEPT ![s] = NULL] /\ UNCHANGED rd
  /\ UNCHANGED <<entry, interrupted, clientVars, history>>

\* The handler of that signal, and oopen returns: the first open is followed by the
\* test of the flag, the second is not.
HandlerRuns(s) ==
  /\ \/ pc[s] = "handler" /\ Goes(s, "test")
     \/ pc[s] = "wr_handler" /\ Goes(s, "loop")
  /\ interrupted' = [interrupted EXCEPT ![s] = TRUE]
  /\ HandlerUnlinks
  /\ UNCHANGED <<rd, wr, clientVars, history>>

Signal(s) == SignalBetweenCalls(s) \/ SignalInOpen(s) \/ HandlerRuns(s)

Crash(s) ==
  /\ Up(s)
  /\ EndsAs(s, "crashed")
  /\ UNCHANGED <<entry, interrupted, clientVars, history>>

-----------------------------------------------------------------------------
(* The client: access, open and write *)

ClientGoes(c, p) == client_pc' = [client_pc EXCEPT ![c] = p]

ClientLooks(c) ==
  /\ client_pc[c] = "init"
  /\ ClientGoes(c, IF entry # NULL THEN "found" ELSE "refused")
  /\ UNCHANGED <<entry, pc, rd, wr, interrupted, to, history>>

\* open looks the name up, and waits until somebody reads the FIFO.
ClientOpens(c) ==
  /\ client_pc[c] = "found"
  /\ to' = [to EXCEPT ![c] = entry]
  /\ ClientGoes(c, IF entry = NULL THEN "gone"
                   ELSE IF HasReader(entry) THEN "connected" ELSE "opening")
  /\ pc' = Wake(entry)
  /\ between' = IF entry # NULL /\ pc[entry] = "handler" THEN between \cup {c} ELSE between
  /\ UNCHANGED <<entry, rd, wr, interrupted, overlapped, early>>

\* Writes its request and closes; without a reader SIGPIPE ends it.
ClientWrites(c) ==
  /\ client_pc[c] = "connected"
  /\ ClientGoes(c, IF HasReader(to[c]) THEN "sent" ELSE "gone")
  /\ UNCHANGED <<entry, pc, rd, wr, interrupted, to, history>>

-----------------------------------------------------------------------------
Next ==
  \/ \E s \in Servers :
       \/ Start(s) \/ Access(s) \/ Delete(s) \/ MakeFifo(s) \/ OpenForReading(s)
       \/ TestFlag(s) \/ OpenForWriting(s) \/ LeaveLoop(s) \/ UnlinkAtEnd(s)
       \/ Signal(s) \/ Crash(s)
  \/ \E c \in Clients : ClientLooks(c) \/ ClientOpens(c) \/ ClientWrites(c)

Spec == Init /\ [][Next]_vars

-----------------------------------------------------------------------------
\* As long as servers follow one another, whatever the earlier ones left behind,
\* a server can start (server.c:464-508): only a signal makes it fail.
StartsAfterCrash ==
  ~overlapped => \A s \in Servers : pc[s] = "failed" => interrupted[s]

\* A server that listens reads and writes its own FIFO, so that its monitors
\* report to it and not to another server, and until it is interrupted clients
\* find that FIFO (server.c:498-508).  With two servers at a time the entry can
\* be that of the other one, or be gone.
ListensToItself ==
  ~overlapped => \A s \in Servers : pc[s] = "loop" =>
    /\ rd[s] = s /\ wr[s] = s
    /\ ~interrupted[s] => entry = s

\* No client waits in open (client.c:127) for the FIFO of a server that has ended
\* with success, but for two cases.  A server that got its signal before it made the
\* FIFO leaves the entry SERVER behind when it ends (server.c:503).  And a signal
\* that ends the open of the reader is handled a moment later (server.c:361-363): a
\* client that opens SERVER in this window finds the entry, but nobody to read.
NoClientTrapped ==
  ~overlapped => \A c \in Clients :
    client_pc[c] = "opening" /\ pc[to[c]] \in {"closed", "exited"} =>
      to[c] \in early \/ c \in between
=============================================================================
