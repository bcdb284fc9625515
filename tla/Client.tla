------------------------------- MODULE Client -------------------------------
(***************************************************************************)
(* The client process (client.c, main): it makes its own FIFO, opens the   *)
(* FIFO SERVER, writes one request, opens its own FIFO and prints what     *)
(* arrives until it has seen the end-of-communication mark and every       *)
(* writer has closed.  Command lines that the checks of client.c:46-113    *)
(* refuse end the process before it touches a FIFO and are not modelled.   *)
(***************************************************************************)
EXTENDS SDState

GoTo(c, pc) == client_pc' = [client_pc EXCEPT ![c] = pc]

\* Faulty: does not make its FIFO.
ClientMakesNoFifo(c) ==
  /\ client_pc[c] = "init"
  /\ GoTo(c, "made")
  /\ UNCHANGED <<sharedVars, serverVars, monitorVars,
                 client_fifo_linked, client_fifo, client_out>>

\* mkfifo of the client's own FIFO.
ClientStart(c) ==
  /\ client_pc[c] = "init"
  /\ GoTo(c, "made")
  /\ client_fifo_linked' = [client_fifo_linked EXCEPT ![c] = TRUE]
  /\ UNCHANGED <<sharedVars, serverVars, monitorVars, client_fifo, client_out>>

\* SERVER is not there, at access or at open: the client ends, and leaves its
\* own FIFO behind.
ClientFindsNoServer(c) ==
  /\ client_pc[c] = "made"
  /\ ~server_linked
  /\ GoTo(c, "refused")
  /\ UNCHANGED <<sharedVars, serverVars, monitorVars,
                 client_fifo_linked, client_fifo, client_out>>

\* open(SERVER, O_WRONLY) finds a FIFO that nobody reads: the reader is about to
\* open it (ServerOpensForReading), was interrupted and has not unlinked it yet, or
\* has failed.
ClientWaitsForServer(c) ==
  /\ client_pc[c] = "made"
  /\ server_linked
  /\ ~ServerFifoHasReader /\ server_pc # "open_rd"
  /\ GoTo(c, "connecting")
  /\ UNCHANGED <<sharedVars, serverVars, monitorVars,
                 client_fifo_linked, client_fifo, client_out>>

\* open(SERVER, O_WRONLY) returns at once: somebody has it open for reading.
ClientOpensServer(c) ==
  /\ client_pc[c] = "made"
  /\ server_linked
  /\ ServerFifoHasReader
  /\ GoTo(c, "opened")
  /\ UNCHANGED <<sharedVars, serverVars, monitorVars,
                 client_fifo_linked, client_fifo, client_out>>

\* The server waits in open(SERVER, O_RDONLY): both opens return.
ClientMeetsServer(c) ==
  /\ client_pc[c] = "made"
  /\ server_linked
  /\ server_pc = "open_rd"
  /\ GoTo(c, "opened")
  /\ server_pc' = "connected"
  /\ UNCHANGED <<sharedVars, buf, reply, taskVars, has_been_interrupted, signals,
                 monitorVars, client_fifo_linked, client_fifo, client_out>>

\* Writes the request and closes SERVER.
ClientWrites(c) ==
  /\ client_pc[c] = "opened"
  /\ ServerFifoHasReader
  /\ \E m \in Commands :
       server_fifo' = Append(server_fifo, [kind |-> "REQUEST", client |-> c, cmd |-> m])
  /\ GoTo(c, "sent")
  /\ UNCHANGED <<server_linked, serverVars, monitorVars,
                 client_fifo_linked, client_fifo, client_out>>

\* Nobody reads SERVER any more: the write raises SIGPIPE.
ClientBreaksPipe(c) ==
  /\ client_pc[c] = "opened"
  /\ ~ServerFifoHasReader
  /\ GoTo(c, "refused")
  /\ UNCHANGED <<sharedVars, serverVars, monitorVars,
                 client_fifo_linked, client_fifo, client_out>>


\* strcpy (FIFO, ...): from here on the signal handler knows what to unlink.
ClientNamesFifo(c) ==
  /\ client_pc[c] = "sent"
  /\ GoTo(c, "named")
  /\ UNCHANGED <<sharedVars, serverVars, monitorVars,
                 client_fifo_linked, client_fifo, client_out>>

ServerWaitsFor(c) == server_pc = "waiting" /\ reply.client = c

\* open(O_RDONLY) of its own FIFO waits for a writer (ReplyOpens brings it).
ClientOpensOwn(c) ==
  /\ client_pc[c] = "named"
  /\ ~ServerWaitsFor(c)
  /\ GoTo(c, "opening")
  /\ UNCHANGED <<sharedVars, serverVars, monitorVars,
                 client_fifo_linked, client_fifo, client_out>>

\* The server waits in open(O_WRONLY) for this very open: both return.
ClientMeetsReply(c) ==
  /\ client_pc[c] = "named"
  /\ ServerWaitsFor(c)
  /\ GoTo(c, "reading")
  /\ server_pc' = "writing"
  /\ UNCHANGED <<sharedVars, buf, reply, taskVars, has_been_interrupted, signals,
                 monitorVars, client_fifo_linked, client_fifo, client_out>>

\* read returns everything that is in the FIFO, and it is printed.
ClientReadsReply(c) ==
  /\ client_pc[c] = "reading"
  /\ client_fifo[c] # << >>
  /\ client_out' = [client_out EXCEPT ![c] = @ \o client_fifo[c]]
  /\ client_fifo' = [client_fifo EXCEPT ![c] = << >>]
  /\ UNCHANGED <<sharedVars, serverVars, monitorVars, client_pc, client_fifo_linked>>

HasWriter(c) ==
  \/ server_pc = "writing" /\ reply.client = c
  \/ \E p \in Pids : /\ monitor_pc[p] \in {"running", "ran"}
                     /\ monitor_task[p].client = c

SawEOO(c) == \E i \in DOMAIN client_out[c] : client_out[c][i] \in Final

\* End of file after the mark: closes and unlinks its FIFO.  An end of file
\* before the mark makes the client call read again, which changes nothing.
ClientEnds(c) ==
  /\ client_pc[c] = "reading"
  /\ client_fifo[c] = << >> /\ SawEOO(c) /\ ~HasWriter(c)
  /\ GoTo(c, "done")
  /\ client_fifo_linked' = [client_fifo_linked EXCEPT ![c] = FALSE]
  /\ UNCHANGED <<sharedVars, serverVars, monitorVars, client_fifo, client_out>>

\* SIGINT or SIGTERM: sig_handler unlinks FIFO, whose name is the empty string
\* until ClientNamesFifo, and ends the process.
ClientInterrupted(c) ==
  /\ c \in Mortal
  /\ client_pc[c] \notin {"init", "done", "refused", "gone"}
  /\ GoTo(c, "gone")
  /\ client_fifo_linked' = IF client_pc[c] \in {"named", "opening", "reading"}
                             THEN [client_fifo_linked EXCEPT ![c] = FALSE]
                             ELSE client_fifo_linked
  /\ UNCHANGED <<sharedVars, serverVars, monitorVars, client_fifo, client_out>>

\* What a running client process does by itself.
ClientStep(c) ==
  \/ ClientFindsNoServer(c)
  \/ ClientWaitsForServer(c)
  \/ ClientOpensServer(c)
  \/ ClientMeetsServer(c)
  \/ ClientWrites(c)
  \/ ClientBreaksPipe(c)
  \/ ClientNamesFifo(c)
  \/ ClientOpensOwn(c)
  \/ ClientMeetsReply(c)
  \/ ClientReadsReply(c)
  \/ ClientEnds(c)
=============================================================================
