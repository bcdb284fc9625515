-------------------------- MODULE GenerationsProofs --------------------------
(***************************************************************************)
(* The invariants of Generations, for any number of servers and clients.   *)
(*                                                                         *)
(* The argument.  As long as no server is started beside another, at most  *)
(* one is up (Alone).  What the names mean to it is then a matter of its   *)
(* own steps (Owns): it makes the FIFO in a directory that has no entry,   *)
(* the entry is its own until its signal handler removes it, and the ends  *)
(* that it has open are of its own FIFO.  A client waits for a server that *)
(* still has to open its FIFO, that has died, or that was interrupted      *)
(* before it made the FIFO, or the client opened it between the end of the *)
(* server's open and the run of its signal handler (Waits).                *)
(***************************************************************************)
EXTENDS Generations, TLAPS

Alone == \A s, t \in Servers : Up(s) /\ Up(t) => s = t

Owns(s) ==
  /\ rd[s] \in {s, NULL} /\ wr[s] \in {s, NULL}
  /\ pc[s] \in {"waiting", "open_wr", "loop"} => rd[s] = s
  /\ pc[s] = "test" /\ ~interrupted[s] => rd[s] = s
  /\ pc[s] \notin {"wr_waiting", "wr_handler"}
  /\ pc[s] = "loop" => wr[s] = s
  /\ pc[s] \in {"closed", "exited", "failed"} => interrupted[s]
  /\ pc[s] = "mkfifo" => entry = NULL
  /\ pc[s] \in {"open_rd", "waiting", "handler", "test", "open_wr", "loop"} =>
       entry \in {s, NULL} /\ (~interrupted[s] => entry = s)
  /\ interrupted[s] /\ s \notin early => pc[s] \notin Starting \cup {"off"} /\ entry # s
  /\ entry = s => pc[s] \notin Starting \cup {"off"}

Waits(c) ==
  client_pc[c] = "opening" =>
    /\ to[c] \in Servers
    /\ pc[to[c]] \notin Starting \cup {"off"}
    /\ \/ to[c] \in early \/ c \in between
       \/ pc[to[c]] \in {"open_rd", "failed", "crashed"}

GenInv ==
  ~overlapped => Alone /\ (\A s \in Servers : Owns(s)) /\ (\A c \in Clients : Waits(c))

-----------------------------------------------------------------------------
\* Every step of a server, of its signal handler and of a client keeps the types.
LEMMA TypeStep ==
  ASSUME TypeOK, [Next]_vars
  PROVE  TypeOK'
<1> USE DEF TypeOK, clientVars, history, ServerPcs, ClientPcs
<1>1. ASSUME NEW s \in Servers, NEW p \in ServerPcs, Goes(s, p)
      PROVE  pc' \in [Servers -> ServerPcs]
  BY <1>1 DEF Goes
<1>2. ASSUME NEW s \in Servers, NEW p \in ServerPcs, EndsAs(s, p)
      PROVE  /\ pc' \in [Servers -> ServerPcs]
             /\ rd' \in [Servers -> Servers \cup {NULL}]
             /\ wr' \in [Servers -> Servers \cup {NULL}]
  BY <1>2 DEF EndsAs, Goes
<1>3. ASSUME NEW f PROVE Wake(f) \in [Servers -> ServerPcs]
  BY DEF Wake
<1> HIDE DEF ServerPcs
<1>4. \A p \in {"off", "access", "delete", "mkfifo", "open_rd", "waiting", "handler",
                "test", "open_wr", "wr_waiting", "wr_handler", "loop", "closed", "exited", "failed", "crashed"} :
        p \in ServerPcs
  BY DEF ServerPcs
<1>5. CASE UNCHANGED vars
  BY <1>5 DEF vars
<1>6. ASSUME NEW s \in Servers,
             \/ Start(s) \/ Access(s) \/ Delete(s) \/ MakeFifo(s)
             \/ TestFlag(s) \/ LeaveLoop(s) \/ UnlinkAtEnd(s) \/ Crash(s)
      PROVE  TypeOK'
  <2>1. CASE Start(s)
    BY <2>1, <1>1, <1>4 DEF Start
  <2>2. CASE Access(s)
    BY <2>2, <1>1, <1>4 DEF Access
  <2>3. CASE Delete(s)
    BY <2>3, <1>1, <1>4 DEF Delete
  <2>4. CASE MakeFifo(s)
    BY <2>4, <1>1, <1>4 DEF MakeFifo
  <2>5. CASE TestFlag(s)
    BY <2>5, <1>1, <1>2, <1>4 DEF TestFlag
  <2>6. CASE LeaveLoop(s)
    BY <2>6, <1>2, <1>4 DEF LeaveLoop
  <2>7. CASE UnlinkAtEnd(s)
    BY <2>7, <1>1, <1>4 DEF UnlinkAtEnd
  <2>8. CASE Crash(s)
    BY <2>8, <1>2, <1>4 DEF Crash
  <2> QED
    BY <1>6, <2>1, <2>2, <2>3, <2>4, <2>5, <2>6, <2>7, <2>8
<1>7. ASSUME NEW s \in Servers, OpenForReading(s)
      PROVE  TypeOK'
  <2>1. CASE entry = NULL
    BY <2>1, <1>7, <1>2, <1>4 DEF OpenForReading
  <2>2. CASE entry # NULL
    <3>1. pc' \in [Servers -> ServerPcs]
      BY <2>2, <1>7, <1>4 DEF OpenForReading
    <3>2. client_pc' \in [Clients -> ClientPcs]
      BY <2>2, <1>7 DEF OpenForReading
    <3>3. rd' \in [Servers -> Servers \cup {NULL}] /\ UNCHANGED <<wr, to, entry>>
      BY <2>2, <1>7 DEF OpenForReading
    <3> QED
      BY <1>7, <3>1, <3>2, <3>3 DEF OpenForReading
  <2> QED
    BY <2>1, <2>2
<1>8. ASSUME NEW s \in Servers, OpenForWriting(s)
      PROVE  TypeOK'
  <2>1. CASE entry = NULL
    BY <2>1, <1>8, <1>2, <1>4 DEF OpenForWriting
  <2>2. CASE entry # NULL
    <3>1. pc' \in [Servers -> ServerPcs]
      BY <2>2, <1>8, <1>3, <1>4 DEF OpenForWriting
    <3> QED
      BY <2>2, <1>8, <3>1 DEF OpenForWriting
  <2> QED
    BY <2>1, <2>2
<1>9. ASSUME NEW s \in Servers, Signal(s)
      PROVE  TypeOK'
  <2>1. CASE SignalBetweenCalls(s)
    BY <2>1 DEF SignalBetweenCalls, HandlerUnlinks
  <2>2. CASE SignalInOpen(s)
    BY <2>2, <1>1, <1>4 DEF SignalInOpen
  <2>3. CASE HandlerRuns(s)
    BY <2>3, <1>1, <1>4 DEF HandlerRuns, HandlerUnlinks
  <2> QED
    BY <1>9, <2>1, <2>2, <2>3 DEF Signal
<1>10. ASSUME NEW c \in Clients, ClientLooks(c) \/ ClientOpens(c) \/ ClientWrites(c)
       PROVE  TypeOK'
  BY <1>10, <1>3 DEF ClientLooks, ClientOpens, ClientWrites, ClientGoes
<1> QED
  BY <1>5, <1>6, <1>7, <1>8, <1>9, <1>10 DEF Next

\* The entry, the ends that servers have open and the FIFOs that clients have
\* found keep their types.
THEOREM GenerationsTypeCorrect == Spec => []TypeOK
<1>1. Init => TypeOK
  BY DEF Init, TypeOK, ServerPcs, ClientPcs
<1>2. TypeOK /\ [Next]_vars => TypeOK'
  BY TypeStep
<1> QED
  BY <1>1, <1>2, PTL DEF Spec

-----------------------------------------------------------------------------
(* At most one server is up *)

\* A step of a server changes what is said of itself only: the others are not up
\* and have nothing open, and their FIFO is not the one that it makes.
LEMMA OthersKeep ==
  ASSUME TypeOK, NEW s \in Servers, NEW t \in Servers, t # s, Owns(t), ~Up(t),
         pc'[t] = pc[t], rd'[t] = rd[t], wr'[t] = wr[t],
         interrupted'[t] = interrupted[t], t \in early' <=> t \in early,
         entry' \in {entry, NULL, s}
  PROVE  Owns(t)'
<1>1. NULL # t
  BY GenerationsAssumption
<1>2. pc[t] \in {"off", "exited", "failed", "crashed"}
  BY DEF Up, Ended
<1>3. entry' = t => entry = t
  BY <1>1
<1> QED
  BY <1>2, <1>3 DEF Owns, Starting

\* The steps of the only server that is up, in main and in sig_handler.
LEMMA ServerStep ==
  ASSUME TypeOK, GenInv, ~overlapped', NEW s \in Servers,
         \/ Access(s) \/ Delete(s) \/ MakeFifo(s) \/ OpenForReading(s) \/ TestFlag(s)
         \/ OpenForWriting(s) \/ LeaveLoop(s) \/ UnlinkAtEnd(s) \/ Signal(s) \/ Crash(s)
  PROVE  /\ Up(s)
         /\ Owns(s)'
         /\ entry' \in {entry, NULL, s}
         /\ \A t \in Servers \ {s} :
              /\ pc'[t] = pc[t] /\ rd'[t] = rd[t] /\ wr'[t] = wr[t]
              /\ interrupted'[t] = interrupted[t] /\ (t \in early' <=> t \in early)
<1> USE DEF TypeOK, Goes, EndsAs, clientVars, history, Up, Ended, Starting
<1>1. Up(s) /\ ~overlapped
  BY DEF Access, Delete, MakeFifo, OpenForReading, TestFlag, OpenForWriting, LeaveLoop,
         UnlinkAtEnd, Signal, SignalBetweenCalls, SignalInOpen, HandlerRuns, Crash
<1>2. Owns(s) /\ (\A t \in Servers : Up(t) => t = s) /\ (\A t \in Servers : Owns(t))
  BY <1>1 DEF GenInv, Alone
<1>3. s # NULL
  BY GenerationsAssumption
<1>4. CASE Access(s)
  BY <1>4, <1>1, <1>2, <1>3 DEF Access, Owns
<1>5. CASE Delete(s)
  BY <1>5, <1>1, <1>2, <1>3 DEF Delete, Owns
<1>6. CASE MakeFifo(s)
  BY <1>6, <1>1, <1>2, <1>3 DEF MakeFifo, Owns
<1>7. CASE OpenForReading(s)
  <2>1. \A t \in Servers : pc[t] # "wr_waiting"
    BY <1>2 DEF Owns
  <2>2. CASE entry = NULL
    BY <1>7, <1>1, <1>2, <1>3, <2>2 DEF OpenForReading, Owns
  <2>3. CASE entry # NULL
    <3>1. /\ pc'[s] \in {"waiting", "test"}
          /\ \A t \in Servers \ {s} : pc'[t] = pc[t]
      BY <1>7, <2>1, <2>3 DEF OpenForReading
    <3>2. rd' = [rd EXCEPT ![s] = entry] /\ UNCHANGED <<wr, interrupted, early, entry>>
      BY <1>7, <2>3 DEF OpenForReading
    <3>3. entry = s /\ pc[s] = "open_rd"
      BY <1>7, <1>2, <2>3 DEF Owns, OpenForReading
    <3> QED
      BY <1>1, <1>2, <1>3, <3>1, <3>2, <3>3 DEF Owns
  <2> QED
    BY <2>2, <2>3
<1>8. CASE TestFlag(s)
  BY <1>8, <1>1, <1>2, <1>3 DEF TestFlag, Owns
<1>9. CASE OpenForWriting(s)
  <2>1. CASE entry = NULL
    BY <1>9, <1>1, <1>2, <1>3, <2>1 DEF OpenForWriting, Owns
  <2>2. CASE entry # NULL
    <3>1. entry = s /\ rd[s] = s /\ pc[s] = "open_wr"
      BY <1>9, <1>2, <2>2 DEF OpenForWriting, Owns
    <3>2. HasReader(entry)
      BY <3>1 DEF HasReader
    <3>3. \A t \in Servers : pc[t] = "waiting" => rd[t] # s
      BY <1>2, <3>1
    <3>4. Wake(entry) = pc
      BY <3>1, <3>3 DEF Wake
    <3>5. /\ pc' = [pc EXCEPT ![s] = "loop"] /\ wr' = [wr EXCEPT ![s] = s]
          /\ UNCHANGED <<rd, interrupted, early, entry>>
      BY <1>9, <2>2, <3>1, <3>2, <3>4 DEF OpenForWriting
    <3> QED
      BY <1>1, <1>2, <1>3, <3>1, <3>5 DEF Owns
  <2> QED
    BY <2>1, <2>2
<1>10. CASE LeaveLoop(s)
  BY <1>10, <1>1, <1>2, <1>3 DEF LeaveLoop, Owns
<1>11. CASE UnlinkAtEnd(s)
  BY <1>11, <1>1, <1>2, <1>3 DEF UnlinkAtEnd, Owns
<1>12. CASE Signal(s)
  <2>1. CASE SignalBetweenCalls(s)
    BY <1>1, <1>2, <1>3, <2>1 DEF SignalBetweenCalls, HandlerUnlinks, Owns
  <2>2. CASE SignalInOpen(s)
    <3>1. /\ pc[s] = "waiting" /\ pc' = [pc EXCEPT ![s] = "handler"]
          /\ rd' = [rd EXCEPT ![s] = NULL] /\ UNCHANGED <<wr, entry, interrupted, early>>
      BY <1>2, <2>2 DEF SignalInOpen, Owns
    <3> QED
      BY <1>1, <1>2, <1>3, <3>1 DEF Owns
  <2>3. CASE HandlerRuns(s)
    <3>1. /\ pc[s] = "handler" /\ pc' = [pc EXCEPT ![s] = "test"]
          /\ entry' = NULL /\ interrupted' = [interrupted EXCEPT ![s] = TRUE]
          /\ UNCHANGED <<rd, wr, early>>
      BY <1>2, <2>3 DEF HandlerRuns, HandlerUnlinks, Owns
    <3> QED
      BY <1>1, <1>2, <1>3, <3>1 DEF Owns
  <2> QED
    BY <1>12, <2>1, <2>2, <2>3 DEF Signal
<1>13. CASE Crash(s)
  BY <1>13, <1>1, <1>2, <1>3 DEF Crash, Owns
<1> QED
  BY <1>4, <1>5, <1>6, <1>7, <1>8, <1>9, <1>10, <1>11, <1>12, <1>13

\* The servers' part of the invariant, over every step.
LEMMA AloneStep ==
  ASSUME TypeOK, GenInv, [Next]_vars, ~overlapped'
  PROVE  Alone' /\ \A s \in Servers : Owns(s)'
<1> USE DEF TypeOK
<1>1. CASE UNCHANGED vars
  BY <1>1 DEF vars, clientVars, history, GenInv, Alone, Owns, Up
<1>2. ASSUME NEW s \in Servers, Start(s)
      PROVE  Alone' /\ \A t \in Servers : Owns(t)'
  <2>1. ~overlapped /\ \A t \in Servers : ~Up(t)
    BY <1>2 DEF Start
  <2>2. \A t \in Servers : Owns(t)
    BY <2>1 DEF GenInv
  <2>3. pc' = [pc EXCEPT ![s] = "access"] /\ pc[s] = "off"
        /\ UNCHANGED <<entry, rd, wr, interrupted, early>>
    BY <1>2 DEF Start, Goes, clientVars
  <2>4. Alone'
    BY <2>1, <2>3 DEF Alone, Up, Ended
  <2>5. Owns(s)'
    BY <2>2, <2>3, GenerationsAssumption DEF Owns, Starting
  <2>6. \A t \in Servers \ {s} : Owns(t)'
    BY <2>2, <2>3 DEF Owns
  <2> QED
    BY <2>4, <2>5, <2>6
<1>3. ASSUME NEW s \in Servers,
             \/ Access(s) \/ Delete(s) \/ MakeFifo(s) \/ OpenForReading(s) \/ TestFlag(s)
             \/ OpenForWriting(s) \/ LeaveLoop(s) \/ UnlinkAtEnd(s) \/ Signal(s) \/ Crash(s)
      PROVE  Alone' /\ \A t \in Servers : Owns(t)'
  <2>1. ~overlapped
    BY <1>3 DEF Access, Delete, MakeFifo, OpenForReading, TestFlag, OpenForWriting, LeaveLoop,
                UnlinkAtEnd, Signal, SignalBetweenCalls, SignalInOpen, HandlerRuns, Crash,
                history
  <2>2. Alone /\ \A t \in Servers : Owns(t)
    BY <2>1 DEF GenInv
  <2>3. /\ Up(s) /\ Owns(s)' /\ entry' \in {entry, NULL, s}
        /\ \A t \in Servers \ {s} :
             /\ pc'[t] = pc[t] /\ rd'[t] = rd[t] /\ wr'[t] = wr[t]
             /\ interrupted'[t] = interrupted[t] /\ (t \in early' <=> t \in early)
    BY <1>3, ServerStep
  <2>4. \A t \in Servers \ {s} : ~Up(t)
    BY <2>2, <2>3 DEF Alone
  <2>5. \A t \in Servers \ {s} : Owns(t)'
    BY <2>2, <2>3, <2>4, OthersKeep
  <2>6. \A t \in Servers \ {s} : ~Up(t)'
    BY <2>3, <2>4 DEF Up, Ended
  <2> QED
    BY <2>3, <2>5, <2>6 DEF Alone
<1>4. ASSUME NEW c \in Clients, ClientLooks(c) \/ ClientOpens(c) \/ ClientWrites(c)
      PROVE  Alone' /\ \A t \in Servers : Owns(t)'
  <2>1. ~overlapped /\ UNCHANGED <<entry, rd, wr, interrupted, early>>
    BY <1>4 DEF ClientLooks, ClientOpens, ClientWrites, history
  <2>2. Alone /\ \A t \in Servers : Owns(t)
    BY <2>1 DEF GenInv
  <2>3. \A t \in Servers : \/ pc'[t] = pc[t]
                           \/ pc[t] = "waiting" /\ rd[t] = entry /\ pc'[t] = "test"
    <3>1. pc' = pc \/ pc' = Wake(entry)
      BY <1>4 DEF ClientLooks, ClientOpens, ClientWrites
    <3> QED
      BY <3>1 DEF Wake
  <2>4. Alone'
    BY <2>2, <2>3 DEF Alone, Up, Ended
  <2>5. \A t \in Servers : Owns(t)'
    BY <2>1, <2>2, <2>3 DEF Owns, Starting
  <2> QED
    BY <2>4, <2>5
<1>5. \/ UNCHANGED vars
      \/ \E s \in Servers :
           \/ Start(s)
           \/ Access(s) \/ Delete(s) \/ MakeFifo(s) \/ OpenForReading(s) \/ TestFlag(s)
           \/ OpenForWriting(s) \/ LeaveLoop(s) \/ UnlinkAtEnd(s) \/ Signal(s) \/ Crash(s)
      \/ \E c \in Clients : ClientLooks(c) \/ ClientOpens(c) \/ ClientWrites(c)
  BY DEF Next
<1> QED
  BY <1>1, <1>2, <1>3, <1>4, <1>5

-----------------------------------------------------------------------------
(* For whom clients wait *)

\* A client that opens SERVER and has to wait has found a FIFO that nobody reads:
\* its server is still about to, has died, is about to remove the entry, or left it
\* although it had been interrupted (client.c:127).
LEMMA FoundUnread ==
  ASSUME TypeOK, GenInv, ~overlapped, entry # NULL, ~HasReader(entry)
  PROVE  /\ entry \in Servers /\ pc[entry] \notin Starting \cup {"off"}
         /\ entry \in early \/ pc[entry] \in {"open_rd", "handler", "failed", "crashed"}
<1>1. entry \in Servers /\ Owns(entry)
  BY DEF TypeOK, GenInv
<1>2. rd[entry] # entry
  BY <1>1 DEF HasReader
<1>3. pc[entry] \in ServerPcs
  BY <1>1 DEF TypeOK
<1> QED
  BY <1>1, <1>2, <1>3 DEF Owns, ServerPcs, Starting

\* No step takes a server that clients wait for to an end with success.
LEMMA WaitsStep ==
  ASSUME TypeOK, GenInv, [Next]_vars, ~overlapped', NEW c \in Clients
  PROVE  Waits(c)'
<1> USE DEF TypeOK
<1>1. ~overlapped
  BY DEF Next, vars, history, Start, Access, Delete, MakeFifo, OpenForReading, TestFlag,
         OpenForWriting, LeaveLoop, UnlinkAtEnd, Signal, SignalBetweenCalls, SignalInOpen,
         HandlerRuns, Crash, ClientLooks, ClientOpens, ClientWrites
<1>2. Waits(c) /\ (\A s \in Servers : Owns(s)) /\ Alone
  BY <1>1 DEF GenInv
<1>3. CASE UNCHANGED vars
  BY <1>2, <1>3 DEF vars, clientVars, history, Waits
<1>4. ASSUME NEW s \in Servers,
             \/ Start(s) \/ Access(s) \/ Delete(s) \/ MakeFifo(s) \/ TestFlag(s)
             \/ LeaveLoop(s) \/ UnlinkAtEnd(s) \/ Crash(s)
      PROVE  Waits(c)'
  <2>1. UNCHANGED <<client_pc, to, early, between>>
    BY <1>4 DEF Start, Access, Delete, MakeFifo, TestFlag, LeaveLoop, UnlinkAtEnd, Crash,
                clientVars, history
  <2>2. \A t \in Servers \ {s} : pc'[t] = pc[t]
    BY <1>4 DEF Start, Access, Delete, MakeFifo, TestFlag, LeaveLoop, UnlinkAtEnd, Crash,
                Goes, EndsAs
  <2>3. \/ pc[s] \in Starting \cup {"off"}
        \/ pc[s] \in {"test", "loop", "closed"} /\ pc'[s] \notin Starting \cup {"off"}
        \/ pc'[s] = "crashed"
    BY <1>4 DEF Start, Access, Delete, MakeFifo, TestFlag, LeaveLoop, UnlinkAtEnd, Crash,
                Goes, EndsAs, Starting
  <2> QED
    BY <1>2, <2>1, <2>2, <2>3 DEF Waits, Starting
<1>5. ASSUME NEW s \in Servers, OpenForReading(s)
      PROVE  Waits(c)'
  <2>1. pc[s] = "open_rd" /\ entry \in {s, NULL} /\ UNCHANGED <<to, early, between>>
    BY <1>2, <1>5 DEF OpenForReading, Owns, history
  <2>2. CASE entry = NULL
    <3>1. pc' = [pc EXCEPT ![s] = "failed"] /\ UNCHANGED client_pc
      BY <1>5, <2>2 DEF OpenForReading, EndsAs, Goes
    <3> QED
      BY <1>2, <2>1, <3>1 DEF Waits, Starting
  <2>3. CASE entry = s /\ entry # NULL
    <3>1. client_pc[c] = "opening" /\ to[c] = s => client_pc'[c] = "connected"
      BY <1>5, <2>3 DEF OpenForReading
    <3>2. client_pc'[c] = "opening" => client_pc[c] = "opening"
      BY <1>5, <2>3 DEF OpenForReading
    <3>3. \A t \in Servers : pc[t] # "wr_waiting"
      BY <1>2 DEF Owns
    <3>4. \A t \in Servers \ {s} : pc'[t] = pc[t]
      BY <1>5, <2>3, <3>3 DEF OpenForReading
    <3> QED
      BY <1>2, <2>1, <3>1, <3>2, <3>4 DEF Waits
  <2> QED
    BY <2>1, <2>2, <2>3
<1>6. ASSUME NEW s \in Servers, OpenForWriting(s)
      PROVE  Waits(c)'
  <2>1. pc[s] = "open_wr" /\ UNCHANGED <<client_pc, to, early, between>>
    BY <1>6 DEF OpenForWriting, clientVars, history
  <2>2. \A t \in Servers :
          \/ pc'[t] = pc[t]
          \/ pc[t] \in {"open_wr", "waiting"} /\ pc'[t] \notin Starting \cup {"off"}
    <3>1. PICK q \in {"failed", "loop", "wr_waiting"} :
            pc' = [pc EXCEPT ![s] = q] \/ pc' = [Wake(entry) EXCEPT ![s] = q]
      BY <1>6 DEF OpenForWriting, EndsAs, Goes
    <3>2. \A t \in Servers :
            \/ Wake(entry)[t] = pc[t]
            \/ pc[t] = "waiting" /\ Wake(entry)[t] = "test"
      BY DEF Wake
    <3>3. \A t \in Servers \ {s} : pc'[t] = pc[t] \/ pc'[t] = Wake(entry)[t]
      BY <3>1 DEF Wake
    <3>4. pc'[s] = q
      BY <3>1 DEF Wake
    <3> QED
      BY <2>1, <3>2, <3>3, <3>4 DEF Starting
  <2> QED
    BY <1>2, <2>1, <2>2 DEF Waits
<1>7. ASSUME NEW s \in Servers, Signal(s)
      PROVE  Waits(c)'
  <2>1. UNCHANGED <<client_pc, to, between>> /\ early \subseteq early'
    BY <1>7 DEF Signal, SignalBetweenCalls, SignalInOpen, HandlerRuns, clientVars, history
  <2>2. \A t \in Servers :
          \/ pc'[t] = pc[t]
          \/ /\ pc[t] \in {"wr_waiting", "waiting", "wr_handler", "handler"}
             /\ pc'[t] \notin Starting \cup {"off"}
    <3>1. \/ pc[s] = "waiting" /\ pc' = [pc EXCEPT ![s] = "handler"]
          \/ pc[s] = "wr_waiting" /\ pc' = [pc EXCEPT ![s] = "wr_handler"]
          \/ pc[s] = "handler" /\ pc' = [pc EXCEPT ![s] = "test"]
          \/ pc[s] = "wr_handler" /\ pc' = [pc EXCEPT ![s] = "loop"]
          \/ UNCHANGED pc
      BY <1>7 DEF Signal, SignalBetweenCalls, SignalInOpen, HandlerRuns, Goes
    <3> QED
      BY <3>1 DEF Starting
  <2> QED
    BY <1>2, <2>1, <2>2 DEF Waits
<1>8. ASSUME NEW d \in Clients, ClientLooks(d) \/ ClientOpens(d) \/ ClientWrites(d)
      PROVE  Waits(c)'
  <2>1. UNCHANGED early /\ between \subseteq between'
    BY <1>8 DEF ClientLooks, ClientOpens, ClientWrites, history
  <2>2. \A t \in Servers : pc'[t] = pc[t] \/ (pc[t] = "waiting" /\ pc'[t] = "test")
    <3>1. pc' = pc \/ pc' = Wake(entry)
      BY <1>8 DEF ClientLooks, ClientOpens, ClientWrites
    <3> QED
      BY <3>1 DEF Wake
  <2>3. ASSUME client_pc'[c] = "opening"
        PROVE  \/ client_pc[c] = "opening" /\ to'[c] = to[c]
               \/ /\ entry # NULL /\ ~HasReader(entry) /\ to'[c] = entry
                  /\ pc[entry] = "handler" => c \in between'
    BY <1>8, <2>3 DEF ClientLooks, ClientOpens, ClientWrites, ClientGoes
  <2>4. entry # NULL /\ ~HasReader(entry) =>
          /\ entry \in Servers /\ pc[entry] \notin Starting \cup {"off"}
          /\ entry \in early \/ pc[entry] \in {"open_rd", "handler", "failed", "crashed"}
    BY <1>1, FoundUnread
  <2> QED
    BY <1>2, <2>1, <2>2, <2>3, <2>4 DEF Waits, Starting
<1> QED
  BY <1>3, <1>4, <1>5, <1>6, <1>7, <1>8 DEF Next

\* The invariant holds in every reachable state.
LEMMA GenInvHolds == Spec => [](TypeOK /\ GenInv)
<1>1. Init => GenInv
  BY GenerationsAssumption DEF Init, GenInv, Alone, Owns, Waits, Up, Starting
<1>2. TypeOK /\ GenInv /\ [Next]_vars => GenInv'
  BY AloneStep, WaitsStep DEF GenInv
<1>3. Spec => []TypeOK
  BY GenerationsTypeCorrect
<1> QED
  BY <1>1, <1>2, <1>3, PTL DEF Spec

\* A server starts whatever the one before it left in the directory
\* (server.c:464-508); only its own signal handler can make it fail.
THEOREM StartsAfterACrash == Spec => []StartsAfterCrash
<1>1. GenInv => StartsAfterCrash
  BY DEF GenInv, Owns, StartsAfterCrash
<1> QED
  BY <1>1, GenInvHolds, PTL

\* A server that listens has both ends of the FIFO that it made, and clients find
\* that FIFO until it is interrupted (server.c:498-508).
THEOREM ServerListensToItself == Spec => []ListensToItself
<1>1. GenInv => ListensToItself
  BY DEF GenInv, Owns, ListensToItself
<1> QED
  BY <1>1, GenInvHolds, PTL

\* A client that waits in open for ever (client.c:127) waits for a server that
\* died, failed, or was interrupted before it made its FIFO, or it opened SERVER in
\* the moment between the end of the server's open and the run of its handler.
THEOREM NoClientIsTrapped == Spec => []NoClientTrapped
<1>1. GenInv => NoClientTrapped
  BY DEF GenInv, Waits, NoClientTrapped
<1> QED
  BY <1>1, GenInvHolds, PTL
=============================================================================
