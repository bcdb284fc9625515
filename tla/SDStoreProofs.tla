--------------------------- MODULE SDStoreProofs ----------------------------
(***************************************************************************)
(* Theorems about SDStore, for any finite number of clients and monitors,  *)
(* any limits, commands, slots and buffer size, with signals and with      *)
(* clients that their users interrupt.                                     *)
(***************************************************************************)
EXTENDS SDStore, TLAPS, WellFoundedInduction, FiniteSetTheorems, FunctionTheorems,
        SequenceTheorems

-----------------------------------------------------------------------------
(* Operators *)

\* next_pos and the search of process_message: a nonempty set of slots has a
\* lowest member.
LEMMA LowestIsMember ==
  ASSUME NEW S, S \subseteq Slots, S # {}
  PROVE  /\ Lowest(S) \in S
         /\ \A i \in S : Lowest(S) <= i
<1>1. S \subseteq Nat
  BY SizeAssumption DEF Slots
<1> DEFINE R == {ss \in Nat \X Nat : ss[1] < ss[2]}
<1>2. R = OpToRel(<, Nat)
  BY DEF OpToRel
<1>3. IsWellFoundedOn(R, Nat)
  BY <1>2, NatLessThanWellFounded
<1>4. PICK i \in S : \A j \in S : <<j, i>> \notin R
  <2> HIDE DEF R
  <2> QED
    BY <1>1, <1>3, WFMin
<1>5. \A j \in S : i <= j
  <2> SUFFICES ASSUME NEW j \in S, j < i
               PROVE  FALSE
    BY <1>1
  <2>1. <<j, i>> \in R
    BY <1>1
  <2> QED
    BY <1>4, <2>1
<1> QED
  BY <1>5 DEF Lowest

\* What the operations on FIFOs and on the buffer return.
LEMMA SequenceTypes ==
  ASSUME NEW S
  PROVE  /\ << >> \in Seq(S)
         /\ \A s \in Seq(S), e \in S : Append(s, e) \in Seq(S)
         /\ \A s \in Seq(S) : s # << >> => Head(s) \in S /\ Tail(s) \in Seq(S)
         /\ \A s, t \in Seq(S) : s \o t \in Seq(S)
  OBVIOUS

\* A text written to a client's FIFO keeps its type, and that of the others.
LEMMA FifoType ==
  ASSUME NEW f \in [Clients -> Seq(Replies)], NEW c, NEW text \in Replies
  PROVE  [f EXCEPT ![c] = Append(@, text)] \in [Clients -> Seq(Replies)]
<1>1. CASE c \in Clients
  BY <1>1, SequenceTypes
<1>2. CASE c \notin Clients
  BY <1>2
<1> QED
  BY <1>1, <1>2

\* The array of totals holds integers, whatever the client asked for.
LEMMA OpsTotalsType ==
  ASSUME NEW task \in Task
  PROVE  OpsTotals(task) \in [Transformations -> Int]
<1>1. \A n \in Nat : SChar(n) \in Int
  BY DEF SChar
<1> QED
  BY <1>1 DEF OpsTotals, Task

\* A request that has a priority makes a task.
LEMMA TaskOfType ==
  ASSUME NEW m \in Messages, m.kind = "REQUEST", HasPriority(m.cmd)
  PROVE  TaskOf(m) \in Task
<1>1. m.client \in Clients /\ m.cmd \in Commands
  BY DEF Messages
<1>2. m.cmd.pri \in 0..5 /\ m.cmd.ops \in [Transformations -> Nat]
  BY <1>1, CommandAssumption DEF HasPriority
<1> QED
  BY <1>1, <1>2 DEF TaskOf, Task

-----------------------------------------------------------------------------
(* Types.  The types alone are not inductive: that the tail of buf is taken  *)
(* when a reply has been written, and that the reply has a text, rests on    *)
(* what the server was doing before it opened the client's FIFO.             *)

\* While the server answers, the request is still the head of its buffer.
ReplyDue ==
  server_pc \in {"replying", "waiting", "writing"} =>
    buf # << >> /\ reply \in [client : Clients, text : Replies]

TypeInv == TypeOK /\ ReplyDue

\* In the initial state every variable has its type, and no reply is due.
LEMMA InitTypeInv == Init => TypeInv
<1> SUFFICES ASSUME Init
             PROVE  TypeInv
  OBVIOUS
<1> USE DEF Init
<1>1. server_fifo \in Seq(Messages) /\ buf \in Seq(Messages)
  BY SequenceTypes
<1>2. client_fifo \in [Clients -> Seq(Replies)] /\ client_out \in [Clients -> Seq(Replies)]
  BY SequenceTypes
<1>3. active_tasks \in [Slots -> ActiveTask \cup {NULL}]
  OBVIOUS
<1>4. monitor_pc \in [Pids -> MonitorPcs] /\ client_pc \in [Clients -> ClientPcs]
  BY DEF MonitorPcs, ClientPcs
<1>5. signals \in 0..MaxSignals
  BY SizeAssumption
<1>6. /\ monitor_task \in [Pids -> Task \cup {NULL}]
      /\ client_fifo_linked \in [Clients -> BOOLEAN]
  OBVIOUS
<1>7. num_active_tasks \in Int /\ active_count \in [Transformations -> Int]
  OBVIOUS
<1>8. /\ server_linked \in BOOLEAN /\ has_been_interrupted \in BOOLEAN
      /\ reply \in [client : Clients, text : Replies] \cup {NULL}
      /\ queue \in SUBSET Task
  OBVIOUS
<1> QED
  BY <1>1, <1>2, <1>3, <1>4, <1>5, <1>6, <1>7, <1>8 DEF TypeInv, TypeOK, ReplyDue, ServerPcs

\* Every action of the server keeps the types.
LEMMA ServerKeepsTypes ==
  ASSUME TypeOK, ReplyDue, ServerStep
  PROVE  TypeOK'
<1> USE DEF TypeOK, vars, sharedVars, serverVars, taskVars, monitorVars, clientVars,
            ServerPcs, MonitorPcs, ClientPcs
<1>1. CASE ServerStart
  BY <1>1 DEF ServerStart, ServerGoesTo
<1>2. CASE ServerTestsFlag
  BY <1>2 DEF ServerTestsFlag, ServerGoesTo
<1>3. CASE ServerOpensForWriting
  BY <1>3 DEF ServerOpensForWriting, ServerGoesTo
<1>4. CASE ServerCallsRead
  BY <1>4 DEF ServerCallsRead, ServerGoesTo
<1>5. CASE ServerReads
  <2>1. server_fifo' \in Seq(Messages) /\ buf' \in Seq(Messages)
    BY <1>5, SequenceTypes DEF ServerReads, Receive
  <2> QED
    BY <1>5, <2>1 DEF ServerReads, ServerGoesTo
<1>6. CASE ServerHasRead
  BY <1>6 DEF ServerHasRead, ServerGoesTo
<1>7. CASE FinishTask
  <2>1. CASE SlotsOf(Head(buf).pid) # {}
    <3> DEFINE i == Lowest(SlotsOf(Head(buf).pid))
    <3>1. i \in Slots /\ active_tasks[i] # NULL
      BY <2>1, LowestIsMember DEF SlotsOf
    <3>2. active_tasks[i] \in ActiveTask
      BY <3>1
    <3>3. active_count' \in [Transformations -> Int]
      BY <1>7, <2>1, <3>2, OpsTotalsType DEF FinishTask, Release, Decremented, ActiveTask
    <3>4. active_tasks' \in [Slots -> ActiveTask \cup {NULL}] /\ num_active_tasks' \in Int
      <4>1. Release(i)
        BY <1>7, <2>1 DEF FinishTask
      <4>2. num_active_tasks' \in Int
        BY <4>1 DEF Release
      <4>3. active_tasks' = [active_tasks EXCEPT ![i] = NULL]
        BY <4>1 DEF Release
      <4> QED
        BY <4>2, <4>3
    <3>5. buf' \in Seq(Messages)
      BY <1>7, <2>1, SequenceTypes DEF FinishTask, Processing
    <3> QED
      BY <1>7, <2>1, <3>3, <3>4, <3>5 DEF FinishTask
  <2>2. CASE SlotsOf(Head(buf).pid) = {}
    BY <1>7, <2>2 DEF FinishTask, ServerGoesTo
  <2> QED
    BY <2>1, <2>2
<1>8. CASE AnswerStatus
  BY <1>8 DEF AnswerStatus, ServerGoesTo, Processing, Answer, Messages, Replies
<1>9. CASE ParseFails
  BY <1>9 DEF ParseFails, ServerGoesTo
<1>10. CASE AdmitTask
  <2>1. /\ Head(buf) \in Messages
        /\ Head(buf).kind = "REQUEST"
        /\ HasPriority(Head(buf).cmd)
    BY <1>10, SequenceTypes DEF AdmitTask, ProcessingProcFile, Processing
  <2>2. TaskOf(Head(buf)) \in Task
    BY <2>1, TaskOfType
  <2>3. queue' \in SUBSET Task
    BY <1>10, <2>2 DEF AdmitTask
  <2>4. /\ reply' \in [client : Clients, text : Replies]
        /\ server_pc' \in ServerPcs
    BY <1>10, <2>2 DEF AdmitTask, Answer, ServerGoesTo, Replies, Task
  <2> QED
    BY <1>10, <2>3, <2>4 DEF AdmitTask
<1>11. CASE ReplyOpens
  BY <1>11 DEF ReplyOpens, ServerGoesTo
<1>12. CASE ReplyFindsNoClient
  BY <1>12 DEF ReplyFindsNoClient, ServerGoesTo
<1>13. CASE ReplyWritten
  <2>1. buf # << >> /\ reply \in [client : Clients, text : Replies]
    BY <1>13 DEF ReplyWritten, ReplyDue
  <2>2. reply.text \in Replies
    BY <2>1
  <2>3. client_fifo' \in [Clients -> Seq(Replies)]
    BY <1>13, <2>2, FifoType DEF ReplyWritten
  <2>4. buf' \in Seq(Messages)
    BY <1>13, <2>1, SequenceTypes DEF ReplyWritten
  <2> QED
    BY <1>13, <2>3, <2>4 DEF ReplyWritten, ServerGoesTo
<1>14. CASE ReplyBreaksPipe
  BY <1>14 DEF ReplyBreaksPipe, ServerGoesTo
<1>15. CASE CheckExit
  BY <1>15 DEF CheckExit, ServerGoesTo
<1>16. CASE DispatchTask
  <2>1. PICK task \in Heads, p \in Pids :
          /\ queue' = queue \ {task}
          /\ active_count' = Incremented(task)
          /\ active_tasks' = [active_tasks EXCEPT ![Lowest(FreeSlots)] =
                                [task |-> task, monitor |-> p]]
          /\ monitor_pc' = [monitor_pc EXCEPT ![p] = "start"]
          /\ monitor_task' = [monitor_task EXCEPT ![p] = task]
    BY <1>16 DEF DispatchTask
  <2>2. task \in Task
    BY DEF Heads
  <2>3. active_count' \in [Transformations -> Int]
    BY <2>1, <2>2, OpsTotalsType DEF Incremented
  <2>4. active_tasks' \in [Slots -> ActiveTask \cup {NULL}]
    BY <2>1, <2>2 DEF ActiveTask
  <2> QED
    BY <1>16, <2>1, <2>2, <2>3, <2>4 DEF DispatchTask
<1>17. CASE DispatchFindsNoSlot
  BY <1>17 DEF DispatchFindsNoSlot, ServerGoesTo
<1>18. CASE DispatchEnds
  BY <1>18 DEF DispatchEnds, ServerGoesTo
<1>19. CASE HandlerRuns
  BY <1>19 DEF HandlerRuns, ServerGoesTo
<1>20. CASE ReplyWaits
  BY <1>20 DEF ReplyWaits, ServerGoesTo
<1>21. CASE ServerOpensForReading
  BY <1>21 DEF ServerOpensForReading, ServerGoesTo
<1> QED
  BY <1>1, <1>2, <1>3, <1>4, <1>5, <1>6, <1>7, <1>8, <1>9, <1>10, <1>11, <1>12, <1>13, <1>14,
     <1>15, <1>16, <1>17, <1>18, <1>19, <1>20, <1>21 DEF ServerStep

\* So do the handlers of signals.
LEMMA SignalKeepsTypes ==
  ASSUME TypeOK, Signal
  PROVE  TypeOK'
<1> USE DEF TypeOK, vars, sharedVars, serverVars, taskVars, monitorVars, clientVars,
            ServerPcs, MonitorPcs, ClientPcs
<1>0. /\ signals < MaxSignals /\ signals' = signals + 1 => signals' \in 0..MaxSignals
      /\ Interrupted => /\ signals < MaxSignals /\ signals' = signals + 1
                        /\ has_been_interrupted' \in BOOLEAN /\ server_linked' \in BOOLEAN
  <2>1. Interrupted => has_been_interrupted' = TRUE /\ server_linked' = FALSE
    BY DEF Interrupted
  <2>2. signals < MaxSignals /\ signals' = signals + 1 => signals' \in 0..MaxSignals
    BY SizeAssumption
  <2> QED
    BY <2>1, <2>2 DEF Interrupted
<1>1. CASE SignalBetweenCalls
  BY <1>1, <1>0 DEF SignalBetweenCalls, Interrupted, ServerGoesTo
<1>2. CASE SignalInOpen
  BY <1>2, <1>0 DEF SignalInOpen, ServerGoesTo
<1>3. CASE SignalInRead
  BY <1>3, <1>0 DEF SignalInRead, Interrupted, ServerGoesTo
<1>4. CASE SignalInReply
  BY <1>4, <1>0 DEF SignalInReply, Interrupted, ServerGoesTo
<1>5. CASE ChildRestartsOpen
  BY <1>5 DEF ChildRestartsOpen, ServerGoesTo
<1> QED
  BY <1>1, <1>2, <1>3, <1>4, <1>5 DEF Signal

\* So does every monitor.
LEMMA MonitorKeepsTypes ==
  ASSUME TypeOK, NEW p \in Pids, MonitorStep(p)
  PROVE  TypeOK'
<1> USE DEF TypeOK, vars, sharedVars, serverVars, taskVars, monitorVars, clientVars,
            ServerPcs, MonitorPcs, ClientPcs
<1>1. CASE MonitorOpens(p)
  <2>1. "processing" \in Replies
    BY DEF Replies
  <2>2. client_fifo' \in [Clients -> Seq(Replies)]
    BY <1>1, <2>1, FifoType DEF MonitorOpens, Tell
  <2> QED
    BY <1>1, <2>2 DEF MonitorOpens, MonitorGoesTo
<1>2. CASE MonitorFindsNoClient(p)
  BY <1>2 DEF MonitorFindsNoClient, MonitorGoesTo, Tell, Messages, Replies
<1>3. CASE MonitorRunsPipeline(p)
  <2>1. PICK pc \in {"ran", "died"} : MonitorGoesTo(p, pc)
    BY <1>3 DEF MonitorRunsPipeline
  <2>2. monitor_pc' \in [Pids -> MonitorPcs]
    BY <2>1 DEF MonitorGoesTo
  <2> QED
    BY <1>3, <2>2 DEF MonitorRunsPipeline
<1>4. CASE MonitorCompletes(p)
  <2>1. "completed" \in Replies
    BY DEF Replies
  <2>2. client_fifo' \in [Clients -> Seq(Replies)]
    BY <1>4, <2>1, FifoType DEF MonitorCompletes, Tell
  <2> QED
    BY <1>4, <2>2 DEF MonitorCompletes, MonitorGoesTo
<1>5. CASE MonitorBreaksPipe(p)
  BY <1>5 DEF MonitorBreaksPipe, MonitorGoesTo, Tell, Messages, Replies
<1>6. CASE MonitorNotifies(p)
  BY <1>6 DEF MonitorNotifies, MonitorGoesTo, Tell, Messages, Replies
<1> QED
  BY <1>1, <1>2, <1>3, <1>4, <1>5, <1>6 DEF MonitorStep

\* So does every client.
LEMMA ClientKeepsTypes ==
  ASSUME TypeOK, NEW c \in Clients,
         ClientStart(c) \/ ClientStep(c) \/ ClientInterrupted(c)
  PROVE  TypeOK'
<1> USE DEF TypeOK, vars, sharedVars, serverVars, taskVars, monitorVars, clientVars,
            ServerPcs, MonitorPcs, ClientPcs
<1>1. CASE ClientStart(c)
  BY <1>1 DEF ClientStart, GoTo, Messages
<1>2. CASE ClientFindsNoServer(c)
  BY <1>2 DEF ClientFindsNoServer, GoTo, Messages
<1>3. CASE ClientOpensServer(c)
  BY <1>3 DEF ClientOpensServer, GoTo, Messages
<1>4. CASE ClientMeetsServer(c)
  BY <1>4 DEF ClientMeetsServer, GoTo, Messages
<1>5. CASE ClientWrites(c)
  BY <1>5 DEF ClientWrites, GoTo, Messages
<1>6. CASE ClientBreaksPipe(c)
  BY <1>6 DEF ClientBreaksPipe, GoTo, Messages
<1>7. CASE ClientOpensOwn(c)
  BY <1>7 DEF ClientOpensOwn, GoTo, Messages
<1>8. CASE ClientReadsReply(c)
  BY <1>8 DEF ClientReadsReply, GoTo, Messages
<1>9. CASE ClientEnds(c)
  BY <1>9 DEF ClientEnds, GoTo, Messages
<1>10. CASE ClientInterrupted(c)
  BY <1>10 DEF ClientInterrupted, GoTo, Messages
<1>11. CASE ClientWaitsForServer(c)
  BY <1>11 DEF ClientWaitsForServer, GoTo, Messages
<1>12. CASE ClientNamesFifo(c)
  BY <1>12 DEF ClientNamesFifo, GoTo, Messages
<1>13. CASE ClientMeetsReply(c)
  BY <1>13 DEF ClientMeetsReply, ServerWaitsFor, GoTo, Messages
<1> QED
  BY <1>1, <1>2, <1>3, <1>4, <1>5, <1>6, <1>7, <1>8, <1>9, <1>10, <1>11, <1>12, <1>13
     DEF ClientStep

\* A reply is due from the decision what to answer until it is written.
LEMMA StepKeepsReplyDue ==
  ASSUME TypeOK, ReplyDue, [Next]_vars
  PROVE  ReplyDue'
<1> SUFFICES ASSUME server_pc' \in {"replying", "waiting", "writing"}
             PROVE  buf' # << >> /\ reply' \in [client : Clients, text : Replies]
  BY DEF ReplyDue
<1>1. CASE AnswerStatus \/ AdmitTask
  <2>1. Processing("REQUEST") /\ buf' = buf
    BY <1>1 DEF AnswerStatus, AdmitTask, ProcessingProcFile
  <2>2. Head(buf) \in Messages /\ Head(buf).kind = "REQUEST"
    BY <2>1, SequenceTypes DEF Processing, TypeOK
  <2>3. Head(buf).client \in Clients
    BY <2>2 DEF Messages
  <2>4. \E text \in Replies : Answer(Head(buf).client, text)
    BY <1>1 DEF AnswerStatus, AdmitTask, TaskOf, Replies
  <2> QED
    BY <2>1, <2>3, <2>4 DEF Processing, Answer
<1>2. CASE server_pc \in {"replying", "waiting", "writing"} /\ UNCHANGED <<buf, reply>>
  BY <1>2 DEF ReplyDue
<1>3. CASE ServerStep
  <2>1. ReplyOpens \/ ReplyWaits => server_pc = "replying" /\ UNCHANGED <<buf, reply>>
    BY DEF ReplyOpens, ReplyWaits
  <2>2. ~(AnswerStatus \/ AdmitTask \/ ReplyOpens \/ ReplyWaits) =>
          server_pc' \notin {"replying", "waiting", "writing"}
    BY <1>3 DEF ServerStep, ServerStart, ServerOpensForReading, HandlerRuns,
         ServerTestsFlag, ServerOpensForWriting, ServerCallsRead, ServerReads,
         ServerHasRead, FinishTask, ParseFails, ReplyFindsNoClient, ReplyWritten,
         ReplyBreaksPipe, CheckExit, DispatchTask, DispatchFindsNoSlot, DispatchEnds,
         ServerGoesTo, Processing, ProcessingProcFile, Dispatching
  <2> QED
    BY <1>1, <1>2, <2>1, <2>2
<1>4. CASE Signal
  BY <1>2, <1>4 DEF Signal, SignalBetweenCalls, SignalInOpen, SignalInRead,
       SignalInReply, ChildRestartsOpen, Interrupted, ServerGoesTo
<1>5. CASE \E p \in Pids : MonitorStep(p)
  BY <1>2, <1>5 DEF MonitorStep, MonitorOpens, MonitorFindsNoClient, MonitorRunsPipeline,
       MonitorCompletes, MonitorBreaksPipe, MonitorNotifies, serverVars
<1>6. CASE \E c \in Clients : ClientStart(c) \/ ClientStep(c) \/ ClientInterrupted(c)
  BY <1>2, <1>6 DEF ClientStart, ClientStep, ClientInterrupted, ClientFindsNoServer,
       ClientWaitsForServer, ClientOpensServer, ClientMeetsServer, ClientWrites,
       ClientBreaksPipe, ClientNamesFifo, ClientOpensOwn, ClientMeetsReply, ServerWaitsFor,
       ClientReadsReply, ClientEnds, serverVars
<1>7. CASE UNCHANGED vars
  BY <1>2, <1>7 DEF vars, serverVars
<1> QED
  BY <1>3, <1>4, <1>5, <1>6, <1>7 DEF Next

\* Every step of any process, and every signal, keeps the types.
LEMMA NextTypeInv == TypeInv /\ [Next]_vars => TypeInv'
<1> SUFFICES ASSUME TypeOK, ReplyDue, [Next]_vars
             PROVE  TypeOK'
  BY StepKeepsReplyDue DEF TypeInv
<1>1. CASE ServerStep
  BY <1>1, ServerKeepsTypes
<1>2. CASE Signal
  BY <1>2, SignalKeepsTypes
<1>3. CASE \E p \in Pids : MonitorStep(p)
  BY <1>3, MonitorKeepsTypes
<1>4. CASE \E c \in Clients : ClientStart(c) \/ ClientStep(c) \/ ClientInterrupted(c)
  BY <1>4, ClientKeepsTypes
<1>5. CASE UNCHANGED vars
  BY <1>5 DEF TypeOK, vars, sharedVars, serverVars, taskVars, monitorVars, clientVars
<1> QED
  BY <1>1, <1>2, <1>3, <1>4, <1>5 DEF Next

\* The types, and that a reply is due whenever the server is answering
\* (server.c:291, 339, 356), hold in every reachable state.
LEMMA TypeInvAlways == Spec => []TypeInv
<1> QED
  BY InitTypeInv, NextTypeInv, PTL DEF Spec

\* The types of the state (all of server.c and client.c that is modelled):
\* messages, queue, slots, counters and control points hold what they should.
THEOREM TypeCorrect == Spec => []TypeOK
<1>1. TypeInv => TypeOK
  BY DEF TypeInv
<1> QED
  BY <1>1, TypeInvAlways, PTL

-----------------------------------------------------------------------------
(***************************************************************************)
(* The counters of the server are right, and no transformation ever runs   *)
(* more often than its limit allows, for any number of clients, monitors,  *)
(* slots, signals and interrupted clients.                                 *)
(*                                                                         *)
(* The argument.  A slot is reserved when a task is dispatched and released*)
(* when the message of its monitor is processed.  The counters say what is *)
(* reserved (Bookkeeping), and what is reserved is within the limits.  A   *)
(* monitor has its task in a slot as long as it is alive, because a message*)
(* about it is around only once it has exited.  So what runs can be mapped *)
(* one to one into what is reserved.                                       *)
(***************************************************************************)

\* No request asks for more instances of a transformation than the counter of
\* the task, a signed char, can hold.  The code does not check this.
SmallCommands == \A m \in Commands : \A t \in Transformations : m.ops[t] <= 127

SmallTask(task) == \A t \in Transformations : task.ops[t] <= 127

\* The numbers from 1 to n are n.
LEMMA OneUpTo ==
  ASSUME NEW n \in Nat
  PROVE  IsFiniteSet(1..n) /\ Cardinality(1..n) = n
<1>1. \A a, b \in Int : /\ IsFiniteSet(a..b)
                        /\ Cardinality(a..b) = IF a > b THEN 0 ELSE b - a + 1
  BY FS_Interval
<1>2. /\ IsFiniteSet(1..n)
      /\ Cardinality(1..n) = IF 1 > n THEN 0 ELSE n - 1 + 1
  BY <1>1
<1> QED
  BY <1>2

\* As long as no char overflows (_server.h:15), the totals of a task are the
\* numbers of its transformations.
LEMMA SmallTotals ==
  ASSUME NEW task \in Task, SmallTask(task), NEW t \in Transformations
  PROVE  /\ OpsTotals(task)[t] = task.ops[t]
         /\ task.ops[t] \in 0..127
<1>1. task.ops[t] \in 0..127
  BY DEF Task, SmallTask
<1>2. \A n \in 0..127 : SChar(n) = n
  BY DEF SChar
<1> QED
  BY <1>1, <1>2 DEF OpsTotals

-----------------------------------------------------------------------------
(* What a table of active tasks reserves *)

Tables == [Slots -> ActiveTask \cup {NULL}]
BusyIn(A) == {i \in Slots : A[i] # NULL}
ReservedIn(A, t) ==
  UNION {{i} \X (1 .. OpsTotals(A[i].task)[t]) : i \in BusyIn(A)}
SmallIn(A) == \A i \in BusyIn(A) : SmallTask(A[i].task)

\* The table of active tasks asks for finitely many transformation processes.
LEMMA ReservedIsFinite ==
  ASSUME NEW A \in Tables, SmallIn(A), NEW t \in Transformations
  PROVE  /\ IsFiniteSet(BusyIn(A)) /\ Cardinality(BusyIn(A)) \in Nat
         /\ IsFiniteSet(ReservedIn(A, t)) /\ Cardinality(ReservedIn(A, t)) \in Nat
<1>1. IsFiniteSet(Slots)
  BY FS_Interval, SizeAssumption DEF Slots
<1>2. IsFiniteSet(BusyIn(A))
  BY <1>1, FS_Subset DEF BusyIn
<1>3. IsFiniteSet(1..127)
  BY OneUpTo
<1>4. IsFiniteSet(Slots \X (1..127))
  BY <1>1, <1>3, FS_Product
<1>5. \A i \in BusyIn(A) : A[i] \in ActiveTask /\ A[i].task \in Task
  BY DEF BusyIn, Tables, ActiveTask
<1>6. \A i \in BusyIn(A) : OpsTotals(A[i].task)[t] \in 0..127
  BY <1>5, SmallTotals DEF SmallIn
<1>7. \A i \in BusyIn(A) : {i} \X (1 .. OpsTotals(A[i].task)[t]) \subseteq Slots \X (1..127)
  BY <1>6 DEF BusyIn
<1>8. ReservedIn(A, t) \subseteq Slots \X (1..127)
  BY <1>7 DEF ReservedIn
<1>9. IsFiniteSet(ReservedIn(A, t))
  BY <1>4, <1>8, FS_Subset
<1> QED
  BY <1>2, <1>9, FS_CardinalityType

\* Finitely many slots are busy.
LEMMA BusyIsFinite ==
  ASSUME NEW A
  PROVE  IsFiniteSet(BusyIn(A))
<1>1. IsFiniteSet(Slots)
  BY FS_Interval, SizeAssumption DEF Slots
<1> QED
  BY <1>1, FS_Subset DEF BusyIn

\* Filling a free slot makes one more slot busy (server.c:421-422).
LEMMA BusyOneMore ==
  ASSUME NEW A, NEW B, NEW i \in Slots, A[i] = NULL, B[i] # NULL,
         \A j \in Slots \ {i} : B[j] = A[j]
  PROVE  Cardinality(BusyIn(B)) = Cardinality(BusyIn(A)) + 1
<1>1. BusyIn(B) = BusyIn(A) \cup {i} /\ i \notin BusyIn(A)
  BY DEF BusyIn
<1>2. IsFiniteSet(BusyIn(A))
  BY BusyIsFinite
<1> QED
  BY <1>1, <1>2, FS_AddElement

\* Putting a task into a free slot, or read backwards taking it out of its slot.
LEMMA ReservingOneTask ==
  ASSUME NEW A \in Tables, NEW B \in Tables, SmallIn(A), SmallIn(B),
         NEW i \in Slots, A[i] = NULL, B[i] # NULL,
         \A j \in Slots \ {i} : B[j] = A[j],
         NEW t \in Transformations
  PROVE  Cardinality(ReservedIn(B, t)) =
           Cardinality(ReservedIn(A, t)) + OpsTotals(B[i].task)[t]
<1> DEFINE n == OpsTotals(B[i].task)[t]
           New == {i} \X (1 .. n)
<1>1. BusyIn(B) = BusyIn(A) \cup {i} /\ i \notin BusyIn(A)
  BY DEF BusyIn
<1>3. n \in 0..127
  <2>1. B[i] \in ActiveTask /\ B[i].task \in Task
    BY DEF Tables, ActiveTask
  <2>2. SmallTask(B[i].task)
    BY <1>1 DEF SmallIn
  <2> QED
    BY <2>1, <2>2, SmallTotals
<1>4. IsFiniteSet(New) /\ Cardinality(New) = n
  <2> HIDE DEF n
  <2>1. IsFiniteSet({i}) /\ Cardinality({i}) = 1
    BY FS_Singleton
  <2>2. IsFiniteSet(1..n) /\ Cardinality(1..n) = n
    BY <1>3, OneUpTo
  <2>3. IsFiniteSet(New) /\ Cardinality(New) = Cardinality({i}) * Cardinality(1..n)
    BY <2>1, <2>2, FS_Product
  <2> QED
    BY <1>3, <2>1, <2>2, <2>3
<1>5. ReservedIn(B, t) = ReservedIn(A, t) \cup New
  <2>1. \A j \in BusyIn(A) : B[j] = A[j]
    BY <1>1 DEF BusyIn
  <2> QED
    BY <1>1, <2>1 DEF ReservedIn
<1>6. ReservedIn(A, t) \cap New = {}
  BY <1>1 DEF ReservedIn
<1>7. Cardinality(ReservedIn(A, t) \cup New) =
        Cardinality(ReservedIn(A, t)) + Cardinality(New) - 0
  <2> HIDE DEF New
  <2>1. Cardinality({}) = 0
    BY FS_EmptySet
  <2> QED
    BY <1>4, <1>6, <2>1, ReservedIsFinite, FS_Union
<1>8. Cardinality(ReservedIn(A, t)) \in Nat
  BY ReservedIsFinite
<1> QED
  BY <1>3, <1>4, <1>5, <1>7, <1>8

\* An empty table reserves nothing.
LEMMA EmptyTable ==
  ASSUME NEW t \in Transformations
  PROVE  LET A == [i \in Slots |-> NULL]
         IN  Cardinality(BusyIn(A)) = 0 /\ Cardinality(ReservedIn(A, t)) = 0
<1> DEFINE A == [i \in Slots |-> NULL]
<1>1. BusyIn(A) = {}
  BY DEF BusyIn
<1>2. ReservedIn(A, t) = {}
  BY <1>1 DEF ReservedIn
<1> QED
  BY <1>1, <1>2, FS_EmptySet

-----------------------------------------------------------------------------
(* The inductive invariant *)

TasksAreSmall == (\A task \in queue : SmallTask(task)) /\ SmallIn(active_tasks)

Counted ==
  /\ num_active_tasks = Cardinality(BusyIn(active_tasks))
  /\ \A t \in Transformations : active_count[t] = Cardinality(ReservedIn(active_tasks, t))

CountsWithinLimits == \A t \in Transformations : active_count[t] <= ActiveLimit[t]

Holds(i, p) ==
  active_tasks[i] # NULL /\ active_tasks[i].monitor = p /\ active_tasks[i].task = monitor_task[p]

MonitorsHold == \A p \in Pids : MonitorAlive(p) => \E i \in Slots : Holds(i, p)

FinishedHaveExited(msgs) ==
  \A k \in 1 .. Len(msgs) :
    msgs[k].kind = "FINISHED_TASK" => monitor_pc[msgs[k].pid] = "exited"

MessagesAreTrue == FinishedHaveExited(server_fifo) /\ FinishedHaveExited(buf)

LimitInv ==
  /\ TypeInv
  /\ TasksAreSmall
  /\ Counted
  /\ CountsWithinLimits
  /\ MonitorsHold
  /\ MessagesAreTrue

\* The inductive invariant holds initially: nothing is queued or active.
LEMMA InitLimitInv == Init => LimitInv
<1> SUFFICES ASSUME Init
             PROVE  LimitInv
  OBVIOUS
<1>1. TypeInv
  BY InitTypeInv
<1>2. active_tasks = [i \in Slots |-> NULL] /\ queue = {}
  BY DEF Init
<1>3. TasksAreSmall
  BY <1>2 DEF TasksAreSmall, SmallIn, BusyIn
<1>4. Counted
  <2>1. Cardinality(BusyIn([i \in Slots |-> NULL])) = 0
    <3>1. BusyIn([i \in Slots |-> NULL]) = {}
      BY DEF BusyIn
    <3> QED
      BY <3>1, FS_EmptySet
  <2> QED
    BY <1>2, <2>1, EmptyTable DEF Init, Counted
<1>5. CountsWithinLimits
  BY LimitAssumption DEF Init, CountsWithinLimits
<1>6. MonitorsHold
  BY DEF Init, MonitorsHold, MonitorAlive
<1>7. MessagesAreTrue
  BY DEF Init, MessagesAreTrue, FinishedHaveExited
<1> QED
  BY <1>1, <1>3, <1>4, <1>5, <1>6, <1>7 DEF LimitInv

-----------------------------------------------------------------------------
(* What the steps do to the tasks *)

\* Only three steps touch the queue, the table and the counters.
LEMMA TaskVarsChange ==
  [Next]_vars => DispatchTask \/ FinishTask \/ AdmitTask \/ UNCHANGED taskVars
<1> SUFFICES ASSUME [Next]_vars
             PROVE  DispatchTask \/ FinishTask \/ AdmitTask \/ UNCHANGED taskVars
  OBVIOUS
<1>1. CASE ServerStep
  BY <1>1 DEF ServerStep, ServerStart, ServerOpensForReading, HandlerRuns,
       ServerTestsFlag, ServerOpensForWriting, ServerCallsRead, ServerReads, ServerHasRead,
       AnswerStatus, ParseFails, ReplyOpens, ReplyWaits, ReplyFindsNoClient, ReplyWritten,
       ReplyBreaksPipe, CheckExit, DispatchFindsNoSlot, DispatchEnds
<1>2. CASE Signal
  BY <1>2 DEF Signal, SignalBetweenCalls, SignalInOpen, SignalInRead, SignalInReply,
       ChildRestartsOpen, Interrupted
<1>3. CASE \E p \in Pids : MonitorStep(p)
  BY <1>3 DEF MonitorStep, MonitorOpens, MonitorFindsNoClient, MonitorRunsPipeline,
       MonitorCompletes, MonitorBreaksPipe, MonitorNotifies, serverVars
<1>4. CASE \E c \in Clients : ClientStart(c) \/ ClientStep(c) \/ ClientInterrupted(c)
  BY <1>4 DEF ClientStart, ClientStep, ClientInterrupted, ClientFindsNoServer,
       ClientWaitsForServer, ClientOpensServer, ClientMeetsServer, ClientWrites,
       ClientBreaksPipe, ClientNamesFifo, ClientOpensOwn, ClientMeetsReply, ServerWaitsFor,
       ClientReadsReply, ClientEnds, serverVars
<1>5. CASE UNCHANGED vars
  BY <1>5 DEF vars, serverVars
<1> QED
  BY <1>1, <1>2, <1>3, <1>4, <1>5 DEF Next

\* The task is taken out of the queue into slot i, for a monitor with the pid p.
Dispatched(task, p, i) ==
  /\ TaskIsPossible(task) /\ monitor_pc[p] = "none"
  /\ queue' = queue \ {task}
  /\ active_count' = Incremented(task)
  /\ num_active_tasks' = num_active_tasks + 1
  /\ active_tasks[i] = NULL
  /\ active_tasks' = [active_tasks EXCEPT ![i] = [task |-> task, monitor |-> p]]
  /\ active_tasks'[i] = [task |-> task, monitor |-> p]
  /\ active_tasks'[i] # NULL
  /\ monitor_pc' = [monitor_pc EXCEPT ![p] = "start"]
  /\ monitor_task' = [monitor_task EXCEPT ![p] = task]
  /\ UNCHANGED <<buf, server_fifo>>

\* A dispatch moves one task from the queue into one free slot.
LEMMA DispatchEffect ==
  ASSUME TypeOK, DispatchTask
  PROVE  \E task \in queue, p \in Pids, i \in Slots : Dispatched(task, p, i)
<1> DEFINE i == Lowest(FreeSlots)
<1>1. i \in Slots /\ active_tasks[i] = NULL
  BY LowestIsMember DEF FreeSlots, DispatchTask
<1>2. PICK task \in Heads, p \in Pids :
        /\ TaskIsPossible(task) /\ monitor_pc[p] = "none"
        /\ queue' = queue \ {task}
        /\ active_count' = Incremented(task)
        /\ active_tasks' = [active_tasks EXCEPT ![i] = [task |-> task, monitor |-> p]]
        /\ monitor_pc' = [monitor_pc EXCEPT ![p] = "start"]
        /\ monitor_task' = [monitor_task EXCEPT ![p] = task]
  BY DEF DispatchTask
<1>3. num_active_tasks' = num_active_tasks + 1 /\ UNCHANGED <<buf, server_fifo>>
  BY DEF DispatchTask, sharedVars
<1>4. task \in queue /\ task \in Task
  BY DEF Heads, TypeOK
<1>5. [task |-> task, monitor |-> p] \in ActiveTask
  BY <1>4 DEF ActiveTask
<1>6. active_tasks'[i] = [task |-> task, monitor |-> p]
  <2> HIDE DEF i
  <2> QED
    BY <1>1, <1>2 DEF TypeOK
<1>7. active_tasks'[i] # NULL
  BY <1>5, <1>6, NullAssumption
<1> HIDE DEF i
<1> QED
  BY <1>1, <1>2, <1>3, <1>4, <1>6, <1>7 DEF Dispatched

\* The end of a task empties one slot, unless the assertion failed.
LEMMA FinishEffect ==
  ASSUME TypeOK, FinishTask
  PROVE  /\ UNCHANGED <<queue, server_fifo, monitorVars>>
         /\ buf # << >> /\ Head(buf).kind = "FINISHED_TASK"
         /\ \/ UNCHANGED taskVars /\ UNCHANGED buf
            \/ /\ buf' = Tail(buf)
               /\ \E i \in Slots :
                    /\ active_tasks[i] # NULL
                    /\ active_tasks[i].monitor = Head(buf).pid
                    /\ active_tasks' = [active_tasks EXCEPT ![i] = NULL]
                    /\ active_count' = Decremented(active_tasks[i].task)
                    /\ num_active_tasks' = num_active_tasks - 1
<1>1. /\ UNCHANGED <<queue, server_fifo, monitorVars>>
      /\ buf # << >> /\ Head(buf).kind = "FINISHED_TASK"
  BY DEF FinishTask, Processing, sharedVars
<1>2. CASE SlotsOf(Head(buf).pid) = {}
  BY <1>1, <1>2 DEF FinishTask, taskVars
<1>3. CASE SlotsOf(Head(buf).pid) # {}
  <2> DEFINE i == Lowest(SlotsOf(Head(buf).pid))
  <2>1. i \in Slots /\ active_tasks[i] # NULL /\ active_tasks[i].monitor = Head(buf).pid
    BY <1>3, LowestIsMember DEF SlotsOf
  <2>2. Release(i) /\ buf' = Tail(buf)
    BY <1>3 DEF FinishTask
  <2> HIDE DEF i
  <2> QED
    BY <1>1, <2>1, <2>2 DEF Release
<1> QED
  BY <1>2, <1>3

-----------------------------------------------------------------------------
(* Preservation of the counters *)

\* A request that is admitted is small, because the commands are.
LEMMA StepKeepsSmall ==
  ASSUME SmallCommands, TypeOK, TypeOK', TasksAreSmall, [Next]_vars
  PROVE  TasksAreSmall'
<1>1. CASE DispatchTask
  <2>1. PICK task \in queue, p \in Pids, i \in Slots :
          /\ queue' = queue \ {task}
          /\ active_tasks' = [active_tasks EXCEPT ![i] = [task |-> task, monitor |-> p]]
    BY <1>1, DispatchEffect DEF Dispatched
  <2>2. \A j \in Slots \ {i} : active_tasks'[j] = active_tasks[j]
    BY <2>1 DEF TypeOK
  <2>3. active_tasks'[i].task = task
    BY <2>1 DEF TypeOK
  <2>4. \A j \in BusyIn(active_tasks') : j = i \/ j \in BusyIn(active_tasks)
    BY <2>2 DEF BusyIn
  <2> QED
    BY <2>1, <2>2, <2>3, <2>4 DEF TasksAreSmall, SmallIn, BusyIn
<1>2. CASE FinishTask
  <2>1. CASE UNCHANGED taskVars
    BY <2>1 DEF TasksAreSmall, SmallIn, BusyIn, taskVars
  <2>2. CASE ~UNCHANGED taskVars
    <3>1. PICK i \in Slots : active_tasks' = [active_tasks EXCEPT ![i] = NULL]
      BY <1>2, <2>2, FinishEffect
    <3>2. UNCHANGED queue
      BY <1>2, FinishEffect
    <3>3. \A j \in BusyIn(active_tasks') :
            j \in BusyIn(active_tasks) /\ active_tasks'[j] = active_tasks[j]
      BY <3>1 DEF BusyIn, TypeOK
    <3> QED
      BY <3>2, <3>3 DEF TasksAreSmall, SmallIn
  <2> QED
    BY <2>1, <2>2
<1>3. CASE AdmitTask
  <2>1. Head(buf) \in Messages /\ Head(buf).kind = "REQUEST"
    BY <1>3, SequenceTypes DEF AdmitTask, ProcessingProcFile, Processing, TypeOK
  <2>2. Head(buf).cmd \in Commands
    BY <2>1 DEF Messages
  <2>3. SmallTask(TaskOf(Head(buf)))
    BY <2>2 DEF SmallTask, TaskOf, SmallCommands
  <2> QED
    BY <1>3, <2>3 DEF AdmitTask, TasksAreSmall, SmallIn, BusyIn
<1>4. CASE UNCHANGED taskVars
  BY <1>4 DEF TasksAreSmall, SmallIn, BusyIn, taskVars
<1> QED
  BY <1>1, <1>2, <1>3, <1>4, TaskVarsChange

\* The counters follow the table: what a dispatch adds is what the end of the
\* task takes away.
LEMMA StepKeepsCounts ==
  ASSUME TypeOK, TypeOK', TasksAreSmall, TasksAreSmall', Counted, CountsWithinLimits,
         [Next]_vars
  PROVE  Counted' /\ CountsWithinLimits'
<1> DEFINE A == active_tasks
           B == active_tasks'
<1>1. A \in Tables /\ B \in Tables /\ SmallIn(A) /\ SmallIn(B)
  BY DEF TypeOK, Tables, TasksAreSmall
<1>2. \A t \in Transformations :
        /\ Cardinality(BusyIn(A)) \in Nat /\ Cardinality(ReservedIn(A, t)) \in Nat
        /\ Cardinality(BusyIn(B)) \in Nat /\ Cardinality(ReservedIn(B, t)) \in Nat
  BY <1>1, ReservedIsFinite
<1>3. CASE DispatchTask
  <2>1. PICK task \in queue, p \in Pids, i \in Slots :
          /\ TaskIsPossible(task)
          /\ active_count' = Incremented(task)
          /\ num_active_tasks' = num_active_tasks + 1
          /\ A[i] = NULL
          /\ B = [A EXCEPT ![i] = [task |-> task, monitor |-> p]]
          /\ B[i] = [task |-> task, monitor |-> p]
          /\ B[i] # NULL
    <3>1. PICK task \in queue, p \in Pids, i \in Slots : Dispatched(task, p, i)
      BY <1>3, DispatchEffect
    <3> QED
      BY <3>1 DEF Dispatched
  <2>2. \A j \in Slots \ {i} : B[j] = A[j]
    BY <2>1 DEF TypeOK
  <2>3. Cardinality(BusyIn(B)) = Cardinality(BusyIn(A)) + 1
    BY <2>1, <2>2, BusyOneMore
  <2>4. \A t \in Transformations :
          Cardinality(ReservedIn(B, t)) = Cardinality(ReservedIn(A, t)) + OpsTotals(task)[t]
    <3>1. B[i].task = task
      BY <2>1
    <3>2. A[i] = NULL /\ B[i] # NULL
      BY <2>1
    <3>3. \A t \in Transformations :
            Cardinality(ReservedIn(B, t)) =
              Cardinality(ReservedIn(A, t)) + OpsTotals(B[i].task)[t]
      BY <1>1, <2>2, <3>2, ReservingOneTask
    <3> QED
      BY <3>1, <3>3
  <2>5. \A t \in Transformations : active_count'[t] = active_count[t] + OpsTotals(task)[t]
    BY <2>1 DEF Incremented
  <2>6. Counted'
    BY <2>1, <2>3, <2>4, <2>5 DEF Counted
  <2>7. CountsWithinLimits'
    BY <2>1, <2>5 DEF CountsWithinLimits, TaskIsPossible
  <2> QED
    BY <2>6, <2>7
<1>4. CASE UNCHANGED taskVars
  BY <1>4 DEF Counted, CountsWithinLimits, BusyIn, ReservedIn, taskVars
<1>5. CASE FinishTask
  <2>1. CASE UNCHANGED taskVars
    BY <1>4, <2>1
  <2>2. CASE ~UNCHANGED taskVars
    <3>1. PICK i \in Slots :
            /\ A[i] # NULL
            /\ B = [A EXCEPT ![i] = NULL]
            /\ active_count' = Decremented(A[i].task)
            /\ num_active_tasks' = num_active_tasks - 1
      BY <1>5, <2>2, FinishEffect
    <3>2. B[i] = NULL /\ \A j \in Slots \ {i} : A[j] = B[j]
      BY <3>1 DEF TypeOK
    <3>3. Cardinality(BusyIn(A)) = Cardinality(BusyIn(B)) + 1
      BY <3>1, <3>2, BusyOneMore
    <3>4. \A t \in Transformations :
            Cardinality(ReservedIn(A, t)) =
              Cardinality(ReservedIn(B, t)) + OpsTotals(A[i].task)[t]
      BY <1>1, <3>1, <3>2, ReservingOneTask
    <3>5. \A t \in Transformations : OpsTotals(A[i].task)[t] \in 0..127
      <4>1. A[i].task \in Task
        BY <3>1 DEF TypeOK, ActiveTask
      <4>2. SmallTask(A[i].task)
        BY <1>1, <3>1 DEF SmallIn, BusyIn
      <4> QED
        BY <4>1, <4>2, SmallTotals
    <3>6. \A t \in Transformations :
            active_count'[t] = active_count[t] - OpsTotals(A[i].task)[t]
      BY <3>1 DEF Decremented
    <3>7. num_active_tasks' = Cardinality(BusyIn(B))
      <4>1. Cardinality(BusyIn(A)) \in Nat /\ Cardinality(BusyIn(B)) \in Nat
        BY BusyIsFinite, FS_CardinalityType
      <4> QED
        BY <3>1, <3>3, <4>1 DEF Counted
    <3>8. \A t \in Transformations : active_count'[t] = Cardinality(ReservedIn(B, t))
      <4> SUFFICES ASSUME NEW t \in Transformations
                   PROVE  active_count'[t] = Cardinality(ReservedIn(B, t))
        OBVIOUS
      <4>1. active_count[t] = Cardinality(ReservedIn(A, t))
        BY DEF Counted
      <4>2. active_count'[t] = active_count[t] - OpsTotals(A[i].task)[t]
        BY <3>6
      <4>3. Cardinality(ReservedIn(A, t)) =
              Cardinality(ReservedIn(B, t)) + OpsTotals(A[i].task)[t]
        BY <3>4
      <4>4. Cardinality(ReservedIn(B, t)) \in Nat /\ OpsTotals(A[i].task)[t] \in Nat
        BY <1>2, <3>5
      <4> QED
        BY <4>1, <4>2, <4>3, <4>4
    <3>9. CountsWithinLimits'
      <4>1. \A t \in Transformations : active_count[t] \in Int /\ ActiveLimit[t] \in Int
        BY LimitAssumption DEF TypeOK
      <4> QED
        BY <3>5, <3>6, <4>1 DEF CountsWithinLimits
    <3> QED
      BY <3>7, <3>8, <3>9 DEF Counted
  <2> QED
    BY <2>1, <2>2
<1>6. CASE AdmitTask
  <2>1. UNCHANGED <<active_tasks, num_active_tasks, active_count>>
    BY <1>6 DEF AdmitTask
  <2> QED
    BY <2>1 DEF Counted, CountsWithinLimits, BusyIn, ReservedIn
<1> QED
  BY <1>3, <1>4, <1>5, <1>6, TaskVarsChange

-----------------------------------------------------------------------------
(* Preservation of what ties monitors, messages and slots together *)

\* What a step may do to a monitor: end one step further, or be forked.
LEMMA MonitorSteps ==
  ASSUME TypeOK, [Next]_vars
  PROVE  \/ DispatchTask
         \/ /\ UNCHANGED monitor_task
            /\ \A p \in Pids : /\ MonitorAlive(p)' => MonitorAlive(p)
                               /\ monitor_pc[p] = "exited" => monitor_pc'[p] = "exited"
<1> USE DEF MonitorAlive
<1>1. CASE UNCHANGED monitorVars
  BY <1>1 DEF monitorVars
<1>2. CASE ServerStep
  <2>1. ~DispatchTask => UNCHANGED monitorVars
    BY <1>2 DEF ServerStep, ServerStart, ServerOpensForReading, HandlerRuns,
         ServerTestsFlag, ServerOpensForWriting, ServerCallsRead, ServerReads,
         ServerHasRead, FinishTask, AnswerStatus, ParseFails, AdmitTask, ReplyOpens,
         ReplyWaits, ReplyFindsNoClient, ReplyWritten, ReplyBreaksPipe, CheckExit,
         DispatchFindsNoSlot, DispatchEnds
  <2> QED
    BY <1>1, <2>1
<1>3. CASE Signal
  BY <1>1, <1>3 DEF Signal, SignalBetweenCalls, SignalInOpen, SignalInRead,
       SignalInReply, ChildRestartsOpen, Interrupted
<1>4. ASSUME NEW p \in Pids, MonitorStep(p)
      PROVE  /\ UNCHANGED monitor_task
             /\ \A q \in Pids : /\ MonitorAlive(q)' => MonitorAlive(q)
                                /\ monitor_pc[q] = "exited" => monitor_pc'[q] = "exited"
  BY <1>4 DEF MonitorStep, MonitorOpens, MonitorFindsNoClient, MonitorRunsPipeline,
       MonitorCompletes, MonitorBreaksPipe, MonitorNotifies, MonitorGoesTo, TypeOK
<1>5. CASE \E c \in Clients : ClientStart(c) \/ ClientStep(c) \/ ClientInterrupted(c)
  BY <1>1, <1>5 DEF ClientStart, ClientStep, ClientInterrupted, ClientFindsNoServer,
       ClientWaitsForServer, ClientOpensServer, ClientMeetsServer, ClientWrites,
       ClientBreaksPipe, ClientNamesFifo, ClientOpensOwn, ClientMeetsReply, ServerWaitsFor,
       ClientReadsReply, ClientEnds
<1>6. CASE UNCHANGED vars
  BY <1>1, <1>6 DEF vars
<1> QED
  BY <1>2, <1>3, <1>4, <1>5, <1>6 DEF Next

\* A slot is emptied only when its monitor has exited, as the message says.
LEMMA StepKeepsMonitorsHold ==
  ASSUME TypeOK, TypeOK', MonitorsHold, MessagesAreTrue, [Next]_vars
  PROVE  MonitorsHold'
<1>1. CASE DispatchTask
  <2>1. PICK task \in queue, p \in Pids, i \in Slots :
          /\ active_tasks[i] = NULL
          /\ active_tasks' = [active_tasks EXCEPT ![i] = [task |-> task, monitor |-> p]]
          /\ active_tasks'[i] = [task |-> task, monitor |-> p]
          /\ active_tasks'[i] # NULL
          /\ monitor_pc' = [monitor_pc EXCEPT ![p] = "start"]
          /\ monitor_task' = [monitor_task EXCEPT ![p] = task]
    BY <1>1, DispatchEffect DEF Dispatched
  <2>2. monitor_task'[p] = task
    BY <2>1 DEF TypeOK
  <2>3. Holds(i, p)'
    BY <2>1, <2>2 DEF Holds
  <2>4. ASSUME NEW q \in Pids, q # p, MonitorAlive(q)'
        PROVE  \E j \in Slots : Holds(j, q)'
    <3>1. MonitorAlive(q)
      BY <2>1, <2>4 DEF MonitorAlive, TypeOK
    <3>2. PICK j \in Slots : Holds(j, q)
      BY <3>1 DEF MonitorsHold
    <3>3. j # i /\ active_tasks'[j] = active_tasks[j] /\ monitor_task'[q] = monitor_task[q]
      BY <2>1, <2>4, <3>2 DEF Holds, TypeOK
    <3> QED
      BY <3>2, <3>3 DEF Holds
  <2> QED
    BY <2>3, <2>4 DEF MonitorsHold
<1>2. CASE FinishTask /\ ~UNCHANGED taskVars
  <2>1. PICK i \in Slots :
          /\ active_tasks[i].monitor = Head(buf).pid
          /\ active_tasks' = [active_tasks EXCEPT ![i] = NULL]
    BY <1>2, FinishEffect
  <2>2. UNCHANGED monitorVars /\ buf # << >> /\ Head(buf).kind = "FINISHED_TASK"
    BY <1>2, FinishEffect
  <2>3. monitor_pc[Head(buf).pid] = "exited"
    <3>1. Head(buf) = buf[1] /\ 1 \in 1 .. Len(buf)
      BY <2>2 DEF TypeOK
    <3> QED
      BY <2>2, <3>1 DEF MessagesAreTrue, FinishedHaveExited
  <2>4. ASSUME NEW q \in Pids, MonitorAlive(q)'
        PROVE  \E j \in Slots : Holds(j, q)'
    <3>1. MonitorAlive(q)
      BY <2>2, <2>4 DEF MonitorAlive, monitorVars
    <3>2. PICK j \in Slots : Holds(j, q)
      BY <3>1 DEF MonitorsHold
    <3>3. j # i
      BY <2>1, <2>3, <3>1, <3>2 DEF Holds, MonitorAlive
    <3>4. active_tasks'[j] = active_tasks[j]
      BY <2>1, <3>3 DEF TypeOK
    <3> QED
      BY <2>2, <3>2, <3>4 DEF Holds, monitorVars
  <2> QED
    BY <2>4 DEF MonitorsHold
<1>3. CASE ~DispatchTask /\ UNCHANGED active_tasks
  <2>1. /\ UNCHANGED monitor_task
        /\ \A p \in Pids : MonitorAlive(p)' => MonitorAlive(p)
    BY <1>3, MonitorSteps
  <2> QED
    BY <1>3, <2>1 DEF MonitorsHold, Holds
<1>4. AdmitTask => UNCHANGED active_tasks
  BY DEF AdmitTask
<1> QED
  BY <1>1, <1>2, <1>3, <1>4, TaskVarsChange DEF taskVars

\* What is added to the FIFO SERVER, and what happens to the buffer.
LEMMA MessageSteps ==
  ASSUME TypeOK, ReplyDue, [Next]_vars
  PROVE  /\ \/ UNCHANGED server_fifo
            \/ server_fifo' = << >>
            \/ \E m \in Messages :
                 /\ server_fifo' = Append(server_fifo, m)
                 /\ m.kind = "FINISHED_TASK" => monitor_pc'[m.pid] = "exited"
         /\ \/ UNCHANGED buf
            \/ buf # << >> /\ buf' = Tail(buf)
            \/ buf' = server_fifo
<1>1. CASE ServerStep
  BY <1>1 DEF ServerStep, ServerStart, ServerOpensForReading, HandlerRuns,
       ServerTestsFlag, ServerOpensForWriting, ServerCallsRead, ServerReads, ServerHasRead,
       FinishTask, AnswerStatus, ParseFails, AdmitTask, ReplyOpens, ReplyWaits,
       ReplyFindsNoClient, ReplyWritten, ReplyBreaksPipe, CheckExit, DispatchTask,
       DispatchFindsNoSlot, DispatchEnds, Receive, Processing, ReplyDue, sharedVars
<1>2. CASE Signal
  BY <1>2 DEF Signal, SignalBetweenCalls, SignalInOpen, SignalInRead,
       SignalInReply, ChildRestartsOpen, Interrupted, sharedVars, serverVars, taskVars,
       monitorVars
<1>3. ASSUME NEW p \in Pids, MonitorStep(p)
      PROVE  /\ UNCHANGED buf
             /\ \/ UNCHANGED server_fifo
                \/ \E m \in Messages :
                     /\ server_fifo' = Append(server_fifo, m)
                     /\ m.kind = "FINISHED_TASK" => monitor_pc'[m.pid] = "exited"
  <2>1. CASE MonitorNotifies(p)
    <3> DEFINE m == [kind |-> "FINISHED_TASK", pid |-> p]
    <3>1. m \in Messages
      BY DEF Messages
    <3>2. server_fifo' = Append(server_fifo, m) /\ UNCHANGED buf
      BY <2>1 DEF MonitorNotifies, serverVars
    <3>3. monitor_pc'[m.pid] = "exited"
      BY <2>1 DEF MonitorNotifies, MonitorGoesTo, TypeOK
    <3> QED
      BY <3>1, <3>2, <3>3
  <2>2. CASE ~MonitorNotifies(p)
    BY <1>3, <2>2 DEF MonitorStep, MonitorOpens, MonitorFindsNoClient, MonitorRunsPipeline,
         MonitorCompletes, MonitorBreaksPipe, sharedVars, serverVars
  <2> QED
    BY <2>1, <2>2
<1>4. ASSUME NEW c \in Clients, ClientStart(c) \/ ClientStep(c) \/ ClientInterrupted(c)
      PROVE  /\ UNCHANGED buf
             /\ \/ UNCHANGED server_fifo
                \/ \E m \in Messages :
                     /\ server_fifo' = Append(server_fifo, m)
                     /\ m.kind # "FINISHED_TASK"
  <2>1. CASE ClientWrites(c)
    <3>1. PICK cmd \in Commands :
            server_fifo' = Append(server_fifo, [kind |-> "REQUEST", client |-> c, cmd |-> cmd])
      BY <2>1 DEF ClientWrites
    <3>2. [kind |-> "REQUEST", client |-> c, cmd |-> cmd] \in Messages
      BY DEF Messages
    <3>3. UNCHANGED buf
      BY <2>1 DEF ClientWrites, serverVars
    <3> QED
      BY <3>1, <3>2, <3>3
  <2>2. CASE ~ClientWrites(c)
    BY <1>4, <2>2 DEF ClientStart, ClientStep, ClientInterrupted, ClientFindsNoServer,
         ClientWaitsForServer, ClientOpensServer, ClientMeetsServer, ClientBreaksPipe,
         ClientNamesFifo, ClientOpensOwn, ClientMeetsReply, ServerWaitsFor,
         ClientReadsReply, ClientEnds, sharedVars, serverVars
  <2> QED
    BY <2>1, <2>2
<1>5. CASE UNCHANGED vars
  BY <1>5 DEF vars, sharedVars, serverVars
<1> QED
  BY <1>1, <1>2, <1>3, <1>4, <1>5 DEF Next

\* A message that a task is finished is sent by its monitor in its last step.
LEMMA StepKeepsMessagesTrue ==
  ASSUME TypeOK, ReplyDue, MessagesAreTrue, [Next]_vars
  PROVE  MessagesAreTrue'
<1> DEFINE True(msgs) ==
      \A k \in 1 .. Len(msgs) :
        msgs[k].kind = "FINISHED_TASK" => monitor_pc'[msgs[k].pid] = "exited"
<1>1. ASSUME NEW msgs \in Seq(Messages), FinishedHaveExited(msgs)
      PROVE  True(msgs)
  <2>1. ASSUME NEW k \in 1 .. Len(msgs), msgs[k].kind = "FINISHED_TASK"
        PROVE  monitor_pc'[msgs[k].pid] = "exited"
    <3>1. msgs[k] \in Messages /\ msgs[k].pid \in Pids
      BY <2>1 DEF Messages
    <3>2. monitor_pc[msgs[k].pid] = "exited"
      BY <1>1, <2>1 DEF FinishedHaveExited
    <3>3. CASE DispatchTask
      <4>1. PICK p \in Pids : /\ monitor_pc[p] = "none"
                              /\ monitor_pc' = [monitor_pc EXCEPT ![p] = "start"]
        BY <3>3, DispatchEffect DEF Dispatched
      <4> QED
        BY <3>1, <3>2, <4>1 DEF TypeOK
    <3>4. CASE ~DispatchTask
      BY <3>1, <3>2, <3>4, MonitorSteps
    <3> QED
      BY <3>3, <3>4
  <2> QED
    BY <2>1
<1>2. True(server_fifo) /\ True(buf) /\ server_fifo \in Seq(Messages) /\ buf \in Seq(Messages)
  BY <1>1 DEF MessagesAreTrue, TypeOK
<1>3. True(server_fifo')
  <2>1. CASE server_fifo' = << >>
    BY <2>1
  <2>2. CASE UNCHANGED server_fifo
    BY <1>2, <2>2
  <2>3. ASSUME NEW m \in Messages, server_fifo' = Append(server_fifo, m),
               m.kind = "FINISHED_TASK" => monitor_pc'[m.pid] = "exited"
        PROVE  True(server_fifo')
    <3>1. /\ Len(server_fifo') = Len(server_fifo) + 1
          /\ server_fifo'[Len(server_fifo) + 1] = m
          /\ \A k \in 1 .. Len(server_fifo) : server_fifo'[k] = server_fifo[k]
      BY <1>2, <2>3
    <3>2. Len(server_fifo) \in Nat
      BY <1>2
    <3> QED
      BY <1>2, <2>3, <3>1, <3>2
  <2> QED
    BY <2>1, <2>2, <2>3, MessageSteps
<1>4. True(buf')
  <2>1. CASE UNCHANGED buf
    BY <1>2, <2>1
  <2>2. CASE buf # << >> /\ buf' = Tail(buf)
    <3>1. /\ Len(buf) \in Nat /\ Len(buf') = Len(buf) - 1
          /\ \A k \in 1 .. Len(buf') : buf'[k] = buf[k + 1]
      BY <1>2, <2>2
    <3> QED
      BY <1>2, <3>1
  <2>3. CASE buf' = server_fifo
    BY <1>2, <2>3
  <2> QED
    BY <2>1, <2>2, <2>3, MessageSteps
<1> QED
  BY <1>3, <1>4 DEF MessagesAreTrue, FinishedHaveExited

\* Every step keeps the inductive invariant.
LEMMA NextLimitInv == SmallCommands /\ LimitInv /\ [Next]_vars => LimitInv'
<1> SUFFICES ASSUME SmallCommands, LimitInv, [Next]_vars
             PROVE  LimitInv'
  OBVIOUS
<1>1. TypeInv /\ TypeInv' /\ TypeOK /\ TypeOK' /\ ReplyDue
  BY NextTypeInv DEF LimitInv, TypeInv
<1>2. TasksAreSmall /\ TasksAreSmall'
  BY <1>1, StepKeepsSmall DEF LimitInv
<1>3. Counted' /\ CountsWithinLimits'
  BY <1>1, <1>2, StepKeepsCounts DEF LimitInv
<1>4. MonitorsHold'
  BY <1>1, StepKeepsMonitorsHold DEF LimitInv
<1>5. MessagesAreTrue'
  BY <1>1, StepKeepsMessagesTrue DEF LimitInv
<1> QED
  BY <1>1, <1>2, <1>3, <1>4, <1>5 DEF LimitInv

-----------------------------------------------------------------------------
(* What follows *)

\* What runs is mapped one to one into what is reserved, by the slots.
LEMMA RunningIsReserved ==
  ASSUME LimitInv, NEW t \in Transformations
  PROVE  /\ IsFiniteSet(Running(t))
         /\ Cardinality(Running(t)) <= Cardinality(ReservedIn(active_tasks, t))
<1> DEFINE R == {p \in Pids : monitor_pc[p] = "running"}
           slot == [p \in R |-> CHOOSE i \in Slots : Holds(i, p)]
           S == Running(t)
           T == ReservedIn(active_tasks, t)
           f == [pair \in S |-> <<slot[pair[1]], pair[2]>>]
<1>1. TypeOK /\ TasksAreSmall
  BY DEF LimitInv, TypeInv
<1>2. \A p \in R : slot[p] \in Slots /\ Holds(slot[p], p)
  BY DEF LimitInv, MonitorsHold, MonitorAlive
<1>3. ASSUME NEW p \in R
      PROVE  /\ active_tasks[slot[p]].monitor = p
             /\ slot[p] \in BusyIn(active_tasks)
             /\ OpsTotals(active_tasks[slot[p]].task)[t] = monitor_task[p].ops[t]
  <2> HIDE DEF slot
  <2>1. /\ slot[p] \in BusyIn(active_tasks)
        /\ active_tasks[slot[p]].monitor = p
        /\ active_tasks[slot[p]].task = monitor_task[p]
    BY <1>2 DEF Holds, BusyIn
  <2>2. active_tasks[slot[p]].task \in Task
    BY <1>1, <2>1 DEF TypeOK, BusyIn, ActiveTask
  <2>3. SmallTask(active_tasks[slot[p]].task)
    BY <1>1, <2>1 DEF TasksAreSmall, SmallIn
  <2>4. OpsTotals(active_tasks[slot[p]].task)[t] = active_tasks[slot[p]].task.ops[t]
    BY <2>2, <2>3, SmallTotals
  <2> QED
    BY <2>1, <2>4
<1> HIDE DEF slot
<1>4. \A pair \in S : /\ pair[1] \in R /\ pair[2] \in 1 .. monitor_task[pair[1]].ops[t]
                      /\ pair = <<pair[1], pair[2]>>
  BY DEF Running
<1>5. ASSUME NEW pair \in S
      PROVE  <<slot[pair[1]], pair[2]>> \in T
  <2>1. /\ slot[pair[1]] \in BusyIn(active_tasks)
        /\ pair[2] \in 1 .. OpsTotals(active_tasks[slot[pair[1]]].task)[t]
    BY <1>3, <1>4
  <2> QED
    BY <2>1 DEF ReservedIn
<1>6. ASSUME NEW a \in S, NEW b \in S, f[a] = f[b]
      PROVE  a = b
  <2>1. slot[a[1]] = slot[b[1]] /\ a[2] = b[2]
    BY <1>6
  <2>2. a[1] = b[1]
    BY <1>3, <1>4, <2>1
  <2> QED
    BY <1>4, <2>1, <2>2
<1>7. f \in Injection(S, T)
  <2>1. f \in [S -> T]
    BY <1>5
  <2> QED
    BY <1>6, <2>1 DEF Injection, IsInjective
<1>8. IsFiniteSet(T)
  BY <1>1, ReservedIsFinite DEF TypeOK, Tables, TasksAreSmall
<1> HIDE DEF f, S, T
<1> QED
  BY <1>7, <1>8, FS_Injection DEF S, T

\* The inductive invariant is strong enough for the two properties.
LEMMA LimitInvImplies == LimitInv => Bookkeeping /\ ConcurrencyLimit
<1> SUFFICES ASSUME LimitInv
             PROVE  Bookkeeping /\ ConcurrencyLimit
  OBVIOUS
<1>1. Bookkeeping
  BY DEF LimitInv, Counted, Bookkeeping, BusySlots, BusyIn, Reserved, ReservedIn
<1>2. ASSUME NEW t \in Transformations
      PROVE  Cardinality(Running(t)) <= ActiveLimit[t]
  <2>1. TypeOK /\ SmallIn(active_tasks)
    BY DEF LimitInv, TypeInv, TasksAreSmall
  <2>2. Cardinality(ReservedIn(active_tasks, t)) <= ActiveLimit[t]
    BY DEF LimitInv, Counted, CountsWithinLimits
  <2>3. Cardinality(ReservedIn(active_tasks, t)) \in Nat
    BY <2>1, ReservedIsFinite DEF TypeOK, Tables
  <2>4. Cardinality(Running(t)) <= Cardinality(ReservedIn(active_tasks, t))
    BY RunningIsReserved
  <2>5. Cardinality(Running(t)) \in Nat
    BY RunningIsReserved, FS_CardinalityType
  <2>6. ActiveLimit[t] \in Nat
    BY LimitAssumption
  <2> QED
    BY <2>2, <2>3, <2>4, <2>5, <2>6
<1> QED
  BY <1>1, <1>2 DEF ConcurrencyLimit

\* The inductive invariant holds in every reachable state.
LEMMA LimitInvAlways == ASSUME SmallCommands PROVE Spec => []LimitInv
<1>1. Init => LimitInv
  BY InitLimitInv
<1>2. LimitInv /\ [Next]_vars => LimitInv'
  BY NextLimitInv
<1> QED
  BY <1>1, <1>2, PTL DEF Spec

\* num_active_tasks and the count of every transformation always agree with the
\* table of active tasks (server.c:121-125, 238-242, 272, 422), when no request
\* names a transformation more than 127 times.
THEOREM BookkeepingHolds == ASSUME SmallCommands PROVE Spec => []Bookkeeping
<1> QED
  BY LimitInvAlways, LimitInvImplies, PTL

\* No transformation ever runs in more processes than its configured limit
\* (task_is_possible, server.c:112-119), when no request names one more than
\* 127 times, whatever clients are interrupted and monitors die.
THEOREM LimitsAreKept == ASSUME SmallCommands PROVE Spec => []ConcurrencyLimit
<1> QED
  BY LimitInvAlways, LimitInvImplies, PTL

-----------------------------------------------------------------------------
(***************************************************************************)
(* Every task in a slot is accounted for by exactly one of: a monitor that *)
(* is alive, a monitor that died, a message that has not been processed.   *)
(* This holds for any number of clients, monitors, slots, signals and      *)
(* interrupted clients, and whatever the commands ask for.                 *)
(*                                                                         *)
(* The argument.  The messages that name a monitor are counted over the    *)
(* FIFO and the buffer together, which no read changes.  A monitor sends   *)
(* one in its last step and never before; its processing takes one message *)
(* and one slot away.                                                      *)
(***************************************************************************)

-----------------------------------------------------------------------------
(* Counting the messages of a set in a sequence *)

Positions(msgs, M) == {k \in 1 .. Len(msgs) : msgs[k] \in M}
Count(msgs, M) == Cardinality(Positions(msgs, M))
One(m, M) == IF m \in M THEN 1 ELSE 0
Shifted(S, n) == {k + n : k \in S}

\* The positions counted are finitely many.
LEMMA CountType ==
  ASSUME NEW M, NEW msgs \in Seq(Messages)
  PROVE  IsFiniteSet(Positions(msgs, M)) /\ Count(msgs, M) \in Nat
<1>1. IsFiniteSet(1 .. Len(msgs))
  BY OneUpTo
<1>2. Positions(msgs, M) \in SUBSET (1 .. Len(msgs))
  BY DEF Positions
<1>3. IsFiniteSet(Positions(msgs, M))
  BY <1>1, <1>2, FS_Subset
<1> QED
  BY <1>3, FS_CardinalityType DEF Count

\* An empty sequence holds no message.
LEMMA CountEmpty ==
  ASSUME NEW M
  PROVE  Count(<< >>, M) = 0
<1>1. Positions(<< >>, M) = {}
  BY DEF Positions
<1> QED
  BY <1>1, FS_EmptySet DEF Count

\* Moving a set of positions does not change their number.
LEMMA ShiftedSize ==
  ASSUME NEW S, S \subseteq Nat, IsFiniteSet(S), NEW n \in Nat
  PROVE  IsFiniteSet(Shifted(S, n)) /\ Cardinality(Shifted(S, n)) = Cardinality(S)
<1> DEFINE f == [k \in S |-> k + n]
<1>1. f \in [S -> Shifted(S, n)]
  BY DEF Shifted
<1>2. \A a, b \in S : f[a] = f[b] => a = b
  <2>1. \A a, b \in Nat : a + n = b + n => a = b
    OBVIOUS
  <2> QED
    BY <2>1
<1>3. \A x \in Shifted(S, n) : \E a \in S : f[a] = x
  BY DEF Shifted
<1>4. f \in Bijection(S, Shifted(S, n))
  BY <1>1, <1>2, <1>3 DEF Bijection, Injection, Surjection, IsInjective
<1>5. ExistsBijection(S, Shifted(S, n))
  BY <1>4 DEF ExistsBijection
<1> QED
  BY <1>5, FS_Bijection

\* A message that is written to a FIFO is counted once.
LEMMA CountAppend ==
  ASSUME NEW M, NEW msgs \in Seq(Messages), NEW m \in Messages
  PROVE  Count(Append(msgs, m), M) = Count(msgs, M) + One(m, M)
<1> DEFINE n == Len(msgs) + 1
           more == Append(msgs, m)
<1>1. n \in Nat /\ n >= 1 /\ Len(more) = n /\ more[n] = m
      /\ \A k \in 1 .. Len(msgs) : more[k] = msgs[k] /\ k \in 1 .. n
  OBVIOUS
<1>2. \A k \in 1 .. n : k = n \/ k \in 1 .. Len(msgs)
  OBVIOUS
<1>3. n \notin Positions(msgs, M) /\ IsFiniteSet(Positions(msgs, M))
  <2>1. n \notin Positions(msgs, M)
    BY DEF Positions
  <2> QED
    BY <2>1, CountType
<1> HIDE DEF n, more
<1>4. CASE m \in M
  <2>1. \A k : k \in Positions(more, M) <=> k \in Positions(msgs, M) \cup {n}
    <3>1. n \in 1 .. n
      BY <1>1
    <3> QED
      BY <1>1, <1>2, <1>4, <3>1 DEF Positions
  <2>2. Positions(more, M) = Positions(msgs, M) \cup {n}
    BY <2>1
  <2> QED
    BY <1>3, <1>4, <2>2, FS_AddElement DEF Count, One, more
<1>5. CASE m \notin M
  <2>1. Positions(more, M) = Positions(msgs, M)
    BY <1>1, <1>2, <1>5 DEF Positions
  <2>2. Count(msgs, M) \in Nat
    BY CountType
  <2> QED
    BY <1>5, <2>1, <2>2 DEF Count, One, more
<1> QED
  BY <1>4, <1>5

\* A message that is processed is taken off once.
LEMMA CountTail ==
  ASSUME NEW M, NEW msgs \in Seq(Messages), msgs # << >>
  PROVE  Count(msgs, M) = Count(Tail(msgs), M) + One(Head(msgs), M)
<1> DEFINE rest == Tail(msgs)
           S == Positions(rest, M)
<1>1. /\ rest \in Seq(Messages) /\ Len(rest) \in Nat /\ Len(msgs) = Len(rest) + 1
      /\ Head(msgs) = msgs[1] /\ \A k \in 1 .. Len(rest) : rest[k] = msgs[k + 1]
  OBVIOUS
<1>2. S \subseteq Nat /\ IsFiniteSet(S)
  <2>1. S \subseteq Nat
    BY DEF Positions
  <2> QED
    BY <1>1, <2>1, CountType
<1>3. IsFiniteSet(Shifted(S, 1)) /\ Cardinality(Shifted(S, 1)) = Count(rest, M)
  BY <1>2, ShiftedSize DEF Count
<1> HIDE DEF rest
<1>4. \A k \in 2 .. Len(msgs) : k \in Positions(msgs, M) <=> k \in Shifted(S, 1)
  <2>1. ASSUME NEW k \in 2 .. Len(msgs)
        PROVE  k \in Positions(msgs, M) <=> k \in Shifted(S, 1)
    <3>1. /\ k - 1 \in 1 .. Len(rest) /\ (k - 1) + 1 = k /\ k \in 1 .. Len(msgs)
          /\ rest[k - 1] = msgs[k]
      BY <1>1
    <3>2. k \in Shifted(S, 1) => k - 1 \in S
      BY <1>2 DEF Shifted
    <3>3. k - 1 \in S => k \in Shifted(S, 1)
      BY <3>1 DEF Shifted
    <3> QED
      BY <3>1, <3>2, <3>3 DEF Positions
  <2> QED
    BY <2>1
<1>5. Shifted(S, 1) \subseteq 2 .. Len(msgs)
  BY <1>1 DEF Shifted, Positions
<1>6. 1 \in Positions(msgs, M) <=> Head(msgs) \in M
  BY <1>1 DEF Positions
<1>7. \A k \in Positions(msgs, M) : k = 1 \/ k \in 2 .. Len(msgs)
  BY <1>1 DEF Positions
<1>8. 1 \notin Shifted(S, 1) /\ Count(rest, M) \in Nat
  BY <1>1, <1>5, CountType
<1>9. \A k \in 2 .. Len(msgs) : k # 1
  BY <1>1
<1>10. CASE Head(msgs) \in M
  <2>1. Positions(msgs, M) = Shifted(S, 1) \cup {1}
    BY <1>4, <1>5, <1>6, <1>7, <1>10
  <2> QED
    BY <1>3, <1>8, <1>10, <2>1, FS_AddElement DEF Count, One, rest
<1>11. CASE Head(msgs) \notin M
  <2>1. Positions(msgs, M) = Shifted(S, 1)
    BY <1>4, <1>5, <1>6, <1>7, <1>11
  <2> QED
    BY <1>3, <1>8, <1>11, <2>1 DEF Count, One, rest
<1> QED
  BY <1>10, <1>11

\* What is in the FIFO and what is in the buffer are counted one by one.
LEMMA CountConcat ==
  ASSUME NEW M, NEW a \in Seq(Messages), NEW b \in Seq(Messages)
  PROVE  Count(a \o b, M) = Count(a, M) + Count(b, M)
<1> DEFINE n == Len(a)
           both == a \o b
           S == Positions(a, M)
           T == Shifted(Positions(b, M), n)
<1>1. /\ n \in Nat /\ Len(b) \in Nat /\ Len(both) = n + Len(b)
      /\ \A k \in 1 .. n : both[k] = a[k]
      /\ \A k \in n + 1 .. Len(both) : both[k] = b[k - n]
  OBVIOUS
<1> HIDE DEF n, both
<1>2. IsFiniteSet(S) /\ S \subseteq 1 .. n
  BY CountType DEF Positions, n
<1>3. IsFiniteSet(Positions(b, M)) /\ Positions(b, M) \subseteq Nat
  <2>1. Positions(b, M) \subseteq Nat
    BY DEF Positions
  <2> QED
    BY <2>1, CountType
<1>4. IsFiniteSet(T) /\ Cardinality(T) = Count(b, M)
  BY <1>1, <1>3, ShiftedSize DEF Count
<1>5. T \subseteq n + 1 .. Len(both)
  BY <1>1 DEF Shifted, Positions
<1>6. \A k \in n + 1 .. Len(both) : k \in Positions(both, M) <=> k \in T
  <2>1. ASSUME NEW k \in n + 1 .. Len(both)
        PROVE  k \in Positions(both, M) <=> k \in T
    <3>1. /\ k - n \in 1 .. Len(b) /\ (k - n) + n = k /\ k \in 1 .. Len(both)
          /\ both[k] = b[k - n]
      BY <1>1
    <3>2. k \in T => k - n \in Positions(b, M)
      BY <1>1, <1>3 DEF Shifted
    <3>3. k - n \in Positions(b, M) => k \in T
      BY <3>1 DEF Shifted
    <3> QED
      BY <3>1, <3>2, <3>3 DEF Positions
  <2> QED
    BY <2>1
<1>7. \A k \in 1 .. n : k \in Positions(both, M) <=> k \in S
  BY <1>1 DEF Positions, n
<1>8. \A k \in Positions(both, M) : k \in 1 .. n \/ k \in n + 1 .. Len(both)
  BY <1>1 DEF Positions
<1>9. Positions(both, M) = S \cup T
  BY <1>2, <1>5, <1>6, <1>7, <1>8
<1>10. S \cap T = {}
  BY <1>1, <1>2, <1>5
<1>11. Cardinality(S \cup T) = Cardinality(S) + Cardinality(T) - Cardinality(S \cap T)
  BY <1>2, <1>4, FS_Union
<1>12. Cardinality(S) \in Nat /\ Cardinality(T) \in Nat /\ Cardinality({}) = 0
  BY <1>2, <1>4, FS_CardinalityType, FS_EmptySet
<1>13. Cardinality(Positions(both, M)) = Cardinality(S) + Cardinality(T)
  <2> HIDE DEF S, T
  <2>1. Cardinality(S \cap T) = 0
    BY <1>10, <1>12
  <2>2. Cardinality(S \cup T) = Cardinality(S) + Cardinality(T)
    BY <1>11, <1>12, <2>1
  <2> QED
    BY <1>9, <2>2
<1> QED
  BY <1>4, <1>13 DEF Count, both

-----------------------------------------------------------------------------
(* The inductive invariant *)

FinishedBy(p) == [kind |-> "FINISHED_TASK", pid |-> p]
ReportsOf(p) == {FinishedBy(p)}
Unread(M) == Count(server_fifo, M) + Count(buf, M)

OneSlotEach ==
  \A i, j \in Slots : (/\ active_tasks[i] # NULL /\ active_tasks[j] # NULL
                       /\ active_tasks[i].monitor = active_tasks[j].monitor) => i = j

SlotsAreOwned ==
  \A i \in Slots : active_tasks[i] # NULL =>
    /\ monitor_pc[active_tasks[i].monitor] # "none"
    /\ active_tasks[i].task = monitor_task[active_tasks[i].monitor]

Unreported(p) == MonitorAlive(p) \/ monitor_pc[p] = "died"
UnreportedHaveSlots == \A p \in Pids : Unreported(p) => SlotsOf(p) # {}

ReportedOnce ==
  \A p \in Pids :
    Unread(ReportsOf(p)) = IF monitor_pc[p] = "exited" /\ SlotsOf(p) # {} THEN 1 ELSE 0

\* The buffer is empty outside block_read_fifo, and the message that is being
\* answered is a request.
BufferInUse ==
  /\ server_pc \notin {"processing", "replying", "waiting", "writing", "exited", "failed"} => buf = << >>
  /\ server_pc \in {"replying", "waiting", "writing"} => buf # << >> /\ Head(buf).kind = "REQUEST"

AccountInv ==
  /\ TypeInv
  /\ OneSlotEach
  /\ SlotsAreOwned
  /\ UnreportedHaveSlots
  /\ ReportedOnce
  /\ BufferInUse

\* Nothing is active and nothing has been said.
LEMMA InitAccountInv == Init => AccountInv
<1> SUFFICES ASSUME Init
             PROVE  AccountInv
  OBVIOUS
<1>1. TypeInv
  BY InitTypeInv
<1>2. OneSlotEach /\ SlotsAreOwned
  BY DEF Init, OneSlotEach, SlotsAreOwned
<1>3. UnreportedHaveSlots
  BY DEF Init, UnreportedHaveSlots, Unreported, MonitorAlive
<1>4. ReportedOnce
  <2>1. \A p \in Pids : Count(server_fifo, ReportsOf(p)) = 0 /\ Count(buf, ReportsOf(p)) = 0
    BY CountEmpty DEF Init
  <2>2. \A p \in Pids : monitor_pc[p] # "exited"
    BY DEF Init
  <2> QED
    BY <2>1, <2>2 DEF ReportedOnce, Unread
<1>5. BufferInUse
  BY DEF Init, BufferInUse
<1> QED
  BY <1>1, <1>2, <1>3, <1>4, <1>5 DEF AccountInv

-----------------------------------------------------------------------------
(* What the steps do *)

\* The steps that neither touch the table of active tasks nor move a message.
LEMMA OtherSteps ==
  ASSUME TypeOK, [Next]_vars,
         ~DispatchTask, ~FinishTask, ~ServerReads, ~ReplyWritten,
         \A p \in Pids : ~MonitorNotifies(p),
         \A c \in Clients : ~ClientWrites(c)
  PROVE  /\ UNCHANGED <<server_fifo, buf, active_tasks, monitor_task>>
         /\ \A p \in Pids : \/ monitor_pc'[p] = monitor_pc[p]
                            \/ MonitorAlive(p) /\ Unreported(p)'
                               /\ monitor_pc'[p] \notin {"none", "exited"}
<1> USE DEF MonitorAlive, Unreported
<1>1. CASE ServerStep
  BY <1>1 DEF ServerStep, ServerStart, ServerOpensForReading, HandlerRuns,
       ServerTestsFlag, ServerOpensForWriting, ServerCallsRead, ServerHasRead, AnswerStatus,
       ParseFails, AdmitTask, ReplyOpens, ReplyWaits, ReplyFindsNoClient, ReplyBreaksPipe,
       CheckExit, DispatchFindsNoSlot, DispatchEnds, sharedVars, taskVars, monitorVars
<1>2. CASE Signal
  BY <1>2 DEF Signal, SignalBetweenCalls, SignalInOpen, SignalInRead, SignalInReply,
       ChildRestartsOpen, Interrupted, sharedVars, taskVars, monitorVars
<1>3. ASSUME NEW p \in Pids, MonitorStep(p)
      PROVE  /\ UNCHANGED <<server_fifo, buf, active_tasks, monitor_task>>
             /\ \A q \in Pids : \/ monitor_pc'[q] = monitor_pc[q]
                                \/ MonitorAlive(q) /\ Unreported(q)'
                                   /\ monitor_pc'[q] \notin {"none", "exited"}
  BY <1>3 DEF MonitorStep, MonitorOpens, MonitorFindsNoClient, MonitorRunsPipeline,
       MonitorCompletes, MonitorBreaksPipe, MonitorGoesTo, TypeOK, sharedVars, serverVars,
       taskVars
<1>4. CASE \E c \in Clients : ClientStart(c) \/ ClientStep(c) \/ ClientInterrupted(c)
  BY <1>4 DEF ClientStart, ClientStep, ClientInterrupted, ClientFindsNoServer,
       ClientWaitsForServer, ClientOpensServer, ClientMeetsServer, ClientBreaksPipe,
       ClientNamesFifo, ClientOpensOwn, ClientMeetsReply, ServerWaitsFor,
       ClientReadsReply, ClientEnds, sharedVars, serverVars, taskVars, monitorVars
<1>5. CASE UNCHANGED vars
  BY <1>5 DEF vars, sharedVars, serverVars, taskVars, monitorVars
<1> QED
  BY <1>1, <1>2, <1>3, <1>4, <1>5 DEF Next

\* The control points of the server and its buffer (server.c:371-386, 292, 343).
LEMMA StepKeepsBufferInUse ==
  ASSUME TypeInv, BufferInUse, [Next]_vars
  PROVE  BufferInUse'
<1> USE DEF BufferInUse
<1>1. CASE ServerStep
  BY <1>1 DEF ServerStep, ServerStart, ServerOpensForReading, HandlerRuns,
       ServerTestsFlag, ServerOpensForWriting, ServerCallsRead, ServerReads, Receive,
       ServerHasRead, FinishTask, AnswerStatus, ParseFails, AdmitTask, ReplyOpens,
       ReplyWaits, ReplyFindsNoClient, ReplyWritten, ReplyBreaksPipe, CheckExit,
       DispatchTask, DispatchFindsNoSlot, DispatchEnds, ServerGoesTo, Answer,
       ProcessingProcFile, Processing, Dispatching
<1>2. CASE Signal
  BY <1>2 DEF Signal, SignalBetweenCalls, SignalInOpen, SignalInRead, SignalInReply,
       ChildRestartsOpen, Interrupted, ServerGoesTo, Stopped
<1>3. CASE \E p \in Pids : MonitorStep(p)
  BY <1>3 DEF MonitorStep, MonitorOpens, MonitorFindsNoClient, MonitorRunsPipeline,
       MonitorCompletes, MonitorBreaksPipe, MonitorNotifies, serverVars
<1>4. CASE \E c \in Clients : ClientStart(c) \/ ClientStep(c) \/ ClientInterrupted(c)
  BY <1>4 DEF ClientStart, ClientStep, ClientInterrupted, ClientFindsNoServer,
       ClientWaitsForServer, ClientOpensServer, ClientMeetsServer, ClientWrites,
       ClientBreaksPipe, ClientNamesFifo, ClientOpensOwn, ClientMeetsReply, ServerWaitsFor,
       ClientReadsReply, ClientEnds, serverVars
<1>5. CASE UNCHANGED vars
  BY <1>5 DEF vars, serverVars
<1> QED
  BY <1>1, <1>2, <1>3, <1>4, <1>5 DEF Next

\* Which messages are counted for whom.
LEMMA WhoIsNamed ==
  ASSUME NEW p \in Pids
  PROVE  /\ \A q \in Pids : One(FinishedBy(q), ReportsOf(p)) = IF q = p THEN 1 ELSE 0
         /\ \A m \in Messages : m.kind = "REQUEST" => One(m, ReportsOf(p)) = 0
         /\ \A m \in Messages : m.kind = "FINISHED_TASK" => m.pid \in Pids /\ m = FinishedBy(m.pid)
<1>1. \A q \in Pids : FinishedBy(q) = FinishedBy(p) => q = p
  BY DEF FinishedBy
<1>2. \A m \in Messages : m.kind = "REQUEST" => m # FinishedBy(p)
  BY DEF FinishedBy
<1>3. \A m \in Messages : m.kind = "FINISHED_TASK" => m.pid \in Pids /\ m = FinishedBy(m.pid)
  BY DEF FinishedBy, Messages
<1> QED
  BY <1>1, <1>2, <1>3 DEF One, ReportsOf

\* How many messages of a set are unread, before and after what a step does to
\* the FIFO and the buffer.
LEMMA UnreadChange ==
  ASSUME TypeOK, NEW CONSTANT M
  PROVE  /\ Unread(M) \in Nat
         /\ \A m \in Messages : server_fifo' = Append(server_fifo, m) /\ UNCHANGED buf =>
              Unread(M)' = Unread(M) + One(m, M)
         /\ buf # << >> /\ buf' = Tail(buf) /\ UNCHANGED server_fifo =>
              Unread(M) = Unread(M)' + One(Head(buf), M) /\ Unread(M)' \in Nat
         /\ buf = << >> /\ buf' = server_fifo /\ server_fifo' = << >> => Unread(M)' = Unread(M)
         /\ UNCHANGED <<server_fifo, buf>> => Unread(M)' = Unread(M)
<1>1. server_fifo \in Seq(Messages) /\ buf \in Seq(Messages)
  BY DEF TypeOK
<1>2. Count(server_fifo, M) \in Nat /\ Count(buf, M) \in Nat /\ Unread(M) \in Nat
  BY <1>1, CountType DEF Unread
<1>3. Unread(M)' = Count(server_fifo', M) + Count(buf', M)
  BY DEF Unread
<1>4. \A m : One(m, M) \in Nat
  BY DEF One
<1>5. ASSUME NEW m \in Messages, server_fifo' = Append(server_fifo, m), UNCHANGED buf
      PROVE  Unread(M)' = Unread(M) + One(m, M)
  <2>1. Count(server_fifo', M) = Count(server_fifo, M) + One(m, M)
    BY <1>1, <1>5, CountAppend
  <2>2. Count(buf', M) = Count(buf, M)
    BY <1>5
  <2> QED
    BY <1>2, <1>3, <1>4, <2>1, <2>2 DEF Unread
<1>6. ASSUME buf # << >>, buf' = Tail(buf), UNCHANGED server_fifo
      PROVE  Unread(M) = Unread(M)' + One(Head(buf), M) /\ Unread(M)' \in Nat
  <2>1. Count(buf, M) = Count(buf', M) + One(Head(buf), M)
    BY <1>1, <1>6, CountTail
  <2>2. Count(server_fifo', M) = Count(server_fifo, M)
    BY <1>6
  <2>3. Count(buf', M) \in Nat
    BY <1>1, <1>6, CountType, SequenceTypes
  <2> QED
    BY <1>2, <1>3, <1>4, <2>1, <2>2, <2>3 DEF Unread
<1>7. ASSUME buf = << >>, buf' = server_fifo, server_fifo' = << >>
      PROVE  Unread(M)' = Unread(M)
  BY <1>2, <1>3, <1>7, CountEmpty DEF Unread
<1>8. ASSUME UNCHANGED <<server_fifo, buf>>
      PROVE  Unread(M)' = Unread(M)
  BY <1>3, <1>8 DEF Unread
<1> QED
  BY <1>2, <1>5, <1>6, <1>7, <1>8

-----------------------------------------------------------------------------
(* Preservation *)

SlotInv == OneSlotEach /\ SlotsAreOwned /\ UnreportedHaveSlots /\ ReportedOnce

\* A task gets a free slot and a pid that has no slot (server.c:391-422).
LEMMA DispatchKeepsAccount ==
  ASSUME TypeOK, SlotInv, DispatchTask
  PROVE  SlotInv'
<1>1. PICK task \in queue, p \in Pids, i \in Slots :
        /\ monitor_pc[p] = "none"
        /\ active_tasks[i] = NULL
        /\ active_tasks' = [active_tasks EXCEPT ![i] = [task |-> task, monitor |-> p]]
        /\ active_tasks'[i] = [task |-> task, monitor |-> p]
        /\ active_tasks'[i] # NULL
        /\ monitor_pc' = [monitor_pc EXCEPT ![p] = "start"]
        /\ monitor_task' = [monitor_task EXCEPT ![p] = task]
        /\ UNCHANGED <<buf, server_fifo>>
  BY DispatchEffect DEF Dispatched
<1>2. /\ active_tasks'[i].monitor = p /\ active_tasks'[i].task = task
      /\ \A j \in Slots \ {i} : active_tasks'[j] = active_tasks[j]
      /\ monitor_pc'[p] = "start" /\ monitor_task'[p] = task
      /\ \A q \in Pids \ {p} : monitor_pc'[q] = monitor_pc[q] /\ monitor_task'[q] = monitor_task[q]
  BY <1>1 DEF TypeOK
<1>3. \A j \in Slots : active_tasks[j] # NULL =>
        active_tasks[j].monitor \in Pids /\ active_tasks[j].monitor # p
  BY <1>1 DEF SlotInv, SlotsAreOwned, TypeOK, ActiveTask
<1>4. OneSlotEach'
  BY <1>1, <1>2, <1>3 DEF SlotInv, OneSlotEach
<1>5. SlotsAreOwned'
  BY <1>1, <1>2, <1>3 DEF SlotInv, SlotsAreOwned
<1>6. \A q \in Pids : SlotsOf(q)' = IF q = p THEN {i} ELSE SlotsOf(q)
  BY <1>1, <1>2, <1>3 DEF SlotsOf
<1>7. UnreportedHaveSlots'
  BY <1>2, <1>6 DEF SlotInv, UnreportedHaveSlots, Unreported, MonitorAlive
<1>8. ReportedOnce'
  <2>1. \A q \in Pids : Unread(ReportsOf(q))' = Unread(ReportsOf(q))
    BY <1>1, UnreadChange
  <2> QED
    BY <1>1, <1>2, <1>6, <2>1 DEF SlotInv, ReportedOnce
<1> QED
  BY <1>4, <1>5, <1>7, <1>8 DEF SlotInv

\* A message that a monitor has finished takes the one slot of that monitor away
\* (server.c:266-272); there is one.
LEMMA FinishKeepsAccount ==
  ASSUME TypeOK, SlotInv, FinishTask
  PROVE  SlotInv' /\ SlotsOf(Head(buf).pid) # {}
<1>1. /\ buf # << >> /\ Head(buf).kind = "FINISHED_TASK" /\ Head(buf) \in Messages
      /\ UNCHANGED <<server_fifo, monitorVars>>
  BY FinishEffect, SequenceTypes DEF TypeOK
<1>2. PICK p \in Pids : p = Head(buf).pid /\ Head(buf) = FinishedBy(p)
  BY <1>1 DEF Messages, FinishedBy
<1>3. Unread(ReportsOf(p)) # 0
  <2>1. Count(buf, ReportsOf(p)) = Count(Tail(buf), ReportsOf(p)) + 1
    BY <1>1, <1>2, CountTail DEF TypeOK, One, ReportsOf
  <2>2. Count(Tail(buf), ReportsOf(p)) \in Nat /\ Count(server_fifo, ReportsOf(p)) \in Nat
    BY <1>1, CountType, SequenceTypes DEF TypeOK
  <2> QED
    BY <2>1, <2>2 DEF Unread
<1>4. monitor_pc[p] = "exited" /\ SlotsOf(p) # {} /\ Unread(ReportsOf(p)) = 1
  BY <1>2, <1>3 DEF SlotInv, ReportedOnce
<1>5. PICK i \in Slots :
        /\ active_tasks[i] # NULL /\ active_tasks[i].monitor = p
        /\ active_tasks' = [active_tasks EXCEPT ![i] = NULL]
        /\ buf' = Tail(buf)
  <2> DEFINE i == Lowest(SlotsOf(p))
  <2>1. i \in Slots /\ active_tasks[i] # NULL /\ active_tasks[i].monitor = p
    BY <1>4, LowestIsMember DEF SlotsOf
  <2>2. Release(i) /\ buf' = Tail(buf)
    BY <1>2, <1>4 DEF FinishTask
  <2> HIDE DEF i
  <2> QED
    BY <2>1, <2>2 DEF Release
<1>6. active_tasks'[i] = NULL /\ \A j \in Slots \ {i} : active_tasks'[j] = active_tasks[j]
  BY <1>5 DEF TypeOK
<1>7. \A q \in Pids : SlotsOf(q)' = IF q = p THEN {} ELSE SlotsOf(q)
  <2>1. SlotsOf(p)' = {}
    BY <1>5, <1>6 DEF SlotsOf, SlotInv, OneSlotEach
  <2>2. ASSUME NEW q \in Pids, q # p
        PROVE  SlotsOf(q)' = SlotsOf(q)
    BY <1>5, <1>6, <2>2 DEF SlotsOf
  <2> QED
    BY <2>1, <2>2
<1>8. OneSlotEach' /\ SlotsAreOwned'
  BY <1>1, <1>6 DEF SlotInv, OneSlotEach, SlotsAreOwned, monitorVars
<1>9. UnreportedHaveSlots'
  <2>1. ~Unreported(p)'
    BY <1>1, <1>4 DEF Unreported, MonitorAlive, monitorVars
  <2> QED
    BY <1>1, <1>7, <2>1 DEF SlotInv, UnreportedHaveSlots, Unreported, MonitorAlive, monitorVars
<1>10. ReportedOnce'
  <2>1. ASSUME NEW q \in Pids
        PROVE  Unread(ReportsOf(q))' = IF q = p THEN 0 ELSE Unread(ReportsOf(q))
    <3>1. One(Head(buf), ReportsOf(q)) = IF p = q THEN 1 ELSE 0
      BY <1>2, WhoIsNamed
    <3>2. Unread(ReportsOf(q)) = Unread(ReportsOf(q))' + One(Head(buf), ReportsOf(q)) /\ Unread(ReportsOf(q))' \in Nat
      BY <1>1, <1>5, UnreadChange
    <3> QED
      BY <1>4, <3>1, <3>2
  <2> QED
    BY <1>1, <1>7, <2>1 DEF SlotInv, ReportedOnce, monitorVars
<1> QED
  BY <1>2, <1>4, <1>8, <1>9, <1>10 DEF SlotInv

\* A monitor reports its end once, and its slot is still there (server.c:186-192).
LEMMA NotifyKeepsAccount ==
  ASSUME TypeOK, SlotInv, NEW p \in Pids, MonitorNotifies(p)
  PROVE  SlotInv'
<1>1. /\ monitor_pc[p] = "notify" /\ monitor_pc' = [monitor_pc EXCEPT ![p] = "exited"]
      /\ server_fifo' = Append(server_fifo, FinishedBy(p))
      /\ UNCHANGED <<buf, active_tasks, monitor_task>>
  BY DEF MonitorNotifies, MonitorGoesTo, FinishedBy, serverVars, taskVars
<1>2. monitor_pc'[p] = "exited" /\ \A q \in Pids \ {p} : monitor_pc'[q] = monitor_pc[q]
  BY <1>1 DEF TypeOK
<1>3. SlotsOf(p) # {}
  BY <1>1 DEF SlotInv, UnreportedHaveSlots, Unreported, MonitorAlive
<1>4. \A q : SlotsOf(q)' = SlotsOf(q)
  BY <1>1 DEF SlotsOf
<1>5. OneSlotEach' /\ UnreportedHaveSlots'
  BY <1>1, <1>2, <1>4 DEF SlotInv, OneSlotEach, UnreportedHaveSlots, Unreported, MonitorAlive
<1>6. SlotsAreOwned'
  <2>1. \A i \in Slots : active_tasks[i] # NULL => active_tasks[i].monitor \in Pids
    BY DEF TypeOK, ActiveTask
  <2> QED
    BY <1>1, <1>2, <2>1 DEF SlotInv, SlotsAreOwned
<1>7. ReportedOnce'
  <2>1. FinishedBy(p) \in Messages
    BY DEF FinishedBy, Messages
  <2>2. \A q \in Pids : Unread(ReportsOf(q))' = Unread(ReportsOf(q)) + IF p = q THEN 1 ELSE 0
    BY <1>1, <2>1, UnreadChange, WhoIsNamed
  <2>3. Unread(ReportsOf(p)) = 0
    BY <1>1 DEF SlotInv, ReportedOnce
  <2>4. ASSUME NEW q \in Pids \ {p}
        PROVE  Unread(ReportsOf(q))' = Unread(ReportsOf(q))
    <3>1. Unread(ReportsOf(q))' = Unread(ReportsOf(q)) + 0
      BY <2>2
    <3>2. Unread(ReportsOf(q)) \in Nat
      BY UnreadChange
    <3> HIDE DEF Unread
    <3> QED
      BY <3>1, <3>2
  <2> QED
    BY <1>2, <1>3, <1>4, <2>2, <2>3, <2>4 DEF SlotInv, ReportedOnce
<1> QED
  BY <1>5, <1>6, <1>7 DEF SlotInv

\* As long as the slots stay and no monitor ends by reporting, it is enough that
\* the unread messages stay as many as they were.
LEMMA OthersKeepAccount ==
  ASSUME TypeOK, SlotInv, UNCHANGED <<active_tasks, monitor_task>>,
         \A p \in Pids : \/ monitor_pc'[p] = monitor_pc[p]
                         \/ MonitorAlive(p) /\ Unreported(p)'
                            /\ monitor_pc'[p] \notin {"none", "exited"},
         \A p \in Pids : Unread(ReportsOf(p))' = Unread(ReportsOf(p))
  PROVE  SlotInv'
<1>1. \A q : SlotsOf(q)' = SlotsOf(q)
  BY DEF SlotsOf
<1>2. \A i \in Slots : active_tasks[i] # NULL => active_tasks[i].monitor \in Pids
  BY DEF TypeOK, ActiveTask
<1>3. OneSlotEach' /\ SlotsAreOwned'
  BY <1>2 DEF SlotInv, OneSlotEach, SlotsAreOwned
<1>4. UnreportedHaveSlots'
  BY <1>1 DEF SlotInv, UnreportedHaveSlots, Unreported, MonitorAlive
<1>5. ReportedOnce'
  BY <1>1 DEF SlotInv, ReportedOnce, MonitorAlive
<1> QED
  BY <1>3, <1>4, <1>5 DEF SlotInv

\* Every step keeps the invariant.
LEMMA NextAccountInv == AccountInv /\ [Next]_vars => AccountInv'
<1> SUFFICES ASSUME AccountInv, [Next]_vars
             PROVE  AccountInv'
  OBVIOUS
<1>1. TypeInv' /\ BufferInUse' /\ TypeOK /\ SlotInv /\ BufferInUse
  BY NextTypeInv, StepKeepsBufferInUse DEF AccountInv, SlotInv, TypeInv
<1> SUFFICES SlotInv'
  BY <1>1 DEF AccountInv, SlotInv
<1>2. CASE DispatchTask
  BY <1>1, <1>2, DispatchKeepsAccount
<1>3. CASE FinishTask
  BY <1>1, <1>3, FinishKeepsAccount
<1>4. CASE ServerReads
  <2>1. /\ UNCHANGED <<active_tasks, monitorVars>>
        /\ buf = << >>
        /\ \/ buf' = server_fifo /\ server_fifo' = << >>
           \/ UNCHANGED <<server_fifo, buf>>
    BY <1>1, <1>4 DEF ServerReads, Receive, BufferInUse, taskVars
  <2>2. \A p \in Pids : Unread(ReportsOf(p))' = Unread(ReportsOf(p))
    BY <1>1, <2>1, UnreadChange
  <2> QED
    BY <1>1, <2>1, <2>2, OthersKeepAccount DEF monitorVars
<1>5. CASE ReplyWritten
  <2>1. /\ UNCHANGED <<active_tasks, monitorVars, server_fifo>>
        /\ buf # << >> /\ buf' = Tail(buf) /\ Head(buf).kind = "REQUEST"
    BY <1>1, <1>5 DEF ReplyWritten, BufferInUse, taskVars, sharedVars
  <2>2. Head(buf) \in Messages
    BY <1>1, <2>1, SequenceTypes DEF TypeOK
  <2>3. ASSUME NEW p \in Pids
        PROVE  Unread(ReportsOf(p))' = Unread(ReportsOf(p))
    <3>1. One(Head(buf), ReportsOf(p)) = 0
      BY <2>1, <2>2, WhoIsNamed
    <3>2. Unread(ReportsOf(p)) = Unread(ReportsOf(p))' + One(Head(buf), ReportsOf(p)) /\ Unread(ReportsOf(p))' \in Nat
      BY <1>1, <2>1, UnreadChange
    <3> QED
      BY <3>1, <3>2
  <2> QED
    BY <1>1, <2>1, <2>3, OthersKeepAccount DEF monitorVars
<1>6. ASSUME NEW p \in Pids, MonitorNotifies(p)
      PROVE  SlotInv'
  BY <1>1, <1>6, NotifyKeepsAccount
<1>7. ASSUME NEW c \in Clients, ClientWrites(c)
      PROVE  SlotInv'
  <2>1. PICK cmd \in Commands :
          server_fifo' = Append(server_fifo, [kind |-> "REQUEST", client |-> c, cmd |-> cmd])
    BY <1>7 DEF ClientWrites
  <2>2. UNCHANGED <<buf, active_tasks, monitorVars>>
    BY <1>7 DEF ClientWrites, serverVars, taskVars
  <2> DEFINE m == [kind |-> "REQUEST", client |-> c, cmd |-> cmd]
  <2>3. m \in Messages /\ m.kind = "REQUEST"
    BY DEF Messages
  <2> HIDE DEF m
  <2>4. ASSUME NEW p \in Pids
        PROVE  Unread(ReportsOf(p))' = Unread(ReportsOf(p))
    <3>1. One(m, ReportsOf(p)) = 0
      BY <2>3, WhoIsNamed
    <3>2. Unread(ReportsOf(p))' = Unread(ReportsOf(p)) + One(m, ReportsOf(p)) /\ Unread(ReportsOf(p)) \in Nat
      BY <1>1, <2>1, <2>2, <2>3, UnreadChange DEF m
    <3> QED
      BY <3>1, <3>2
  <2> QED
    BY <1>1, <2>2, <2>4, OthersKeepAccount DEF monitorVars
<1>8. CASE /\ ~DispatchTask /\ ~FinishTask /\ ~ServerReads /\ ~ReplyWritten
           /\ \A p \in Pids : ~MonitorNotifies(p)
           /\ \A c \in Clients : ~ClientWrites(c)
  <2>1. /\ UNCHANGED <<server_fifo, buf, active_tasks, monitor_task>>
        /\ \A p \in Pids : \/ monitor_pc'[p] = monitor_pc[p]
                           \/ MonitorAlive(p) /\ Unreported(p)'
                              /\ monitor_pc'[p] \notin {"none", "exited"}
    BY <1>1, <1>8, OtherSteps
  <2>2. \A p \in Pids : Unread(ReportsOf(p))' = Unread(ReportsOf(p))
    BY <1>1, <2>1, UnreadChange
  <2> QED
    BY <1>1, <2>1, <2>2, OthersKeepAccount
<1> QED
  BY <1>2, <1>3, <1>4, <1>5, <1>6, <1>7, <1>8

-----------------------------------------------------------------------------
(* What follows *)

\* The invariant says what FinishAccounted says by cardinalities.
LEMMA AccountInvImplies == AccountInv => FinishAccounted
<1> SUFFICES ASSUME AccountInv, NEW p \in Pids
             PROVE  /\ Cardinality(SlotsOf(p)) <= 1
                    /\ MonitorAlive(p) \/ monitor_pc[p] = "died" =>
                         /\ SlotsOf(p) # {}
                         /\ \A i \in SlotsOf(p) : active_tasks[i].task = monitor_task[p]
                    /\ FinishedIn(server_fifo \o buf, p) =
                         IF monitor_pc[p] = "exited" THEN Cardinality(SlotsOf(p)) ELSE 0
  BY DEF FinishAccounted
<1>1. Cardinality(SlotsOf(p)) = IF SlotsOf(p) = {} THEN 0 ELSE 1
  <2>1. CASE SlotsOf(p) = {}
    BY <2>1, FS_EmptySet
  <2>2. CASE SlotsOf(p) # {}
    <3>1. PICK i \in SlotsOf(p) : TRUE
      BY <2>2
    <3>2. SlotsOf(p) = {i}
      BY <3>1 DEF SlotsOf, AccountInv, OneSlotEach
    <3> QED
      BY <2>2, <3>2, FS_Singleton
  <2> QED
    BY <2>1, <2>2
<1>2. FinishedIn(server_fifo \o buf, p) = Unread(ReportsOf(p))
  <2>1. server_fifo \in Seq(Messages) /\ buf \in Seq(Messages)
    BY DEF AccountInv, TypeInv, TypeOK
  <2>2. Count(server_fifo \o buf, ReportsOf(p)) = Unread(ReportsOf(p))
    BY <2>1, CountConcat DEF Unread
  <2>3. server_fifo \o buf \in Seq(Messages)
    BY <2>1, SequenceTypes
  <2>4. DOMAIN (server_fifo \o buf) = 1 .. Len(server_fifo \o buf)
    BY <2>3
  <2>5. {i \in DOMAIN (server_fifo \o buf) :
           (server_fifo \o buf)[i] = [kind |-> "FINISHED_TASK", pid |-> p]} =
        Positions(server_fifo \o buf, ReportsOf(p))
    BY <2>4 DEF Positions, FinishedBy, ReportsOf
  <2> QED
    BY <2>2, <2>5 DEF FinishedIn, Count
<1>3. \A i \in SlotsOf(p) : active_tasks[i].task = monitor_task[p]
  BY DEF SlotsOf, AccountInv, SlotsAreOwned
<1>4. Unreported(p) => SlotsOf(p) # {}
  BY DEF AccountInv, UnreportedHaveSlots
<1>5. Unread(ReportsOf(p)) = IF monitor_pc[p] = "exited" /\ SlotsOf(p) # {} THEN 1 ELSE 0
  BY DEF AccountInv, ReportedOnce
<1> QED
  BY <1>1, <1>2, <1>3, <1>4, <1>5 DEF Unreported

\* The inductive invariant holds in every reachable state.
LEMMA AccountInvAlways == Spec => []AccountInv
<1>1. Init => AccountInv
  BY InitAccountInv
<1>2. AccountInv /\ [Next]_vars => AccountInv'
  BY NextAccountInv
<1> QED
  BY <1>1, <1>2, PTL DEF Spec

\* Every task in a slot has a monitor that will report its end, has reported it
\* once, or has died, and nobody reports what no slot holds (server.c:186-192,
\* 266-272), whatever is asked for, interrupted or signalled.
THEOREM FinishIsAccounted == Spec => []FinishAccounted
<1> QED
  BY AccountInvAlways, AccountInvImplies, PTL

-----------------------------------------------------------------------------
(***************************************************************************)
(* What a client is told.                                                  *)
(*                                                                         *)
(* The argument.  The request of a client is in exactly one place at a     *)
(* time, its stage: not sent, unread, being answered, in the queue, with a *)
(* monitor, or refused; and what its client has been told is a function of *)
(* the stage.  A stage is left only for the next one, so that the server   *)
(* and the monitor never write for the same client at the same time.       *)
(***************************************************************************)

RequestsOf(c) == {m \in Messages : m.kind = "REQUEST" /\ m.client = c}
QueuedOf(c) == {task \in queue : task.client = c}
MonitorsOf(c) == {p \in Pids : monitor_pc[p] # "none" /\ monitor_task[p].client = c}
OneQueued(c) == \E task \in Task : QueuedOf(c) = {task}
BeingAnswered(c) == server_pc \in {"replying", "waiting", "writing"} /\ reply.client = c
Unsent(c) == client_pc[c] \in {"init", "made", "connecting", "opened"}

\* The first n of the replies about a task, and how many of them have been
\* given when its monitor is at a control point.
Upto(n) == SubSeq(<<"pending", "processing", "completed">>, 1, n)
ToldAt(pc, n) ==
  \/ n = 1 /\ pc \in {"start", "died"}
  \/ n = 2 /\ pc \in {"running", "ran", "died"}
  \/ n = 3 /\ pc \in {"notify", "exited"}

NotSent(c) ==
  /\ client_pc[c] \in {"init", "made", "connecting", "opened", "refused", "gone"}
  /\ Unread(RequestsOf(c)) = 0 /\ ~BeingAnswered(c)
  /\ QueuedOf(c) = {} /\ MonitorsOf(c) = {}
  /\ Told(c) = << >>
NotRead(c) ==
  /\ ~Unsent(c)
  /\ Unread(RequestsOf(c)) = 1 /\ ~BeingAnswered(c)
  /\ QueuedOf(c) = {} /\ MonitorsOf(c) = {}
  /\ Told(c) = << >>
\* It is being answered, or the server has failed in it.
Heard(c) ==
  /\ ~Unsent(c)
  /\ Unread(RequestsOf(c)) = 1
  /\ BeingAnswered(c) \/ server_pc = "failed"
  /\ OneQueued(c) \/ QueuedOf(c) = {}
  /\ BeingAnswered(c) => IF QueuedOf(c) = {} THEN reply.text \in {"impossible", "status"}
                                             ELSE reply.text = "pending"
  /\ MonitorsOf(c) = {}
  /\ Told(c) = << >>
Waiting(c) ==
  /\ ~Unsent(c)
  /\ Unread(RequestsOf(c)) = 0 /\ ~BeingAnswered(c)
  /\ OneQueued(c)
  /\ MonitorsOf(c) = {}
  /\ Told(c) = Upto(1)
Served(c) ==
  /\ ~Unsent(c)
  /\ Unread(RequestsOf(c)) = 0 /\ ~BeingAnswered(c)
  /\ QueuedOf(c) = {}
  /\ \E p \in Pids : /\ MonitorsOf(c) = {p}
                     /\ \E n \in 1..3 : ToldAt(monitor_pc[p], n) /\ Told(c) = Upto(n)
Refused(c) ==
  /\ ~Unsent(c)
  /\ Unread(RequestsOf(c)) = 0 /\ ~BeingAnswered(c)
  /\ QueuedOf(c) = {} /\ MonitorsOf(c) = {}
  /\ Told(c) \in {<<"impossible">>, <<"status">>}

Stage(c) == NotSent(c) \/ NotRead(c) \/ Heard(c) \/ Waiting(c) \/ Served(c) \/ Refused(c)

\* The message that is being answered is the request of the client answered.
ReplyIsForHead ==
  server_pc \in {"replying", "waiting", "writing"} => Head(buf) \in RequestsOf(reply.client)

ReplyInv ==
  /\ AccountInv
  /\ ReplyIsForHead
  /\ \A c \in Clients : Stage(c)

-----------------------------------------------------------------------------
(* What is told *)

\* The beginnings of a sequence of three.
LEMMA Prefixes ==
  ASSUME NEW S, NEW a \in S, NEW b \in S, NEW c \in S
  PROVE  /\ SubSeq(<<a, b, c>>, 1, 0) = << >> /\ SubSeq(<<a, b, c>>, 1, 1) = <<a>>
         /\ SubSeq(<<a, b, c>>, 1, 2) = <<a, b>> /\ SubSeq(<<a, b, c>>, 1, 3) = <<a, b, c>>
         /\ Append(<<a>>, b) = <<a, b>> /\ Append(<<a, b>>, c) = <<a, b, c>>
<1> DEFINE s == <<a, b, c>>
<1>1. s \in Seq(S) /\ Len(s) = 3 /\ s[1] = a /\ s[2] = b /\ s[3] = c
  OBVIOUS
<1>2. <<a>> \in Seq(S) /\ Len(<<a>>) = 1 /\ <<a>>[1] = a
  OBVIOUS
<1>3. <<a, b>> \in Seq(S) /\ Len(<<a, b>>) = 2 /\ <<a, b>>[1] = a /\ <<a, b>>[2] = b
  OBVIOUS
<1>4. SubSeq(s, 1, 0) = << >>
  BY SubSeqEmpty
<1> HIDE DEF s
<1>5. ASSUME NEW n \in 1 .. 3, NEW t \in Seq(S), Len(t) = n, \A i \in 1 .. n : t[i] = s[i]
      PROVE  SubSeq(s, 1, n) = t
  <2>1. \A i \in 1 .. n : s[i] \in S
    BY <1>1
  <2>2. /\ SubSeq(s, 1, n) \in Seq(S) /\ Len(SubSeq(s, 1, n)) = IF 1 <= n THEN n - 1 + 1 ELSE 0
        /\ \A i \in 1 .. n - 1 + 1 : SubSeq(s, 1, n)[i] = s[1 + i - 1]
    BY <2>1, SubSeqProperties
  <2> QED
    BY <1>5, <2>2, SeqEqual
<1>6. SubSeq(s, 1, 1) = <<a>>
  <2> DEFINE t == <<a>>
  <2>1. t \in Seq(S) /\ Len(t) = 1 /\ \A i \in 1 .. 1 : t[i] = s[i]
    BY <1>1, <1>2
  <2> HIDE DEF t
  <2>2. SubSeq(s, 1, 1) = t
    BY <1>5, <2>1
  <2> QED
    BY <2>2 DEF t
<1>7. SubSeq(s, 1, 2) = <<a, b>>
  <2> DEFINE t == <<a, b>>
  <2>1. t \in Seq(S) /\ Len(t) = 2 /\ \A i \in 1 .. 2 : t[i] = s[i]
    BY <1>1, <1>3
  <2> HIDE DEF t
  <2>2. SubSeq(s, 1, 2) = t
    BY <1>5, <2>1
  <2> QED
    BY <2>2 DEF t
<1>8. SubSeq(s, 1, 3) = s
  BY <1>1, <1>5
<1>9. ASSUME NEW t \in Seq(S), NEW e \in S
      PROVE  /\ Append(t, e) \in Seq(S) /\ Len(Append(t, e)) = Len(t) + 1
             /\ Append(t, e)[Len(t) + 1] = e
             /\ \A i \in 1 .. Len(t) : Append(t, e)[i] = t[i]
  OBVIOUS
<1>10. Append(<<a>>, b) = <<a, b>>
  <2>1. /\ Append(<<a>>, b) \in Seq(S) /\ Len(Append(<<a>>, b)) = 2
        /\ Append(<<a>>, b)[1] = a /\ Append(<<a>>, b)[2] = b
    BY <1>2, <1>9
  <2>2. \A i \in 1 .. 2 : Append(<<a>>, b)[i] = <<a, b>>[i]
    BY <2>1, <1>3
  <2> QED
    BY <1>3, <2>1, <2>2, SeqEqual
<1>11. Append(<<a, b>>, c) = s
  <2>1. /\ Append(<<a, b>>, c) \in Seq(S) /\ Len(Append(<<a, b>>, c)) = 3
        /\ Append(<<a, b>>, c)[1] = a /\ Append(<<a, b>>, c)[2] = b
        /\ Append(<<a, b>>, c)[3] = c
    BY <1>3, <1>9
  <2>2. \A i \in 1 .. 3 : Append(<<a, b>>, c)[i] = s[i]
    BY <2>1, <1>1
  <2> QED
    BY <1>1, <2>1, <2>2, SeqEqual
<1> QED
  BY <1>4, <1>6, <1>7, <1>8, <1>10, <1>11 DEF s

\* The replies about a task, one by one.
LEMMA UptoValues ==
  /\ Upto(1) = <<"pending">>
  /\ Append(Upto(1), "processing") = Upto(2)
  /\ Append(Upto(2), "completed") = Upto(3)
  /\ Upto(0) = << >>
<1> DEFINE a == "pending"
           b == "processing"
           c == "completed"
<1>1. a \in Replies /\ b \in Replies /\ c \in Replies
  BY DEF Replies
<1> HIDE DEF a, b, c
<1>2. /\ SubSeq(<<a, b, c>>, 1, 0) = << >> /\ SubSeq(<<a, b, c>>, 1, 1) = <<a>>
      /\ SubSeq(<<a, b, c>>, 1, 2) = <<a, b>> /\ SubSeq(<<a, b, c>>, 1, 3) = <<a, b, c>>
      /\ Append(<<a>>, b) = <<a, b>> /\ Append(<<a, b>>, c) = <<a, b, c>>
  BY <1>1, Prefixes
<1>3. /\ SubSeq(<<a, b, c>>, 1, 0) = << >> /\ SubSeq(<<a, b, c>>, 1, 1) = <<a>>
      /\ Append(SubSeq(<<a, b, c>>, 1, 1), b) = SubSeq(<<a, b, c>>, 1, 2)
      /\ Append(SubSeq(<<a, b, c>>, 1, 2), c) = SubSeq(<<a, b, c>>, 1, 3)
  BY <1>2
<1> QED
  BY <1>3 DEF Upto, a, b, c

\* Writing to a client's FIFO and reading from it.
LEMMA ToldChange ==
  ASSUME TypeOK, NEW c \in Clients
  PROVE  /\ \A d : \A text \in Replies :
              (/\ client_fifo' = [client_fifo EXCEPT ![d] = Append(@, text)]
               /\ UNCHANGED client_out) =>
              Told(c)' = IF c = d THEN Append(Told(c), text) ELSE Told(c)
         /\ UNCHANGED <<client_fifo, client_out>> => Told(c)' = Told(c)
         /\ \A d :
              (/\ client_out' = [client_out EXCEPT ![d] = @ \o client_fifo[d]]
               /\ client_fifo' = [client_fifo EXCEPT ![d] = << >>]) => Told(c)' = Told(c)
<1>1. /\ client_fifo \in [Clients -> Seq(Replies)] /\ client_out \in [Clients -> Seq(Replies)]
      /\ client_fifo[c] \in Seq(Replies) /\ client_out[c] \in Seq(Replies)
  BY DEF TypeOK
<1>2. Told(c)' = client_out'[c] \o client_fifo'[c]
  BY DEF Told
<1>3. ASSUME NEW d, NEW text \in Replies,
             client_fifo' = [client_fifo EXCEPT ![d] = Append(@, text)], UNCHANGED client_out
      PROVE  Told(c)' = IF c = d THEN Append(Told(c), text) ELSE Told(c)
  <2>1. client_fifo'[c] = IF c = d THEN Append(client_fifo[c], text) ELSE client_fifo[c]
    BY <1>1, <1>3
  <2>2. \A a, b \in Seq(Replies) : a \o Append(b, text) = Append(a \o b, text)
    OBVIOUS
  <2> QED
    BY <1>1, <1>2, <1>3, <2>1, <2>2 DEF Told
<1>4. ASSUME NEW d,
             client_out' = [client_out EXCEPT ![d] = @ \o client_fifo[d]],
             client_fifo' = [client_fifo EXCEPT ![d] = << >>]
      PROVE  Told(c)' = Told(c)
  <2>1. CASE c = d
    <3>1. client_out'[c] = Told(c) /\ client_fifo'[c] = << >>
      BY <1>1, <1>4, <2>1 DEF Told
    <3>2. Told(c) \in Seq(Replies)
      BY <1>1, SequenceTypes DEF Told
    <3>3. \A a \in Seq(Replies) : a \o << >> = a
      OBVIOUS
    <3> QED
      BY <1>2, <3>1, <3>2, <3>3
  <2>2. CASE c # d
    <3>1. client_out'[c] = client_out[c] /\ client_fifo'[c] = client_fifo[c]
      BY <1>1, <1>4, <2>2
    <3> QED
      BY <1>2, <3>1 DEF Told
  <2> QED
    BY <2>1, <2>2
<1> QED
  BY <1>2, <1>3, <1>4 DEF Told

-----------------------------------------------------------------------------
(* Steps that leave a client's stage alone *)

\* The client sends nothing and does not forget that it has.
KeepsClient(c) ==
  \/ client_pc'[c] = client_pc[c]
  \/ Unsent(c) /\ client_pc'[c] \in {"made", "connecting", "opened", "refused", "gone"}
  \/ /\ client_pc[c] \notin {"init", "made", "connecting", "opened", "refused", "gone"}
     /\ client_pc'[c] \notin {"init", "made", "connecting", "opened"}

\* An answer does not begin and ends only with the server.
KeepsAnswers ==
  /\ server_pc' \in {"replying", "waiting", "writing"} =>
       server_pc \in {"replying", "waiting", "writing"} /\ UNCHANGED reply
  /\ server_pc \in {"replying", "waiting", "writing"} => server_pc' \in {"replying", "waiting", "writing", "failed"}
  /\ server_pc = "failed" => server_pc' = "failed"

\* The same of one client: whether it is being answered, and what.
KeepsAnswer(c) ==
  /\ BeingAnswered(c)' => BeingAnswered(c) /\ UNCHANGED reply
  /\ BeingAnswered(c) => BeingAnswered(c)' \/ server_pc' = "failed"
  /\ server_pc = "failed" => server_pc' = "failed"

\* What holds of all clients holds of one.
LEMMA AnswersKept == ASSUME NEW c, KeepsAnswers PROVE KeepsAnswer(c)
  BY DEF KeepsAnswers, KeepsAnswer, BeingAnswered

\* A monitor goes on without a word to its client, or dies.
Silent(from, to) ==
  \/ from = to
  \/ from = "start" /\ to = "died"
  \/ from = "running" /\ to \in {"ran", "died"}
  \/ from = "ran" /\ to = "died"
  \/ from = "notify" /\ to = "exited"

\* The stage depends on the request, the queue, the answer, the monitor and the
\* replies of this client only.
LEMMA StageFrame ==
  ASSUME NEW c \in Clients, Stage(c), KeepsClient(c), KeepsAnswer(c),
         Unread(RequestsOf(c))' = Unread(RequestsOf(c)),
         QueuedOf(c)' = QueuedOf(c), MonitorsOf(c)' = MonitorsOf(c),
         \A p \in MonitorsOf(c) : Silent(monitor_pc[p], monitor_pc'[p]),
         Told(c)' = Told(c)
  PROVE  Stage(c)'
<1>1. NotSent(c) => NotSent(c)'
  BY DEF NotSent, KeepsClient, KeepsAnswer, BeingAnswered, Unsent
<1>2. NotRead(c) => NotRead(c)'
  BY DEF NotRead, KeepsClient, KeepsAnswer, BeingAnswered, Unsent
<1>3. Heard(c) => Heard(c)'
  BY DEF Heard, OneQueued, KeepsClient, KeepsAnswer, BeingAnswered, Unsent
<1>4. Waiting(c) => Waiting(c)'
  BY DEF Waiting, OneQueued, KeepsClient, KeepsAnswer, BeingAnswered, Unsent
<1>5. Served(c) => Served(c)'
  <2> SUFFICES ASSUME Served(c)
               PROVE  Served(c)'
    OBVIOUS
  <2>1. PICK p \in Pids, n \in 1..3 :
          MonitorsOf(c) = {p} /\ ToldAt(monitor_pc[p], n) /\ Told(c) = Upto(n)
    BY DEF Served
  <2>2. ToldAt(monitor_pc'[p], n)
    BY <2>1 DEF Silent, ToldAt
  <2>3. ~Unsent(c)' /\ ~BeingAnswered(c)' /\ QueuedOf(c)' = {} /\ Unread(RequestsOf(c))' = 0
    BY DEF Served, KeepsClient, KeepsAnswer, BeingAnswered, Unsent
  <2>4. Told(c)' = Upto(n) /\ MonitorsOf(c)' = {p}
    BY <2>1
  <2> QED
    BY <2>1, <2>2, <2>3, <2>4 DEF Served, Upto
<1>6. Refused(c) => Refused(c)'
  BY DEF Refused, KeepsClient, KeepsAnswer, BeingAnswered, Unsent
<1> QED
  BY <1>1, <1>2, <1>3, <1>4, <1>5, <1>6 DEF Stage

\* The steps that move no message, no task and no reply.
Moves ==
  \/ ServerReads \/ FinishTask \/ AnswerStatus \/ AdmitTask \/ ReplyWritten \/ DispatchTask
  \/ \E p \in Pids : MonitorOpens(p) \/ MonitorCompletes(p) \/ MonitorNotifies(p)
  \/ \E c \in Clients : ClientWrites(c) \/ ClientReadsReply(c)

\* The steps that concern no client.
LEMMA QuietSteps ==
  ASSUME TypeOK, [Next]_vars, ~Moves
  PROVE  /\ UNCHANGED <<server_fifo, buf, queue, client_fifo, client_out, monitor_task>>
         /\ KeepsAnswers
         /\ \A c \in Clients : KeepsClient(c)
         /\ \A p \in Pids : Silent(monitor_pc[p], monitor_pc'[p])
<1> DEFINE Goal == /\ UNCHANGED <<server_fifo, buf, queue, client_fifo, client_out, monitor_task>>
                   /\ KeepsAnswers
                   /\ \A c \in Clients : KeepsClient(c)
                   /\ \A p \in Pids : Silent(monitor_pc[p], monitor_pc'[p])
<1> USE DEF KeepsAnswers, KeepsClient, Silent, Unsent
<1>1. CASE ServerStep
  <2>1. CASE ReplyOpens
    <3>1. /\ UNCHANGED <<server_fifo, buf, queue, client_fifo, client_out, monitorVars, reply>>
          /\ server_pc = "replying" /\ server_pc' = "writing"
          /\ client_pc' = [client_pc EXCEPT ![reply.client] = "reading"]
          /\ client_pc[reply.client] \in {"opening", "reading"}
      BY <2>1 DEF ReplyOpens, ServerGoesTo, ClientListens, sharedVars, taskVars
    <3>2. \A c \in Clients : KeepsClient(c)
      BY <3>1 DEF TypeOK
    <3> QED
      BY <3>1, <3>2 DEF monitorVars
  <2>2. CASE ServerOpensForReading
    <3>1. /\ UNCHANGED <<server_fifo, buf, queue, client_fifo, client_out, monitorVars, reply>>
          /\ server_pc = "made" /\ server_pc' \in {"failed", "open_rd", "connected"}
      BY <2>2 DEF ServerOpensForReading, ServerGoesTo, sharedVars, taskVars
    <3>2. \A c \in Clients : KeepsClient(c)
      BY <2>2 DEF ServerOpensForReading, Connecting
    <3> QED
      BY <3>1, <3>2 DEF monitorVars
  <2>3. CASE ~ReplyOpens /\ ~ServerOpensForReading
    BY <1>1, <2>3 DEF Moves, ServerStep, ServerStart, HandlerRuns, ServerTestsFlag,
         ServerOpensForWriting, ServerCallsRead, ServerHasRead, ParseFails, ReplyWaits,
         ReplyFindsNoClient, ReplyBreaksPipe, CheckExit, DispatchFindsNoSlot, DispatchEnds,
         ServerGoesTo, ProcessingProcFile, Processing, Dispatching, sharedVars, taskVars,
         monitorVars, clientVars
  <2> QED
    BY <2>1, <2>2, <2>3
<1>2. CASE Signal
  BY <1>2 DEF Signal, SignalBetweenCalls, SignalInOpen, SignalInRead, SignalInReply,
       ChildRestartsOpen, Interrupted, ServerGoesTo, Stopped, sharedVars, taskVars,
       monitorVars, clientVars
<1>3. ASSUME NEW p \in Pids, MonitorStep(p)
      PROVE  Goal
  BY <1>3 DEF Moves, MonitorStep, MonitorFindsNoClient, MonitorRunsPipeline,
       MonitorBreaksPipe, MonitorGoesTo, TypeOK, sharedVars, serverVars, taskVars, clientVars
<1>4. ASSUME NEW d \in Clients, ClientStart(d) \/ ClientStep(d) \/ ClientInterrupted(d)
      PROVE  Goal
  BY <1>4 DEF Moves, ClientStart, ClientStep, ClientInterrupted, ClientFindsNoServer,
       ClientWaitsForServer, ClientOpensServer, ClientMeetsServer, ClientBreaksPipe,
       ClientNamesFifo, ClientOpensOwn, ClientMeetsReply, ServerWaitsFor, ClientEnds,
       GoTo, TypeOK, sharedVars, serverVars, taskVars, monitorVars
<1>5. CASE UNCHANGED vars
  BY <1>5 DEF vars, sharedVars, serverVars, taskVars, monitorVars, clientVars
<1> QED
  BY <1>1, <1>2, <1>3, <1>4, <1>5 DEF Next

-----------------------------------------------------------------------------
(* Steps that move a message *)

\* Which messages are requests of whom.
LEMMA WhoAsks ==
  ASSUME NEW c \in Clients, NEW m \in Messages
  PROVE  /\ m.kind = "REQUEST" => One(m, RequestsOf(c)) = IF m.client = c THEN 1 ELSE 0
         /\ m.kind = "REQUEST" /\ m.client = c <=> m \in RequestsOf(c)
         /\ m.kind # "REQUEST" => One(m, RequestsOf(c)) = 0
  BY DEF One, RequestsOf

StageInv ==
  TypeInv /\ BufferInUse /\ ReplyIsForHead /\ \A c \in Clients : Stage(c)

\* The sets that a stage speaks of change with their variables only.
LEMMA SameSets ==
  ASSUME NEW c
  PROVE  /\ UNCHANGED queue => QueuedOf(c)' = QueuedOf(c)
         /\ UNCHANGED monitorVars => MonitorsOf(c)' = MonitorsOf(c)
         /\ UNCHANGED monitorVars => \A p \in Pids : Silent(monitor_pc[p], monitor_pc'[p])
         /\ (/\ UNCHANGED monitor_task
             /\ \A p \in Pids : Silent(monitor_pc[p], monitor_pc'[p])) =>
              MonitorsOf(c)' = MonitorsOf(c)
  BY DEF QueuedOf, MonitorsOf, monitorVars, Silent

\* A read moves all messages from the FIFO to the buffer; the message of a monitor
\* that has finished is nobody's request; a client prints what it was told.
LEMMA FramesKeepStages ==
  ASSUME StageInv, [Next]_vars,
         \/ ServerReads \/ FinishTask \/ ~Moves
         \/ \E p \in Pids : MonitorNotifies(p)
         \/ \E c \in Clients : ClientReadsReply(c)
  PROVE  \A c \in Clients : Stage(c)'
<1> SUFFICES ASSUME NEW c \in Clients
             PROVE  Stage(c)'
  OBVIOUS
<1>1. TypeOK /\ Stage(c)
  BY DEF StageInv, TypeInv
<1>2. CASE ServerReads
  <2>1. /\ UNCHANGED <<queue, reply, monitorVars, client_pc, client_fifo, client_out>>
        /\ server_pc = "reading" /\ server_pc' \in {"processing", "failed"}
        /\ buf = << >>
        /\ \/ buf' = server_fifo /\ server_fifo' = << >>
           \/ UNCHANGED <<server_fifo, buf>>
    BY <1>2 DEF StageInv, ServerReads, Receive, ServerGoesTo, BufferInUse, taskVars, clientVars
  <2>2. Unread(RequestsOf(c))' = Unread(RequestsOf(c))
    BY <1>1, <2>1, UnreadChange
  <2>3. Told(c)' = Told(c)
    BY <1>1, <2>1, ToldChange
  <2>4. KeepsClient(c) /\ KeepsAnswers
    BY <2>1 DEF KeepsClient, KeepsAnswers
  <2> QED
    BY <1>1, <2>1, <2>2, <2>3, <2>4, SameSets, AnswersKept, StageFrame DEF MonitorsOf
<1>3. CASE FinishTask
  <2>1. /\ UNCHANGED <<queue, reply, monitorVars, client_pc, client_fifo, client_out, server_fifo>>
        /\ server_pc = "processing" /\ server_pc' \in {"processing", "failed"}
        /\ buf # << >> /\ Head(buf).kind = "FINISHED_TASK"
        /\ buf' = Tail(buf) \/ UNCHANGED buf
    BY <1>3 DEF FinishTask, Processing, ServerGoesTo, clientVars, sharedVars
  <2>2. Head(buf) \in Messages
    BY <1>1, <2>1, SequenceTypes DEF TypeOK
  <2>3. One(Head(buf), RequestsOf(c)) = 0
    BY <2>1, <2>2, WhoAsks
  <2>4. Unread(RequestsOf(c))' = Unread(RequestsOf(c))
    <3>1. buf' = Tail(buf) =>
            /\ Unread(RequestsOf(c)) = Unread(RequestsOf(c))' + One(Head(buf), RequestsOf(c))
            /\ Unread(RequestsOf(c))' \in Nat
      BY <1>1, <2>1, UnreadChange
    <3>2. UNCHANGED buf => Unread(RequestsOf(c))' = Unread(RequestsOf(c))
      BY <1>1, <2>1, UnreadChange
    <3> QED
      BY <2>1, <2>3, <3>1, <3>2
  <2>5. Told(c)' = Told(c)
    BY <1>1, <2>1, ToldChange
  <2>6. KeepsClient(c) /\ KeepsAnswers
    BY <2>1 DEF KeepsClient, KeepsAnswers
  <2> QED
    BY <1>1, <2>1, <2>4, <2>5, <2>6, SameSets, AnswersKept, StageFrame DEF MonitorsOf
<1>4. CASE ~Moves
  <2>1. /\ UNCHANGED <<server_fifo, buf, queue, client_fifo, client_out, monitor_task>>
        /\ KeepsAnswers /\ KeepsClient(c)
        /\ \A p \in Pids : Silent(monitor_pc[p], monitor_pc'[p])
    BY <1>1, <1>4, QuietSteps
  <2>2. Unread(RequestsOf(c))' = Unread(RequestsOf(c)) /\ Told(c)' = Told(c)
    BY <1>1, <2>1, UnreadChange, ToldChange
  <2> QED
    BY <1>1, <2>1, <2>2, SameSets, AnswersKept, StageFrame DEF MonitorsOf
<1>5. ASSUME NEW p \in Pids, MonitorNotifies(p)
      PROVE  Stage(c)'
  <2>1. /\ UNCHANGED <<queue, reply, server_pc, buf, monitor_task, client_pc, client_fifo, client_out>>
        /\ monitor_pc[p] = "notify" /\ monitor_pc' = [monitor_pc EXCEPT ![p] = "exited"]
        /\ server_fifo' = Append(server_fifo, FinishedBy(p))
    BY <1>5 DEF MonitorNotifies, MonitorGoesTo, FinishedBy, serverVars, taskVars, clientVars
  <2>2. FinishedBy(p) \in Messages /\ FinishedBy(p).kind # "REQUEST"
    BY DEF FinishedBy, Messages
  <2>3. Unread(RequestsOf(c))' = Unread(RequestsOf(c))
    <3>1. One(FinishedBy(p), RequestsOf(c)) = 0
      BY <2>2, WhoAsks
    <3>2. /\ Unread(RequestsOf(c))' = Unread(RequestsOf(c)) + One(FinishedBy(p), RequestsOf(c))
          /\ Unread(RequestsOf(c)) \in Nat
      BY <1>1, <2>1, <2>2, UnreadChange
    <3> QED
      BY <3>1, <3>2
  <2>4. \A q \in Pids : Silent(monitor_pc[q], monitor_pc'[q])
    BY <1>1, <2>1 DEF TypeOK, Silent
  <2>5. Told(c)' = Told(c)
    BY <1>1, <2>1, ToldChange
  <2>6. KeepsClient(c) /\ KeepsAnswers
    BY <2>1 DEF KeepsClient, KeepsAnswers
  <2> QED
    BY <1>1, <2>1, <2>3, <2>4, <2>5, <2>6, SameSets, AnswersKept, StageFrame DEF MonitorsOf
<1>6. ASSUME NEW d \in Clients, ClientReadsReply(d)
      PROVE  Stage(c)'
  <2>1. /\ UNCHANGED <<queue, reply, server_pc, buf, server_fifo, monitorVars, client_pc>>
        /\ client_out' = [client_out EXCEPT ![d] = @ \o client_fifo[d]]
        /\ client_fifo' = [client_fifo EXCEPT ![d] = << >>]
    BY <1>6 DEF ClientReadsReply, sharedVars, serverVars, taskVars
  <2>2. Unread(RequestsOf(c))' = Unread(RequestsOf(c)) /\ Told(c)' = Told(c)
    BY <1>1, <2>1, UnreadChange, ToldChange
  <2>3. KeepsClient(c) /\ KeepsAnswers
    BY <2>1 DEF KeepsClient, KeepsAnswers
  <2> QED
    BY <1>1, <2>1, <2>2, <2>3, SameSets, AnswersKept, StageFrame DEF MonitorsOf
<1> QED
  BY <1>2, <1>3, <1>4, <1>5, <1>6

\* A request that is the next to be processed has not been counted in vain.
LEMMA HeadIsUnread ==
  ASSUME TypeOK, NEW CONSTANT M, buf # << >>, Head(buf) \in M
  PROVE  Unread(M) # 0
<1>1. server_fifo \in Seq(Messages) /\ buf \in Seq(Messages) /\ Tail(buf) \in Seq(Messages)
  BY SequenceTypes DEF TypeOK
<1>2. Count(buf, M) = Count(Tail(buf), M) + 1
  BY <1>1, CountTail DEF One
<1>3. Count(Tail(buf), M) \in Nat /\ Count(server_fifo, M) \in Nat
  BY <1>1, CountType
<1> QED
  BY <1>2, <1>3 DEF Unread

\* A client sends its request once (client.c:127-129).
LEMMA WriteKeepsStages ==
  ASSUME StageInv, NEW d \in Clients, ClientWrites(d), NEW c \in Clients
  PROVE  Stage(c)'
<1>1. TypeOK /\ Stage(c)
  BY DEF StageInv, TypeInv
<1>2. PICK cmd \in Commands :
        server_fifo' = Append(server_fifo, [kind |-> "REQUEST", client |-> d, cmd |-> cmd])
  BY DEF ClientWrites
<1>3. /\ UNCHANGED <<queue, reply, server_pc, buf, monitorVars, client_fifo, client_out>>
      /\ client_pc[d] = "opened" /\ client_pc' = [client_pc EXCEPT ![d] = "sent"]
  BY DEF ClientWrites, GoTo, serverVars, taskVars
<1> DEFINE m == [kind |-> "REQUEST", client |-> d, cmd |-> cmd]
<1>4. m \in Messages /\ m.kind = "REQUEST" /\ m.client = d
  BY DEF Messages
<1>5. server_fifo' = Append(server_fifo, m)
  BY <1>2
<1> HIDE DEF m
<1>6. /\ Unread(RequestsOf(c))' = Unread(RequestsOf(c)) + (IF d = c THEN 1 ELSE 0)
      /\ Unread(RequestsOf(c)) \in Nat
  <2>1. One(m, RequestsOf(c)) = IF d = c THEN 1 ELSE 0
    BY <1>4, WhoAsks
  <2>2. /\ Unread(RequestsOf(c))' = Unread(RequestsOf(c)) + One(m, RequestsOf(c))
        /\ Unread(RequestsOf(c)) \in Nat
    BY <1>1, <1>3, <1>4, <1>5, UnreadChange
  <2> QED
    BY <2>1, <2>2
<1>7. Told(c)' = Told(c) /\ KeepsAnswer(c) /\ QueuedOf(c)' = QueuedOf(c)
      /\ MonitorsOf(c)' = MonitorsOf(c)
  BY <1>1, <1>3, ToldChange, SameSets DEF KeepsAnswer, BeingAnswered
<1>8. CASE c = d
  <2>1. NotSent(c)
    BY <1>1, <1>3, <1>8 DEF Stage, NotRead, Heard, Waiting, Served, Refused, Unsent
  <2>2. ~Unsent(c)'
    BY <1>1, <1>3, <1>8 DEF Unsent, TypeOK
  <2>3. Unread(RequestsOf(c))' = 1
    BY <1>6, <1>8, <2>1 DEF NotSent
  <2>4. NotRead(c)'
    BY <1>7, <2>1, <2>2, <2>3 DEF NotSent, NotRead, KeepsAnswer
  <2> QED
    BY <2>4 DEF Stage
<1>9. CASE c # d
  <2>1. Unread(RequestsOf(c))' = Unread(RequestsOf(c))
    BY <1>6, <1>9
  <2>2. KeepsClient(c)
    BY <1>1, <1>3, <1>9 DEF KeepsClient, TypeOK
  <2>3. \A p \in MonitorsOf(c) : Silent(monitor_pc[p], monitor_pc'[p])
    BY <1>3, SameSets DEF MonitorsOf
  <2> QED
    BY <1>1, <1>7, <2>1, <2>2, <2>3, StageFrame
<1> QED
  BY <1>8, <1>9

\* What the server decides to answer (server.c:291, 339), and for whom.
LEMMA AnswerEffect ==
  ASSUME TypeOK, AnswerStatus \/ AdmitTask
  PROVE  /\ UNCHANGED <<server_fifo, buf, monitorVars, client_pc, client_fifo, client_out>>
         /\ server_pc = "processing" /\ server_pc' = "replying" /\ buf # << >>
         /\ \E d \in Clients, text \in Replies :
              /\ Head(buf) \in RequestsOf(d)
              /\ reply' = [client |-> d, text |-> text]
              /\ \/ text \in {"impossible", "status"} /\ UNCHANGED queue
                 \/ /\ text = "pending"
                    /\ \E task \in Task : task.client = d /\ queue' = queue \cup {task}
<1>1. /\ UNCHANGED <<server_fifo, buf, monitorVars, client_pc, client_fifo, client_out>>
      /\ server_pc = "processing" /\ server_pc' = "replying" /\ buf # << >>
      /\ Head(buf).kind = "REQUEST"
  BY DEF AnswerStatus, AdmitTask, ProcessingProcFile, Processing, Answer, ServerGoesTo,
         sharedVars, clientVars
<1>2. Head(buf) \in Messages
  BY <1>1, SequenceTypes DEF TypeOK
<1>3. PICK d \in Clients : d = Head(buf).client /\ Head(buf) \in RequestsOf(d)
  BY <1>1, <1>2 DEF Messages, RequestsOf
<1>4. CASE AnswerStatus
  <2>1. reply' = [client |-> d, text |-> "status"] /\ UNCHANGED queue
    BY <1>3, <1>4 DEF AnswerStatus, Answer, taskVars
  <2> QED
    BY <1>1, <1>3, <2>1 DEF Replies
<1>5. CASE AdmitTask
  <2>1. PICK task \in Task : task = TaskOf(Head(buf))
    BY <1>1, <1>2, <1>5, TaskOfType DEF AdmitTask
  <2>2. task.client = d
    BY <1>3, <2>1 DEF TaskOf
  <2>3. \/ queue' = queue \cup {task} /\ reply' = [client |-> d, text |-> "pending"]
        \/ UNCHANGED queue /\ reply' = [client |-> d, text |-> "impossible"]
    BY <1>5, <2>1, <2>2 DEF AdmitTask, Answer
  <2> QED
    BY <1>1, <1>3, <2>2, <2>3 DEF Replies
<1> QED
  BY <1>4, <1>5

\* A request that is about to be answered is new: its client has neither a task
\* in the queue nor a monitor.
LEMMA AnsweredIsNew ==
  ASSUME StageInv, AnswerStatus \/ AdmitTask, NEW c \in Clients, Head(buf) \in RequestsOf(c)
  PROVE  NotRead(c)
<1>1. TypeOK /\ Stage(c)
  BY DEF StageInv, TypeInv
<1>2. server_pc = "processing" /\ buf # << >>
  BY <1>1, AnswerEffect
<1>3. Unread(RequestsOf(c)) # 0
  BY <1>1, <1>2, HeadIsUnread
<1> QED
  BY <1>1, <1>2, <1>3 DEF Stage, NotSent, Heard, Waiting, Served, Refused, BeingAnswered

\* A request that is answered had not been read, and its task is the only one
\* of its client.
LEMMA AnswerKeepsStages ==
  ASSUME StageInv, AnswerStatus \/ AdmitTask, NEW c \in Clients
  PROVE  Stage(c)'
<1>1. TypeOK /\ Stage(c)
  BY DEF StageInv, TypeInv
<1>2. /\ UNCHANGED <<server_fifo, buf, monitorVars, client_pc, client_fifo, client_out>>
      /\ server_pc = "processing" /\ server_pc' = "replying" /\ buf # << >>
  BY <1>1, AnswerEffect
<1>3. PICK d \in Clients, text \in Replies :
        /\ Head(buf) \in RequestsOf(d)
        /\ reply' = [client |-> d, text |-> text]
        /\ \/ text \in {"impossible", "status"} /\ UNCHANGED queue
           \/ /\ text = "pending"
              /\ \E task \in Task : task.client = d /\ queue' = queue \cup {task}
  BY <1>1, AnswerEffect
<1>4. /\ Unread(RequestsOf(c))' = Unread(RequestsOf(c)) /\ Told(c)' = Told(c)
      /\ MonitorsOf(c)' = MonitorsOf(c)
  BY <1>1, <1>2, UnreadChange, ToldChange, SameSets
<1>5. reply'.client = d /\ reply'.text = text
  BY <1>3
<1>6. CASE c = d
  <2>1. NotRead(c)
    BY <1>3, <1>6, AnsweredIsNew
  <2>2. BeingAnswered(c)' /\ ~Unsent(c)'
    BY <1>2, <1>5, <1>6, <2>1 DEF BeingAnswered, NotRead, Unsent
  <2>3. \/ QueuedOf(c)' = {} /\ text \in {"impossible", "status"}
        \/ text = "pending" /\ QueuedOf(c)' # {} /\ OneQueued(c)'
    <3>1. CASE UNCHANGED queue /\ text \in {"impossible", "status"}
      BY <2>1, <3>1, SameSets DEF NotRead
    <3>2. ASSUME NEW task \in Task, task.client = d, queue' = queue \cup {task}
          PROVE  QueuedOf(c)' = {task} /\ OneQueued(c)'
      <4>1. QueuedOf(c)' = {task}
        BY <1>6, <2>1, <3>2 DEF NotRead, QueuedOf
      <4> QED
        BY <4>1 DEF OneQueued
    <3> QED
      BY <1>3, <3>1, <3>2
  <2>4. Heard(c)'
    BY <1>4, <1>5, <2>1, <2>2, <2>3 DEF Heard, NotRead
  <2> QED
    BY <2>4 DEF Stage
<1>7. CASE c # d
  <2>1. QueuedOf(c)' = QueuedOf(c)
    BY <1>3, <1>7 DEF QueuedOf
  <2>2. KeepsClient(c) /\ KeepsAnswer(c)
    BY <1>2, <1>5, <1>7 DEF KeepsClient, KeepsAnswer, BeingAnswered
  <2>3. \A p \in MonitorsOf(c) : Silent(monitor_pc[p], monitor_pc'[p])
    BY <1>2, SameSets DEF MonitorsOf
  <2> QED
    BY <1>1, <1>4, <2>1, <2>2, <2>3, StageFrame
<1> QED
  BY <1>6, <1>7

\* The reply is the first thing the client is told (server.c:292, 343).
LEMMA ReplyKeepsStages ==
  ASSUME StageInv, ReplyWritten, NEW c \in Clients
  PROVE  Stage(c)'
<1>1. TypeOK /\ Stage(c) /\ ReplyDue /\ ReplyIsForHead
  BY DEF StageInv, TypeInv
<1>2. /\ UNCHANGED <<server_fifo, queue, monitorVars, client_pc, client_out>>
      /\ server_pc = "writing" /\ server_pc' = "processing"
      /\ buf' = Tail(buf) /\ buf # << >>
  BY <1>1 DEF ReplyWritten, ReplyDue, ServerGoesTo, sharedVars, taskVars
<1>3. PICK d \in Clients, text \in Replies :
        /\ reply.client = d /\ reply.text = text /\ Head(buf) \in RequestsOf(d)
        /\ client_fifo' = [client_fifo EXCEPT ![d] = Append(@, text)]
  BY <1>1, <1>2 DEF ReplyWritten, ReplyDue, ReplyIsForHead
<1>4. /\ QueuedOf(c)' = QueuedOf(c) /\ MonitorsOf(c)' = MonitorsOf(c)
      /\ Told(c)' = IF c = d THEN Append(Told(c), text) ELSE Told(c)
  BY <1>1, <1>2, <1>3, ToldChange, SameSets
<1>5. /\ Unread(RequestsOf(c)) = Unread(RequestsOf(c))' + (IF d = c THEN 1 ELSE 0)
      /\ Unread(RequestsOf(c))' \in Nat
  <2>1. One(Head(buf), RequestsOf(c)) = IF d = c THEN 1 ELSE 0
    BY <1>3 DEF One, RequestsOf
  <2>2. /\ Unread(RequestsOf(c)) = Unread(RequestsOf(c))' + One(Head(buf), RequestsOf(c))
        /\ Unread(RequestsOf(c))' \in Nat
    BY <1>1, <1>2, UnreadChange
  <2> QED
    BY <2>1, <2>2
<1>6. ~BeingAnswered(c)'
  BY <1>2 DEF BeingAnswered
<1>7. CASE c = d
  <2>1. BeingAnswered(c)
    BY <1>2, <1>3, <1>7 DEF BeingAnswered
  <2>2. Heard(c)
    BY <1>1, <2>1 DEF Stage, NotSent, NotRead, Waiting, Served, Refused
  <2>3. Told(c)' = <<text>>
    BY <1>4, <1>7, <2>2 DEF Heard
  <2>4. Unread(RequestsOf(c))' = 0 /\ ~Unsent(c)'
    BY <1>2, <1>5, <1>7, <2>2 DEF Heard, Unsent
  <2>5. CASE QueuedOf(c) = {}
    <3>1. text \in {"impossible", "status"}
      BY <1>3, <2>1, <2>2, <2>5 DEF Heard
    <3>2. Refused(c)'
      BY <1>4, <1>6, <2>2, <2>3, <2>4, <2>5, <3>1 DEF Refused, Heard
    <3> QED
      BY <3>2 DEF Stage
  <2>6. CASE QueuedOf(c) # {}
    <3>1. text = "pending" /\ OneQueued(c)
      BY <1>3, <2>1, <2>2, <2>6 DEF Heard
    <3>2. Told(c)' = Upto(1)
      BY <2>3, <3>1, UptoValues
    <3>3. OneQueued(c)'
      BY <1>4, <3>1 DEF OneQueued
    <3>4. Waiting(c)'
      BY <1>4, <1>6, <2>2, <2>4, <3>2, <3>3 DEF Waiting, Heard, Upto
    <3> QED
      BY <3>4 DEF Stage
  <2> QED
    BY <2>5, <2>6
<1>8. CASE c # d
  <2>1. Unread(RequestsOf(c))' = Unread(RequestsOf(c))
    BY <1>1, <1>5, <1>8, UnreadChange
  <2>2. KeepsClient(c) /\ KeepsAnswer(c)
    BY <1>2, <1>3, <1>8 DEF KeepsClient, KeepsAnswer, BeingAnswered
  <2>3. \A p \in MonitorsOf(c) : Silent(monitor_pc[p], monitor_pc'[p])
    BY <1>2, SameSets DEF MonitorsOf
  <2> QED
    BY <1>1, <1>4, <1>8, <2>1, <2>2, <2>3, StageFrame
<1> QED
  BY <1>7, <1>8

\* A task whose client has not been told pending yet is not dispatched: the
\* server answers first (server.c:356-357, 414-422).
LEMMA DispatchKeepsStages ==
  ASSUME StageInv, DispatchTask, NEW c \in Clients
  PROVE  Stage(c)'
<1>1. TypeOK /\ Stage(c)
  BY DEF StageInv, TypeInv
<1>2. PICK task \in queue, p \in Pids :
        /\ monitor_pc[p] = "none"
        /\ queue' = queue \ {task}
        /\ monitor_pc' = [monitor_pc EXCEPT ![p] = "start"]
        /\ monitor_task' = [monitor_task EXCEPT ![p] = task]
        /\ UNCHANGED <<buf, server_fifo>>
  BY <1>1, DispatchEffect DEF Dispatched
<1>3. /\ UNCHANGED <<server_pc, reply, client_pc, client_fifo, client_out>>
      /\ server_pc = "dispatch"
  BY DEF DispatchTask, Dispatching, clientVars
<1>4. /\ monitor_pc'[p] = "start" /\ monitor_task'[p] = task /\ task \in Task
      /\ \A q \in Pids \ {p} : monitor_pc'[q] = monitor_pc[q] /\ monitor_task'[q] = monitor_task[q]
  BY <1>1, <1>2 DEF TypeOK
<1>5. Unread(RequestsOf(c))' = Unread(RequestsOf(c)) /\ Told(c)' = Told(c)
  BY <1>1, <1>2, <1>3, UnreadChange, ToldChange
<1>6. /\ QueuedOf(c)' = IF task.client = c THEN QueuedOf(c) \ {task} ELSE QueuedOf(c)
      /\ MonitorsOf(c)' = IF task.client = c THEN MonitorsOf(c) \cup {p} ELSE MonitorsOf(c)
  <2>1. QueuedOf(c)' = IF task.client = c THEN QueuedOf(c) \ {task} ELSE QueuedOf(c)
    BY <1>2 DEF QueuedOf
  <2>2. MonitorsOf(c)' = IF task.client = c THEN MonitorsOf(c) \cup {p} ELSE MonitorsOf(c)
    BY <1>2, <1>4 DEF MonitorsOf
  <2> QED
    BY <2>1, <2>2
<1>7. CASE task.client = c
  <2>1. task \in QueuedOf(c)
    BY <1>2, <1>7 DEF QueuedOf
  <2>2. Waiting(c)
    BY <1>1, <1>3, <2>1 DEF Stage, NotSent, NotRead, Heard, Served, Refused, BeingAnswered
  <2>3. QueuedOf(c)' = {} /\ MonitorsOf(c)' = {p}
    BY <1>6, <1>7, <2>1, <2>2 DEF Waiting, OneQueued
  <2>4. ToldAt(monitor_pc[p], 1)' /\ Told(c)' = Upto(1)
    BY <1>4, <1>5, <2>2 DEF ToldAt, Waiting
  <2>5. ~Unsent(c)' /\ ~BeingAnswered(c)' /\ Unread(RequestsOf(c))' = 0
    BY <1>3, <1>5, <2>2 DEF Unsent, BeingAnswered, Waiting
  <2>6. Served(c)'
    BY <2>3, <2>4, <2>5 DEF Served, Upto
  <2> QED
    BY <2>6 DEF Stage
<1>8. CASE task.client # c
  <2>1. KeepsClient(c) /\ KeepsAnswer(c)
    BY <1>3 DEF KeepsClient, KeepsAnswer, BeingAnswered
  <2>2. \A q \in MonitorsOf(c) : Silent(monitor_pc[q], monitor_pc'[q])
    BY <1>2, <1>4 DEF MonitorsOf, Silent
  <2> QED
    BY <1>1, <1>5, <1>6, <1>8, <2>1, <2>2, StageFrame
<1> QED
  BY <1>7, <1>8

\* A monitor writes what comes next (server.c:152, 184).
LEMMA MonitorKeepsStages ==
  ASSUME StageInv, NEW p \in Pids, MonitorOpens(p) \/ MonitorCompletes(p), NEW c \in Clients
  PROVE  Stage(c)'
<1>1. TypeOK /\ Stage(c)
  BY DEF StageInv, TypeInv
<1>2. /\ UNCHANGED <<server_fifo, server_pc, buf, reply, queue, monitor_task, client_pc, client_out>>
  BY DEF MonitorOpens, MonitorCompletes, sharedVars, serverVars, taskVars
<1>3. PICK n \in 1..2, text \in Replies, to \in MonitorPcs :
        /\ \A k \in 1..3 : ToldAt(monitor_pc[p], k) => k = n
        /\ monitor_pc[p] # "none"
        /\ monitor_pc' = [monitor_pc EXCEPT ![p] = to]
        /\ client_fifo' = [client_fifo EXCEPT ![monitor_task[p].client] = Append(@, text)]
        /\ to # "none" /\ ToldAt(to, n + 1)
        /\ Append(Upto(n), text) = Upto(n + 1)
  <2>1. CASE MonitorOpens(p)
    <3>1. /\ \A k \in 1..3 : ToldAt(monitor_pc[p], k) => k = 1
          /\ monitor_pc[p] # "none"
          /\ monitor_pc' = [monitor_pc EXCEPT ![p] = "running"]
          /\ client_fifo' = [client_fifo EXCEPT ![monitor_task[p].client] = Append(@, "processing")]
          /\ ToldAt("running", 2)
      BY <2>1 DEF MonitorOpens, MonitorGoesTo, Tell, ToldAt
    <3>2. "processing" \in Replies /\ "running" \in MonitorPcs /\ 1 + 1 = 2 /\ 1 \in 1..2
      BY DEF Replies, MonitorPcs
    <3> QED
      BY <3>1, <3>2, UptoValues
  <2>2. CASE MonitorCompletes(p)
    <3>1. /\ \A k \in 1..3 : ToldAt(monitor_pc[p], k) => k = 2
          /\ monitor_pc[p] # "none"
          /\ monitor_pc' = [monitor_pc EXCEPT ![p] = "notify"]
          /\ client_fifo' = [client_fifo EXCEPT ![monitor_task[p].client] = Append(@, "completed")]
          /\ ToldAt("notify", 3)
      BY <2>2 DEF MonitorCompletes, MonitorGoesTo, Tell, ToldAt
    <3>2. "completed" \in Replies /\ "notify" \in MonitorPcs /\ 2 + 1 = 3 /\ 2 \in 1..2
      BY DEF Replies, MonitorPcs
    <3> QED
      BY <3>1, <3>2, UptoValues
  <2> QED
    BY <2>1, <2>2
<1>4. monitor_pc'[p] = to /\ \A q \in Pids \ {p} : monitor_pc'[q] = monitor_pc[q]
  BY <1>1, <1>3 DEF TypeOK
<1>5. /\ Unread(RequestsOf(c))' = Unread(RequestsOf(c)) /\ QueuedOf(c)' = QueuedOf(c)
      /\ Told(c)' = IF c = monitor_task[p].client THEN Append(Told(c), text) ELSE Told(c)
  BY <1>1, <1>2, <1>3, UnreadChange, ToldChange, SameSets
<1>6. MonitorsOf(c)' = MonitorsOf(c)
  BY <1>2, <1>3, <1>4 DEF MonitorsOf
<1>7. CASE c = monitor_task[p].client
  <2>1. p \in MonitorsOf(c)
    BY <1>3, <1>7 DEF MonitorsOf
  <2>2. Served(c)
    BY <1>1, <2>1 DEF Stage, NotSent, NotRead, Heard, Waiting, Refused
  <2>3. MonitorsOf(c) = {p} /\ Told(c) = Upto(n)
    BY <1>3, <2>1, <2>2 DEF Served
  <2>4. MonitorsOf(c)' = {p} /\ Told(c)' = Upto(n + 1) /\ ToldAt(monitor_pc'[p], n + 1)
    BY <1>3, <1>4, <1>5, <1>6, <1>7, <2>3
  <2>5. /\ ~Unsent(c)' /\ ~BeingAnswered(c)' /\ Unread(RequestsOf(c))' = 0
        /\ QueuedOf(c)' = {} /\ n + 1 \in 1..3
    BY <1>2, <1>5, <2>2 DEF Unsent, BeingAnswered, Served
  <2>6. Served(c)'
    BY <2>4, <2>5 DEF Served, Upto
  <2> QED
    BY <2>6 DEF Stage
<1>8. CASE c # monitor_task[p].client
  <2>1. KeepsClient(c) /\ KeepsAnswer(c)
    BY <1>2 DEF KeepsClient, KeepsAnswer, BeingAnswered
  <2>2. \A q \in MonitorsOf(c) : Silent(monitor_pc[q], monitor_pc'[q])
    BY <1>4, <1>8 DEF MonitorsOf, Silent
  <2> QED
    BY <1>1, <1>5, <1>6, <1>8, <2>1, <2>2, StageFrame
<1> QED
  BY <1>7, <1>8

-----------------------------------------------------------------------------
(* The inductive invariant *)

\* The answer is always for the request at the head of the buffer.
LEMMA StepKeepsReplyIsForHead ==
  ASSUME TypeInv, ReplyIsForHead, [Next]_vars
  PROVE  ReplyIsForHead'
<1> SUFFICES ASSUME server_pc' \in {"replying", "waiting", "writing"}
             PROVE  (Head(buf) \in RequestsOf(reply.client))'
  BY DEF ReplyIsForHead
<1>1. CASE AnswerStatus \/ AdmitTask
  BY <1>1, AnswerEffect DEF TypeInv
<1>2. CASE server_pc \in {"replying", "waiting", "writing"} /\ UNCHANGED <<buf, reply>>
  BY <1>2 DEF ReplyIsForHead
<1>3. CASE ServerStep
  <2>1. ReplyOpens \/ ReplyWaits => server_pc = "replying" /\ UNCHANGED <<buf, reply>>
    BY DEF ReplyOpens, ReplyWaits
  <2>2. ~(AnswerStatus \/ AdmitTask \/ ReplyOpens \/ ReplyWaits) => server_pc' \notin {"replying", "waiting", "writing"}
    BY <1>3 DEF ServerStep, ServerStart, ServerOpensForReading, HandlerRuns,
         ServerTestsFlag, ServerOpensForWriting, ServerCallsRead, ServerReads,
         ServerHasRead, FinishTask, ParseFails, ReplyFindsNoClient, ReplyWritten,
         ReplyBreaksPipe, CheckExit, DispatchTask, DispatchFindsNoSlot, DispatchEnds,
         ServerGoesTo, Processing, ProcessingProcFile, Dispatching
  <2> QED
    BY <1>1, <1>2, <2>1, <2>2
<1>4. CASE Signal
  BY <1>2, <1>4 DEF Signal, SignalBetweenCalls, SignalInOpen, SignalInRead,
       SignalInReply, ChildRestartsOpen, Interrupted, ServerGoesTo
<1>5. CASE \E p \in Pids : MonitorStep(p)
  BY <1>2, <1>5 DEF MonitorStep, MonitorOpens, MonitorFindsNoClient, MonitorRunsPipeline,
       MonitorCompletes, MonitorBreaksPipe, MonitorNotifies, serverVars
<1>6. CASE \E c \in Clients : ClientStart(c) \/ ClientStep(c) \/ ClientInterrupted(c)
  BY <1>2, <1>6 DEF ClientStart, ClientStep, ClientInterrupted, ClientFindsNoServer,
       ClientWaitsForServer, ClientOpensServer, ClientMeetsServer, ClientWrites,
       ClientBreaksPipe, ClientNamesFifo, ClientOpensOwn, ClientMeetsReply, ServerWaitsFor,
       ClientReadsReply, ClientEnds, serverVars
<1>7. CASE UNCHANGED vars
  BY <1>2, <1>7 DEF vars, serverVars
<1> QED
  BY <1>3, <1>4, <1>5, <1>6, <1>7 DEF Next

\* Nobody has sent anything.
LEMMA InitReplyInv == Init => ReplyInv
<1> SUFFICES ASSUME Init
             PROVE  ReplyInv
  OBVIOUS
<1>1. AccountInv
  BY InitAccountInv
<1>2. ReplyIsForHead
  BY DEF Init, ReplyIsForHead
<1>3. ASSUME NEW c \in Clients
      PROVE  NotSent(c)
  <2>1. Unread(RequestsOf(c)) = 0
    BY CountEmpty DEF Init, Unread
  <2>2. Told(c) = << >>
    BY DEF Init, Told
  <2>3. /\ client_pc[c] = "init" /\ QueuedOf(c) = {} /\ MonitorsOf(c) = {}
        /\ ~BeingAnswered(c)
    BY <1>3 DEF Init, QueuedOf, MonitorsOf, BeingAnswered
  <2> QED
    BY <2>1, <2>2, <2>3 DEF NotSent
<1> QED
  BY <1>1, <1>2, <1>3 DEF ReplyInv, Stage

\* Every step keeps the invariant.
LEMMA NextReplyInv == ReplyInv /\ [Next]_vars => ReplyInv'
<1> SUFFICES ASSUME ReplyInv, [Next]_vars
             PROVE  ReplyInv'
  OBVIOUS
<1>1. StageInv /\ AccountInv' /\ TypeInv
  BY NextAccountInv DEF ReplyInv, StageInv, AccountInv
<1>2. ReplyIsForHead'
  BY <1>1, StepKeepsReplyIsForHead DEF StageInv
<1>3. ASSUME NEW c \in Clients
      PROVE  Stage(c)'
  BY <1>1, FramesKeepStages, WriteKeepsStages, AnswerKeepsStages, ReplyKeepsStages,
     DispatchKeepsStages, MonitorKeepsStages DEF Moves
<1> QED
  BY <1>1, <1>2, <1>3 DEF ReplyInv

\* The inductive invariant holds in every reachable state.
LEMMA ReplyInvAlways == Spec => []ReplyInv
<1>1. Init => ReplyInv
  BY InitReplyInv
<1>2. ReplyInv /\ [Next]_vars => ReplyInv'
  BY NextReplyInv
<1> QED
  BY <1>1, <1>2, PTL DEF Spec

\* Nobody is told anything out of order, twice, or after a final answer, although
\* server and monitor write to the client's FIFO without synchronisation of their
\* own (server.c:152, 184, 292, 343, 357); however many clients there are,
\* whatever they ask for, and whoever is interrupted.
THEOREM RepliesAreInOrder == Spec => []RepliesInOrder
<1>1. ASSUME ReplyInv, NEW c \in Clients
      PROVE  \/ \E n \in 0..3 : Told(c) = Upto(n)
             \/ Told(c) \in {<<"impossible">>, <<"status">>}
  <2>1. Stage(c)
    BY <1>1 DEF ReplyInv
  <2>2. NotSent(c) \/ NotRead(c) \/ Heard(c) => Told(c) = Upto(0)
    BY UptoValues DEF NotSent, NotRead, Heard
  <2>3. Waiting(c) => Told(c) = Upto(1)
    BY DEF Waiting
  <2>4. Served(c) => \E n \in 0..3 : Told(c) = Upto(n)
    <3>1. \A n \in 1..3 : n \in 0..3
      OBVIOUS
    <3> QED
      BY <3>1 DEF Served
  <2>5. Refused(c) => Told(c) \in {<<"impossible">>, <<"status">>}
    BY DEF Refused
  <2>6. 0 \in 0..3 /\ 1 \in 0..3
    OBVIOUS
  <2> QED
    BY <2>1, <2>2, <2>3, <2>4, <2>5, <2>6 DEF Stage
<1>2. ReplyInv => RepliesInOrder
  BY <1>1 DEF RepliesInOrder, Upto
<1> QED
  BY <1>2, ReplyInvAlways, PTL

-----------------------------------------------------------------------------
(***************************************************************************)
(* The server neither waits with a task that it could run nor ends with a  *)
(* task that it has promised to run, and when it fails there is a reason.  *)
(*                                                                         *)
(* The argument.  num_active_tasks is the number of busy slots, whatever   *)
(* the tasks ask for.  So the exit test sees an empty table, in which no   *)
(* monitor that has yet to report has a slot, and with an empty queue a    *)
(* client that was told pending can only have been told completed.  And a  *)
(* task at the head of the queue that does not fit now is held up by a     *)
(* task in the table: alone it fits, as it was admitted.  A client that is *)
(* answered has its FIFO, and stays once the server has opened it: it ends *)
(* by itself only after a final answer, and this one is its first.         *)
(***************************************************************************)

BeforeLoop == {"start", "made", "open_rd", "handler", "connected", "open_wr"}

NumberIsBusy == num_active_tasks = Cardinality(BusyIn(active_tasks))

\* Nothing is queued or active before the loop and after an orderly end.
NothingLeft ==
  server_pc \in BeforeLoop \cup {"exited"} => queue = {} /\ num_active_tasks = 0

ExitInv == ReplyInv /\ NumberIsBusy /\ NothingLeft

\* The counter is incremented where a slot is taken and decremented where it is
\* released (server.c:272, 421-422).
LEMMA StepKeepsNumber ==
  ASSUME TypeOK, NumberIsBusy, [Next]_vars
  PROVE  NumberIsBusy'
<1> DEFINE A == active_tasks
           B == active_tasks'
<1>1. Cardinality(BusyIn(A)) \in Nat /\ Cardinality(BusyIn(B)) \in Nat
  BY BusyIsFinite, FS_CardinalityType
<1>2. CASE DispatchTask
  <2>1. PICK task \in queue, p \in Pids, i \in Slots :
          /\ num_active_tasks' = num_active_tasks + 1
          /\ A[i] = NULL /\ B[i] # NULL
          /\ B = [A EXCEPT ![i] = [task |-> task, monitor |-> p]]
    BY <1>2, DispatchEffect DEF Dispatched
  <2>2. \A j \in Slots \ {i} : B[j] = A[j]
    BY <2>1 DEF TypeOK
  <2>3. Cardinality(BusyIn(B)) = Cardinality(BusyIn(A)) + 1
    BY <2>1, <2>2, BusyOneMore
  <2> QED
    BY <2>1, <2>3 DEF NumberIsBusy
<1>3. CASE UNCHANGED <<active_tasks, num_active_tasks>>
  BY <1>3 DEF NumberIsBusy
<1>4. CASE FinishTask /\ ~UNCHANGED taskVars
  <2>1. PICK i \in Slots :
          /\ A[i] # NULL
          /\ B = [A EXCEPT ![i] = NULL]
          /\ num_active_tasks' = num_active_tasks - 1
    BY <1>4, FinishEffect
  <2>2. B[i] = NULL /\ \A j \in Slots \ {i} : A[j] = B[j]
    BY <2>1 DEF TypeOK
  <2>3. Cardinality(BusyIn(A)) = Cardinality(BusyIn(B)) + 1
    BY <2>1, <2>2, BusyOneMore
  <2> QED
    BY <1>1, <2>1, <2>3 DEF NumberIsBusy
<1>5. AdmitTask \/ UNCHANGED taskVars => UNCHANGED <<active_tasks, num_active_tasks>>
  BY DEF AdmitTask, taskVars
<1> QED
  BY <1>2, <1>3, <1>4, <1>5, TaskVarsChange

\* The server is before its loop only if it was, and ends in the orderly way only
\* from there or by the exit test.
LEMMA ComesToAnEnd ==
  ASSUME [Next]_vars
  PROVE  /\ server_pc' \in BeforeLoop => server_pc \in BeforeLoop
         /\ server_pc' = "exited" =>
              server_pc \in BeforeLoop \cup {"exited"} \/ (CheckExit /\ MayExit)
         /\ DispatchTask \/ FinishTask \/ AdmitTask =>
              server_pc' \notin BeforeLoop \cup {"exited"}
<1> USE DEF BeforeLoop
<1>1. CASE ServerStep
  BY <1>1 DEF ServerStep, ServerStart, ServerOpensForReading, HandlerRuns,
       ServerTestsFlag, ServerOpensForWriting, ServerCallsRead, ServerReads, ServerHasRead,
       FinishTask, AnswerStatus, ParseFails, AdmitTask, ReplyOpens, ReplyWaits,
       ReplyFindsNoClient, ReplyWritten, ReplyBreaksPipe, CheckExit, DispatchTask,
       DispatchFindsNoSlot, DispatchEnds, ServerGoesTo, Answer, ProcessingProcFile,
       Processing, Dispatching
<1>2. DispatchTask \/ FinishTask \/ AdmitTask => ServerStep
  BY DEF ServerStep
<1>3. CASE Signal
  BY <1>1, <1>2, <1>3 DEF Signal, SignalBetweenCalls, SignalInOpen, SignalInRead,
       SignalInReply, ChildRestartsOpen, Interrupted, ServerGoesTo, Stopped
<1>4. CASE \E p \in Pids : MonitorStep(p)
  BY <1>1, <1>2, <1>4 DEF MonitorStep, MonitorOpens, MonitorFindsNoClient,
       MonitorRunsPipeline, MonitorCompletes, MonitorBreaksPipe, MonitorNotifies, serverVars
<1>5. CASE \E c \in Clients : ClientStart(c) \/ ClientStep(c) \/ ClientInterrupted(c)
  BY <1>1, <1>2, <1>5 DEF ClientStart, ClientStep, ClientInterrupted, ClientFindsNoServer,
       ClientWaitsForServer, ClientOpensServer, ClientMeetsServer, ClientWrites,
       ClientBreaksPipe, ClientNamesFifo, ClientOpensOwn, ClientMeetsReply, ServerWaitsFor,
       ClientReadsReply, ClientEnds, serverVars
<1>6. CASE UNCHANGED vars
  BY <1>1, <1>2, <1>6 DEF vars, serverVars
<1> QED
  BY <1>1, <1>3, <1>4, <1>5, <1>6 DEF Next

\* The exit test is the only way out of the loop that ends in the orderly way.
LEMMA StepKeepsNothingLeft ==
  ASSUME NothingLeft, [Next]_vars
  PROVE  NothingLeft'
<1> SUFFICES ASSUME server_pc' \in BeforeLoop \cup {"exited"}
             PROVE  queue' = {} /\ num_active_tasks' = 0
  BY DEF NothingLeft
<1>1. UNCHANGED taskVars
  BY ComesToAnEnd, TaskVarsChange
<1>2. queue = {} /\ num_active_tasks = 0
  BY ComesToAnEnd DEF NothingLeft, MayExit
<1> QED
  BY <1>1, <1>2 DEF taskVars

\* The inductive invariant holds in every reachable state.
LEMMA ExitInvAlways == Spec => []ExitInv
<1>1. Init => ExitInv
  <2> SUFFICES ASSUME Init
               PROVE  ExitInv
    OBVIOUS
  <2>1. BusyIn(active_tasks) = {}
    BY DEF Init, BusyIn
  <2>2. NumberIsBusy
    BY <2>1, FS_EmptySet DEF Init, NumberIsBusy
  <2>3. NothingLeft
    BY DEF Init, NothingLeft
  <2> QED
    BY <2>2, <2>3, InitReplyInv DEF ExitInv
<1>2. ExitInv /\ [Next]_vars => ExitInv'
  BY NextReplyInv, StepKeepsNumber, StepKeepsNothingLeft
     DEF ExitInv, ReplyInv, AccountInv, TypeInv
<1> QED
  BY <1>1, <1>2, PTL DEF Spec

\* In an empty table no monitor has a slot: each of them has reported its end.
LEMMA AllHaveReported ==
  ASSUME ExitInv, server_pc = "exited", NEW p \in Pids
  PROVE  monitor_pc[p] \in {"none", "exited"}
<1>1. IsFiniteSet(BusyIn(active_tasks)) /\ Cardinality(BusyIn(active_tasks)) = 0
  BY BusyIsFinite DEF ExitInv, NumberIsBusy, NothingLeft
<1>2. BusyIn(active_tasks) = {}
  BY <1>1, FS_EmptySet
<1>3. SlotsOf(p) = {}
  BY <1>2 DEF SlotsOf, BusyIn
<1> QED
  BY <1>3 DEF ExitInv, ReplyInv, AccountInv, UnreportedHaveSlots, Unreported, MonitorAlive

\* Who was told pending has been told completed, before a server ends in the
\* orderly way (server.c:412): however many tasks were waiting or running when it
\* was interrupted, and whatever happened to their clients.
THEOREM WorkIsDoneAtExit == Spec => []ExitsAfterWork
<1>1. ASSUME ExitInv, server_pc = "exited", NEW c \in Clients,
             NEW i \in DOMAIN Told(c), Told(c)[i] = "pending"
      PROVE  \E j \in DOMAIN Told(c) : Told(c)[j] = "completed"
  <2>1. Stage(c)
    BY <1>1 DEF ExitInv, ReplyInv
  <2>2. queue = {}
    BY <1>1 DEF ExitInv, NothingLeft
  <2>3. Told(c) # << >>
    BY <1>1
  <2>4. Told(c) \notin {<<"impossible">>, <<"status">>}
    <3>1. Told(c) = <<"impossible">> => i = 1
      BY <1>1
    <3>2. Told(c) = <<"status">> => i = 1
      BY <1>1
    <3> QED
      BY <1>1, <3>1, <3>2
  <2>5. Served(c)
    BY <2>1, <2>2, <2>3, <2>4 DEF Stage, NotSent, NotRead, Heard, Waiting, OneQueued,
         QueuedOf, Refused
  <2>6. PICK p \in Pids, n \in 1..3 :
          MonitorsOf(c) = {p} /\ ToldAt(monitor_pc[p], n) /\ Told(c) = Upto(n)
    BY <2>5 DEF Served
  <2>7. monitor_pc[p] \in {"none", "exited"}
    BY <1>1, AllHaveReported
  <2>8. Told(c) = Upto(3)
    BY <2>6, <2>7 DEF ToldAt
  <2>9. Upto(3) = <<"pending", "processing", "completed">>
    <3>1. "pending" \in Replies /\ "processing" \in Replies /\ "completed" \in Replies
      BY DEF Replies
    <3> QED
      BY <3>1, Prefixes DEF Upto
  <2> QED
    BY <2>8, <2>9
<1>2. ExitInv => ExitsAfterWork
  BY <1>1 DEF ExitsAfterWork
<1> QED
  BY <1>2, ExitInvAlways, PTL

-----------------------------------------------------------------------------
(* The server does not wait with a task that it could run *)

QueueIsAdmitted == \A task \in queue : WithinLimits(task)

StallInv == LimitInv /\ ExitInv /\ QueueIsAdmitted /\ NeverStalls

\* Only tasks within the limits are queued (server.c:339-354).
LEMMA StepKeepsAdmitted ==
  ASSUME TypeOK, QueueIsAdmitted, [Next]_vars
  PROVE  QueueIsAdmitted'
<1> USE DEF QueueIsAdmitted
<1>1. CASE AdmitTask
  <2>1. \/ UNCHANGED queue
        \/ \E task : WithinLimits(task) /\ queue' = queue \cup {task}
    BY <1>1 DEF AdmitTask
  <2> QED
    BY <2>1 DEF WithinLimits
<1>2. CASE DispatchTask
  <2>1. \E task \in queue : queue' = queue \ {task}
    BY <1>2, DispatchEffect DEF Dispatched
  <2> QED
    BY <2>1 DEF WithinLimits
<1>3. CASE UNCHANGED queue
  BY <1>3 DEF WithinLimits
<1>4. FinishTask \/ UNCHANGED taskVars => UNCHANGED queue
  BY FinishEffect DEF taskVars
<1> QED
  BY <1>1, <1>2, <1>3, <1>4, TaskVarsChange

\* With an empty table, a task that was admitted fits.
LEMMA AloneItFits ==
  ASSUME TypeOK, Counted, num_active_tasks = 0, NEW task \in queue, WithinLimits(task)
  PROVE  TaskIsPossible(task)
<1>1. IsFiniteSet(BusyIn(active_tasks)) /\ Cardinality(BusyIn(active_tasks)) = 0
  BY BusyIsFinite DEF Counted
<1>2. BusyIn(active_tasks) = {}
  BY <1>1, FS_EmptySet
<1>3. \A t \in Transformations : ReservedIn(active_tasks, t) = {}
  BY <1>2 DEF ReservedIn
<1>4. \A t \in Transformations : active_count[t] = 0
  BY <1>3, FS_EmptySet DEF Counted
<1>5. OpsTotals(task) \in [Transformations -> Int]
  BY OpsTotalsType DEF TypeOK
<1> QED
  BY <1>4, <1>5 DEF TaskIsPossible, WithinLimits

\* The server goes to wait from the start, from a pass over the queue, or from
\* waiting.
LEMMA GoesToWait ==
  ASSUME [Next]_vars, server_pc' \in {"loop", "reading"}
  PROVE  /\ UNCHANGED taskVars
         /\ server_pc \in BeforeLoop \/ server_pc \in {"loop", "reading"} \/ DispatchEnds
<1> USE DEF BeforeLoop
<1>1. CASE ServerStep
  BY <1>1 DEF ServerStep, ServerStart, ServerOpensForReading, HandlerRuns,
       ServerTestsFlag, ServerOpensForWriting, ServerCallsRead, ServerReads, ServerHasRead,
       FinishTask, AnswerStatus, ParseFails, AdmitTask, ReplyOpens, ReplyWaits,
       ReplyFindsNoClient, ReplyWritten, ReplyBreaksPipe, CheckExit, DispatchTask,
       DispatchFindsNoSlot, DispatchEnds, ServerGoesTo, Answer, ProcessingProcFile,
       Processing, Dispatching
<1>2. CASE Signal
  BY <1>2 DEF Signal, SignalBetweenCalls, SignalInOpen, SignalInRead, SignalInReply,
       ChildRestartsOpen, Interrupted, ServerGoesTo, Stopped
<1>3. CASE \E p \in Pids : MonitorStep(p)
  BY <1>3 DEF MonitorStep, MonitorOpens, MonitorFindsNoClient, MonitorRunsPipeline,
       MonitorCompletes, MonitorBreaksPipe, MonitorNotifies, serverVars
<1>4. CASE \E c \in Clients : ClientStart(c) \/ ClientStep(c) \/ ClientInterrupted(c)
  BY <1>4 DEF ClientStart, ClientStep, ClientInterrupted, ClientFindsNoServer,
       ClientWaitsForServer, ClientOpensServer, ClientMeetsServer, ClientWrites,
       ClientBreaksPipe, ClientNamesFifo, ClientOpensOwn, ClientMeetsReply, ServerWaitsFor,
       ClientReadsReply, ClientEnds, serverVars
<1>5. CASE UNCHANGED vars
  BY <1>5 DEF vars, serverVars
<1> QED
  BY <1>1, <1>2, <1>3, <1>4, <1>5 DEF Next

\* A pass over the queue ends with a queue that is empty or held up by a task in
\* the table (server.c:414-426).
LEMMA StepKeepsGoing ==
  ASSUME StallInv, [Next]_vars
  PROVE  NeverStalls'
<1> SUFFICES ASSUME server_pc' \in {"loop", "reading"}, queue' # {}
             PROVE  num_active_tasks' > 0
  BY DEF NeverStalls
<1>1. UNCHANGED <<queue, num_active_tasks>> /\ queue # {}
  BY GoesToWait DEF taskVars
<1>2. num_active_tasks \in Nat
  BY BusyIsFinite, FS_CardinalityType DEF StallInv, ExitInv, NumberIsBusy
<1>3. CASE server_pc \in BeforeLoop
  BY <1>1, <1>3 DEF StallInv, ExitInv, NothingLeft
<1>4. CASE server_pc \in {"loop", "reading"}
  BY <1>1, <1>4 DEF StallInv, NeverStalls
<1>5. CASE DispatchEnds
  <2>1. PICK task \in queue : ~TaskIsPossible(task)
    BY <1>1, <1>5 DEF DispatchEnds, Heads
  <2>2. num_active_tasks # 0
    BY <2>1, AloneItFits DEF StallInv, LimitInv, TypeInv, QueueIsAdmitted
  <2> QED
    BY <1>1, <1>2, <2>2
<1> QED
  BY <1>3, <1>4, <1>5, GoesToWait

\* A task is never left in the queue with nothing that would make the server look
\* at it again (server.c:412-426), provided no command asks for more than 127
\* instances of a transformation.
THEOREM ServerNeverStalls == ASSUME SmallCommands PROVE Spec => []NeverStalls
<1>1. Init => QueueIsAdmitted /\ NeverStalls
  BY DEF Init, QueueIsAdmitted, NeverStalls
<1>2. LimitInv /\ ExitInv /\ QueueIsAdmitted /\ NeverStalls /\ [Next]_vars =>
        QueueIsAdmitted' /\ NeverStalls'
  BY StepKeepsAdmitted, StepKeepsGoing DEF StallInv, LimitInv, TypeInv
<1> QED
  BY <1>1, <1>2, LimitInvAlways, ExitInvAlways, PTL DEF Spec
-----------------------------------------------------------------------------
(* A server that fails has a reason *)

\* Only the handler removes the entry SERVER of a server that is up.
EntryStays ==
  server_pc \notin {"start", "exited", "failed"} => server_linked \/ has_been_interrupted

\* A client has its FIFO until it ends, and has read something if it ended by itself.
HasFifo(c) ==
  /\ client_pc[c] \notin {"init", "done", "gone"} => client_fifo_linked[c]
  /\ client_pc[c] = "done" => client_out[c] # << >>

\* A client whose FIFO the server has opened stays until it has read the answer.
ReaderStays ==
  server_pc = "writing" => client_pc[reply.client] \in {"reading", "gone"}

CauseInv ==
  /\ ReplyInv /\ NumberIsBusy
  /\ EntryStays /\ ReaderStays
  /\ \A c \in Clients : HasFifo(c)

\* The client that is being answered is there, or was interrupted.
LEMMA AnsweredIsThere ==
  ASSUME CauseInv, server_pc = "replying", NEW c \in Clients, c = reply.client
  PROVE  client_fifo_linked[c] \/ client_pc[c] = "gone"
<1>1. Heard(c)
  BY DEF CauseInv, ReplyInv, Stage, NotSent, NotRead, Waiting, Served, Refused, BeingAnswered
<1>2. client_pc[c] # "init" /\ Told(c) = << >>
  BY <1>1 DEF Heard, Unsent
<1>3. client_out[c] = << >>
  <2>1. client_out[c] \in Seq(Replies) /\ client_fifo[c] \in Seq(Replies)
    BY DEF CauseInv, ReplyInv, AccountInv, TypeInv, TypeOK
  <2>2. \A a, b \in Seq(Replies) : a \o b = << >> => a = << >>
    <3>1. \A a, b \in Seq(Replies) : Len(a \o b) = Len(a) + Len(b) /\ Len(a) \in Nat /\ Len(b) \in Nat
      OBVIOUS
    <3>2. \A a \in Seq(Replies) : Len(a) = 0 => a = << >>
      OBVIOUS
    <3>3. Len(<< >>) = 0
      OBVIOUS
    <3> QED
      BY <3>1, <3>2, <3>3
  <2> QED
    BY <1>2, <2>1, <2>2 DEF Told
<1> QED
  BY <1>2, <1>3 DEF CauseInv, HasFifo

\* How the server fails.
LEMMA WaysToFail ==
  ASSUME [Next]_vars, server_pc # "failed", server_pc' = "failed"
  PROVE  \/ ServerOpensForReading \/ ServerOpensForWriting
         \/ ServerReads \/ FinishTask \/ ParseFails
         \/ ReplyFindsNoClient \/ ReplyBreaksPipe \/ DispatchFindsNoSlot \/ SignalInReply
<1>1. CASE ServerStep
  BY <1>1 DEF ServerStep, ServerStart, HandlerRuns, ServerTestsFlag,
       ServerCallsRead, ServerHasRead, AnswerStatus, AdmitTask, ReplyOpens,
       ReplyWaits, ReplyWritten, CheckExit, DispatchTask, DispatchEnds, ServerGoesTo, Answer
<1>2. CASE Signal
  BY <1>2 DEF Signal, SignalBetweenCalls, SignalInOpen, SignalInRead,
       ChildRestartsOpen, Interrupted, ServerGoesTo
<1>3. CASE \E p \in Pids : MonitorStep(p)
  BY <1>3 DEF MonitorStep, MonitorOpens, MonitorFindsNoClient, MonitorRunsPipeline,
       MonitorCompletes, MonitorBreaksPipe, MonitorNotifies, serverVars
<1>4. CASE \E c \in Clients : ClientStart(c) \/ ClientStep(c) \/ ClientInterrupted(c)
  BY <1>4 DEF ClientStart, ClientStep, ClientInterrupted, ClientFindsNoServer,
       ClientWaitsForServer, ClientOpensServer, ClientMeetsServer, ClientWrites,
       ClientBreaksPipe, ClientNamesFifo, ClientOpensOwn, ClientMeetsReply, ServerWaitsFor,
       ClientReadsReply, ClientEnds, serverVars
<1>5. CASE UNCHANGED vars
  BY <1>5 DEF vars, serverVars
<1> QED
  BY <1>1, <1>2, <1>3, <1>4, <1>5 DEF Next

\* All slots are taken when the number of active tasks says so.
LEMMA NoSlotIsFree ==
  ASSUME TypeOK, NumberIsBusy, FreeSlots = {}
  PROVE  num_active_tasks = MaxParallel
<1>1. BusyIn(active_tasks) = Slots
  BY DEF FreeSlots, BusyIn
<1>2. Cardinality(Slots) = MaxParallel
  <2>1. MaxParallel \in Nat /\ MaxParallel # 0
    BY SizeAssumption
  <2>2. Cardinality(0 .. MaxParallel - 1) = IF 0 > MaxParallel - 1 THEN 0 ELSE (MaxParallel - 1) - 0 + 1
    BY <2>1, FS_Interval
  <2> QED
    BY <2>1, <2>2 DEF Slots
<1> QED
  BY <1>1, <1>2 DEF NumberIsBusy

\* A server that fails has one of the reasons, step by step.
LEMMA FailingHasCause ==
  ASSUME CauseInv, [Next]_vars
  PROVE  FailsForCause
<1> SUFFICES ASSUME server_pc # "failed", server_pc' = "failed"
             PROVE  FailsForCause
  BY DEF FailsForCause
<1>1. TypeOK /\ ReplyDue /\ SlotInv
  BY DEF CauseInv, ReplyInv, AccountInv, TypeInv, SlotInv
<1>2. CASE ServerOpensForReading \/ ServerOpensForWriting
  BY <1>2 DEF ServerOpensForReading, ServerOpensForWriting, ServerGoesTo, CauseInv,
       EntryStays, FailsForCause
<1>3. CASE ServerReads
  <2>1. server_pc = "reading" /\ ~(Len(server_fifo) < BufSize)
    BY <1>3 DEF ServerReads, ServerGoesTo
  <2>2. Len(server_fifo) \in Nat /\ BufSize \in Nat
    BY <1>1, SizeAssumption DEF TypeOK
  <2>3. Len(server_fifo) >= BufSize
    BY <2>1, <2>2
  <2> QED
    BY <2>1, <2>3 DEF FailsForCause
<1>4. CASE FinishTask
  <2>1. SlotsOf(Head(buf).pid) # {}
    BY <1>1, <1>4, FinishKeepsAccount
  <2> QED
    BY <1>4, <2>1 DEF FinishTask, Processing
<1>5. CASE ParseFails
  BY <1>5 DEF ParseFails, ProcessingProcFile, Processing, HasPriority, FailsForCause
<1>6. CASE DispatchFindsNoSlot
  <2>1. num_active_tasks = MaxParallel
    BY <1>1, <1>6, NoSlotIsFree DEF DispatchFindsNoSlot, CauseInv
  <2> QED
    BY <1>6, <2>1 DEF DispatchFindsNoSlot, Dispatching, FailsForCause
<1>7. CASE ReplyFindsNoClient
  <2>1. PICK c \in Clients : c = reply.client
    BY <1>1, <1>7 DEF ReplyFindsNoClient, ReplyDue
  <2>2. client_pc[c] = "gone"
    BY <1>7, <2>1, AnsweredIsThere DEF ReplyFindsNoClient
  <2> QED
    BY <1>7, <2>1, <2>2 DEF ReplyFindsNoClient, Gone, FailsForCause
<1>8. CASE ReplyBreaksPipe
  BY <1>8 DEF ReplyBreaksPipe, ClientReads, CauseInv, ReaderStays, Gone, FailsForCause
<1>9. CASE SignalInReply
  <2>1. signals' # signals
    BY <1>1, <1>9, SizeAssumption DEF SignalInReply, Interrupted, TypeOK
  <2> QED
    BY <1>9, <2>1 DEF SignalInReply, FailsForCause
<1> QED
  BY <1>2, <1>3, <1>4, <1>5, <1>6, <1>7, <1>8, <1>9, WaysToFail

\* The entry and the reader, step by step.
LEMMA StepKeepsServerParts ==
  ASSUME TypeOK, ReplyDue, EntryStays, ReaderStays, [Next]_vars
  PROVE  EntryStays' /\ ReaderStays'
<1> USE DEF EntryStays, ReaderStays
<1> DEFINE Goal == EntryStays' /\ ReaderStays'
<1>1. CASE ServerStep
  <2>1. CASE ReplyOpens
    <3>1. PICK c \in Clients : c = reply.client
      BY <2>1 DEF ReplyOpens, ReplyDue
    <3> QED
      BY <2>1, <3>1 DEF ReplyOpens, ServerGoesTo, TypeOK, sharedVars
  <2>2. CASE ~ReplyOpens
    BY <1>1, <2>2 DEF ServerStep, ServerStart, ServerOpensForReading, HandlerRuns,
         ServerTestsFlag, ServerOpensForWriting, ServerCallsRead, ServerReads, Receive,
         ServerHasRead, FinishTask, AnswerStatus, ParseFails, AdmitTask, ReplyWaits,
         ReplyFindsNoClient, ReplyWritten, ReplyBreaksPipe, CheckExit, DispatchTask,
         DispatchFindsNoSlot, DispatchEnds, ServerGoesTo, Answer, ProcessingProcFile,
         Processing, Dispatching, sharedVars
  <2> QED
    BY <2>1, <2>2
<1>2. CASE Signal
  BY <1>2 DEF Signal, SignalBetweenCalls, SignalInOpen, SignalInRead, SignalInReply,
       ChildRestartsOpen, Interrupted, ServerGoesTo, sharedVars, clientVars
<1>3. CASE \E p \in Pids : MonitorStep(p)
  BY <1>3 DEF MonitorStep, MonitorOpens, MonitorFindsNoClient, MonitorRunsPipeline,
       MonitorCompletes, MonitorBreaksPipe, MonitorNotifies, sharedVars, serverVars, clientVars
<1>4. ASSUME NEW c \in Clients, ClientStart(c) \/ ClientStep(c) \/ ClientInterrupted(c)
      PROVE  Goal
  <2>1. CASE ClientMeetsServer(c)
    BY <2>1 DEF ClientMeetsServer, sharedVars
  <2>2. CASE ClientMeetsReply(c)
    BY <2>2 DEF ClientMeetsReply, ServerWaitsFor, GoTo, TypeOK, sharedVars
  <2>3. CASE ~ClientMeetsServer(c) /\ ~ClientMeetsReply(c)
    <3>1. UNCHANGED <<server_linked, server_pc, reply, has_been_interrupted>>
      BY <1>4, <2>3 DEF ClientStart, ClientStep, ClientInterrupted,
           ClientFindsNoServer, ClientWaitsForServer, ClientOpensServer, ClientWrites,
           ClientBreaksPipe, ClientNamesFifo, ClientOpensOwn, ClientReadsReply, ClientEnds,
           sharedVars, serverVars
    <3>2. ReaderStays'
      <4> SUFFICES ASSUME server_pc = "writing"
                   PROVE  client_pc'[reply.client] \in {"reading", "gone"}
        BY <3>1
      <4>1. PICK d \in Clients : d = reply.client /\ client_pc[d] \in {"reading", "gone"}
        BY DEF ReplyDue
      <4>2. HasWriter(d)
        BY <4>1 DEF HasWriter
      <4>3. client_pc'[d] \in {"reading", "gone"}
        BY <1>4, <2>3, <4>1, <4>2 DEF ClientStart, ClientStep, ClientInterrupted,
             ClientFindsNoServer, ClientWaitsForServer, ClientOpensServer, ClientWrites,
             ClientBreaksPipe, ClientNamesFifo, ClientOpensOwn, ClientReadsReply,
             ClientEnds, GoTo, TypeOK
      <4> QED
        BY <4>1, <4>3
    <3> QED
      BY <3>1, <3>2
  <2> QED
    BY <2>1, <2>2, <2>3
<1>5. CASE UNCHANGED vars
  BY <1>5 DEF vars, sharedVars, serverVars, clientVars
<1> QED
  BY <1>1, <1>2, <1>3, <1>4, <1>5 DEF Next

\* A client makes its FIFO first and removes it last (client.c:115, 154).
LEMMA StepKeepsFifos ==
  ASSUME TypeOK, ReplyDue, [Next]_vars, NEW c \in Clients, HasFifo(c)
  PROVE  HasFifo(c)'
<1> USE DEF HasFifo
<1>1. CASE UNCHANGED <<client_pc, client_fifo_linked, client_out>>
  BY <1>1
<1>2. CASE ServerStep
  <2>1. CASE ReplyOpens
    BY <2>1 DEF ReplyOpens, ClientListens, TypeOK
  <2>2. CASE ServerOpensForReading
    BY <2>2 DEF ServerOpensForReading, Connecting
  <2>3. CASE ~ReplyOpens /\ ~ServerOpensForReading
    BY <1>1, <1>2, <2>3 DEF ServerStep, ServerStart, HandlerRuns, ServerTestsFlag,
         ServerOpensForWriting, ServerCallsRead, ServerReads, ServerHasRead, FinishTask,
         AnswerStatus, ParseFails, AdmitTask, ReplyWaits, ReplyFindsNoClient, ReplyWritten,
         ReplyBreaksPipe, CheckExit, DispatchTask, DispatchFindsNoSlot, DispatchEnds,
         clientVars
  <2> QED
    BY <2>1, <2>2, <2>3
<1>3. CASE Signal
  BY <1>1, <1>3 DEF Signal, SignalBetweenCalls, SignalInOpen, SignalInRead,
       SignalInReply, ChildRestartsOpen, Interrupted, clientVars
<1>4. CASE \E p \in Pids : MonitorStep(p)
  BY <1>1, <1>4 DEF MonitorStep, MonitorOpens, MonitorFindsNoClient, MonitorRunsPipeline,
       MonitorCompletes, MonitorBreaksPipe, MonitorNotifies, clientVars
<1>5. ASSUME NEW d \in Clients, ClientStart(d) \/ ClientStep(d) \/ ClientInterrupted(d)
      PROVE  HasFifo(c)'
  <2>1. CASE ClientEnds(d)
    <3>1. c = d => client_out[c] # << >>
      <4>1. DOMAIN << >> = {}
        OBVIOUS
      <4> QED
        BY <2>1, <4>1 DEF ClientEnds, SawEOO
    <3> QED
      BY <2>1, <3>1 DEF ClientEnds, GoTo, TypeOK
  <2>2. CASE ClientReadsReply(d)
    BY <2>2 DEF ClientReadsReply, TypeOK
  <2>3. CASE ~ClientEnds(d) /\ ~ClientReadsReply(d)
    BY <1>5, <2>3 DEF ClientStart, ClientStep, ClientInterrupted, ClientFindsNoServer,
         ClientWaitsForServer, ClientOpensServer, ClientMeetsServer, ClientWrites,
         ClientBreaksPipe, ClientNamesFifo, ClientOpensOwn, ClientMeetsReply, ServerWaitsFor,
         GoTo, TypeOK
  <2> QED
    BY <2>1, <2>2, <2>3
<1>6. CASE UNCHANGED vars
  BY <1>1, <1>6 DEF vars, clientVars
<1> QED
  BY <1>2, <1>3, <1>4, <1>5, <1>6 DEF Next

\* A server fails only in one of these ways: it is interrupted before its second
\* open or while it waits for a client's, the client that it answers was interrupted,
\* a buffer or the table is full, or a request has no priority (server.c:305, 356,
\* 377, 396, 508).  It never fails because a finished task has no slot (server.c:268)
\* or because of a client that ended by itself, whatever signals came before.
THEOREM FailuresHaveCauses == Spec => FailureHasCause
<1>1. Init => CauseInv
  <2> SUFFICES ASSUME Init
               PROVE  CauseInv
    OBVIOUS
  <2>1. EntryStays /\ ReaderStays
    BY DEF Init, EntryStays, ReaderStays
  <2>2. \A c \in Clients : HasFifo(c)
    BY DEF Init, HasFifo
  <2>3. BusyIn(active_tasks) = {}
    BY DEF Init, BusyIn
  <2>4. NumberIsBusy
    BY <2>3, FS_EmptySet DEF Init, NumberIsBusy
  <2> QED
    BY <2>1, <2>2, <2>4, InitReplyInv DEF CauseInv
<1>2. CauseInv /\ [Next]_vars => CauseInv'
  <2> SUFFICES ASSUME CauseInv, [Next]_vars
               PROVE  CauseInv'
    OBVIOUS
  <2>1. TypeOK /\ ReplyDue
    BY DEF CauseInv, ReplyInv, AccountInv, TypeInv
  <2> QED
    BY <2>1, NextReplyInv, StepKeepsNumber, StepKeepsServerParts, StepKeepsFifos DEF CauseInv
<1>3. CauseInv /\ [Next]_vars => [FailsForCause]_vars
  BY FailingHasCause
<1> QED
  BY <1>1, <1>2, <1>3, PTL DEF Spec, FailureHasCause

-----------------------------------------------------------------------------
(***************************************************************************)
(* The server, its monitors and the messages between them implement the    *)
(* scheduler of module Scheduler, for any number of clients, monitors,     *)
(* slots, signals and interrupted clients.                                 *)
(*                                                                         *)
(* The argument.  Admission is Accept, a dispatch is Start, the end of the *)
(* pipeline or of the monitor before it is End, and every other step leaves*)
(* the three sets of jobs alone.  A job is accepted once since its client  *)
(* sends one request; it fits since every job that runs has a slot that    *)
(* has been counted.                                                       *)
(***************************************************************************)

Jobs ==
  {TaskOf([client |-> c, cmd |-> m]) :
     c \in Clients, m \in {n \in Commands : n.name = "PROC_FILE" /\ n.pri # NULL}}

Live == {"start", "running"}
Past == {"ran", "notify", "exited", "died"}

\* What is queued or has a monitor was requested.
JobsAreKnown ==
  /\ queue \subseteq Jobs
  /\ \A p \in Pids : monitor_pc[p] # "none" => monitor_task[p] \in Jobs

-----------------------------------------------------------------------------
(* Jobs that run fit *)

InstancesOf(J, t) == UNION {{job} \X (1 .. job.ops[t]) : job \in J}

\* Jobs that have a slot each need no more instances than the table reserves.
LEMMA JobsInSlots ==
  ASSUME NEW A \in Tables, SmallIn(A), NEW J, NEW t \in Transformations,
         \A job \in J : \E i \in Slots : A[i] # NULL /\ A[i].task = job
  PROVE  /\ IsFiniteSet(InstancesOf(J, t))
         /\ Cardinality(InstancesOf(J, t)) <= Cardinality(ReservedIn(A, t))
         /\ Cardinality(InstancesOf(J, t)) \in Nat
<1> DEFINE slot == [job \in J |-> CHOOSE i \in Slots : A[i] # NULL /\ A[i].task = job]
           S == InstancesOf(J, t)
           T == ReservedIn(A, t)
           f == [pair \in S |-> <<slot[pair[1]], pair[2]>>]
<1>1. \A job \in J : slot[job] \in Slots /\ A[slot[job]] # NULL /\ A[slot[job]].task = job
  OBVIOUS
<1> HIDE DEF slot
<1>2. ASSUME NEW job \in J
      PROVE  slot[job] \in BusyIn(A) /\ OpsTotals(A[slot[job]].task)[t] = job.ops[t]
  <2>1. slot[job] \in BusyIn(A) /\ A[slot[job]] \in ActiveTask
    BY <1>1 DEF BusyIn, Tables
  <2>2. job \in Task /\ SmallTask(job)
    BY <1>1, <2>1 DEF ActiveTask, SmallIn
  <2> QED
    BY <1>1, <2>1, <2>2, SmallTotals
<1>3. \A pair \in S : /\ pair[1] \in J /\ pair[2] \in 1 .. pair[1].ops[t]
                      /\ pair = <<pair[1], pair[2]>>
  BY DEF InstancesOf
<1>4. ASSUME NEW pair \in S
      PROVE  <<slot[pair[1]], pair[2]>> \in T
  <2>1. /\ slot[pair[1]] \in BusyIn(A)
        /\ pair[2] \in 1 .. OpsTotals(A[slot[pair[1]]].task)[t]
    BY <1>2, <1>3
  <2> QED
    BY <2>1 DEF ReservedIn
<1>5. ASSUME NEW a \in S, NEW b \in S, f[a] = f[b]
      PROVE  a = b
  <2>1. slot[a[1]] = slot[b[1]] /\ a[2] = b[2]
    BY <1>5
  <2>2. a[1] = b[1]
    BY <1>1, <1>3, <2>1
  <2> QED
    BY <1>3, <2>1, <2>2
<1>6. f \in Injection(S, T)
  <2>1. f \in [S -> T]
    BY <1>4
  <2> QED
    BY <1>5, <2>1 DEF Injection, IsInjective
<1>7. IsFiniteSet(T)
  BY ReservedIsFinite
<1>8. IsFiniteSet(S) /\ Cardinality(S) <= Cardinality(T)
  <2> HIDE DEF f, S, T
  <2> QED
    BY <1>6, <1>7, FS_Injection
<1> QED
  BY <1>8, FS_CardinalityType

\* The jobs that run after a step fit: every one of them has a slot.
LEMMA LiveJobsFit ==
  ASSUME LimitInv'
  PROVE  \A t \in Transformations :
           Cardinality(InstancesOf(TasksOf(Live)', t)) <= ActiveLimit[t]
<1> SUFFICES ASSUME NEW t \in Transformations
             PROVE  Cardinality(InstancesOf(TasksOf(Live)', t)) <= ActiveLimit[t]
  OBVIOUS
<1>1. active_tasks' \in Tables /\ SmallIn(active_tasks')
  BY DEF LimitInv, TypeInv, TypeOK, TasksAreSmall, Tables
<1>2. \A job \in TasksOf(Live)' :
        \E i \in Slots : active_tasks'[i] # NULL /\ active_tasks'[i].task = job
  <2>1. ASSUME NEW p \in Pids, monitor_pc'[p] \in Live
        PROVE  \E i \in Slots : active_tasks'[i] # NULL /\ active_tasks'[i].task = monitor_task'[p]
    BY <2>1 DEF LimitInv, MonitorsHold, MonitorAlive, Holds, Live
  <2> QED
    BY <2>1 DEF TasksOf
<1>3. Cardinality(ReservedIn(active_tasks', t)) <= ActiveLimit[t]
  BY DEF LimitInv, Counted, CountsWithinLimits
<1>4. Cardinality(ReservedIn(active_tasks', t)) \in Nat /\ ActiveLimit[t] \in Nat
  BY <1>1, ReservedIsFinite, LimitAssumption
<1>5. /\ Cardinality(InstancesOf(TasksOf(Live)', t)) <= Cardinality(ReservedIn(active_tasks', t))
      /\ Cardinality(InstancesOf(TasksOf(Live)', t)) \in Nat
  BY <1>1, <1>2, JobsInSlots
<1> QED
  BY <1>3, <1>4, <1>5

\* A small task that is within the limits fits alone.
LEMMA OneJobFits ==
  ASSUME NEW task \in Task, SmallTask(task), WithinLimits(task)
  PROVE  \A t \in Transformations : Cardinality(InstancesOf({task}, t)) <= ActiveLimit[t]
<1> SUFFICES ASSUME NEW t \in Transformations
             PROVE  Cardinality(InstancesOf({task}, t)) <= ActiveLimit[t]
  OBVIOUS
<1>1. PICK n \in Nat : n = task.ops[t] /\ OpsTotals(task)[t] = n
  BY SmallTotals DEF Task
<1>2. n <= ActiveLimit[t]
  BY <1>1 DEF WithinLimits
<1>3. InstancesOf({task}, t) = {task} \X (1 .. n)
  BY <1>1 DEF InstancesOf
<1>4. IsFiniteSet({task}) /\ Cardinality({task}) = 1
  BY FS_Singleton
<1>5. IsFiniteSet(1 .. n) /\ Cardinality(1 .. n) = n
  BY OneUpTo
<1>6. Cardinality({task} \X (1 .. n)) = Cardinality({task}) * Cardinality(1 .. n)
  BY <1>4, <1>5, FS_Product
<1>7. Cardinality({task} \X (1 .. n)) = n
  BY <1>4, <1>5, <1>6
<1> QED
  BY <1>2, <1>3, <1>7

\* The scheduler's words for a set of jobs that fits and for its steps.
LEMMA FitsMeans ==
  ASSUME NEW J
  PROVE  Promise!Fits(J) <=>
           \A t \in Transformations : Cardinality(InstancesOf(J, t)) <= ActiveLimit[t]
<1>1. \A t : Promise!Instances(J, t) = InstancesOf(J, t)
  BY DEF Promise!Instances, InstancesOf
<1>2. \A S : Promise!Cardinality(S) = Cardinality(S)
  BY DEF Promise!Cardinality, Cardinality
<1> QED
  BY <1>1, <1>2 DEF Promise!Fits

\* Each step is a step of the scheduler, or none.
LEMMA PromiseSteps ==
  ASSUME NEW job \in Jobs, Promise!Accept(job) \/ Promise!Start(job) \/ Promise!End(job)
  PROVE  Promise!Next
  BY DEF Promise!Next, Jobs

-----------------------------------------------------------------------------
(* Every step is a step of the scheduler or changes nothing in it *)

\* The sets of jobs depend on the monitors only.
LEMMA OtherJobs ==
  ASSUME [Next]_vars, ~DispatchTask, ~AdmitTask, \A p \in Pids : ~MonitorStep(p)
  PROVE  UNCHANGED <<queue, monitorVars>>
<1>1. UNCHANGED queue
  <2>1. FinishTask \/ UNCHANGED taskVars => UNCHANGED queue
    BY DEF FinishTask, taskVars
  <2> QED
    BY <2>1, TaskVarsChange
<1>2. CASE ServerStep
  BY <1>1, <1>2 DEF ServerStep, ServerStart, ServerOpensForReading, HandlerRuns,
       ServerTestsFlag, ServerOpensForWriting, ServerCallsRead, ServerReads, ServerHasRead,
       FinishTask, AnswerStatus, ParseFails, ReplyOpens, ReplyWaits, ReplyFindsNoClient,
       ReplyWritten, ReplyBreaksPipe, CheckExit, DispatchFindsNoSlot, DispatchEnds
<1>3. CASE Signal
  BY <1>1, <1>3 DEF Signal, SignalBetweenCalls, SignalInOpen, SignalInRead,
       SignalInReply, ChildRestartsOpen, Interrupted
<1>4. CASE \E c \in Clients : ClientStart(c) \/ ClientStep(c) \/ ClientInterrupted(c)
  BY <1>1, <1>4 DEF ClientStart, ClientStep, ClientInterrupted, ClientFindsNoServer,
       ClientWaitsForServer, ClientOpensServer, ClientMeetsServer, ClientWrites,
       ClientBreaksPipe, ClientNamesFifo, ClientOpensOwn, ClientMeetsReply, ServerWaitsFor,
       ClientReadsReply, ClientEnds
<1>5. CASE UNCHANGED vars
  BY <1>1, <1>5 DEF vars
<1> QED
  BY <1>2, <1>3, <1>4, <1>5 DEF Next

\* A request that is admitted is one of the jobs.
LEMMA AdmitEffect ==
  ASSUME TypeOK, AdmitTask
  PROVE  /\ UNCHANGED monitorVars
         /\ \/ UNCHANGED queue
            \/ \E task \in Jobs, c \in Clients :
                 /\ task \in Task /\ task.client = c /\ Head(buf) \in RequestsOf(c)
                 /\ WithinLimits(task) /\ queue' = queue \cup {task}
<1>1. /\ UNCHANGED monitorVars
      /\ buf # << >> /\ Head(buf).kind = "REQUEST" /\ Head(buf).cmd.name = "PROC_FILE"
      /\ HasPriority(Head(buf).cmd)
  BY DEF AdmitTask, ProcessingProcFile, Processing
<1>2. Head(buf) \in Messages
  BY <1>1, SequenceTypes DEF TypeOK
<1>3. PICK c \in Clients, m \in Commands : c = Head(buf).client /\ m = Head(buf).cmd
  BY <1>1, <1>2 DEF Messages
<1>4. TaskOf(Head(buf)) = TaskOf([client |-> c, cmd |-> m])
  BY <1>3 DEF TaskOf
<1>5. TaskOf(Head(buf)) \in Jobs
  BY <1>1, <1>3, <1>4 DEF Jobs, HasPriority
<1>6. TaskOf(Head(buf)).client = c /\ Head(buf) \in RequestsOf(c) /\ TaskOf(Head(buf)) \in Task
  BY <1>1, <1>2, <1>3, TaskOfType DEF TaskOf, RequestsOf
<1>7. \/ UNCHANGED queue
      \/ WithinLimits(TaskOf(Head(buf))) /\ queue' = queue \cup {TaskOf(Head(buf))}
  BY DEF AdmitTask
<1> QED
  BY <1>1, <1>5, <1>6, <1>7

\* Requested jobs only are queued and given to monitors.
LEMMA StepKeepsJobsKnown ==
  ASSUME TypeOK, JobsAreKnown, [Next]_vars
  PROVE  JobsAreKnown'
<1> USE DEF JobsAreKnown
<1>1. CASE DispatchTask
  <2>1. PICK task \in queue, p \in Pids :
          /\ queue' = queue \ {task}
          /\ monitor_pc' = [monitor_pc EXCEPT ![p] = "start"]
          /\ monitor_task' = [monitor_task EXCEPT ![p] = task]
    BY <1>1, DispatchEffect DEF Dispatched
  <2> QED
    BY <2>1 DEF TypeOK
<1>2. CASE AdmitTask
  BY <1>2, AdmitEffect DEF monitorVars
<1>3. ASSUME NEW p \in Pids, MonitorStep(p)
      PROVE  JobsAreKnown'
  BY <1>3 DEF MonitorStep, MonitorOpens, MonitorFindsNoClient, MonitorRunsPipeline,
       MonitorCompletes, MonitorBreaksPipe, MonitorNotifies, MonitorGoesTo, TypeOK,
       serverVars, taskVars
<1>4. CASE UNCHANGED <<queue, monitorVars>>
  BY <1>4 DEF monitorVars
<1> QED
  BY <1>1, <1>2, <1>3, <1>4, OtherJobs

\* A request that is admitted is a job the scheduler has not seen.
LEMMA AdmitIsAccept ==
  ASSUME StageInv, SmallCommands, LimitInv', AdmitTask
  PROVE  [Promise!Next]_(Promise!vars)
<1>1. TypeOK /\ UNCHANGED monitorVars
  BY AdmitEffect DEF StageInv, TypeInv
<1>2. TasksOf(Live)' = TasksOf(Live) /\ TasksOf(Past)' = TasksOf(Past)
  BY <1>1 DEF TasksOf, monitorVars
<1>3. CASE UNCHANGED queue
  BY <1>2, <1>3 DEF Promise!vars, Live, Past
<1>4. ASSUME NEW task \in Jobs, NEW c \in Clients,
             task \in Task, task.client = c, Head(buf) \in RequestsOf(c),
             WithinLimits(task), queue' = queue \cup {task}
      PROVE  Promise!Accept(task)
  <2>1. QueuedOf(c) = {} /\ MonitorsOf(c) = {}
    BY <1>4, AnsweredIsNew DEF NotRead
  <2>2. task \notin queue
    BY <1>4, <2>1 DEF QueuedOf
  <2>3. task \notin TasksOf(Live) \cup TasksOf(Past)
    BY <1>4, <2>1 DEF MonitorsOf, TasksOf, Live, Past
  <2>4. SmallTask(task)
    BY <1>4 DEF LimitInv, TasksAreSmall
  <2>5. Promise!Fits({task})
    BY <1>4, <2>4, OneJobFits, FitsMeans
  <2> QED
    BY <1>2, <1>4, <2>2, <2>3, <2>5 DEF Promise!Accept, Live, Past
<1> QED
  BY <1>1, <1>3, <1>4, AdmitEffect, PromiseSteps

\* A dispatch starts a job of the highest priority, which then fits.
LEMMA DispatchIsStart ==
  ASSUME TypeOK, JobsAreKnown, LimitInv', DispatchTask
  PROVE  [Promise!Next]_(Promise!vars)
<1>1. PICK task \in Heads, p \in Pids :
        /\ monitor_pc[p] = "none"
        /\ queue' = queue \ {task}
        /\ monitor_pc' = [monitor_pc EXCEPT ![p] = "start"]
        /\ monitor_task' = [monitor_task EXCEPT ![p] = task]
  BY DEF DispatchTask
<1>2. task \in queue /\ task \in Jobs /\ \A other \in queue : other.pri <= task.pri
  BY <1>1 DEF Heads, JobsAreKnown
<1>3. /\ monitor_pc'[p] = "start" /\ monitor_task'[p] = task
      /\ \A q \in Pids \ {p} : monitor_pc'[q] = monitor_pc[q] /\ monitor_task'[q] = monitor_task[q]
  BY <1>1 DEF TypeOK
<1>4. TasksOf(Live)' = TasksOf(Live) \cup {task}
  BY <1>1, <1>3 DEF TasksOf, Live
<1>5. TasksOf(Past)' = TasksOf(Past)
  BY <1>1, <1>3 DEF TasksOf, Past
<1>6. Promise!Fits(TasksOf(Live) \cup {task})
  BY <1>4, LiveJobsFit, FitsMeans
<1>7. Promise!Start(task)
  BY <1>1, <1>2, <1>4, <1>5, <1>6 DEF Promise!Start, Live, Past
<1> QED
  BY <1>2, <1>7, PromiseSteps

\* A monitor ends its job when the pipeline ends, or before it has begun.
LEMMA MonitorStepIsEnd ==
  ASSUME StageInv, JobsAreKnown, NEW p \in Pids, MonitorStep(p)
  PROVE  [Promise!Next]_(Promise!vars)
<1>1. UNCHANGED <<queue, monitor_task>> /\ monitor_pc[p] # "none" /\ TypeOK
  BY DEF MonitorStep, MonitorOpens, MonitorFindsNoClient, MonitorRunsPipeline,
         MonitorCompletes, MonitorBreaksPipe, MonitorNotifies, MonitorGoesTo,
         serverVars, taskVars, StageInv, TypeInv
<1>2. PICK to \in MonitorPcs :
        /\ monitor_pc' = [monitor_pc EXCEPT ![p] = to]
        /\ \/ monitor_pc[p] \in Live /\ to \in Live
           \/ monitor_pc[p] \in Live /\ to \in Past
           \/ monitor_pc[p] \in Past /\ to \in Past
  BY DEF MonitorStep, MonitorOpens, MonitorFindsNoClient, MonitorRunsPipeline,
         MonitorCompletes, MonitorBreaksPipe, MonitorNotifies, MonitorGoesTo,
         MonitorPcs, Live, Past
<1>3. monitor_pc'[p] = to /\ \A q \in Pids \ {p} : monitor_pc'[q] = monitor_pc[q]
  BY <1>1, <1>2 DEF TypeOK
<1>4. Live \cap Past = {}
  BY DEF Live, Past
<1>5. CASE (monitor_pc[p] \in Live /\ to \in Live) \/ (monitor_pc[p] \in Past /\ to \in Past)
  <2>1. TasksOf(Live)' = TasksOf(Live) /\ TasksOf(Past)' = TasksOf(Past)
    BY <1>1, <1>3, <1>4, <1>5 DEF TasksOf
  <2> QED
    BY <1>1, <2>1 DEF Promise!vars, Live, Past
<1>6. CASE monitor_pc[p] \in Live /\ to \in Past
  <2>1. PICK task \in Jobs : task = monitor_task[p]
    BY <1>1 DEF JobsAreKnown
  <2>2. PICK c \in Clients : c = task.client
    BY <2>1 DEF Jobs, TaskOf
  <2>3. MonitorsOf(c) = {p}
    <3>1. p \in MonitorsOf(c) /\ Stage(c)
      BY <1>1, <2>1, <2>2 DEF MonitorsOf, StageInv
    <3> QED
      BY <3>1 DEF Stage, NotSent, NotRead, Heard, Waiting, Served, Refused
  <2>4. \A q \in Pids \ {p} : monitor_pc[q] # "none" => monitor_task[q] # task
    BY <2>2, <2>3 DEF MonitorsOf
  <2>5. task \in TasksOf(Live)
    BY <1>6, <2>1 DEF TasksOf
  <2>6. TasksOf(Live)' = TasksOf(Live) \ {task}
    <3>1. "none" \notin Live
      BY DEF Live
    <3> QED
      BY <1>1, <1>3, <1>4, <1>6, <2>1, <2>4, <3>1 DEF TasksOf
  <2>7. TasksOf(Past)' = TasksOf(Past) \cup {task}
    BY <1>1, <1>3, <1>4, <1>6, <2>1 DEF TasksOf
  <2>8. Promise!End(task)
    BY <1>1, <2>5, <2>6, <2>7 DEF Promise!End, Live, Past
  <2> QED
    BY <2>8, PromiseSteps
<1> QED
  BY <1>2, <1>5, <1>6

\* The server, its monitors and the messages between them implement the abstract
\* scheduler (server.c:112-119, 142-193, 336-354, 414-422): a job is admitted if it can ever
\* run, started once, in the order of the priorities and within the limits of what
\* really runs, provided no command asks for more than 127 instances of a
\* transformation.
THEOREM SchedulerImplemented == ASSUME SmallCommands PROVE Spec => ImplementsScheduler
<1>1. Init => Promise!Init /\ JobsAreKnown
  <2> SUFFICES ASSUME Init
               PROVE  Promise!Init /\ JobsAreKnown
    OBVIOUS
  <2>1. TasksOf(Live) = {} /\ TasksOf(Past) = {}
    BY DEF Init, TasksOf, Live, Past
  <2> QED
    BY <2>1 DEF Init, Promise!Init, JobsAreKnown, Live, Past
<1>2. LimitInv /\ JobsAreKnown /\ [Next]_vars => JobsAreKnown'
  BY StepKeepsJobsKnown DEF LimitInv, TypeInv
<1>3. LimitInv' /\ ReplyInv /\ JobsAreKnown /\ [Next]_vars => [Promise!Next]_(Promise!vars)
  <2> SUFFICES ASSUME LimitInv', ReplyInv, JobsAreKnown, [Next]_vars
               PROVE  [Promise!Next]_(Promise!vars)
    OBVIOUS
  <2>1. StageInv /\ TypeOK
    BY DEF ReplyInv, AccountInv, TypeInv, StageInv
  <2>2. CASE AdmitTask
    BY <2>1, <2>2, AdmitIsAccept
  <2>3. CASE DispatchTask
    BY <2>1, <2>3, DispatchIsStart
  <2>4. CASE \E p \in Pids : MonitorStep(p)
    BY <2>1, <2>4, MonitorStepIsEnd
  <2>5. CASE UNCHANGED <<queue, monitorVars>>
    BY <2>5 DEF Promise!vars, TasksOf, monitorVars
  <2> QED
    BY <2>2, <2>3, <2>4, <2>5, OtherJobs
<1>4. ImplementsScheduler <=> Promise!Init /\ [][Promise!Next]_(Promise!vars)
  BY DEF ImplementsScheduler, Promise!Spec
<1> QED
  BY <1>1, <1>2, <1>3, <1>4, LimitInvAlways, ReplyInvAlways, PTL DEF Spec
=============================================================================
