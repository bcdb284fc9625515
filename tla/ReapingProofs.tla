---------------------------- MODULE ReapingProofs ----------------------------
(***************************************************************************)
(* The invariants of Reaping, for any number of pids, slots and tasks.     *)
(*                                                                         *)
(* The argument.  SIGCHLD becomes pending when a child becomes a zombie,   *)
(* and each entry of the handler consumes one signal and one zombie; a     *)
(* signal that is merged with a pending one leaves its zombie.  A monitor  *)
(* brings a slot with its pid and leaves at most one message, which takes  *)
(* at most one slot away.  A fresh pid (one that no unread message names)  *)
(* can lose its slot only to its own message, so that a monitor that runs  *)
(* still has the slot it was given.                                        *)
(***************************************************************************)
EXTENDS Reaping, FiniteSetTheorems, WellFoundedInduction, TLAPS

\* next_pos and the search of process_message: a nonempty set of slots has a
\* lowest member.
LEMMA LowestSlot ==
  ASSUME NEW S, S \subseteq Slots, S # {}
  PROVE  Lowest(S) \in S
<1>1. S \subseteq Nat
  BY ReapingAssumption DEF Slots
<1> DEFINE R == {ss \in Nat \X Nat : ss[1] < ss[2]}
<1>2. IsWellFoundedOn(R, Nat)
  BY NatLessThanWellFounded DEF OpToRel
<1>3. PICK i \in S : \A j \in S : <<j, i>> \notin R
  <2> HIDE DEF R
  <2> QED
    BY <1>1, <1>2, WFMin
<1>4. \A j \in S : ~(j < i) /\ i \in Nat /\ j \in Nat
  BY <1>1, <1>3
<1>5. \A j \in S : i <= j
  BY <1>4
<1> QED
  BY <1>3, <1>5 DEF Lowest

\* The sets that the invariants count are finite.
LEMMA Finite ==
  /\ IsFiniteSet(Pids)
  /\ IsFiniteSet(Zombies) /\ Cardinality(Zombies) \in Nat
  /\ \A p : IsFiniteSet(SlotsOf(p)) /\ Cardinality(SlotsOf(p)) \in Nat
<1>1. IsFiniteSet(Slots)
  <2>1. MaxParallel - 1 \in Int
    BY ReapingAssumption
  <2> QED
    BY <2>1, FS_Interval DEF Slots
<1>2. Zombies \in SUBSET Pids /\ \A p : SlotsOf(p) \in SUBSET Slots
  BY DEF Zombies, SlotsOf
<1>3. IsFiniteSet(Pids)
  BY ReapingAssumption
<1>4. IsFiniteSet(Zombies)
  BY <1>2, <1>3, FS_Subset
<1>5. \A p : IsFiniteSet(SlotsOf(p))
  BY <1>1, <1>2, FS_Subset
<1> QED
  BY <1>3, <1>4, <1>5, FS_CardinalityType

-----------------------------------------------------------------------------
(* Types *)

\* Every step of the server (listening_loop, monitor_run_task), of its monitors
\* and of sig_child keeps the types.
LEMMA TypeStep ==
  ASSUME TypeOK, [Next]_vars
  PROVE  TypeOK'
<1> USE DEF TypeOK
<1>1. CASE Admit
  BY <1>1, ReapingAssumption DEF Admit, slotVars, procVars
<1>2. CASE StartDispatching
  BY <1>2 DEF StartDispatching, slotVars, procVars
<1>3. CASE DispatchFails
  BY <1>3 DEF DispatchFails, slotVars, procVars
<1>4. CASE StopDispatching
  BY <1>4 DEF StopDispatching, slotVars, procVars
<1>5. CASE EnterHandler
  BY <1>5 DEF EnterHandler, slotVars, procVars
<1>6. CASE HandlerWaits
  <2>1. PICK p \in Zombies : proc' = [proc EXCEPT ![p] = "none"]
    BY <1>6 DEF HandlerWaits, WaitForOne
  <2>2. proc' \in [Pids -> ProcStates]
    BY <2>1 DEF ProcStates
  <2> QED
    BY <1>6, <2>2 DEF HandlerWaits, slotVars
<1>7. ASSUME NEW p \in Pids, Finish(p)
      PROVE  TypeOK'
  <2>1. unread' \in [Pids -> Nat]
    BY <1>7 DEF Finish
  <2>2. slot_pid' \in [Slots -> Pids \cup {NULL}] /\ slot_task' \in [Slots -> 0..MaxTasks]
    BY <1>7, ReapingAssumption DEF Finish, slotVars
  <2>3. server_pc' \in {"receiving", "dispatching", "failed"}
    BY <1>7 DEF Finish
  <2> QED
    BY <1>7, <2>1, <2>2, <2>3 DEF Finish, procVars
<1>8. ASSUME NEW p \in Pids, Dispatch(p)
      PROVE  TypeOK'
  <2>1. dispatched + 1 \in 0..submitted /\ dispatched + 1 \in 0..MaxTasks
    BY <1>8, ReapingAssumption DEF Dispatch
  <2>2. proc' \in [Pids -> ProcStates] /\ proc_task' \in [Pids -> 0..MaxTasks]
    BY <1>8, <2>1 DEF Dispatch, ProcStates
  <2>3. slot_pid' \in [Slots -> Pids \cup {NULL}] /\ slot_task' \in [Slots -> 0..MaxTasks]
    BY <1>8, <2>1 DEF Dispatch
  <2>4. reused' \in BOOLEAN
    BY <1>8 DEF Dispatch
  <2> QED
    BY <1>8, <2>1, <2>2, <2>3, <2>4 DEF Dispatch
<1>9. ASSUME NEW p \in Pids, Notify(p)
      PROVE  TypeOK'
  BY <1>9 DEF Notify, Report, slotVars, ProcStates
<1>10. ASSUME NEW p \in Pids, Exit(p)
       PROVE  TypeOK'
  BY <1>10 DEF Exit, slotVars, ProcStates
<1>11. CASE UNCHANGED vars
  BY <1>11 DEF vars, slotVars, procVars
<1> QED
  BY <1>1, <1>2, <1>3, <1>4, <1>5, <1>6, <1>7, <1>8, <1>9, <1>10, <1>11 DEF Next

\* The table of slots, the process table and the messages keep their types.
THEOREM ReapingTypeCorrect == Spec => []TypeOK
<1>1. Init => TypeOK
  <2>1. 0 \in 0..MaxTasks /\ 0 \in 0..0 /\ 0 \in Nat
    BY ReapingAssumption
  <2> QED
    BY <2>1 DEF Init, TypeOK, ProcStates
<1>2. TypeOK /\ [Next]_vars => TypeOK'
  BY TypeStep
<1> QED
  BY <1>1, <1>2, PTL DEF Spec

-----------------------------------------------------------------------------
(* SIGCHLD *)

\* A signal is raised with a zombie, and consumed with one: sig_child
\* (server.c:430-431) never waits for a monitor that still runs.
THEOREM HandlerIsNeverBlocked == Spec => []HandlerNeverBlocks
<1>1. Init => HandlerNeverBlocks
  <2> SUFFICES ASSUME Init PROVE HandlerNeverBlocks
    OBVIOUS
  <2>1. Truth(pending) + Truth(in_handler) + merged = 0
    BY DEF Init, Truth
  <2>2. Zombies = {}
    BY DEF Init, Zombies
  <2> QED
    BY <2>1, <2>2, FS_EmptySet DEF HandlerNeverBlocks
<1>2. TypeOK /\ HandlerNeverBlocks /\ [Next]_vars => HandlerNeverBlocks'
  <2> SUFFICES ASSUME TypeOK, HandlerNeverBlocks, [Next]_vars
               PROVE  HandlerNeverBlocks'
    OBVIOUS
  <2> DEFINE n == Cardinality(Zombies)
  <2>0. n \in Nat /\ n = Truth(pending) + Truth(in_handler) + merged /\ merged \in Nat
    BY Finite DEF HandlerNeverBlocks, TypeOK
  <2>1. ASSUME Zombies' = Zombies, UNCHANGED <<pending, in_handler, merged>>
        PROVE  HandlerNeverBlocks'
    BY <2>0, <2>1 DEF HandlerNeverBlocks, Truth
  <2>2. CASE UNCHANGED <<proc, pending, in_handler, merged>>
    BY <2>1, <2>2 DEF Zombies
  <2>3. CASE EnterHandler
    <3>1. Zombies' = Zombies
      BY <2>3 DEF EnterHandler, procVars, Zombies
    <3> QED
      BY <2>0, <2>3, <3>1 DEF EnterHandler, HandlerNeverBlocks, Truth
  <2>4. CASE HandlerWaits
    <3>1. PICK p \in Zombies : proc' = [proc EXCEPT ![p] = "none"]
      BY <2>4 DEF HandlerWaits, WaitForOne
    <3>2. Zombies' = Zombies \ {p}
      BY <3>1 DEF Zombies, TypeOK
    <3>3. Cardinality(Zombies') = n - 1
      BY <3>1, <3>2, Finite, FS_RemoveElement
    <3> QED
      BY <2>0, <2>4, <3>3 DEF HandlerWaits, HandlerNeverBlocks, Truth
  <2>5. ASSUME NEW p \in Pids, Dispatch(p) \/ Notify(p)
        PROVE  HandlerNeverBlocks'
    <3>1. Zombies' = Zombies
      BY <2>5 DEF Dispatch, Notify, FreePids, Zombies, TypeOK
    <3> QED
      BY <2>1, <2>5, <3>1 DEF Dispatch, Notify
  <2>6. ASSUME NEW p \in Pids, Exit(p)
        PROVE  HandlerNeverBlocks'
    <3>1. p \notin Zombies /\ Zombies' = Zombies \cup {p}
      BY <2>6 DEF Exit, Zombies, TypeOK
    <3>2. Cardinality(Zombies') = n + 1
      BY <3>1, Finite, FS_AddElement
    <3> QED
      BY <2>0, <2>6, <3>2 DEF Exit, HandlerNeverBlocks, Truth
  <2>7. CASE Admit \/ StartDispatching \/ DispatchFails \/ StopDispatching
    BY <2>2, <2>7 DEF Admit, StartDispatching, DispatchFails, StopDispatching, procVars
  <2>8. ASSUME NEW p \in Pids, Finish(p)
        PROVE  HandlerNeverBlocks'
    BY <2>2, <2>8 DEF Finish, procVars
  <2>9. CASE UNCHANGED vars
    BY <2>2, <2>9 DEF vars, procVars
  <2> QED
    BY <2>3, <2>4, <2>5, <2>6, <2>7, <2>8, <2>9 DEF Next
<1> QED
  BY <1>1, <1>2, ReapingTypeCorrect, PTL DEF Spec

-----------------------------------------------------------------------------
(* Slots and messages *)

\* The slot that a FINISHED_TASK message frees, the first with its pid, is one
\* of that pid (server.c:259-262).
LEMMA FoundSlotHasPid ==
  ASSUME NEW p, SlotsOf(p) # {}
  PROVE  SlotFound(p) \in Slots /\ slot_pid[SlotFound(p)] = p
BY LowestSlot DEF SlotFound, SlotsOf

\* What the processing of a message of p does to the slots of each pid.
LEMMA FinishSlots ==
  ASSUME TypeOK, NEW p \in Pids, Finish(p), SlotsOf(p) # {}
  PROVE  /\ SlotsOf(p)' = SlotsOf(p) \ {SlotFound(p)}
         /\ SlotFound(p) \in SlotsOf(p)
         /\ \A q \in Pids \ {p} : /\ SlotsOf(q)' = SlotsOf(q)
                                  /\ SlotFound(p) \notin SlotsOf(q)
         /\ \A i \in Slots \ {SlotFound(p)} : slot_task'[i] = slot_task[i]
<1>1. SlotFound(p) \in Slots /\ slot_pid[SlotFound(p)] = p
  BY FoundSlotHasPid
<1>2. /\ slot_pid' = [slot_pid EXCEPT ![SlotFound(p)] = NULL]
      /\ slot_task' = [slot_task EXCEPT ![SlotFound(p)] = 0]
  BY DEF Finish
<1> QED
  BY <1>1, <1>2, ReapingAssumption DEF SlotsOf, TypeOK

\* What a dispatch does to them (next_pos, server.c:398 and 415-423).
LEMMA DispatchSlots ==
  ASSUME TypeOK, NEW p \in Pids, Dispatch(p)
  PROVE  /\ Lowest(FreeSlots) \in Slots \ SlotsOf(p)
         /\ SlotsOf(p)' = SlotsOf(p) \cup {Lowest(FreeSlots)}
         /\ slot_task'[Lowest(FreeSlots)] = proc_task'[p]
         /\ \A q \in Pids \ {p} : /\ SlotsOf(q)' = SlotsOf(q)
                                  /\ Lowest(FreeSlots) \notin SlotsOf(q)
         /\ \A i \in Slots \ {Lowest(FreeSlots)} : slot_task'[i] = slot_task[i]
<1>1. Lowest(FreeSlots) \in FreeSlots
  BY LowestSlot DEF FreeSlots, Dispatch
<1>2. /\ slot_pid' = [slot_pid EXCEPT ![Lowest(FreeSlots)] = p]
      /\ slot_task' = [slot_task EXCEPT ![Lowest(FreeSlots)] = dispatched + 1]
      /\ proc_task' = [proc_task EXCEPT ![p] = dispatched + 1]
  BY DEF Dispatch
<1> QED
  BY <1>1, <1>2, ReapingAssumption DEF SlotsOf, FreeSlots, TypeOK

\* The slots of p outnumber its unread messages and the one it may still write.
Claim(p) == unread[p] + Truth(proc[p] = "running") <= Cardinality(SlotsOf(p))

\* Every FINISHED_TASK that reaches the server finds a slot: the assertion of
\* process_message (server.c:264-268) does not fail.
THEOREM ReportsAlwaysFindSlots == Spec => []ReportsFindSlots
<1>1. Init => ReportsFindSlots
  BY Finite DEF Init, ReportsFindSlots, Truth
<1>2. TypeOK /\ ReportsFindSlots /\ [Next]_vars => ReportsFindSlots'
  <2> SUFFICES ASSUME TypeOK, ReportsFindSlots, [Next]_vars, NEW q \in Pids
               PROVE  Claim(q)'
    BY DEF ReportsFindSlots, Claim
  <2>0. Claim(q) /\ unread[q] \in Nat /\ Cardinality(SlotsOf(q)) \in Nat
    BY Finite DEF ReportsFindSlots, Claim, TypeOK
  <2>1. ASSUME unread'[q] = unread[q], (proc'[q] = "running") => (proc[q] = "running"),
               SlotsOf(q)' = SlotsOf(q)
        PROVE  Claim(q)'
    BY <2>0, <2>1 DEF Claim, Truth
  <2>2. ASSUME NEW p \in Pids, Finish(p)
        PROVE  Claim(q)'
    <3>1. SlotsOf(p) # {}
      <4>1. unread[p] > 0 /\ unread[p] \in Nat
        BY <2>2 DEF Finish, TypeOK
      <4>2. unread[p] + Truth(proc[p] = "running") <= Cardinality(SlotsOf(p))
        BY DEF ReportsFindSlots
      <4>3. Truth(proc[p] = "running") \in {0, 1}
        BY DEF Truth
      <4>4. Cardinality(SlotsOf(p)) # 0
        BY <4>1, <4>2, <4>3, Finite
      <4> QED
        BY <4>4, FS_EmptySet
    <3>2. proc' = proc /\ unread' = [unread EXCEPT ![p] = @ - 1]
      BY <2>2 DEF Finish, procVars
    <3>3. CASE q = p
      <4>1. Cardinality(SlotsOf(q)') = Cardinality(SlotsOf(q)) - 1
        BY <2>2, <3>1, <3>3, FinishSlots, Finite, FS_RemoveElement
      <4>2. unread'[q] = unread[q] - 1
        BY <3>2, <3>3 DEF TypeOK
      <4> QED
        BY <2>0, <3>2, <4>1, <4>2 DEF Claim, Truth
    <3>4. CASE q # p
      <4>1. SlotsOf(q)' = SlotsOf(q)
        BY <2>2, <3>1, <3>4, FinishSlots
      <4>2. unread'[q] = unread[q]
        BY <3>2, <3>4 DEF TypeOK
      <4> QED
        BY <2>1, <3>2, <4>1, <4>2
    <3> QED
      BY <3>3, <3>4
  <2>3. ASSUME NEW p \in Pids, Dispatch(p)
        PROVE  Claim(q)'
    <3>1. unread' = unread /\ proc[p] = "none" /\ proc' = [proc EXCEPT ![p] = "running"]
      BY <2>3 DEF Dispatch, FreePids
    <3>2. CASE q = p
      <4>1. Cardinality(SlotsOf(q)') = Cardinality(SlotsOf(q)) + 1
        BY <2>3, <3>2, DispatchSlots, Finite, FS_AddElement
      <4> QED
        BY <2>0, <3>1, <3>2, <4>1 DEF Claim, Truth
    <3>3. CASE q # p
      <4>1. SlotsOf(q)' = SlotsOf(q)
        BY <2>3, <3>3, DispatchSlots
      <4>2. proc'[q] = proc[q]
        BY <3>1, <3>3 DEF TypeOK
      <4> QED
        BY <2>1, <3>1, <4>1, <4>2
    <3> QED
      BY <3>2, <3>3
  <2>4. ASSUME NEW p \in Pids, Notify(p)
        PROVE  Claim(q)'
    <3>1. /\ SlotsOf(q)' = SlotsOf(q) /\ proc[p] = "running"
          /\ proc' = [proc EXCEPT ![p] = "notified"]
          /\ unread' = [unread EXCEPT ![p] = @ + 1]
      BY <2>4 DEF Notify, Report, slotVars, SlotsOf
    <3>2. CASE q = p
      <4>1. unread'[q] = unread[q] + 1 /\ proc'[q] = "notified"
        BY <3>1, <3>2 DEF TypeOK
      <4> QED
        BY <2>0, <3>1, <3>2, <4>1 DEF Claim, Truth
    <3>3. CASE q # p
      <4>1. unread'[q] = unread[q] /\ proc'[q] = proc[q]
        BY <3>1, <3>3 DEF TypeOK
      <4> QED
        BY <2>1, <3>1, <4>1
    <3> QED
      BY <3>2, <3>3
  <2>5. ASSUME NEW p \in Pids, Exit(p)
        PROVE  Claim(q)'
    BY <2>1, <2>5 DEF Exit, slotVars, SlotsOf, TypeOK
  <2>6. CASE HandlerWaits
    <3>1. PICK p \in Zombies : proc' = [proc EXCEPT ![p] = "none"]
      BY <2>6 DEF HandlerWaits, WaitForOne
    <3> QED
      BY <2>1, <2>6, <3>1 DEF HandlerWaits, slotVars, SlotsOf, TypeOK
  <2>7. CASE UNCHANGED <<unread, proc, slot_pid>>
    BY <2>1, <2>7 DEF SlotsOf
  <2>8. CASE \/ Admit \/ StartDispatching \/ DispatchFails \/ StopDispatching
             \/ EnterHandler \/ UNCHANGED vars
    BY <2>7, <2>8 DEF Admit, StartDispatching, DispatchFails, StopDispatching,
                      EnterHandler, vars, slotVars, procVars
  <2> QED
    BY <2>2, <2>3, <2>4, <2>5, <2>6, <2>8 DEF Next
<1> QED
  BY <1>1, <1>2, ReapingTypeCorrect, PTL DEF Spec

-----------------------------------------------------------------------------
(* A monitor and its slot *)

\* The strengthening, for one pid: as long as no pid came back too early, no
\* message of a monitor that runs is in the FIFO.
Holds(p) == ~reused /\ proc[p] = "running" =>
  /\ unread[p] = 0
  /\ \E i \in SlotsOf(p) : slot_task[i] = proc_task[p]

\* A running monitor has the slot that it was given with its task, unless the
\* kernel returned a pid whose message was unread (server.c:258-274, 415-423).
THEOREM MonitorsHoldOwnSlots == Spec => []RunningHoldsOwnSlot
<1> DEFINE IInv == \A p \in Pids : Holds(p)
<1>1. Init => IInv
  BY DEF Init, Holds
<1>2. TypeOK /\ IInv /\ [Next]_vars => IInv'
  <2> SUFFICES ASSUME TypeOK, IInv, [Next]_vars, NEW q \in Pids
               PROVE  Holds(q)'
    OBVIOUS
  <2>0. Holds(q)
    OBVIOUS
  <2>1. ASSUME UNCHANGED <<reused, slot_pid, slot_task>>, unread'[q] = unread[q],
               proc_task'[q] = proc_task[q], (proc'[q] = "running") => (proc[q] = "running")
        PROVE  Holds(q)'
    BY <2>0, <2>1 DEF Holds, SlotsOf
  <2>2. ASSUME NEW p \in Pids, Finish(p)
        PROVE  Holds(q)'
    <3>1. CASE SlotsOf(p) = {}
      <4>1. ~(~reused /\ proc[p] = "running")
        BY <3>1 DEF Holds
      <4>2. q # p => unread'[q] = unread[q]
        BY <2>2 DEF Finish, TypeOK
      <4> QED
        BY <2>1, <2>2, <3>1, <4>1, <4>2 DEF Finish, slotVars, procVars, Holds
    <3>2. CASE SlotsOf(p) # {} /\ q = p
      BY <2>0, <2>2, <3>2 DEF Finish, Holds, procVars, TypeOK
    <3>3. CASE SlotsOf(p) # {} /\ q # p
      <4>1. /\ SlotsOf(q)' = SlotsOf(q)
            /\ \A i \in SlotsOf(q) : slot_task'[i] = slot_task[i]
        <5>1. SlotsOf(q) \subseteq Slots
          BY DEF SlotsOf
        <5> QED
          BY <2>2, <3>3, <5>1, FinishSlots
      <4>2. unread'[q] = unread[q] /\ UNCHANGED <<reused, proc, proc_task>>
        BY <2>2, <3>3 DEF Finish, procVars, TypeOK
      <4> QED
        BY <2>0, <4>1, <4>2 DEF Holds
    <3> QED
      BY <3>1, <3>2, <3>3
  <2>3. ASSUME NEW p \in Pids, Dispatch(p)
        PROVE  Holds(q)'
    <3>1. CASE q = p
      <4>1. ~reused' => unread'[q] = 0
        <5>1. unread[q] \in Nat /\ unread' = unread
          BY <2>3 DEF Dispatch, TypeOK
        <5>2. reused' = (reused \/ unread[q] > 0)
          BY <2>3, <3>1 DEF Dispatch
        <5>3. CASE unread[q] > 0
          BY <5>2, <5>3
        <5>4. CASE unread[q] = 0
          BY <5>1, <5>4
        <5> QED
          BY <5>1, <5>3, <5>4
      <4>2. \E i \in SlotsOf(q)' : slot_task'[i] = proc_task'[q]
        BY <2>3, <3>1, DispatchSlots
      <4> QED
        BY <4>1, <4>2 DEF Holds
    <3>2. CASE q # p
      <4>1. /\ SlotsOf(q)' = SlotsOf(q)
            /\ \A i \in SlotsOf(q) : slot_task'[i] = slot_task[i]
        <5>1. SlotsOf(q) \subseteq Slots
          BY DEF SlotsOf
        <5> QED
          BY <2>3, <3>2, <5>1, DispatchSlots
      <4>2. /\ unread' = unread /\ proc'[q] = proc[q] /\ proc_task'[q] = proc_task[q]
            /\ reused => reused'
        BY <2>3, <3>2 DEF Dispatch, TypeOK
      <4> QED
        BY <2>0, <4>1, <4>2 DEF Holds
    <3> QED
      BY <3>1, <3>2
  <2>4. ASSUME NEW p \in Pids, Notify(p)
        PROVE  Holds(q)'
    <3>1. CASE q = p
      BY <2>4, <3>1 DEF Notify, Holds, TypeOK
    <3>2. CASE q # p
      <4>1. unread'[q] = unread[q] /\ proc'[q] = proc[q]
        BY <2>4, <3>2 DEF Notify, Report, TypeOK
      <4> QED
        BY <2>1, <2>4, <4>1 DEF Notify, slotVars
    <3> QED
      BY <3>1, <3>2
  <2>5. ASSUME NEW p \in Pids, Exit(p)
        PROVE  Holds(q)'
    BY <2>1, <2>5 DEF Exit, slotVars, TypeOK
  <2>6. CASE HandlerWaits
    <3>1. PICK p \in Zombies : proc' = [proc EXCEPT ![p] = "none"]
      BY <2>6 DEF HandlerWaits, WaitForOne
    <3> QED
      BY <2>1, <2>6, <3>1 DEF HandlerWaits, slotVars, TypeOK
  <2>7. CASE \/ Admit \/ StartDispatching \/ DispatchFails \/ StopDispatching
             \/ EnterHandler \/ UNCHANGED vars
    BY <2>1, <2>7 DEF Admit, StartDispatching, DispatchFails, StopDispatching,
                      EnterHandler, vars, slotVars, procVars
  <2> QED
    BY <2>2, <2>3, <2>4, <2>5, <2>6, <2>7 DEF Next
<1>3. IInv => RunningHoldsOwnSlot
  BY DEF Holds, RunningHoldsOwnSlot
<1> QED
  BY <1>1, <1>2, <1>3, ReapingTypeCorrect, PTL DEF Spec
=============================================================================
