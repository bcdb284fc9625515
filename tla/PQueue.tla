------------------------------- MODULE PQueue -------------------------------
(***************************************************************************)
(* The binary heap of util/pqueue.c with the callbacks of pqueue_task.c,   *)
(* one iteration of a loop at a time.  The elements are task_t, and each   *)
(* of them records its own position, by which it can be found again.       *)
(*                                                                         *)
(* The server only inserts, peeks and pops; pqueue_change_priority and     *)
(* pqueue_remove are the rest of the library.  Left out: an insertion      *)
(* whose realloc fails, which changes nothing; the cells from size on,     *)
(* which are written before they are read; and the fields of a task that   *)
(* has left the queue, which its owner frees.                              *)
(***************************************************************************)
EXTENDS Integers, Sequences, Functions

CONSTANTS
  Elements,    \* the tasks that are ever in the queue
  Priorities,  \* the priorities they have
  Step,        \* n + 1 of pqueue_init: the cells allocated at first
  NULL

ASSUME ElementAssumption == NULL \notin Elements
ASSUME PriorityAssumption == Priorities \subseteq Nat
ASSUME StepAssumption == Step \in Nat \ {0}

VARIABLES
  d,       \* q->d[1] .. q->d[q->size - 1]; cell 0 is not used
  avail,   \* q->avail: the cells allocated, with cell 0
  pri,     \* task->pri, of the tasks in the queue
  pos,     \* task->pos
  pc,      \* "idle", or the loop that runs: "up", "down"
  i,       \* bubble_up and percolate_down: the cell being filled
  moving,  \* moving_node
  popped   \* what the last pqueue_pop returned

vars == <<d, avail, pri, pos, pc, i, moving, popped>>

size == Len(d) + 1
Cells == 1 .. size - 1
Parent(k) == k \div 2
Left(k) == 2 * k
cmppri(next, curr) == next < curr

\* The function f with the value v at e, where it may not have had one.
With(f, e, v) == [x \in DOMAIN f \cup {e} |-> IF x = e THEN v ELSE f[x]]

Init ==
  /\ d = << >> /\ avail = Step
  /\ pri = << >> /\ pos = << >>
  /\ pc = "idle" /\ i = 0 /\ moving = NULL /\ popped = NULL

-----------------------------------------------------------------------------
(* The loops *)

\* A loop begins with the node in cell k of cells.
Begin(loop, k, node) == pc' = loop /\ i' = k /\ moving' = node

\* What both loops do in an iteration: the node of cell k moves into cell i.
Shift(k) ==
  /\ d' = [d EXCEPT ![i] = d[k]]
  /\ pos' = [pos EXCEPT ![d[k]] = i]
  /\ i' = k
  /\ UNCHANGED <<avail, pri, pc, moving, popped>>

\* And at the end: the moving node comes to rest in cell i (which is not in use
\* when the only node was popped).
Settle ==
  /\ d' = IF i \in Cells THEN [d EXCEPT ![i] = moving] ELSE d
  /\ pos' = IF i \in Cells THEN With(pos, moving, i) ELSE pos
  /\ pc' = "idle" /\ i' = 0 /\ moving' = NULL
  /\ UNCHANGED <<avail, pri, popped>>

Rises == i > 1 /\ cmppri(pri[d[Parent(i)]], pri[moving])

BubbleUp ==
  /\ pc = "up"
  /\ IF Rises THEN Shift(Parent(i)) ELSE Settle

\* The child with the higher priority, or 0.
\* Faulty: always the left child.
MaxChildLeft(k) == IF Left(k) >= size THEN 0 ELSE Left(k)

MaxChild(k) ==
  IF Left(k) >= size THEN 0
  ELSE IF Left(k) + 1 < size /\ cmppri(pri[d[Left(k)]], pri[d[Left(k) + 1]])
    THEN Left(k) + 1
    ELSE Left(k)

Sinks == MaxChild(i) # 0 /\ cmppri(pri[moving], pri[d[MaxChild(i)]])

PercolateDown ==
  /\ pc = "down"
  /\ IF Sinks THEN Shift(MaxChild(i)) ELSE Settle

-----------------------------------------------------------------------------
(* The operations, up to their loop *)

\* Faulty: the last cell is taken to be free when all are in use.
GrownLate == IF size > avail THEN size + Step ELSE avail

\* realloc, when every cell is in use.
Grown == IF size >= avail THEN size + Step ELSE avail

Insert(e, p) ==
  /\ pc = "idle"
  /\ e \notin Range(d)
  /\ avail' = Grown
  /\ d' = Append(d, e)
  /\ pri' = With(pri, e, p)
  /\ Begin("up", size, e)
  /\ UNCHANGED <<pos, popped>>

\* The last node takes the place of the one in cell k, whose task leaves.
Refill(k) ==
  LET rest == [j \in 1 .. size - 2 |-> IF j = k THEN d[size - 1] ELSE d[j]] IN
  /\ d' = rest
  /\ pri' = Restrict(pri, Range(rest))
  /\ pos' = Restrict(pos, Range(rest))
  /\ UNCHANGED avail

Pop ==
  /\ pc = "idle"
  /\ size > 1
  /\ popped' = d[1]
  /\ Refill(1)
  /\ Begin("down", 1, d[size - 1])

ChangePriority(e, p) ==
  /\ pc = "idle"
  /\ e \in Range(d)
  /\ pri' = [pri EXCEPT ![e] = p]
  /\ Begin(IF cmppri(pri[e], p) THEN "up" ELSE "down", pos[e], d[pos[e]])
  /\ UNCHANGED <<d, avail, pos, popped>>

\* Faulty: the node that fills the gap only ever sinks.
RefillLoopDown(e, last) == "down"

\* The node that fills the gap may have to rise or to sink.
RefillLoop(e, last) == IF cmppri(pri[e], pri[last]) THEN "up" ELSE "down"

Remove(e) ==
  /\ pc = "idle"
  /\ e \in Range(d)
  /\ Refill(pos[e])
  /\ Begin(RefillLoop(e, d[size - 1]), pos[e], d[size - 1])
  /\ UNCHANGED popped

Next ==
  \/ BubbleUp
  \/ PercolateDown
  \/ Pop
  \/ \E e \in Elements :
       Remove(e) \/ \E p \in Priorities : Insert(e, p) \/ ChangePriority(e, p)

Spec == Init /\ [][Next]_vars

-----------------------------------------------------------------------------
(* Correctness *)

\* The node in cell k, taking the one that a loop still carries for the one
\* that will settle in cell i.
At(k) == IF k = i THEN moving ELSE d[k]

\* Between two calls no node has a higher priority than its parent, so that
\* pqueue_peek returns one of the highest priority (pqueue.c:216-224), and
\* every node knows its cell, or pqueue_remove and pqueue_change_priority
\* would work on another one (pqueue.c:178, 189).
HeapOrder ==
  pc = "idle" =>
    \A k \in Cells : pos[d[k]] = k /\ (k > 1 => pri[d[k]] <= pri[d[Parent(k)]])

\* No cell is used that is not allocated, at any step of a call: pqueue_insert
\* grows the array in time (pqueue.c:151-163), and no loop leaves it.
CellsAllocated == size <= avail /\ (pc # "idle" => i \in 1 .. avail - 1)

Promise ==
  INSTANCE PriorityQueue
    WITH entries <- [e \in {At(k) : k \in Cells} |-> pri[e]], taken <- popped

\* The heap implements the priority queue: nothing is lost, duplicated or taken
\* out of turn, although nodes move between the cells in every call.
ImplementsPriorityQueue == Promise!Spec
=============================================================================
