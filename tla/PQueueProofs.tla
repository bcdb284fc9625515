---------------------------- MODULE PQueueProofs ----------------------------
(***************************************************************************)
(* Theorems about PQueue, for any number of elements, any priorities and   *)
(* any number of cells allocated at a time.                                *)
(***************************************************************************)
EXTENDS PQueue, WellFoundedInduction, TLAPS

-----------------------------------------------------------------------------
(* The invariant *)

\* What is in the queue, wherever its node is.
Contents == {At(k) : k \in Cells}

TypeOK ==
  /\ d \in Seq(Elements)
  /\ avail \in Nat
  /\ pri \in [Contents -> Priorities]
  /\ pc \in {"idle", "up", "down"}
  /\ popped \in Elements \cup {NULL}

\* The cell being filled is in use while a loop runs, except when the last node
\* was taken out: then it is the one behind the last, and nothing will move.
Filling ==
  CASE pc = "idle" -> i = 0
    [] pc = "up"   -> i \in Cells
    [] pc = "down" -> i \in Cells \cup {size}

\* The moving node is somewhere, and no node is in two cells.
NodesDiffer ==
  /\ i \in Cells => moving \in Elements
  /\ \A j, k \in Cells : At(j) = At(k) => j = k

\* Every node that does not move knows its cell.
Positions == \A k \in Cells \ {i} : d[k] \in DOMAIN pos /\ pos[d[k]] = k

\* Below what the node of cell k has above it.
Below(k, above) == pri[At(k)] <= pri[At(above)]

\* The order of the heap, the moving node left out of it: its children are
\* in order with its parent.
OrderAround ==
  \A k \in Cells \ {1} :
    /\ k # i /\ Parent(k) # i => Below(k, Parent(k))
    /\ k # i /\ Parent(k) = i /\ i > 1 => Below(k, Parent(i))

\* A node that rises is in order with its children, one that sinks with its parent.
OrderOfMoving ==
  /\ pc = "up" => \A k \in Cells \ {1} : Parent(k) = i => Below(k, i)
  /\ pc = "down" /\ i \in Cells \ {1} => Below(i, Parent(i))

\* The cell after the last one is allocated when a node was taken out.
Allocated == size <= avail /\ (pc = "down" => i < avail)

HeapInv ==
  /\ TypeOK /\ Filling /\ NodesDiffer /\ Positions
  /\ OrderAround /\ OrderOfMoving /\ Allocated

-----------------------------------------------------------------------------
(* Cells *)

\* A cell other than the root has its parent among the cells before it, and the
\* children of a cell are two.
LEMMA ParentProperties ==
  ASSUME NEW k \in Nat, k > 1
  PROVE  /\ Parent(k) \in Nat /\ 1 <= Parent(k) /\ Parent(k) < k
         /\ \A j \in Nat : Parent(k) = j <=> k = Left(j) \/ k = Left(j) + 1
  BY DEF Parent, Left

\* The array as a function.
LEMMA CellsOf ==
  ASSUME TypeOK
  PROVE  /\ Len(d) \in Nat /\ size = Len(d) + 1 /\ size \in Nat
         /\ Cells = 1 .. Len(d)
         /\ d \in [Cells -> Elements]
         /\ \A k \in Cells : d[k] \in Elements /\ k \in Nat
  BY DEF TypeOK, size, Cells

\* No priority is needed that is not there.
LEMMA PrioritiesAreNumbers ==
  ASSUME TypeOK, NEW k \in Cells
  PROVE  At(k) \in Contents /\ pri[At(k)] \in Nat
  BY PriorityAssumption DEF TypeOK, Contents

-----------------------------------------------------------------------------
(* An iteration of a loop *)

\* A node that moves changes places with the moving node.
LEMMA ShiftEffect ==
  ASSUME TypeOK, i \in Cells, NEW k \in Cells \ {i}, Shift(k)
  PROVE  /\ d' \in Seq(Elements) /\ size' = size /\ Cells' = Cells
         /\ \A j \in Cells : d'[j] = IF j = i THEN d[k] ELSE d[j]
         /\ \A j \in Cells : At(j)' = IF j = i THEN At(k) ELSE IF j = k THEN At(i) ELSE At(j)
         /\ Contents' = Contents
<1>1. d' = [d EXCEPT ![i] = d[k]] /\ i' = k /\ moving' = moving
  BY DEF Shift
<1>2. d' \in Seq(Elements) /\ Len(d') = Len(d)
  BY <1>1, CellsOf DEF TypeOK
<1>3. size' = size /\ Cells' = Cells
  BY <1>2 DEF size, Cells
<1>4. \A j \in Cells : d'[j] = IF j = i THEN d[k] ELSE d[j]
  BY <1>1, CellsOf
<1>5. \A j \in Cells : At(j)' = IF j = i THEN At(k) ELSE IF j = k THEN At(i) ELSE At(j)
  BY <1>1, <1>4 DEF At
<1>6. Contents' = Contents
  <2>1. \A x : x \in Contents' <=> \E j \in Cells : x = At(j)'
    BY <1>3 DEF Contents
  <2>2. \A x : x \in Contents <=> \E j \in Cells : x = At(j)
    BY DEF Contents
  <2> QED
    BY <1>5, <2>1, <2>2
<1> QED
  BY <1>2, <1>3, <1>4, <1>5, <1>6

\* What an iteration keeps, whichever loop it belongs to.
LEMMA ShiftKeeps ==
  ASSUME HeapInv, pc \in {"up", "down"}, i \in Cells, NEW k \in Cells \ {i}, Shift(k)
  PROVE  (TypeOK /\ Filling /\ NodesDiffer /\ Positions /\ Allocated)'
<1> USE DEF HeapInv
<1>1. /\ UNCHANGED <<avail, pri, pc, moving, popped>> /\ i' = k
      /\ pos' = [pos EXCEPT ![d[k]] = i]
  BY DEF Shift
<1>2. TypeOK'
  BY <1>1, ShiftEffect DEF TypeOK
<1>3. Filling'
  BY <1>1, ShiftEffect DEF Filling
<1>4. NodesDiffer'
  <2>1. moving' \in Elements
    BY <1>1 DEF NodesDiffer
  <2>2. ASSUME NEW j \in Cells, NEW l \in Cells, At(j)' = At(l)'
        PROVE  j = l
    BY <2>2, ShiftEffect DEF NodesDiffer
  <2> QED
    BY <2>1, <2>2, ShiftEffect DEF NodesDiffer
<1>5. Positions'
  <2> SUFFICES ASSUME NEW j \in Cells, j # k
               PROVE  d'[j] \in DOMAIN pos' /\ pos'[d'[j]] = j
    BY <1>1, ShiftEffect DEF Positions
  <2>1. d[k] \in DOMAIN pos /\ pos[d[k]] = k
    BY DEF Positions
  <2>2. CASE j = i
    BY <1>1, <2>1, <2>2, ShiftEffect
  <2>3. CASE j # i
    <3>1. d'[j] = d[j] /\ d[j] # d[k]
      BY <2>3, ShiftEffect DEF NodesDiffer, At
    <3>2. d[j] \in DOMAIN pos /\ pos[d[j]] = j
      BY <2>3 DEF Positions
    <3> QED
      BY <1>1, <3>1, <3>2
  <2> QED
    BY <2>2, <2>3
<1>6. Allocated'
  <2>1. k < size /\ size' <= avail
    BY ShiftEffect, CellsOf DEF Allocated
  <2> QED
    BY <1>1, <2>1, ShiftEffect, CellsOf DEF Allocated, TypeOK
<1> QED
  BY <1>2, <1>3, <1>4, <1>5, <1>6

\* The moving node rises from cell h to cell p: what was above it is now between
\* it and its children.
LEMMA ShiftUp ==
  ASSUME HeapInv, pc = "up", Rises, NEW h, h = i, NEW p, p = Parent(i), Shift(p)
  PROVE  HeapInv'
<1> USE DEF HeapInv
<1>1. h \in Cells /\ h > 1 /\ h \in Nat
  BY CellsOf DEF Filling, Rises
<1>2. p \in Cells \ {h} /\ p < h /\ p \in Nat
  BY <1>1, ParentProperties, CellsOf
<1>3. pri' = pri /\ pc' = "up" /\ i' = p
  BY DEF Shift
<1>4. pri[At(p)] <= pri[At(h)] /\ pri[At(p)] \in Nat /\ pri[At(h)] \in Nat
  BY <1>1, <1>2, PrioritiesAreNumbers DEF Rises, cmppri, At
<1>5. /\ Cells' = Cells
      /\ At(h)' = At(p) /\ At(p)' = At(h)
      /\ \A j \in Cells \ {h, p} : At(j)' = At(j)
  BY <1>1, <1>2, ShiftEffect
<1>6. \A j \in Cells \ {1} : Parent(j) \in Cells /\ Parent(j) < j /\ j \in Nat /\ Parent(j) \in Nat
  BY ParentProperties, CellsOf
<1>7. ASSUME NEW k \in Cells \ {1}, k # p, Parent(k) # p
      PROVE  Below(k, Parent(k))'
  <2>1. k # h /\ At(k)' = At(k)
    BY <1>5, <1>7
  <2>2. CASE Parent(k) = h
    BY <1>1, <1>3, <1>5, <1>7, <2>1, <2>2 DEF OrderAround, Below
  <2>3. CASE Parent(k) # h
    BY <1>1, <1>3, <1>5, <1>6, <1>7, <2>1, <2>3 DEF OrderAround, Below
  <2> QED
    BY <2>2, <2>3
<1>8. ASSUME NEW k \in Cells \ {1}, k # p, Parent(k) = p
      PROVE  Below(k, p)' /\ (p > 1 => Below(k, Parent(p))')
  <2>1. pri[At(k)'] <= pri[At(p)] /\ pri[At(k)'] \in Nat
    <3>1. CASE k = h
      BY <1>4, <1>5, <3>1
    <3>2. CASE k # h
      <4>1. p # h /\ At(k)' = At(k)
        BY <1>2, <1>5, <1>8, <3>2
      <4> QED
        BY <1>8, <3>2, <4>1, PrioritiesAreNumbers DEF OrderAround, Below
    <3> QED
      BY <3>1, <3>2
  <2>2. Below(k, p)'
    BY <1>3, <1>4, <1>5, <2>1 DEF Below
  <2>3. ASSUME p > 1
        PROVE  Below(k, Parent(p))'
    <3> DEFINE q == Parent(p)
    <3>1. q \in Cells \ {h, p} /\ p \in Cells \ {1}
      BY <1>2, <1>6, <2>3
    <3>2. pri[At(p)] <= pri[At(q)] /\ pri[At(q)] \in Nat
      BY <1>2, <3>1, PrioritiesAreNumbers DEF OrderAround, Below
    <3>3. At(q)' = At(q)
      BY <1>5, <3>1
    <3> HIDE DEF q
    <3>4. Below(k, q)'
      BY <1>3, <1>4, <2>1, <3>2, <3>3 DEF Below
    <3> QED
      BY <3>4 DEF q
  <2> QED
    BY <2>2, <2>3
<1>9. OrderAround' /\ OrderOfMoving'
  <2>1. \A k \in Cells \ {1} : Parent(k) = p => k # p
    BY <1>6
  <2> QED
    BY <1>3, <1>5, <1>7, <1>8, <2>1 DEF OrderAround, OrderOfMoving, Parent
<1> QED
  BY <1>1, <1>2, <1>9, ShiftKeeps

\* maxchild: there are no children, or it is one of the highest priority.
LEMMA MaxChildProperties ==
  ASSUME TypeOK, NEW h, h = i, h \in Nat \ {0}
  PROVE  /\ MaxChild(h) = 0 => \A k \in Cells \ {1} : Parent(k) # h
         /\ MaxChild(h) # 0 =>
              /\ h \in Cells
              /\ MaxChild(h) \in Cells \ {1, h} /\ Parent(MaxChild(h)) = h
              /\ \A k \in Cells \ {1} : Parent(k) = h => Below(k, MaxChild(h))
<1> DEFINE l == Left(h)
<1>1. \A k \in Cells \ {1} : k \in Nat /\ (Parent(k) = h <=> k = l \/ k = l + 1)
  BY ParentProperties, CellsOf
<1>2. l \in Nat /\ l > h /\ l > 1
  BY DEF Left
<1>3. Cells = 1 .. size - 1 /\ size \in Nat
  BY CellsOf
<1>4. CASE l >= size
  <2>1. MaxChild(h) = 0
    BY <1>4 DEF MaxChild
  <2>2. \A k \in Cells \ {1} : k # l /\ k # l + 1
    BY <1>2, <1>3, <1>4
  <2> QED
    BY <1>1, <2>1, <2>2
<1>5. CASE l < size
  <2>1. h \in Cells /\ l \in Cells \ {1, h} /\ Parent(l) = h
    <3>1. h \in Cells /\ l \in Cells \ {1, h}
      BY <1>2, <1>3, <1>5
    <3> QED
      BY <1>1, <3>1
  <2>2. At(l) = d[l] /\ pri[At(l)] \in Nat
    BY <2>1, PrioritiesAreNumbers DEF At
  <2>3. CASE l + 1 < size /\ cmppri(pri[d[l]], pri[d[l + 1]])
    <3>1. l + 1 \in Cells \ {1, h}
      BY <1>2, <1>3, <2>3
    <3>2. At(l + 1) = d[l + 1] /\ pri[At(l + 1)] \in Nat
      BY <3>1, PrioritiesAreNumbers DEF At
    <3>3. MaxChild(h) = l + 1
      BY <1>2, <1>3, <1>5, <2>3 DEF MaxChild
    <3>4. Below(l, l + 1) /\ Below(l + 1, l + 1)
      BY <2>2, <2>3, <3>2 DEF Below, cmppri
    <3> QED
      BY <1>1, <1>2, <2>1, <3>1, <3>3, <3>4
  <2>4. CASE ~(l + 1 < size /\ cmppri(pri[d[l]], pri[d[l + 1]]))
    <3>1. MaxChild(h) = l
      BY <1>2, <1>3, <1>5, <2>4 DEF MaxChild
    <3>2. Below(l, l)
      BY <2>2 DEF Below
    <3>3. ASSUME l + 1 \in Cells
          PROVE  Below(l + 1, l)
      <4>1. At(l + 1) = d[l + 1] /\ pri[At(l + 1)] \in Nat
        BY <1>2, <3>3, PrioritiesAreNumbers DEF At
      <4>2. l + 1 < size
        BY <1>2, <1>3, <3>3
      <4> QED
        BY <2>2, <2>4, <4>1, <4>2 DEF Below, cmppri
    <3> QED
      BY <1>1, <1>2, <2>1, <3>1, <3>2, <3>3
  <2> QED
    BY <2>3, <2>4
<1> QED
  BY <1>2, <1>3, <1>4, <1>5

\* The moving node sinks from cell h to cell m: the child that takes its place is
\* in order with the other one and with what was above the moving node.
LEMMA ShiftDown ==
  ASSUME HeapInv, pc = "down", Sinks, NEW h, h = i, NEW m, m = MaxChild(i), Shift(m)
  PROVE  HeapInv'
<1> USE DEF HeapInv
<1>1. h \in Nat \ {0}
  BY CellsOf DEF Filling
<1>2. /\ h \in Cells /\ m \in Cells \ {1, h} /\ Parent(m) = h /\ m \in Nat
      /\ \A k \in Cells \ {1} : Parent(k) = h => Below(k, m)
  BY <1>1, MaxChildProperties, CellsOf DEF Sinks
<1>3. pri' = pri /\ pc' = "down" /\ i' = m
  BY DEF Shift
<1>4. pri[At(h)] <= pri[At(m)] /\ pri[At(m)] \in Nat /\ pri[At(h)] \in Nat
  BY <1>2, PrioritiesAreNumbers DEF Sinks, cmppri, At
<1>5. /\ Cells' = Cells
      /\ At(h)' = At(m) /\ At(m)' = At(h)
      /\ \A j \in Cells \ {h, m} : At(j)' = At(j)
  BY <1>2, ShiftEffect
<1>6. \A j \in Cells \ {1} : Parent(j) \in Cells /\ Parent(j) < j /\ j \in Nat /\ Parent(j) \in Nat
  BY ParentProperties, CellsOf
<1>7. ASSUME NEW k \in Cells \ {1}, k # m, Parent(k) # m
      PROVE  Below(k, Parent(k))'
  <2> DEFINE q == Parent(k)
  <2>1. q \in Cells /\ q # k
    BY <1>6
  <2>2. Below(q, q)
    BY <2>1, PrioritiesAreNumbers DEF Below
  <2>3. CASE k = h
    <3>1. q # h /\ At(q)' = At(q)
      BY <1>5, <1>7, <2>1, <2>3
    <3>2. Below(m, q)
      BY <1>1, <1>2, <1>6, <1>7, <2>3 DEF OrderAround
    <3> HIDE DEF q
    <3>3. Below(k, q)'
      BY <1>3, <1>5, <2>3, <3>1, <3>2 DEF Below
    <3> QED
      BY <3>3 DEF q
  <2>4. CASE k # h /\ q = h
    BY <1>2, <1>3, <1>5, <1>7, <2>4 DEF Below
  <2>5. CASE k # h /\ q # h
    <3>1. At(k)' = At(k) /\ At(q)' = At(q)
      BY <1>5, <1>7, <2>1, <2>5
    <3>2. Below(k, q)
      BY <1>7, <2>5 DEF OrderAround
    <3> HIDE DEF q
    <3>3. Below(k, q)'
      BY <1>3, <3>1, <3>2 DEF Below
    <3> QED
      BY <3>3 DEF q
  <2> QED
    BY <2>3, <2>4, <2>5
<1>8. ASSUME NEW k \in Cells \ {1}, k # m, Parent(k) = m
      PROVE  Below(k, h)'
  <2>1. k # h
    BY <1>2, <1>6, <1>8
  <2>2. Below(k, m)
    BY <1>2, <1>8, <2>1 DEF OrderAround
  <2> QED
    BY <1>3, <1>5, <1>8, <2>1, <2>2 DEF Below
<1>9. Below(m, h)'
  BY <1>3, <1>4, <1>5 DEF Below
<1>10. OrderAround' /\ OrderOfMoving'
  BY <1>2, <1>3, <1>5, <1>7, <1>8, <1>9 DEF OrderAround, OrderOfMoving, Parent
<1> QED
  BY <1>2, <1>10, ShiftKeeps

\* When neither loop goes on the moving node is put down where it belongs.
LEMMA SettleEffect ==
  ASSUME HeapInv, pc \in {"up", "down"}, Settle
  PROVE  /\ Cells' = Cells /\ pri' = pri /\ i' = 0
         /\ \A k \in Cells : At(k)' = At(k) /\ d'[k] = At(k)
         /\ Contents' = Contents
         /\ (TypeOK /\ Filling /\ NodesDiffer /\ Positions /\ Allocated)'
<1> USE DEF HeapInv
<1>1. pc' = "idle" /\ i' = 0 /\ UNCHANGED <<avail, pri, popped>>
  BY DEF Settle
<1>2. /\ d' \in Seq(Elements) /\ Len(d') = Len(d)
      /\ \A k \in Cells : d'[k] = At(k)
  <2>1. CASE i \in Cells
    <3>1. d' = [d EXCEPT ![i] = moving] /\ moving \in Elements
      BY <2>1 DEF Settle, NodesDiffer
    <3> QED
      BY <2>1, <3>1, CellsOf DEF TypeOK, At
  <2>2. CASE i \notin Cells
    <3>1. d' = d
      BY <2>2 DEF Settle
    <3> QED
      BY <2>2, <3>1 DEF TypeOK, At
  <2> QED
    BY <2>1, <2>2
<1>3. size' = size /\ Cells' = Cells
  BY <1>2 DEF size, Cells
<1>4. \A k \in Cells : At(k)' = d'[k]
  BY <1>1, CellsOf DEF At
<1>5. Contents' = Contents
  BY <1>2, <1>3, <1>4 DEF Contents
<1>6. TypeOK' /\ Filling'
  BY <1>1, <1>2, <1>3, <1>5 DEF TypeOK, Filling
<1>7. NodesDiffer'
  <2>1. 0 \notin Cells
    BY CellsOf
  <2> QED
    BY <1>1, <1>2, <1>3, <1>4, <2>1 DEF NodesDiffer
<1>8. Positions'
  <2> SUFFICES ASSUME NEW k \in Cells
               PROVE  d'[k] \in DOMAIN pos' /\ pos'[d'[k]] = k
    BY <1>3 DEF Positions
  <2>1. CASE i \in Cells
    <3>1. pos' = With(pos, moving, i) /\ At(i) = moving
      BY <2>1 DEF Settle, At
    <3>2. CASE k = i
      BY <1>2, <3>1, <3>2 DEF With
    <3>3. CASE k # i
      <4>1. d'[k] = d[k] /\ d[k] \in DOMAIN pos /\ pos[d[k]] = k
        BY <1>2, <3>3 DEF Positions, At
      <4>2. d[k] # moving
        BY <2>1, <3>1, <3>3 DEF NodesDiffer, At
      <4> QED
        BY <3>1, <4>1, <4>2 DEF With
    <3> QED
      BY <3>2, <3>3
  <2>2. CASE i \notin Cells
    <3>1. pos' = pos /\ d' = d /\ k # i
      BY <2>2 DEF Settle
    <3> QED
      BY <3>1 DEF Positions
  <2> QED
    BY <2>1, <2>2
<1>9. Allocated'
  BY <1>1, <1>3 DEF Allocated
<1> QED
  BY <1>1, <1>2, <1>3, <1>4, <1>5, <1>6, <1>7, <1>8, <1>9

\* It belongs there when it cannot rise, or cannot sink, any more.
LEMMA SettleKeeps ==
  ASSUME HeapInv, (pc = "up" /\ ~Rises) \/ (pc = "down" /\ ~Sinks), Settle
  PROVE  HeapInv'
<1> USE DEF HeapInv
<1>0. PICK h : h = i
  OBVIOUS
<1>1. h \in Nat \ {0}
  <2>1. CASE pc = "up"
    BY <1>0, <2>1, CellsOf DEF Filling
  <2>2. CASE pc = "down"
    BY <1>0, <2>2, CellsOf DEF Filling
  <2> QED
    BY <2>1, <2>2
<1>2. \A k \in Cells \ {1} : Parent(k) \in Cells /\ Parent(k) # k /\ k \in Nat
  BY ParentProperties, CellsOf
<1>3. \A k \in Cells \ {1} : Below(k, Parent(k))
  <2> SUFFICES ASSUME NEW k \in Cells \ {1}
               PROVE  Below(k, Parent(k))
    OBVIOUS
  <2>1. pri[At(k)] \in Nat /\ pri[At(Parent(k))] \in Nat
    BY <1>2, PrioritiesAreNumbers
  <2>2. CASE k # h /\ Parent(k) # h
    BY <1>0, <2>2 DEF OrderAround
  <2>3. CASE k = h
    <3>1. At(k) = moving /\ At(Parent(k)) = d[Parent(k)]
      BY <1>0, <1>2, <2>3 DEF At
    <3>2. pc = "up" => ~cmppri(pri[At(Parent(k))], pri[At(k)])
      BY <1>1, <1>2, <2>3, <3>1, <1>0 DEF Rises
    <3> QED
      BY <1>0, <2>1, <2>3, <3>2 DEF OrderOfMoving, Below, cmppri
  <2>4. CASE Parent(k) = h
    <3>1. CASE pc = "up"
      BY <1>0, <2>4, <3>1 DEF OrderOfMoving
    <3>2. CASE pc = "down"
      <4> DEFINE m == MaxChild(h)
      <4>1. m # 0
        BY <1>0, <1>1, <2>4, MaxChildProperties
      <4>2. m \in Cells \ {h} /\ h \in Cells /\ Below(k, m)
        BY <1>0, <1>1, <2>4, <4>1, MaxChildProperties
      <4>3. At(m) = d[m] /\ At(h) = moving /\ ~cmppri(pri[At(h)], pri[At(m)])
        BY <1>0, <3>2, <4>1, <4>2 DEF At, Sinks
      <4> HIDE DEF m
      <4>4. pri[At(m)] \in Nat /\ pri[At(h)] \in Nat
        BY <4>2, PrioritiesAreNumbers
      <4> QED
        BY <2>1, <2>4, <4>2, <4>3, <4>4 DEF Below, cmppri
    <3> QED
      BY <3>1, <3>2
  <2> QED
    BY <2>2, <2>3, <2>4
<1>4. \A k \in Cells \ {1} : Below(k, Parent(k))'
  <2> SUFFICES ASSUME NEW k \in Cells \ {1}, NEW q, q = Parent(k)
               PROVE  Below(k, q)'
    BY DEF Parent
  <2> QED
    BY <1>2, <1>3, SettleEffect DEF Below
<1>5. pc' = "idle" /\ i' = 0 /\ Cells' = Cells
  BY SettleEffect DEF Settle
<1>6. OrderAround' /\ OrderOfMoving'
  <2>1. \A k \in Cells \ {1} : k # 0 /\ Parent(k) # 0
    BY <1>2, CellsOf
  <2> QED
    BY <1>4, <1>5, <2>1 DEF OrderAround, OrderOfMoving, Parent
<1> QED
  BY <1>6, SettleEffect

-----------------------------------------------------------------------------
(* The operations *)

\* Between two calls every node is in its cell and in order with its parent.
LEMMA Idle ==
  ASSUME HeapInv, pc = "idle"
  PROVE  /\ i = 0 /\ \A k \in Cells : At(k) = d[k] /\ k # i
         /\ Contents = Range(d)
         /\ \A k \in Cells : d[k] \in DOMAIN pos /\ pos[d[k]] = k
         /\ \A k \in Cells \ {1} : Below(k, Parent(k))
<1> USE DEF HeapInv
<1>1. i = 0
  BY DEF Filling
<1>2. \A k \in Cells : At(k) = d[k] /\ k # i
  BY <1>1, CellsOf DEF At
<1>3. Contents = Range(d)
  BY <1>2, CellsOf DEF Contents, Range
<1>4. \A k \in Cells \ {1} : Parent(k) \in Nat \ {0}
  BY ParentProperties, CellsOf
<1> QED
  BY <1>1, <1>2, <1>3, <1>4 DEF Positions, OrderAround

\* Any two nodes that keep their priorities keep their order.
LEMMA BelowKept ==
  ASSUME NEW j, NEW k, Below(j, k), At(j)' = At(j), At(k)' = At(k),
         pri'[At(j)] = pri[At(j)], pri'[At(k)] = pri[At(k)]
  PROVE  Below(j, k)'
  BY DEF Below

\* The new node is in the last cell, from where it rises.
LEMMA InsertKeeps ==
  ASSUME HeapInv, NEW e \in Elements, NEW p \in Priorities, Insert(e, p), NEW n, n = size
  PROVE  HeapInv' /\ Contents' = Contents \cup {e} /\ e \notin Contents
<1> USE DEF HeapInv
<1>1. /\ pc = "idle" /\ pc' = "up" /\ i' = n /\ moving' = e
      /\ d' = Append(d, e) /\ pri' = With(pri, e, p) /\ avail' = Grown
      /\ UNCHANGED <<pos, popped>>
  BY DEF Insert, Begin
<1>2. e \notin Contents
  BY <1>1, Idle DEF Insert
<1>3. /\ d' \in Seq(Elements) /\ Len(d') = n /\ n \in Nat \ {0}
      /\ \A k \in Cells : d'[k] = d[k]
  BY <1>1, CellsOf DEF TypeOK
<1>4. size' = n + 1 /\ Cells' = 1 .. n
  BY <1>3 DEF size, Cells
<1>5. Cells' = Cells \cup {n} /\ n \notin Cells
  BY <1>4, CellsOf
<1>6. At(n)' = e /\ \A k \in Cells : At(k)' = At(k)
  BY <1>1, <1>3, <1>5, Idle DEF At
<1>7. Contents' = Contents \cup {e}
  BY <1>5, <1>6 DEF Contents
<1>8. \A k \in Cells : At(k) \in Contents /\ pri'[At(k)] = pri[At(k)]
  BY <1>1, <1>2 DEF Contents, With, TypeOK
<1>9. TypeOK'
  <2>1. pri' \in [Contents' -> Priorities]
    BY <1>1, <1>7 DEF TypeOK, With
  <2>2. avail' \in Nat
    BY <1>1, StepAssumption, CellsOf DEF TypeOK, Grown
  <2> QED
    BY <1>1, <1>3, <2>1, <2>2 DEF TypeOK
<1>10. Filling'
  BY <1>1, <1>5 DEF Filling
<1>11. NodesDiffer'
  BY <1>1, <1>2, <1>5, <1>6, <1>8 DEF NodesDiffer
<1>12. Positions'
  BY <1>1, <1>3, <1>5, Idle DEF Positions
<1>13. Allocated'
  <2>1. n + 1 <= avail'
    BY <1>1, <1>3, StepAssumption DEF TypeOK, Grown
  <2> QED
    BY <1>1, <1>4, <2>1 DEF Allocated
<1>14. \A k \in Cells \ {1} : Parent(k) \in Cells
  BY ParentProperties, CellsOf
<1>15. \A k \in Cells' \ {1} : Parent(k) # n
  BY <1>3, <1>4, ParentProperties
<1>16. \A k \in Cells \ {1} : Below(k, Parent(k))'
  <2> SUFFICES ASSUME NEW k \in Cells \ {1}, NEW q, q = Parent(k)
               PROVE  Below(k, q)'
    BY DEF Parent
  <2> QED
    BY <1>1, <1>6, <1>8, <1>14, Idle, BelowKept
<1>17. OrderAround' /\ OrderOfMoving'
  BY <1>1, <1>5, <1>15, <1>16 DEF OrderAround, OrderOfMoving, Parent
<1> QED
  BY <1>2, <1>7, <1>9, <1>10, <1>11, <1>12, <1>13, <1>17

\* The node of the task is found by its position, and may rise or sink from there.
LEMMA ChangePriorityKeeps ==
  ASSUME HeapInv, NEW e \in Elements, NEW p \in Priorities, ChangePriority(e, p)
  PROVE  HeapInv' /\ Contents' = Contents /\ e \in Contents
<1> USE DEF HeapInv
<1> DEFINE loop == IF cmppri(pri[e], p) THEN "up" ELSE "down"
<1>1. /\ pc = "idle" /\ pc' = loop /\ i' = pos[e] /\ moving' = d[pos[e]]
      /\ pri' = [pri EXCEPT ![e] = p]
      /\ UNCHANGED <<d, avail, pos, popped>>
  BY DEF ChangePriority, Begin
<1>2. PICK h \in Cells : d[h] = e
  <2>1. e \in Range(d) /\ DOMAIN d = Cells
    BY CellsOf DEF ChangePriority
  <2> QED
    BY <2>1 DEF Range
<1>3. /\ i' = h /\ moving' = e /\ At(h) = e /\ e \in Contents
      /\ Cells' = Cells /\ size' = size
  BY <1>1, <1>2, Idle DEF Contents, Cells, size
<1>4. \A k \in Cells : At(k)' = At(k)
  BY <1>1, <1>2, <1>3, Idle DEF At
<1>5. Contents' = Contents
  BY <1>3, <1>4 DEF Contents
<1>6. /\ pri'[At(h)] = p /\ p \in Nat
      /\ \A k \in Cells \ {h} : pri'[At(k)] = pri[At(k)]
  BY <1>1, <1>3, PriorityAssumption DEF TypeOK, Contents, NodesDiffer
<1>7. TypeOK' /\ Filling' /\ NodesDiffer' /\ Positions'
  <2>1. TypeOK'
    BY <1>1, <1>3, <1>5 DEF TypeOK
  <2>2. Filling'
    BY <1>1, <1>3 DEF Filling
  <2>3. NodesDiffer'
    BY <1>3, <1>4 DEF NodesDiffer
  <2>4. Positions'
    BY <1>1, <1>3, Idle DEF Positions
  <2> QED
    BY <2>1, <2>2, <2>3, <2>4
<1>8. Allocated'
  <2>1. h < avail
    BY CellsOf DEF Allocated, TypeOK
  <2> QED
    BY <1>1, <1>3, <2>1 DEF Allocated
<1>9. \A k \in Cells : k \in Nat /\ pri[At(k)] \in Nat
  BY PrioritiesAreNumbers, CellsOf
<1>10. \A k \in Cells \ {1} : Parent(k) \in Cells /\ Parent(k) # k
  BY ParentProperties, CellsOf
<1>11. \A k \in Cells \ {1} : k # h /\ Parent(k) # h => Below(k, Parent(k))'
  <2> SUFFICES ASSUME NEW k \in Cells \ {1, h}, NEW q, q = Parent(k), q # h
               PROVE  Below(k, q)'
    BY DEF Parent
  <2> QED
    BY <1>1, <1>4, <1>6, <1>10, Idle, BelowKept
<1>12. ASSUME NEW k \in Cells \ {1}, Parent(k) = h, h > 1, NEW q, q = Parent(h)
       PROVE  Below(k, q)'
  <2>1. h \in Cells \ {1} /\ q \in Cells \ {h} /\ k # h
    BY <1>9, <1>10, <1>12
  <2>2. Below(k, h) /\ Below(h, q)
    BY <1>1, <1>12, <2>1, Idle
  <2>3. Below(k, q)
    BY <1>9, <2>1, <2>2 DEF Below
  <2> QED
    BY <1>4, <1>6, <2>1, <2>3, BelowKept
<1>13. OrderAround'
  BY <1>3, <1>11, <1>12 DEF OrderAround, Parent
<1>14. CASE pc' = "up"
  <2>1. pri[e] < p
    BY <1>1, <1>14 DEF cmppri
  <2>2. ASSUME NEW k \in Cells \ {1}, Parent(k) = h
        PROVE  Below(k, h)'
    <3>1. k # h /\ Below(k, h)
      BY <1>1, <1>10, <2>2, Idle
    <3> QED
      BY <1>3, <1>4, <1>6, <1>9, <2>1, <3>1 DEF Below
  <2>3. OrderOfMoving'
    BY <1>3, <1>14, <2>2 DEF OrderOfMoving, Parent
  <2> QED
    BY <1>3, <1>5, <1>7, <1>8, <1>13, <2>3
<1>15. CASE pc' = "down"
  <2>1. p <= pri[e]
    BY <1>1, <1>3, <1>6, <1>9, <1>15 DEF cmppri
  <2>2. ASSUME h # 1, NEW q, q = Parent(h)
        PROVE  Below(h, q)'
    <3>1. q \in Cells \ {h} /\ Below(h, q)
      BY <1>1, <1>10, <2>2, Idle
    <3> QED
      BY <1>3, <1>4, <1>6, <1>9, <2>1, <3>1 DEF Below
  <2>3. OrderOfMoving'
    BY <1>3, <1>15, <2>2 DEF OrderOfMoving, Parent
  <2> QED
    BY <1>3, <1>5, <1>7, <1>8, <1>13, <2>3
<1> QED
  BY <1>1, <1>14, <1>15

\* What Refill leaves when the node of cell k is taken out: nothing else changes
\* its place but the last node.
LEMMA RefillEffect ==
  ASSUME HeapInv, pc = "idle", NEW k \in Cells, Refill(k),
         NEW loop \in {"up", "down"}, Begin(loop, k, d[size - 1])
  PROVE  /\ Cells' = Cells \ {size - 1} /\ size' = size - 1
         /\ d' \in Seq(Elements)
         /\ \A j \in Cells' : At(j)' = IF j = k THEN d[size - 1] ELSE d[j]
         /\ \A j \in Cells' : j # k => d'[j] = d[j]
         /\ Contents' = Contents \ {d[k]} /\ Contents' = Range(d')
         /\ \A x \in Contents' : pri'[x] = pri[x]
<1> USE DEF HeapInv
<1> DEFINE n == size - 1
           rest == [j \in 1 .. n - 1 |-> IF j = k THEN d[n] ELSE d[j]]
<1>1. /\ d' = rest /\ pri' = Restrict(pri, Range(rest))
      /\ i' = k /\ moving' = d[n]
  <2>1. size - 2 = n - 1
    BY CellsOf
  <2> QED
    BY <2>1 DEF Refill, Begin
<1>2. n \in Nat \ {0} /\ Cells = 1 .. n /\ n \in Cells /\ size = n + 1
  BY CellsOf
<1>3. /\ d' \in [1 .. n - 1 -> Elements] /\ d' \in Seq(Elements) /\ Len(d') = n - 1
  BY <1>1, <1>2, CellsOf
<1>4. size' = n /\ Cells' = 1 .. n - 1 /\ Cells' = Cells \ {n}
  BY <1>2, <1>3 DEF size, Cells
<1>5. \A j \in Cells' : d'[j] = IF j = k THEN d[n] ELSE d[j]
  BY <1>1, <1>4
<1>6. \A j \in Cells' : At(j)' = d'[j]
  BY <1>1, <1>5 DEF At
<1>7. Contents' = Range(d')
  BY <1>3, <1>4, <1>6 DEF Contents, Range
<1>8. Contents' = Contents \ {d[k]}
  <2>1. \A x : x \in Contents' <=> \E j \in Cells' : x = d'[j]
    BY <1>6 DEF Contents
  <2>2. \A x : x \in Contents <=> \E j \in Cells : x = d[j]
    BY Idle DEF Contents
  <2>3. \A j, l \in Cells : d[j] = d[l] => j = l
    BY Idle DEF NodesDiffer
  <2>4. ASSUME NEW x \in Contents'
        PROVE  x \in Contents \ {d[k]}
    BY <1>2, <1>4, <1>5, <2>1, <2>2, <2>3
  <2>5. ASSUME NEW x \in Contents \ {d[k]}
        PROVE  x \in Contents'
    <3>1. PICK j \in Cells : x = d[j] /\ j # k
      BY <2>2, <2>5
    <3>2. CASE j = n
      BY <1>4, <1>5, <2>1, <3>1, <3>2
    <3>3. CASE j # n
      BY <1>4, <1>5, <2>1, <3>1, <3>3
    <3> QED
      BY <3>2, <3>3
  <2> QED
    BY <2>4, <2>5
<1>9. \A x \in Contents' : pri'[x] = pri[x]
  BY <1>1, <1>7 DEF Restrict
<1> HIDE DEF n, rest
<1> QED
  BY <1>1, <1>2, <1>3, <1>4, <1>5, <1>6, <1>7, <1>8, <1>9 DEF n

\* The gap is filled by the last node, which then sinks, or rises if it is of a
\* higher priority than the node that was there.
LEMMA RefillKeeps ==
  ASSUME HeapInv, pc = "idle", NEW k \in Cells, Refill(k),
         NEW loop \in {"up", "down"}, Begin(loop, k, d[size - 1]),
         popped' \in Elements \cup {NULL},
         loop = "up" => pri[d[k]] < pri[d[size - 1]],
         loop = "down" => k = 1 \/ pri[d[size - 1]] <= pri[d[k]]
  PROVE  HeapInv'
<1> USE DEF HeapInv
<1>1. pc' = loop /\ i' = k /\ moving' = d[size - 1] /\ avail' = avail
  BY DEF Begin, Refill
<1>2. PICK n \in Nat : n = size - 1 /\ size = n + 1 /\ Cells = 1 .. n /\ n \in Cells
  <2>1. /\ size - 1 \in Nat /\ size = (size - 1) + 1
        /\ Cells = 1 .. size - 1 /\ size - 1 \in Cells
    BY CellsOf
  <2> QED
    BY <2>1
<1>3. /\ Cells' = Cells \ {n} /\ size' = n
      /\ \A j \in Cells' : At(j)' = IF j = k THEN d[n] ELSE d[j]
      /\ \A j \in Cells' : j # k => d'[j] = d[j]
      /\ Contents' = Contents \ {d[k]} /\ Contents' = Range(d')
      /\ \A x \in Contents' : pri'[x] = pri[x]
  BY <1>2, RefillEffect
<1>4. \A j \in Cells : At(j) = d[j] /\ d[j] \in Elements /\ j \in Nat /\ pri[d[j]] \in Nat
  BY <1>1, Idle, CellsOf, PrioritiesAreNumbers
<1>5. TypeOK'
  <2>1. pri' \in [Contents' -> Priorities]
    BY <1>3 DEF TypeOK, Refill, Restrict
  <2> QED
    BY <1>1, <2>1, RefillEffect DEF TypeOK
<1>6. Filling'
  <2>1. k \in Cells' \cup {n}
    BY <1>2, <1>3
  <2>2. loop = "up" => k # n
    BY <1>2, <1>4
  <2> QED
    BY <1>1, <1>3, <2>1, <2>2 DEF Filling
<1>7. NodesDiffer'
  <2>1. \A j, l \in Cells : d[j] = d[l] => j = l
    BY <1>4 DEF NodesDiffer
  <2> QED
    BY <1>1, <1>2, <1>3, <1>4, <2>1 DEF NodesDiffer
<1>8. Positions'
  <2> SUFFICES ASSUME NEW j \in Cells' \ {k}
               PROVE  d'[j] \in DOMAIN pos' /\ pos'[d'[j]] = j
    BY <1>1 DEF Positions
  <2>1. d'[j] = d[j] /\ d[j] \in DOMAIN pos /\ pos[d[j]] = j
    BY <1>3, Idle
  <2>2. d'[j] \in Range(d')
    BY <1>3 DEF Contents, At
  <2> QED
    BY <2>1, <2>2 DEF Refill, Restrict
<1>9. Allocated'
  <2>1. k <= n /\ n < avail
    BY <1>2, <1>4 DEF Allocated, TypeOK
  <2>2. size' = n /\ avail' = avail /\ i' = k
    BY <1>1, <1>3
  <2>3. avail \in Nat /\ k \in Nat
    BY <1>4 DEF TypeOK
  <2>4. n <= avail /\ k < avail
    BY <1>2, <2>1, <2>3
  <2>5. size' <= avail' /\ i' < avail'
    BY <2>2, <2>4
  <2> QED
    BY <2>5 DEF Allocated
<1>10. \A j \in Cells' \ {1} : Parent(j) \in Cells' /\ Parent(j) # j /\ j # 1
  <2>1. Cells' = 1 .. n - 1
    BY <1>2, <1>3
  <2> QED
    BY <2>1, ParentProperties
<1>11. \A j \in Cells' : At(j)' \in Contents' /\ pri'[At(j)'] = pri[At(j)']
  BY <1>3 DEF Contents
<1>12. \A j, l \in Cells' : (Below(j, l))' <=> pri[At(j)'] <= pri[At(l)']
  BY <1>11 DEF Below
<1>13. \A j \in Cells \ {1} : pri[d[j]] <= pri[d[Parent(j)]]
  <2>1. \A j \in Cells \ {1} : Parent(j) \in Cells
    BY <1>2, <1>4, ParentProperties
  <2> QED
    BY <1>4, <2>1, Idle DEF Below
<1>14. ASSUME NEW j \in Cells' \ {1}, j # k, NEW q, q = Parent(j), q # k
       PROVE  Below(j, q)'
  BY <1>3, <1>10, <1>12, <1>13, <1>14
<1>15. ASSUME NEW j \in Cells' \ {1}, j # k, Parent(j) = k, k # 1, NEW q, q = Parent(k)
       PROVE  Below(j, q)'
  <2>1. k \in Cells' \ {1} /\ q \in Cells' \ {k} /\ q \in Cells
    BY <1>3, <1>10, <1>15
  <2>2. pri[d[j]] <= pri[d[k]] /\ pri[d[k]] <= pri[d[q]]
    BY <1>3, <1>13, <1>15, <2>1
  <2>3. pri[d[j]] <= pri[d[q]]
    BY <1>3, <1>4, <2>1, <2>2
  <2>4. At(j)' = d[j] /\ At(q)' = d[q]
    BY <1>3, <1>15, <2>1
  <2> QED
    BY <1>12, <2>1, <2>3, <2>4
<1>16. OrderAround'
  BY <1>1, <1>4, <1>14, <1>15 DEF OrderAround, Parent
<1>17. ASSUME loop = "up", NEW j \in Cells' \ {1}, Parent(j) = k
       PROVE  Below(j, k)'
  <2>1. k \in Cells' /\ j # k
    BY <1>10, <1>17
  <2>2. pri[d[j]] <= pri[d[k]] /\ pri[d[k]] < pri[d[n]]
    BY <1>2, <1>3, <1>13, <1>17
  <2>3. pri[d[j]] <= pri[d[n]]
    BY <1>2, <1>3, <1>4, <2>2
  <2> QED
    BY <1>3, <1>12, <2>1, <2>3
<1>18. ASSUME loop = "down", k \in Cells' \ {1}, NEW q, q = Parent(k)
       PROVE  Below(k, q)'
  <2>1. q \in Cells' \ {k} /\ q \in Cells
    BY <1>3, <1>10, <1>18
  <2>2. pri[d[n]] <= pri[d[k]] /\ pri[d[k]] <= pri[d[q]]
    BY <1>2, <1>3, <1>13, <1>18
  <2>3. pri[d[n]] <= pri[d[q]]
    BY <1>2, <1>4, <2>1, <2>2
  <2> QED
    BY <1>3, <1>12, <1>18, <2>1, <2>3
<1>19. OrderOfMoving'
  BY <1>1, <1>17, <1>18 DEF OrderOfMoving, Parent
<1> QED
  BY <1>5, <1>6, <1>7, <1>8, <1>9, <1>16, <1>19

\* pop takes the root out.
LEMMA PopKeeps ==
  ASSUME HeapInv, Pop
  PROVE  HeapInv' /\ Contents' = Contents \ {d[1]} /\ 1 \in Cells
<1>1. 1 \in Cells /\ d[1] \in Elements
  BY CellsOf DEF HeapInv, Pop
<1> QED
  BY <1>1, RefillKeeps, RefillEffect DEF Pop

\* remove takes any node out.
LEMMA RemoveKeeps ==
  ASSUME HeapInv, NEW e \in Elements, Remove(e)
  PROVE  HeapInv' /\ Contents' = Contents \ {e} /\ e \in Contents
<1> USE DEF HeapInv
<1>1. pc = "idle" /\ e \in Range(d) /\ UNCHANGED popped
  BY DEF Remove
<1>2. PICK k \in Cells : d[k] = e
  BY <1>1, CellsOf DEF Range
<1>3. pos[e] = k /\ e \in Contents
  BY <1>1, <1>2, Idle
<1>4. size - 1 \in Cells
  BY <1>2, CellsOf
<1>5. At(k) = e /\ At(size - 1) = d[size - 1]
  BY <1>1, <1>2, <1>4, Idle
<1>6. pri[e] \in Nat /\ pri[d[size - 1]] \in Nat
  BY <1>2, <1>4, <1>5, PrioritiesAreNumbers
<1> DEFINE loop == RefillLoop(e, d[size - 1])
<1>7. /\ loop \in {"up", "down"} /\ Refill(k) /\ Begin(loop, k, d[size - 1])
      /\ loop = "up" => pri[e] < pri[d[size - 1]]
      /\ loop = "down" => pri[d[size - 1]] <= pri[e]
  BY <1>3, <1>6 DEF Remove, RefillLoop, cmppri
<1> HIDE DEF loop
<1>8. popped' \in Elements \cup {NULL}
  BY <1>1 DEF TypeOK
<1> QED
  BY <1>1, <1>2, <1>3, <1>7, <1>8, RefillKeeps, RefillEffect

-----------------------------------------------------------------------------
(* The heap *)

\* The empty heap.
LEMMA InitHeapInv == Init => HeapInv
<1> SUFFICES ASSUME Init
             PROVE  HeapInv
  OBVIOUS
<1> USE DEF Init
<1>1. d \in Seq(Elements) /\ size = 1 /\ Cells = {}
  BY DEF size, Cells
<1>2. pri \in [Contents -> Priorities]
  BY <1>1 DEF Contents
<1>3. TypeOK
  BY <1>1, <1>2, StepAssumption DEF TypeOK
<1>4. Filling /\ NodesDiffer /\ Positions /\ OrderAround /\ OrderOfMoving
  BY <1>1 DEF Filling, NodesDiffer, Positions, OrderAround, OrderOfMoving
<1>5. Allocated
  BY <1>1, StepAssumption DEF Allocated
<1> QED
  BY <1>3, <1>4, <1>5 DEF HeapInv

\* One iteration of either loop.
LEMMA LoopsKeep ==
  ASSUME HeapInv, BubbleUp \/ PercolateDown
  PROVE  HeapInv'
<1>1. CASE BubbleUp
  <2>1. CASE Rises
    BY <1>1, <2>1, ShiftUp DEF BubbleUp
  <2>2. CASE ~Rises
    <3>1. pc = "up" /\ Settle
      BY <1>1, <2>2 DEF BubbleUp
    <3> QED
      BY <2>2, <3>1, SettleKeeps
  <2> QED
    BY <2>1, <2>2
<1>2. CASE PercolateDown
  <2>1. CASE Sinks
    BY <1>2, <2>1, ShiftDown DEF PercolateDown
  <2>2. CASE ~Sinks
    BY <1>2, <2>2, SettleKeeps DEF PercolateDown
  <2> QED
    BY <2>1, <2>2
<1> QED
  BY <1>1, <1>2

\* Every step keeps the invariant.
LEMMA NextHeapInv == HeapInv /\ [Next]_vars => HeapInv'
<1> SUFFICES ASSUME HeapInv, [Next]_vars
             PROVE  HeapInv'
  OBVIOUS
<1>1. CASE BubbleUp \/ PercolateDown
  BY <1>1, LoopsKeep
<1>2. CASE Pop
  BY <1>2, PopKeeps
<1>3. ASSUME NEW e \in Elements, Remove(e)
      PROVE  HeapInv'
  BY <1>3, RemoveKeeps
<1>4. ASSUME NEW e \in Elements, NEW p \in Priorities, Insert(e, p)
      PROVE  HeapInv'
  BY <1>4, InsertKeeps
<1>5. ASSUME NEW e \in Elements, NEW p \in Priorities, ChangePriority(e, p)
      PROVE  HeapInv'
  BY <1>5, ChangePriorityKeeps
<1>6. CASE UNCHANGED vars
  <2>1. Cells' = Cells /\ size' = size /\ Contents' = Contents
    BY <1>6 DEF vars, Cells, size, Contents, At
  <2>2. (TypeOK /\ Filling /\ NodesDiffer /\ Positions /\ Allocated)'
    BY <1>6, <2>1 DEF vars, HeapInv, TypeOK, Filling, NodesDiffer, Positions, Allocated, At
  <2>3. (OrderAround /\ OrderOfMoving)'
    BY <1>6, <2>1 DEF vars, HeapInv, OrderAround, OrderOfMoving, Below, At, Parent
  <2> QED
    BY <2>2, <2>3 DEF HeapInv
<1> QED
  BY <1>1, <1>2, <1>3, <1>4, <1>5, <1>6 DEF Next

\* The invariant holds in every reachable state.
LEMMA HeapInvAlways == Spec => []HeapInv
  BY InitHeapInv, NextHeapInv, PTL DEF Spec

\* The array and the positions in the tasks agree, and no task has a higher
\* priority than its parent, between any two calls (pqueue.c:86-197).
THEOREM HeapOrderHolds == Spec => []HeapOrder
<1>1. HeapInv => HeapOrder
  <2> SUFFICES ASSUME HeapInv, pc = "idle", NEW k \in Cells
               PROVE  /\ pos[d[k]] = k
                      /\ k > 1 => pri[d[k]] <= pri[d[Parent(k)]]
    BY DEF HeapOrder
  <2>1. pos[d[k]] = k
    BY Idle
  <2>2. ASSUME k > 1
        PROVE  pri[d[k]] <= pri[d[Parent(k)]]
    <3>1. Parent(k) \in Cells /\ k # 1
      BY <2>2, ParentProperties, CellsOf DEF HeapInv
    <3> QED
      BY <3>1, Idle DEF Below
  <2> QED
    BY <2>1, <2>2
<1> QED
  BY <1>1, HeapInvAlways, PTL

\* No call leaves the cells that are allocated (pqueue.c:106-163).
THEOREM CellsAreAllocated == Spec => []CellsAllocated
<1>1. HeapInv => CellsAllocated
  <2> SUFFICES ASSUME HeapInv
               PROVE  CellsAllocated
    OBVIOUS
  <2>1. size <= avail /\ size \in Nat \ {0} /\ avail \in Nat
    BY CellsOf DEF HeapInv, Allocated, TypeOK
  <2>2. CASE pc = "up"
    <3>1. i \in Nat /\ 1 <= i /\ i < size
      BY <2>2, CellsOf DEF HeapInv, Filling
    <3> QED
      BY <2>1, <3>1 DEF CellsAllocated
  <2>3. CASE pc = "down"
    <3>1. i \in Nat /\ 1 <= i
      BY <2>1, <2>3, CellsOf DEF HeapInv, Filling
    <3> QED
      BY <2>1, <2>3, <3>1 DEF CellsAllocated, HeapInv, Allocated
  <2> QED
    BY <2>1, <2>2, <2>3 DEF HeapInv, TypeOK, CellsAllocated
<1> QED
  BY <1>1, HeapInvAlways, PTL

-----------------------------------------------------------------------------
(* The priority queue *)

\* No node has a higher priority than the root: the first cell with one would
\* have a parent with one.
LEMMA RootIsHighest ==
  ASSUME HeapInv, pc = "idle", 1 \in Cells
  PROVE  \A x \in Contents : pri[x] <= pri[d[1]]
<1> USE DEF HeapInv
<1> DEFINE Higher == {k \in Cells : ~(pri[d[k]] <= pri[d[1]])}
           R == {ss \in Nat \X Nat : ss[1] < ss[2]}
<1>1. R = OpToRel(<, Nat)
  BY DEF OpToRel
<1>2. IsWellFoundedOn(R, Nat)
  BY <1>1, NatLessThanWellFounded
<1>3. \A k \in Cells : k \in Nat /\ d[k] = At(k) /\ pri[d[k]] \in Nat
  BY Idle, CellsOf, PrioritiesAreNumbers
<1>4. Higher = {}
  <2> SUFFICES ASSUME Higher # {}
               PROVE  FALSE
    OBVIOUS
  <2>1. Higher \subseteq Nat
    BY <1>3
  <2>2. PICK k \in Higher : \A j \in Higher : <<j, k>> \notin R
    <3> HIDE DEF R, Higher
    <3> QED
      BY <1>2, <2>1, WFMin
  <2>3. k \in Cells \ {1} /\ ~(pri[d[k]] <= pri[d[1]])
    BY <1>3
  <2>4. Parent(k) \in Cells /\ Parent(k) < k
    BY <2>3, ParentProperties, CellsOf
  <2>5. <<Parent(k), k>> \in R
    BY <1>3, <2>3, <2>4
  <2>6. pri[d[Parent(k)]] <= pri[d[1]]
    BY <2>2, <2>4, <2>5
  <2>7. pri[d[k]] <= pri[d[Parent(k)]]
    BY <1>3, <2>3, <2>4, Idle DEF Below
  <2> QED
    BY <1>3, <2>3, <2>4, <2>6, <2>7
<1>5. \A k \in Cells : pri[d[k]] <= pri[d[1]]
  BY <1>4
<1> QED
  BY <1>3, <1>5 DEF Contents

\* The priorities are the entries, since nothing else has one.
LEMMA EntriesArePriorities ==
  ASSUME HeapInv
  PROVE  [e \in {At(k) : k \in Cells} |-> pri[e]] = pri
  BY DEF HeapInv, TypeOK, Contents

\* The loops change no entry.
LEMMA LoopsKeepEntries ==
  ASSUME HeapInv, BubbleUp \/ PercolateDown
  PROVE  UNCHANGED <<Contents, pri, popped>>
<1> USE DEF HeapInv
<1>1. CASE Settle
  <2>1. pc \in {"up", "down"}
    BY DEF BubbleUp, PercolateDown
  <2> QED
    BY <1>1, <2>1, SettleEffect DEF Settle
<1>2. CASE BubbleUp /\ Rises
  <2>1. i \in Cells /\ i > 1
    BY <1>2 DEF BubbleUp, Rises, Filling
  <2>2. Parent(i) \in Cells \ {i}
    BY <2>1, ParentProperties, CellsOf
  <2> QED
    BY <1>2, <2>1, <2>2, ShiftEffect DEF BubbleUp, Shift
<1>3. CASE PercolateDown /\ Sinks
  <2>1. i \in Nat \ {0}
    BY <1>3, CellsOf DEF PercolateDown, Filling
  <2>2. i \in Cells /\ MaxChild(i) \in Cells \ {i}
    BY <1>3, <2>1, MaxChildProperties DEF Sinks
  <2> QED
    BY <1>3, <2>2, ShiftEffect DEF PercolateDown, Shift
<1> QED
  BY <1>1, <1>2, <1>3 DEF BubbleUp, PercolateDown

\* Every step of the heap is a step of the priority queue, or none.
LEMMA StepIsPromised ==
  ASSUME HeapInv, [Next]_vars
  PROVE  [Promise!Next]_Promise!vars
<1> DEFINE entries == [e \in {At(k) : k \in Cells} |-> pri[e]]
<1>1. entries = pri /\ DOMAIN pri = Contents
  BY EntriesArePriorities DEF HeapInv, TypeOK
<1>2. entries' = pri' /\ DOMAIN pri' = Contents'
  <2>1. HeapInv'
    BY NextHeapInv
  <2> QED
    BY <2>1 DEF HeapInv, TypeOK, Contents
<1> HIDE DEF entries
<1>3. CASE BubbleUp \/ PercolateDown \/ UNCHANGED vars
  <2>1. UNCHANGED <<pri, popped>>
    BY <1>3, LoopsKeepEntries DEF vars
  <2> QED
    BY <1>1, <1>2, <2>1 DEF Promise!vars, entries
<1>4. CASE Pop
  <2>1. /\ 1 \in Cells /\ d[1] \in Contents /\ popped' = d[1]
        /\ \A x \in Contents : pri[x] <= pri[d[1]]
    BY <1>4, PopKeeps, Idle, RootIsHighest DEF Pop, Contents
  <2>2. pri' = Restrict(pri, Contents \ {d[1]})
    BY <1>4, PopKeeps, RefillEffect DEF Pop, Refill, Restrict
  <2>3. Promise!TakeHighest
    BY <1>1, <1>2, <2>1, <2>2 DEF Promise!TakeHighest, Promise!contents, Promise!Restrict, Restrict, entries
  <2> QED
    BY <2>3 DEF Promise!Next
<1>5. ASSUME NEW e \in Elements, Remove(e)
      PROVE  Promise!Delete(e)
  <2>1. pri' = Restrict(pri, Contents \ {e}) /\ e \in Contents /\ UNCHANGED popped
    BY <1>5, <1>2, RemoveKeeps, RefillEffect DEF Remove, Refill, Restrict
  <2> QED
    BY <1>1, <1>2, <2>1 DEF Promise!Delete, Promise!contents, Promise!Restrict, Restrict, entries
<1>6. ASSUME NEW e \in Elements, NEW p \in Priorities, Insert(e, p) \/ ChangePriority(e, p)
      PROVE  Promise!Put(e, p)
  <2>1. pri' = [f \in Contents \cup {e} |-> IF f = e THEN p ELSE pri[f]] /\ UNCHANGED popped
    <3>1. CASE Insert(e, p)
      BY <1>1, <1>6, <3>1 DEF Insert, With
    <3>2. CASE ChangePriority(e, p)
      BY <1>1, <1>6, <3>2, ChangePriorityKeeps DEF ChangePriority
    <3> QED
      BY <1>6, <3>1, <3>2
  <2> QED
    BY <1>1, <1>2, <2>1 DEF Promise!Put, Promise!contents, entries
<1> QED
  BY <1>3, <1>4, <1>5, <1>6 DEF Next, Promise!Next

\* The heap implements the priority queue: between calls and within them, what is
\* in it with which priority changes as promised, and what is popped is of the
\* highest priority (pqueue.c:142-213).
THEOREM QueueImplemented == Spec => ImplementsPriorityQueue
<1>1. Init => Promise!Init
  BY DEF Init, Promise!Init, Cells, size
<1> QED
  BY <1>1, HeapInvAlways, StepIsPromised, PTL DEF Spec, ImplementsPriorityQueue, Promise!Spec

=============================================================================
