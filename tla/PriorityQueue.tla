--------------------------- MODULE PriorityQueue ---------------------------
(***************************************************************************)
(* What a priority queue promises: a set of elements, each with a priority *)
(* that may change, from which an element of the highest priority is taken.*)
(***************************************************************************)
EXTENDS Integers, Functions

CONSTANTS Elements, Priorities, NULL

VARIABLES
  entries,  \* the priority of every element in the queue
  taken     \* the element that was taken last, NULL at first

vars == <<entries, taken>>

contents == DOMAIN entries

Init == entries = [e \in {} |-> 0] /\ taken = NULL

\* Adds an element that is not in the queue, or changes the priority of one
\* that is.
Put(e, p) ==
  /\ entries' = [f \in contents \cup {e} |-> IF f = e THEN p ELSE entries[f]]
  /\ UNCHANGED taken

Delete(e) ==
  /\ e \in contents
  /\ entries' = Restrict(entries, contents \ {e})
  /\ UNCHANGED taken

TakeHighest ==
  \E e \in contents :
    /\ \A f \in contents : entries[f] <= entries[e]
    /\ entries' = Restrict(entries, contents \ {e})
    /\ taken' = e

Next ==
  \/ TakeHighest
  \/ \E e \in Elements : Delete(e) \/ \E p \in Priorities : Put(e, p)

Spec == Init /\ [][Next]_vars
=============================================================================
