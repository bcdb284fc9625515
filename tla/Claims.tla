------------------------------- MODULE Claims -------------------------------
(***************************************************************************)
(* What the documentation and the tests of SDStore say of the system and   *)
(* the code does not do.  Each is checked by a run that finds a behaviour  *)
(* against it.                                                             *)
(***************************************************************************)
EXTENDS SDStore

\* In block_read_fifo: about to read, or in read.
InBlockRead == server_pc \in {"loop", "reading"}

\* The diagram of the listening loop (src/main.c:71, 74): a server that is
\* interrupted in its loop, with an empty queue and no active task, leaves it.
InterruptedServerStops ==
  InBlockRead /\ has_been_interrupted /\ queue = {} /\ num_active_tasks = 0 ~> Stopped

\* A request beyond the limits is refused (tests/impossible.yml:3-4): whatever
\* is in the queue could run alone.
ImpossibleIsRefused ==
  \A task \in queue : \A t \in Transformations : task.ops[t] <= ActiveLimit[t]
=============================================================================
