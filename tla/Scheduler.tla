----------------------------- MODULE Scheduler -----------------------------
(***************************************************************************)
(* What SDStore promises about the tasks it is given, without processes,   *)
(* pipes, slots or counters.  A task that the limits of the transformations*)
(* can never accommodate is refused; any other one waits, is started at    *)
(* most once, never before a waiting task of higher priority, and only     *)
(* when the instances of every transformation that really run, its own     *)
(* included, stay within the limit of that transformation.                 *)
(***************************************************************************)
EXTENDS Integers, FiniteSets

CONSTANTS Jobs, Transformations, Limit

VARIABLES
  waiting,   \* the jobs accepted and not started
  running,   \* the jobs whose transformations may be running
  over       \* the jobs whose transformations have ended

vars == <<waiting, running, over>>

\* The instances of transformation t that the jobs in J need.
Instances(J, t) == UNION {{job} \X (1 .. job.ops[t]) : job \in J}

Fits(J) == \A t \in Transformations : Cardinality(Instances(J, t)) <= Limit[t]

Init == waiting = {} /\ running = {} /\ over = {}

Accept(job) ==
  /\ job \notin waiting \cup running \cup over
  /\ Fits({job})
  /\ waiting' = waiting \cup {job}
  /\ UNCHANGED <<running, over>>

Start(job) ==
  /\ job \in waiting
  /\ \A other \in waiting : other.pri <= job.pri
  /\ Fits(running \cup {job})
  /\ waiting' = waiting \ {job}
  /\ running' = running \cup {job}
  /\ UNCHANGED over

End(job) ==
  /\ job \in running
  /\ running' = running \ {job}
  /\ over' = over \cup {job}
  /\ UNCHANGED waiting

Next == \E job \in Jobs : Accept(job) \/ Start(job) \/ End(job)

Spec == Init /\ [][Next]_vars
=============================================================================
