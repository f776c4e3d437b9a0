---------------------------- MODULE MCQueueAndLocks ----------------------------
(***************************************************************************)
(* The job queue and the locks of a worker at their largest instances. The *)
(* two share no state, so they are checked side by side: each behaviour is *)
(* one of the component `focus'. Job names are interchangeable, and so   *)
(* are rundowns.                                                           *)
(***************************************************************************)
EXTENDS JobQueue, WorkerLocks, TLC

CONSTANTS n1, n2, t1, t2, r1, r2

VARIABLE focus

NamesAndRundowns == Permutations(Names) \cup Permutations(Rundowns)

QueueAndLocksInit == focus \in {"queue", "locks"} /\ Init /\ LocksInit

QueueAndLocksNext ==
  \/ focus = "queue" /\ Next /\ UNCHANGED <<focus, locksVars>>
  \/ focus = "locks" /\ LocksNext /\ UNCHANGED <<focus, vars>>

QueueAndLocksSpec ==
  QueueAndLocksInit /\ [][QueueAndLocksNext]_<<focus, vars, locksVars>>
================================================================================
