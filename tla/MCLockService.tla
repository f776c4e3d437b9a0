---------------------------- MODULE MCLockService ----------------------------
(***************************************************************************)
(* The locks as a service to jobs, with two things to look at, one in each *)
(* behaviour: in `nested' the jobs of two threads lock a playlist inside a *)
(* rundown and nothing fails; in `contended' three threads want one        *)
(* playlist, and one of them dies and times out.                           *)
(***************************************************************************)
EXTENDS WorkerLocks

CONSTANTS t1, t2, t3, p1, r1

VARIABLE focus

(* Bounds: the third thread, which may fail, takes part in `contended'     *)
(* only; the rundown and the last lock in `nested' only.                   *)
InFocus ==
  /\ focus = "nested" => ~up'[t3]
  /\ focus = "contended" => phase'[MaxLocks] = "unused" /\ \A l \in Locks : resource'[l] # r1

Init == LocksInit /\ focus \in {"nested", "contended"}
Next == LocksNext /\ InFocus /\ UNCHANGED focus
Spec == Init /\ [][Next]_<<locksVars, focus>> /\ LocksFairness
=============================================================================
