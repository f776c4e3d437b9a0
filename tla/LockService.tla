---------------------------- MODULE LockService ----------------------------
(***************************************************************************)
(* What the locks of a studio's worker promise to its jobs: ownership of a *)
(* playlist or a rundown, for one job at a time, in the order in which the *)
(* requests arrived.                                                       *)
(* (packages/documentation/docs/for-developers/worker-threads-and-locks.md,*)
(* as packages/job-worker/src/locks.ts keeps it.)                          *)
(***************************************************************************)
CONSTANTS Resources, Locks

VARIABLES
  users,  \* the requests that own each resource
  line,   \* the requests that wait for each resource
  before  \* the requests that joined the line before a request did

absVars == <<users, line, before>>

Init ==
  /\ users = [r \in Resources |-> {}]
  /\ line = [r \in Resources |-> {}]
  /\ before = [l \in Locks |-> {}]

(* Requests that came earlier and left the line again may be recorded too. *)
Join(r, l) ==
  /\ l \notin line[r] \cup users[r]
  /\ line' = [line EXCEPT ![r] = @ \cup {l}]
  /\ \E B \in SUBSET (Locks \ {l}) :
       line[r] \subseteq B /\ before' = [before EXCEPT ![l] = B]
  /\ UNCHANGED users

(* Only the oldest request in line gets a resource that nobody owns.       *)
Enter(r, l) ==
  /\ users[r] = {}
  /\ l \in line[r] /\ before[l] \cap line[r] = {}
  /\ users' = [users EXCEPT ![r] = {l}]
  /\ line' = [line EXCEPT ![r] = @ \ {l}]
  /\ UNCHANGED before

(* Requests and owners may leave at any time, several when a thread dies.  *)
Leave(L) ==
  /\ users' = [r \in Resources |-> users[r] \ L]
  /\ line' = [r \in Resources |-> line[r] \ L]
  /\ UNCHANGED before

Next ==
  \/ \E r \in Resources, l \in Locks : Join(r, l) \/ Enter(r, l)
  \/ \E L \in SUBSET Locks : Leave(L)

Spec == Init /\ [][Next]_absVars
=============================================================================
