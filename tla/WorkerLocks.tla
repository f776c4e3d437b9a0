---------------------------- MODULE WorkerLocks ----------------------------
(***************************************************************************)
(* The playlist and rundown locks of one studio: the LocksManager of the   *)
(* worker process (packages/job-worker/src/locks.ts), the LocksManager in  *)
(* each child thread (workers/locks.ts), the messages between them, the    *)
(* jobs that lock (playout/lock.ts, ingest/lock.ts), and the loop that     *)
(* frees what a job left behind (workers/parent-base.ts).                  *)
(*                                                                         *)
(* A lock is one lockId.  Each call over IPC is awaited before the next    *)
(* step of the branch that made it, so a lock has at most one message      *)
(* under way and messages need no order.  waitingWorkers is a set; `ahead' *)
(* is what held the resource or waited for it when a lock joined, and      *)
(* orders the waiting locks by arrival.                                    *)
(***************************************************************************)
EXTENDS Integers

CONSTANTS
  Threads,        \* the child threads, each with its loop in the parent
  Rundowns,       \* the resources `rundown:<id>'
  Playlists,      \* the resources `playlist:<id>'
  MaxLocks,       \* bound: number of lockIds
  MortalThreads,  \* threads that may be killed or crash
  HastyThreads,   \* threads whose lock and unlock calls may time out
  Shutdowns,      \* threads that may be told to terminate
  StrayThreads,   \* threads whose jobs lock rundowns in parallel (Promise.all)
  DeafThreads     \* threads whose jobFinished may fail twice in a row

ASSUME WorkerLocksAssumption ==
  /\ MaxLocks \in Nat
  /\ MortalThreads \subseteq Threads
  /\ HastyThreads \subseteq Threads
  /\ Shutdowns \subseteq Threads
  /\ StrayThreads \subseteq Threads
  /\ DeafThreads \subseteq Threads

Resources == Rundowns \cup Playlists
Locks == 1..MaxLocks
NoLock == 0
NoOwner == "none"

VARIABLES
  phase,      \* the life of a lockId in the child
  thread,     \* the thread that made up the lockId
  resource,   \* its resourceId
  inside,     \* the lock its branch already held
  holder,     \* LockResource.holder
  waiting,    \* LockResource.waitingWorkers
  ahead,      \* the locks that came to the resource before the lock and were still there
  locking,    \* `lock' events on their way to the parent
  unlocking,  \* `unlock' events on their way to the parent
  granting,   \* lockChange(lockId, true) on its way to the child
  freeing,    \* lockChange(lockId, false) on its way to the child
  failing,    \* grants whose delivery failed, as the parent is about to learn
  loop,       \* where each thread's loop is
  up,         \* the threads that are alive and initialised
  terminating,\* the threads whose terminate() was called
  strayed,    \* the threads that left a branch behind
  unreported  \* the threads whose last job could not be reported

lockVars == <<phase, thread, resource, inside>>
parentVars == <<holder, waiting, ahead>>
ipcVars == <<locking, unlocking, granting, freeing, failing>>
loopVars == <<loop, up, terminating, strayed, unreported>>
locksVars == <<lockVars, parentVars, ipcVars, loopVars>>

Phases == {"unused", "acquiring", "timedOut", "held", "releasing", "gone"}
LoopStates == {"idle", "running", "ended", "stopped"}

LocksTypeOK ==
  /\ phase \in [Locks -> Phases]
  /\ thread \in [Locks -> Threads \cup {NoOwner}]
  /\ resource \in [Locks -> Resources \cup {NoOwner}]
  /\ inside \in [Locks -> Locks \cup {NoLock}]
  /\ holder \in [Resources -> Locks \cup {NoLock}]
  /\ waiting \in [Resources -> SUBSET Locks]
  /\ ahead \in [Locks -> SUBSET Locks]
  /\ locking \in SUBSET Locks /\ unlocking \in SUBSET Locks
  /\ granting \in SUBSET Locks /\ freeing \in SUBSET Locks /\ failing \in SUBSET Locks
  /\ loop \in [Threads -> LoopStates]
  /\ up \in [Threads -> BOOLEAN]
  /\ terminating \in SUBSET Threads
  /\ strayed \in SUBSET Threads
  /\ unreported \in SUBSET Threads

LocksInit ==
  /\ phase = [l \in Locks |-> "unused"]
  /\ thread = [l \in Locks |-> NoOwner]
  /\ resource = [l \in Locks |-> NoOwner]
  /\ inside = [l \in Locks |-> NoLock]
  /\ holder = [r \in Resources |-> NoLock]
  /\ waiting = [r \in Resources |-> {}]
  /\ ahead = [l \in Locks |-> {}]
  /\ locking = {} /\ unlocking = {} /\ granting = {} /\ freeing = {} /\ failing = {}
  /\ loop = [t \in Threads |-> "idle"]
  /\ up = [t \in Threads |-> FALSE]
  /\ terminating = {} /\ strayed = {} /\ unreported = {}

Live == {"acquiring", "held", "releasing"}
LocksOf(t) == {l \in Locks : thread[l] = t}
LiveLocks(t) == {l \in LocksOf(t) : phase[l] \in Live}
TimedOut(t) == {l \in LocksOf(t) : phase[l] = "timedOut"}

-----------------------------------------------------------------------------
(* The parent                                                              *)

(* Mutant: shift() of an empty waitingWorkers becomes the holder. *)
Serve_NoCheck(R, H, W, F) ==
  LET S == {r \in R : H[r] = NoLock} IN
  \E first \in [S -> Locks \cup {-1}] :
    LET G == {first[r] : r \in S} \cap Locks IN
    /\ \A r \in S : IF W[r] = {} THEN first[r] = -1
                                 ELSE first[r] \in W[r] /\ ahead'[first[r]] \cap W[r] = {}
    /\ holder' = [r \in Resources |-> IF r \in S THEN first[r] ELSE H[r]]
    /\ waiting' = [r \in Resources |-> IF r \in S THEN W[r] \ {first[r]} ELSE W[r]]
    /\ granting' = granting \cup {l \in G : up[thread[l]]}
    /\ failing' = F \cup {l \in G : ~up[thread[l]]}

(* Mutant: the newest request is served. *)
Serve_Newest(R, H, W, F) ==
  LET S == {r \in R : H[r] = NoLock /\ W[r] # {}} IN
  \E first \in [S -> Locks] :
    LET G == {first[r] : r \in S} IN
    /\ \A r \in S : first[r] \in W[r] /\ \A l \in W[r] : first[r] \notin ahead'[l]
    /\ holder' = [r \in Resources |-> IF r \in S THEN first[r] ELSE H[r]]
    /\ waiting' = [r \in Resources |-> IF r \in S THEN W[r] \ {first[r]} ELSE W[r]]
    /\ granting' = granting \cup {l \in G : up[thread[l]]}
    /\ failing' = F \cup {l \in G : ~up[thread[l]]}

(* Mutant: the waiting lock is served although the resource has a holder. *)
Serve_Always(R, H, W, F) ==
  LET S == {r \in R : W[r] # {}} IN
  \E first \in [S -> Locks] :
    LET G == {first[r] : r \in S} IN
    /\ \A r \in S : first[r] \in W[r] /\ ahead'[first[r]] \cap W[r] = {}
    /\ holder' = [r \in Resources |-> IF r \in S THEN first[r] ELSE H[r]]
    /\ waiting' = [r \in Resources |-> IF r \in S THEN W[r] \ {first[r]} ELSE W[r]]
    /\ granting' = granting \cup {l \in G : up[thread[l]]}
    /\ failing' = F \cup {l \in G : ~up[thread[l]]}

(* lockNextWorker for each resource of R, once the holders are H, the      *)
(* waiting locks W and the failed grants F: the oldest waiting lock gets a *)
(* free resource, and its thread is told.  A thread that is closed,        *)
(* restarting or not initialised rejects the call.                         *)
Serve(R, H, W, F) ==
  LET S == {r \in R : H[r] = NoLock /\ W[r] # {}} IN
  \E first \in [S -> Locks] :
    LET G == {first[r] : r \in S} IN
    /\ \A r \in S : first[r] \in W[r] /\ ahead'[first[r]] \cap W[r] = {}
    /\ holder' = [r \in Resources |-> IF r \in S THEN first[r] ELSE H[r]]
    /\ waiting' = [r \in Resources |-> IF r \in S THEN W[r] \ {first[r]} ELSE W[r]]
    /\ granting' = granting \cup {l \in G : up[thread[l]]}
    /\ failing' = F \cup {l \in G : ~up[thread[l]]}

HandleLock(l) ==
  /\ l \in locking
  /\ locking' = locking \ {l}
  /\ LET r == resource[l] IN
     /\ ahead' = [ahead EXCEPT ![l] = waiting[r] \cup ({holder[r]} \ {NoLock})]
     /\ Serve({r}, holder, [waiting EXCEPT ![r] = @ \cup {l}], failing)
  /\ UNCHANGED <<lockVars, unlocking, freeing, loopVars>>

(* An unlock by somebody who does not hold the resource is only logged.    *)
HandleUnlock(l) ==
  /\ l \in unlocking
  /\ unlocking' = unlocking \ {l}
  /\ LET r == resource[l]
         owns == holder[r] = l
     IN /\ freeing' = IF owns THEN freeing \cup {l} ELSE freeing
        /\ UNCHANGED ahead
        /\ Serve({r}, IF owns THEN [holder EXCEPT ![r] = NoLock] ELSE holder, waiting, failing)
  /\ UNCHANGED <<lockVars, locking, loopVars>>

(* #lockChanged was rejected: the lock is freed as the aquire was          *)
(* `rejected'.                                                             *)
GrantFailed(l) ==
  /\ l \in failing
  /\ UNCHANGED ahead
  /\ LET r == resource[l] IN
     IF holder[r] = l
     THEN Serve({r}, [holder EXCEPT ![r] = NoLock], waiting, failing \ {l})
     ELSE failing' = failing \ {l} /\ UNCHANGED <<holder, waiting, granting>>
  /\ UNCHANGED <<lockVars, locking, unlocking, freeing, loopVars>>

(* Mutant: the waiting entries of the thread stay. *)
ReleaseAllForThread_KeepWaiting(t) ==
  LET mine == {r \in Resources : holder[r] \in LocksOf(t)} IN
  /\ UNCHANGED ahead
  /\ Serve(mine, [r \in Resources |-> IF r \in mine THEN NoLock ELSE holder[r]], waiting, failing)

ReleaseAllForThread(t) ==
  LET mine == {r \in Resources : holder[r] \in LocksOf(t)} IN
  /\ UNCHANGED ahead
  /\ Serve(mine, [r \in Resources |-> IF r \in mine THEN NoLock ELSE holder[r]],
           [r \in Resources |-> waiting[r] \ LocksOf(t)], failing)

-----------------------------------------------------------------------------
(* The child                                                               *)

(* Mutant: rundowns are locked inside playlists too. *)
Nests_AnyOrder(t, r, outer) ==
  outer \in LocksOf(t) /\ phase[outer] = "held" /\ r # resource[outer]

(* A branch of a job that holds a rundown may lock a playlist (commit.ts); *)
(* `it is not allowed to acquire a RundownLock while inside of a           *)
(* PlaylistLock'.                                                          *)
Nests(t, r, outer) ==
  outer \in LocksOf(t) /\ phase[outer] = "held" /\ resource[outer] \in Rundowns /\ r \in Playlists

(* lockPlaylist and lockRundown, by a job or inside a branch it left       *)
(* behind.  A job locks a resource once at a time, and not again when that *)
(* failed: the error ends the branch.                                      *)
Aquire(t, r, l, outer) ==
  /\ phase[l] = "unused" /\ \A k \in Locks : k < l => phase[k] # "unused"
  /\ up[t]
  /\ \A k \in LiveLocks(t) \cup TimedOut(t) : resource[k] # r
  /\ \/ outer = NoLock /\ loop[t] = "running"
     \/ Nests(t, r, outer) /\ \A k \in LiveLocks(t) : inside[k] # outer
  /\ phase' = [phase EXCEPT ![l] = "acquiring"]
  /\ thread' = [thread EXCEPT ![l] = t]
  /\ resource' = [resource EXCEPT ![l] = r]
  /\ inside' = [inside EXCEPT ![l] = outer]
  /\ locking' = locking \cup {l}
  /\ UNCHANGED <<parentVars, unlocking, granting, freeing, failing, loopVars>>

(* changeEvent(lockId, true): a lock that gave up is `not waiting'.        *)
Granted(l) ==
  /\ l \in granting
  /\ granting' = granting \ {l}
  /\ phase' = IF phase[l] = "acquiring" THEN [phase EXCEPT ![l] = "held"] ELSE phase
  /\ UNCHANGED <<thread, resource, inside, parentVars, locking, unlocking, freeing, failing, loopVars>>

(* Lock aquire timed out!                                                  *)
AquireTimeout(l) ==
  /\ phase[l] = "acquiring" /\ l \notin locking
  /\ thread[l] \in HastyThreads
  /\ phase' = [phase EXCEPT ![l] = "timedOut"]
  /\ UNCHANGED <<thread, resource, inside, parentVars, ipcVars, loopVars>>

(* The end of runWithPlaylistLock or runWithRundownLock, after whatever    *)
(* was locked inside; cleanupResources does the same for a lock that the   *)
(* job forgot.                                                             *)
Release(l) ==
  /\ phase[l] = "held"
  /\ \A k \in LiveLocks(thread[l]) : inside[k] # l
  /\ phase' = [phase EXCEPT ![l] = "releasing"]
  /\ unlocking' = unlocking \cup {l}
  /\ UNCHANGED <<thread, resource, inside, parentVars, locking, granting, freeing, failing, loopVars>>

(* changeEvent(lockId, false)                                              *)
Freed(l) ==
  /\ l \in freeing
  /\ freeing' = freeing \ {l}
  /\ phase' = IF phase[l] = "releasing" THEN [phase EXCEPT ![l] = "gone"] ELSE phase
  /\ UNCHANGED <<thread, resource, inside, parentVars, locking, unlocking, granting, failing, loopVars>>

ReleaseTimeout(l) ==
  /\ phase[l] = "releasing" /\ l \notin unlocking
  /\ thread[l] \in HastyThreads
  /\ phase' = [phase EXCEPT ![l] = "gone"]
  /\ UNCHANGED <<thread, resource, inside, parentVars, ipcVars, loopVars>>

-----------------------------------------------------------------------------
(* Jobs and threads                                                        *)

StartJob(t) ==
  /\ loop[t] = "idle" /\ up[t]
  /\ loop' = [loop EXCEPT ![t] = "running"]
  /\ UNCHANGED <<lockVars, parentVars, ipcVars, up, terminating, strayed, unreported>>

(* runJob returns after cleanupResources released whatever is held.  When  *)
(* one rundown cannot be locked, the Promise.all of                        *)
(* cleanupRundownsForRemovedPlaylist fails, and leaves the branches behind *)
(* that still wait for theirs.                                             *)
FinishJob(t) ==
  /\ loop[t] = "running" /\ up[t]
  /\ \A l \in LiveLocks(t) : phase[l] = "acquiring" /\ resource[l] \in Rundowns
  /\ LiveLocks(t) # {} => t \in StrayThreads /\ TimedOut(t) # {}
  /\ loop' = [loop EXCEPT ![t] = "ended"]
  /\ strayed' = IF LiveLocks(t) = {} THEN strayed ELSE strayed \cup {t}
  /\ phase' = [l \in Locks |-> IF l \in TimedOut(t) THEN "gone" ELSE phase[l]]
  /\ UNCHANGED <<thread, resource, inside, parentVars, ipcVars, up, terminating, unreported>>

AfterJob(t) == [loop EXCEPT ![t] = IF t \in terminating THEN "stopped" ELSE "idle"]

(* Mutant: the result is reported and nothing is freed. *)
ReportJob_NoRelease(t) ==
  /\ loop[t] = "ended"
  /\ loop' = AfterJob(t)
  /\ unreported' = unreported \ {t}
  /\ UNCHANGED <<lockVars, parentVars, ipcVars, up, terminating, strayed>>

(* jobFinished, then releaseAllForThread.                                  *)
ReportJob(t) ==
  /\ loop[t] = "ended"
  /\ loop' = AfterJob(t)
  /\ ReleaseAllForThread(t)
  /\ unreported' = unreported \ {t}
  /\ UNCHANGED <<lockVars, locking, unlocking, freeing, up, terminating, strayed>>

(* jobFinished throws, and throws again in the catch clause: the outer     *)
(* catch clause goes on with the loop.                                     *)
ReportFails(t) ==
  /\ t \in DeafThreads
  /\ loop[t] = "ended"
  /\ loop' = AfterJob(t)
  /\ unreported' = unreported \cup {t}
  /\ UNCHANGED <<lockVars, parentVars, ipcVars, up, terminating, strayed>>

(* The thread ends: killed by the watchdog, crashed, or destroyed once its *)
(* loop has stopped.  Calls to it are rejected, its messages are lost.     *)
ThreadDies(t) ==
  /\ up[t]
  /\ t \in MortalThreads \/ loop[t] = "stopped"
  /\ up' = [up EXCEPT ![t] = FALSE]
  /\ loop' = IF loop[t] = "running" THEN [loop EXCEPT ![t] = "ended"] ELSE loop
  /\ phase' = [l \in Locks |-> IF l \in LiveLocks(t) \cup TimedOut(t) THEN "gone" ELSE phase[l]]
  /\ locking' = locking \ LocksOf(t)
  /\ unlocking' = unlocking \ LocksOf(t)
  /\ failing' = failing \cup (granting \cap LocksOf(t))
  /\ granting' = granting \ LocksOf(t)
  /\ freeing' = freeing \ LocksOf(t)
  /\ UNCHANGED <<thread, resource, inside, parentVars, terminating, strayed, unreported>>

(* initWorker of a new thread                                              *)
InitWorker(t) ==
  /\ ~up[t] /\ loop[t] = "idle"
  /\ up' = [up EXCEPT ![t] = TRUE]
  /\ UNCHANGED <<lockVars, parentVars, ipcVars, loop, terminating, strayed, unreported>>

(* terminate() frees the locks of the thread before it waits for the loop, *)
(* and its job, to end.                                                    *)
Terminate(t) ==
  /\ t \in Shutdowns \ terminating
  /\ ReleaseAllForThread(t)
  /\ terminating' = terminating \cup {t}
  /\ UNCHANGED <<lockVars, locking, unlocking, freeing, loop, up, strayed, unreported>>

StopIdle(t) ==
  /\ loop[t] = "idle" /\ t \in terminating
  /\ loop' = [loop EXCEPT ![t] = "stopped"]
  /\ UNCHANGED <<lockVars, parentVars, ipcVars, up, terminating, strayed, unreported>>

ParentStep == \E l \in Locks : HandleLock(l) \/ HandleUnlock(l) \/ GrantFailed(l)

ChildStep ==
  \/ \E t \in Threads, r \in Resources, l \in Locks, outer \in Locks \cup {NoLock} :
       Aquire(t, r, l, outer)
  \/ \E l \in Locks : Granted(l) \/ AquireTimeout(l) \/ Release(l) \/ Freed(l) \/ ReleaseTimeout(l)

LoopStep ==
  \E t \in Threads :
    \/ StartJob(t) \/ FinishJob(t)
    \/ ReportJob(t) \/ ReportFails(t)
    \/ ThreadDies(t) \/ InitWorker(t)
    \/ Terminate(t) \/ StopIdle(t)

LocksNext == ParentStep \/ ChildStep \/ LoopStep

LocksSpec == LocksInit /\ [][LocksNext]_locksVars

(***************************************************************************)
(* While there are messages some are handled, and locks of jobs released;  *)
(* jobs end and their end is reported.  No fairness for time-outs: what is *)
(* shown to happen happens without them, as long as release is             *)
(* acknowledged.                                                           *)
(***************************************************************************)
MessageHandled ==
  \E l \in Locks :
    \/ HandleLock(l) \/ HandleUnlock(l) \/ GrantFailed(l)
    \/ Granted(l) \/ Release(l) \/ Freed(l)
JobEnds(t) == FinishJob(t) \/ ReportJob(t)

LocksFairness ==
  /\ WF_locksVars(MessageHandled)
  /\ \A t \in Threads : WF_locksVars(JobEnds(t))

LocksFairSpec == LocksSpec /\ LocksFairness

-----------------------------------------------------------------------------
(* Properties                                                              *)

Held(r) == {l \in Locks : phase[l] = "held" /\ resource[l] = r}

(* Two jobs own one playlist or rundown only if one of their threads was   *)
(* told to terminate, or left a branch behind: time-outs, late grants,     *)
(* failed grants and restarts of threads never break a lock.               *)
Exclusive ==
  \A r \in Resources : \A k, l \in Held(r) :
    k # l => {thread[k], thread[l]} \cap (terminating \cup strayed) # {}

NoIdleResource == \A r \in Resources : holder[r] = NoLock => waiting[r] = {}

FreedBetweenJobs ==
  \A t \in Threads \ (strayed \cup unreported) :
    loop[t] = "idle" => \A r \in Resources :
      holder[r] \notin LocksOf(t) /\ waiting[r] \cap LocksOf(t) = {}

(* Resources come back: none is left free while locks wait for it, and     *)
(* between jobs a thread holds nothing and waits for nothing, whatever was *)
(* granted to a lock that had given up or to a thread that had died;       *)
(* unless the loop could not report the job, or a branch goes on.          *)
ResourcesComeBack == NoIdleResource /\ FreedBetweenJobs

(* `This lock gives ownership of a specific RundownPlaylist': one owner.   *)
MutualExclusion == \A r \in Resources : \A k, l \in Held(r) : k = l

(* Jobs that lock playlists inside rundowns, never the other way round, do *)
(* not wait for each other forever: in the end every lock that was asked   *)
(* for has been served, and none depends on its time-out.                  *)
NobodyWaits == \A l \in Locks : phase[l] # "acquiring"
EveryLockServed == <>[]NobodyWaits

(* A lock whose job gave up or died does not keep its resource.            *)
NothingLeaked ==
  \A r \in Resources : holder[r] # NoLock => phase[holder[r]] \notin {"timedOut", "gone"}
LeakedLockFreed == <>[]NothingLeaked

-----------------------------------------------------------------------------
(* What makes Exclusive inductive.                                         *)

Safe(t) == t \notin terminating \cup strayed
Claims(l) == phase[l] = "held" \/ (phase[l] = "acquiring" /\ l \in granting)

(* A lock that is owned, or whose grant is on its way, is the holder.      *)
ClaimStands == \A l \in Locks : Claims(l) /\ Safe(thread[l]) => holder[resource[l]] = l

(* The parent only gives up a lock that the child gave up before.          *)
GivenUp == \A l \in unlocking \cup failing : phase[l] \notin {"acquiring", "held"}

DoneWhenEnded == \A t \in Threads : loop[t] = "ended" /\ Safe(t) => LiveLocks(t) = {}
DoneWhenDead == \A t \in Threads : ~up[t] => LiveLocks(t) = {}

(* Only locks that are in use are talked about.                            *)
InUse == {l \in Locks : phase[l] # "unused"}
KnownLocks ==
  /\ \A l \in InUse : thread[l] \in Threads /\ resource[l] \in Resources
  /\ locking \cup unlocking \cup granting \cup failing \subseteq InUse
  /\ \A r \in Resources : \A l \in waiting[r] : l \in InUse /\ resource[l] = r

OwnInv == LocksTypeOK /\ ClaimStands /\ GivenUp /\ DoneWhenEnded /\ DoneWhenDead /\ KnownLocks

(* What makes ResourcesComeBack inductive: between jobs a thread asks for  *)
(* nothing, and a lock that is asked for still wants its resource, and     *)
(* neither waits for it nor was it granted.                                *)
QuietBetweenJobs == \A t \in Threads \ strayed : loop[t] # "running" => LiveLocks(t) = {}
AskedForIsWanted ==
  \A l \in locking :
    phase[l] = "acquiring" /\ l \notin granting /\ \A r \in Resources : l \notin waiting[r]

BackInv == OwnInv /\ ResourcesComeBack /\ QuietBetweenJobs /\ AskedForIsWanted

-----------------------------------------------------------------------------
(* What the jobs see of it.                                                *)
InLine(r) ==
  {l \in waiting[r] \cup {holder[r]} : l # NoLock /\ phase[l] = "acquiring"}

AbsService == INSTANCE LockService WITH
  users <- [r \in Resources |-> Held(r)],
  line <- [r \in Resources |-> InLine(r)],
  before <- ahead

(* The protocol of lock, unlock, grant and time-out gives every playlist   *)
(* and rundown to one job at a time, in the order in which the requests    *)
(* that still stand reached the worker.                                    *)
ImplementsLockService == AbsService!Spec
=============================================================================
