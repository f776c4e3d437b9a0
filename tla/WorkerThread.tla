------------------------------ MODULE WorkerThread ------------------------------
(***************************************************************************)
(* The life of one worker thread as its parent sees it: the loop that      *)
(* feeds it jobs, the watchdog that restarts it, its own crashes, and the  *)
(* cache of configuration that the parent invalidates                      *)
(* (packages/job-worker/src/workers/parent-base.ts, worker-set.ts).        *)
(*                                                                         *)
(* The thread is a child process behind the library threadedclass: a call  *)
(* to a child that dies is rejected, a crashed child is started again by   *)
(* the library, and restart() replaces the child.  A part of the           *)
(* configuration is a document; its value is the number of its changes.    *)
(***************************************************************************)
EXTENDS Naturals, FiniteSets

CONSTANTS
  Parts,       \* the documents of the configuration
  MaxJobs,     \* jobs put in the queue of the thread (bound)
  MaxChanges,  \* changes of the configuration (bound)
  MaxFaults    \* crashes, slow jobs, failed calls and failed restarts (bound)

ThreadAssumption == {MaxJobs, MaxChanges, MaxFaults} \subseteq Nat

VARIABLES
  threadStatus, pendingInvalidations, watchdogJobStarted, terminate,
  loop,        \* what the loop of startWorkerLoop awaits
  call,        \* how the loop's call to the child stands
  taken,       \* the invalidations the loop's call carries
  restarting,  \* who awaits restartWorkerThread
  child,       \* "down", "fresh" or "ready" (it has its #staticData)
  autoRestart, \* whether the library is starting a crashed child again
  cached,      \* the configuration the child has loaded
  config,      \* the configuration in the database
  told,        \* what the change streams have told the parent of it
  lost,        \* parts whose invalidation failed in a child that lived on
  slow,        \* whether the running job does not end by itself
  queue, interrupts,    \* the thread's jobs and interruptions, in Core
  jobs, changes, faults \* how many there were (bound the model)

parentVars ==
  <<threadStatus, pendingInvalidations, watchdogJobStarted, terminate, loop, call, taken, restarting>>
childVars == <<child, autoRestart, cached, lost, slow>>
dbVars == <<config, told, changes>>
queueVars == <<queue, interrupts, jobs>>
vars == <<parentVars, childVars, dbVars, queueVars, faults>>

Statuses == {"Closed", "PendingInit", "Ready", "ManualRestarting"}
LoopStates ==
  {"top", "asleep", "restarting", "initialising", "waiting", "invalidating",
   "popping", "running", "clearing", "reporting", "ended"}

TypeOK ==
  /\ threadStatus \in Statuses
  /\ {pendingInvalidations, taken, lost} \subseteq SUBSET Parts
  /\ {watchdogJobStarted, autoRestart, slow} \subseteq BOOLEAN
  /\ terminate \in {"no", "asked", "set", "done"}
  /\ loop \in LoopStates /\ call \in {"none", "open", "answered", "rejected"}
  /\ restarting \subseteq {"loop", "watchdog"}
  /\ child \in {"down", "fresh", "ready"}
  /\ {cached, config, told} \subseteq [Parts -> 0..MaxChanges]
  /\ queue \in 0..MaxJobs /\ interrupts \in 0..(2 * MaxFaults)
  /\ jobs \in 0..MaxJobs /\ changes \in 0..MaxChanges /\ faults \in 0..MaxFaults

Init ==
  /\ threadStatus = "PendingInit" /\ pendingInvalidations = {} /\ taken = {}
  /\ watchdogJobStarted = FALSE /\ terminate = "no"
  /\ loop = "top" /\ call = "none" /\ restarting = {}
  /\ child = "fresh" /\ autoRestart = FALSE /\ lost = {} /\ slow = FALSE
  /\ config = [p \in Parts |-> 0] /\ cached = config /\ told = config
  /\ queue = 0 /\ interrupts = 0 /\ jobs = 0 /\ changes = 0 /\ faults = 0

Fault == faults < MaxFaults /\ faults' = faults + 1

-----------------------------------------------------------------------------
(* The database: a document changes, and the change streams of the worker  *)
(* set tell the parent later.                                              *)
ConfigChanges(p) ==
  /\ changes < MaxChanges
  /\ changes' = changes + 1
  /\ config' = [config EXCEPT ![p] = @ + 1]
  /\ UNCHANGED <<parentVars, childVars, told, queueVars, faults>>

QueueCacheInvalidation(p) ==
  /\ told[p] # config[p]
  /\ told' = [told EXCEPT ![p] = config[p]]
  /\ pendingInvalidations' = pendingInvalidations \cup {p}
  /\ UNCHANGED <<threadStatus, watchdogJobStarted, terminate, loop, call, taken,
                 restarting, childVars, config, changes, queueVars, faults>>

JobQueued ==
  /\ jobs < MaxJobs
  /\ jobs' = jobs + 1 /\ queue' = queue + 1
  /\ UNCHANGED <<parentVars, childVars, dbVars, interrupts, faults>>

-----------------------------------------------------------------------------
(* The child dies or is replaced: what it was asked is rejected, and it    *)
(* has no data.                                                            *)
Replace(state) ==
  /\ child' = state /\ lost' = {}
  /\ call' = IF call = "none" THEN call ELSE "rejected"

ChildCrashes ==
  /\ Fault
  /\ child # "down" /\ ~autoRestart
  /\ Replace("down") /\ autoRestart' = TRUE
  /\ IF threadStatus = "ManualRestarting"
       THEN UNCHANGED <<threadStatus, interrupts>>
       ELSE threadStatus' = "Closed" /\ interrupts' = interrupts + 1
  /\ UNCHANGED <<pendingInvalidations, watchdogJobStarted, terminate, loop, taken,
                 restarting, cached, slow, dbVars, queue, jobs>>

(* The 'restarted' event.                                                  *)
ChildRestarted ==
  /\ autoRestart /\ autoRestart' = FALSE
  /\ terminate # "done"
  /\ Replace("fresh")
  /\ threadStatus' = "PendingInit"
  /\ interrupts' = interrupts + 1
  /\ UNCHANGED <<pendingInvalidations, watchdogJobStarted, terminate, loop, taken,
                 restarting, cached, slow, dbVars, queue, jobs, faults>>

-----------------------------------------------------------------------------
(* tryRestartThread, of the loop and of the watchdog.                      *)
TryRestartThread(who) ==
  /\ threadStatus' = "ManualRestarting"
  /\ restarting' = restarting \cup {who}
  /\ Replace("down")

RestartThread(who) ==
  /\ restarting' = restarting \ {who}
  /\ Replace("fresh")
  /\ threadStatus' = "PendingInit"

AfterRestart(who) == IF who = "loop" THEN loop' = "asleep" ELSE UNCHANGED loop

ThreadIsRestarted(who) ==
  /\ who \in restarting
  /\ RestartThread(who) /\ AfterRestart(who)
  /\ UNCHANGED <<pendingInvalidations, watchdogJobStarted, terminate, taken,
                 autoRestart, cached, slow, dbVars, queueVars, faults>>

RestartFails(who) ==
  /\ Fault
  /\ who \in restarting /\ restarting' = restarting \ {who}
  /\ AfterRestart(who)
  /\ UNCHANGED <<threadStatus, pendingInvalidations, watchdogJobStarted, terminate,
                 call, taken, childVars, dbVars, queueVars>>

(* The watchdog finds a job that has been running for too long.            *)
Watchdog ==
  /\ watchdogJobStarted /\ slow /\ terminate = "no"
  /\ watchdogJobStarted' = FALSE
  /\ TryRestartThread("watchdog")
  /\ UNCHANGED <<pendingInvalidations, terminate, loop, taken, autoRestart, cached,
                 slow, dbVars, queueVars, faults>>

-----------------------------------------------------------------------------
(* The loop.                                                               *)
LoopEnds ==
  /\ loop = "top" /\ terminate = "set"
  /\ loop' = "ended" /\ terminate' = "done" /\ child' = "down"
  /\ UNCHANGED <<threadStatus, pendingInvalidations, watchdogJobStarted, call, taken,
                 restarting, autoRestart, cached, lost, slow, dbVars, queueVars, faults>>

Rests ==
  /\ \/ loop = "top" /\ threadStatus = "Closed" /\ terminate # "set" /\ loop' = "asleep"
     \/ loop = "asleep" /\ loop' = "top"
  /\ UNCHANGED <<threadStatus, pendingInvalidations, watchdogJobStarted, terminate,
                 call, taken, restarting, childVars, dbVars, queueVars, faults>>

RestartsThread ==
  /\ loop = "top" /\ threadStatus = "ManualRestarting" /\ terminate # "set"
  /\ loop' = "restarting"
  /\ TryRestartThread("loop")
  /\ UNCHANGED <<pendingInvalidations, watchdogJobStarted, terminate, taken, autoRestart,
                 cached, slow, dbVars, queueVars, faults>>

(* The loop calls the child; a child that is down rejects the call.        *)
Calls(state) ==
  /\ loop' = state
  /\ call' = IF child = "down" THEN "rejected" ELSE "open"

InitialisesWorker ==
  /\ loop = "top" /\ threadStatus = "PendingInit" /\ terminate # "set"
  /\ Calls("initialising")
  /\ UNCHANGED <<threadStatus, pendingInvalidations, watchdogJobStarted, terminate,
                 taken, restarting, childVars, dbVars, queueVars, faults>>

(* The child reads what init or an invalidation is to load; its answer is  *)
(* on its way (loadWorkerDataCache, invalidateWorkerDataCache).            *)
Loads ==
  /\ call = "open" /\ call' = "answered"
  /\ \/ loop = "initialising" /\ child = "fresh" /\ cached' = config
     \/ /\ loop \in {"invalidating", "clearing"} /\ child = "ready"
        /\ cached' = [p \in Parts |-> IF p \in taken THEN config[p] ELSE cached[p]]
  /\ child' = "ready" /\ lost' = lost \ taken
  /\ UNCHANGED <<threadStatus, pendingInvalidations, watchdogJobStarted, terminate, loop,
                 taken, restarting, autoRestart, slow, dbVars, queueVars, faults>>

(* A call fails when the child was lost or cannot serve it, or by a fault. *)
CallFails(served) ==
  \/ (call = "rejected" \/ (call = "open" /\ child # served)) /\ UNCHANGED faults
  \/ call = "open" /\ Fault

WorkerInitialised ==
  /\ loop = "initialising" /\ call = "answered"
  /\ threadStatus' = "Ready"
  /\ loop' = "top" /\ call' = "none"
  /\ UNCHANGED <<pendingInvalidations, watchdogJobStarted, terminate, taken, restarting,
                 childVars, dbVars, queueVars, faults>>

(* Mutant: the thread is given up when its child could not be initialised. *)
InitFails_NotAgain ==
  /\ loop = "initialising" /\ CallFails("fresh")
  /\ loop' = "asleep" /\ call' = "none" /\ threadStatus' = "Closed"
  /\ UNCHANGED <<pendingInvalidations, watchdogJobStarted, terminate, taken, restarting,
                 childVars, dbVars, queueVars>>

(* The child was lost, has its data already, or could not load them.       *)
InitFails ==
  /\ loop = "initialising" /\ CallFails("fresh")
  /\ loop' = "asleep" /\ call' = "none" /\ threadStatus' = "ManualRestarting"
  /\ UNCHANGED <<pendingInvalidations, watchdogJobStarted, terminate, taken, restarting,
                 childVars, dbVars, queueVars>>

Waits ==
  /\ loop = "top" /\ threadStatus = "Ready" /\ terminate # "set"
  /\ loop' = "waiting"
  /\ UNCHANGED <<threadStatus, pendingInvalidations, watchdogJobStarted, terminate,
                 call, taken, restarting, childVars, dbVars, queueVars, faults>>

(* There is a job or an interruption; invalidations go first.              *)
WaitEnds ==
  /\ loop = "waiting" /\ queue + interrupts > 0
  /\ taken' = pendingInvalidations /\ pendingInvalidations' = {}
  /\ IF pendingInvalidations = {}
       THEN loop' = "popping" /\ UNCHANGED call
       ELSE Calls("invalidating")
  /\ UNCHANGED <<threadStatus, watchdogJobStarted, terminate, restarting,
                 childVars, dbVars, queueVars, faults>>

(* Mutant: what is pending is cleared when the call returns.               *)
Invalidated_ClearAfter ==
  /\ loop = "invalidating" /\ call = "answered"
  /\ taken' = {} /\ pendingInvalidations' = {}
  /\ loop' = "popping" /\ call' = "none"
  /\ UNCHANGED <<threadStatus, watchdogJobStarted, terminate, restarting,
                 childVars, dbVars, queueVars, faults>>

Invalidated ==
  /\ loop = "invalidating" /\ call = "answered"
  /\ taken' = {}
  /\ loop' = "popping" /\ call' = "none"
  /\ UNCHANGED <<threadStatus, pendingInvalidations, watchdogJobStarted, terminate, restarting,
                 childVars, dbVars, queueVars, faults>>

(* What a failed call carried is gone, in a child that may live on.        *)
Forgets == lost' = IF child = "ready" THEN lost \cup taken ELSE lost

InvalidationFails ==
  /\ loop = "invalidating" /\ CallFails("ready")
  /\ Forgets /\ taken' = {}
  /\ loop' = "asleep" /\ call' = "none"
  /\ UNCHANGED <<threadStatus, pendingInvalidations, watchdogJobStarted, terminate, restarting,
                 child, autoRestart, cached, slow, dbVars, queueVars>>

PopInterrupt ==
  /\ loop = "popping"
  /\ loop' = "top"
  /\ interrupts > 0 /\ interrupts' = interrupts - 1
  /\ UNCHANGED <<threadStatus, pendingInvalidations, watchdogJobStarted, terminate, call,
                 taken, restarting, childVars, dbVars, queue, jobs, faults>>

PopJob ==
  /\ loop = "popping" /\ interrupts = 0 /\ queue > 0
  /\ queue' = queue - 1
  /\ watchdogJobStarted' = TRUE
  /\ Calls("running")
  /\ UNCHANGED <<threadStatus, pendingInvalidations, terminate, taken, restarting,
                 childVars, dbVars, interrupts, jobs, faults>>

(* A job that forces the caches clear is not given to the child as a job.  *)
PopForceClear ==
  /\ loop = "popping" /\ interrupts = 0 /\ queue > 0
  /\ queue' = queue - 1
  /\ watchdogJobStarted' = TRUE
  /\ taken' = Parts /\ pendingInvalidations' = {}
  /\ Calls("clearing")
  /\ UNCHANGED <<threadStatus, terminate, restarting, childVars, dbVars, interrupts, jobs, faults>>

JobIsSlow ==
  /\ Fault
  /\ loop = "running" /\ call = "open" /\ ~slow
  /\ slow' = TRUE
  /\ UNCHANGED <<parentVars, child, autoRestart, cached, lost, dbVars, queueVars>>

JobDone ==
  /\ loop' = "reporting" /\ call' = "none"
  /\ watchdogJobStarted' = FALSE /\ slow' = FALSE

(* runJob returns, or is rejected by a child that has no data or is lost.  *)
JobReturns ==
  /\ loop = "running"
  /\ call = "rejected" \/ ~slow
  /\ JobDone
  /\ UNCHANGED <<threadStatus, pendingInvalidations, terminate, taken, restarting,
                 child, autoRestart, cached, lost, dbVars, queueVars, faults>>

SlowJobReturns ==
  /\ loop = "running" /\ slow /\ call = "open"
  /\ JobDone
  /\ UNCHANGED <<threadStatus, pendingInvalidations, terminate, taken, restarting,
                 child, autoRestart, cached, lost, dbVars, queueVars, faults>>

(* A cleared cache is a job done, a failed clear is a job failed.          *)
ClearReturns ==
  /\ loop = "clearing"
  /\ \/ call = "answered" /\ UNCHANGED <<lost, faults>>
     \/ CallFails("ready") /\ Forgets
  /\ JobDone /\ taken' = {}
  /\ UNCHANGED <<threadStatus, pendingInvalidations, terminate, restarting,
                 child, autoRestart, cached, dbVars, queueVars>>

(* jobFinished and releaseAllForThread have returned.                      *)
Reported ==
  /\ loop = "reporting" /\ loop' = "top"
  /\ UNCHANGED <<threadStatus, pendingInvalidations, watchdogJobStarted, terminate, call,
                 taken, restarting, childVars, dbVars, queueVars, faults>>

-----------------------------------------------------------------------------
(* terminate: the watchdog is stopped, the locks are freed, and only then  *)
(* is the loop told.  It is called when the process stops or when a change *)
(* stream of the worker set has ended.                                     *)
Terminate ==
  /\ \/ terminate = "no" /\ terminate' = "asked"
     \/ terminate = "asked" /\ terminate' = "set"
  /\ UNCHANGED <<threadStatus, pendingInvalidations, watchdogJobStarted, loop, call, taken,
                 restarting, childVars, dbVars, queueVars, faults>>

LoopStep ==
  \/ LoopEnds \/ Rests \/ RestartsThread \/ InitialisesWorker \/ Waits \/ WaitEnds
  \/ PopInterrupt \/ PopJob \/ PopForceClear \/ Reported

ChildStep ==
  \/ Loads \/ WorkerInitialised \/ InitFails \/ Invalidated \/ InvalidationFails
  \/ JobReturns \/ ClearReturns

Restart(who) == ThreadIsRestarted(who) \/ RestartFails(who)

Next ==
  \/ \E p \in Parts : ConfigChanges(p) \/ QueueCacheInvalidation(p)
  \/ JobQueued \/ JobIsSlow \/ SlowJobReturns
  \/ ChildCrashes \/ ChildRestarted \/ Watchdog \/ Terminate
  \/ \E who \in {"loop", "watchdog"} : Restart(who)
  \/ LoopStep \/ ChildStep

Spec == Init /\ [][Next]_vars

(* The event loop of the parent runs, a child answers unless its job is    *)
(* slow, the library restarts a child, the watchdog is an interval.        *)
Fairness ==
  /\ WF_vars(LoopStep) /\ WF_vars(ChildStep)
  /\ WF_vars(ChildRestarted) /\ WF_vars(Watchdog)
  /\ \A who \in {"loop", "watchdog"} : WF_vars(Restart(who))
  /\ \A p \in Parts : WF_vars(QueueCacheInvalidation(p))
FairSpec == Spec /\ Fairness

-----------------------------------------------------------------------------
(* The parent never forgets a change it was told of: a part that the child *)
(* has loaded before the change is pending, or carried by a call that is   *)
(* still open, through every crash and restart; unless the call that       *)
(* carried it failed in a child that lived on.                             *)
StaleIsPending ==
  child = "ready" =>
    \A p \in Parts : cached[p] < told[p] =>
      p \in pendingInvalidations \cup taken \cup lost

(* The thread takes jobs only with its data: when it counts as Ready, the  *)
(* child has them, whoever restarted it meanwhile.                         *)
ReadyThread == threadStatus = "Ready" /\ terminate # "done" => child = "ready"

(* Whatever crashed or hung, the loop comes back to wait for jobs and has  *)
(* taken them all, unless it is terminated while a slow job runs.          *)
JobsAreTaken == <>[]((queue = 0 /\ loop = "waiting") \/ terminate # "no")
=============================================================================
