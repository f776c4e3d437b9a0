------------------------------ MODULE JobQueue ------------------------------
(***************************************************************************)
(* One queue of WorkerJobQueueManager                                      *)
(* (packages/sofie-core/src/worker/jobQueue.ts), together with the one     *)
(* worker thread that long-polls it over IPC.                              *)
(*                                                                         *)
(* Submissions are numbered by `next': a job carries the number of the     *)
(* submission that created its entry, an event merged into a queued job    *)
(* the number of the mergeOrQueueJob call that brought it.  Queue entries  *)
(* are job numbers; Interrupt stands for a `null' entry.                   *)
(***************************************************************************)
EXTENDS Integers, Sequences, SequencesExt

CONSTANTS
  Names,          \* job names; jobs of one name carry equal data, except that
                  \* mergeOrQueueJob accumulates events in the data
  MaxJobs,        \* bound: number of submissions
  MaxTime,        \* bound: the clock
  MaxInterrupts,  \* bound: interruptions by child threads
  MaxRestarts,    \* bound: incarnations of the worker process
  DebounceTime,   \* options.debounce of a debounced submission
  EarlyBy         \* how much before its deadline, read on Date.now(), setTimeout may fire

ASSUME JobQueueAssumption ==
  /\ Names # {}
  /\ MaxJobs \in Nat /\ MaxTime \in Nat /\ MaxInterrupts \in Nat /\ MaxRestarts \in Nat
  /\ DebounceTime \in Nat \ {0}
  /\ EarlyBy \in Nat

Jobs == 1..MaxJobs
Interrupt == 0
NoWaiter == 0          \* queue.notifyWorker = null
NoJob == 0
NoName == "unnamed"

VARIABLES
  clock,        \* Date.now()
  next,         \* number of the next submission
  high, low,    \* jobsHighPriority, jobsLowPriority
  name, data,   \* spec.name and spec.data of each job
  notBefore,    \* notBefore of each job, 0 when undefined
  timer,        \* the jobs whose debounceTimer is armed
  handler,      \* what became of each submission's completionHandler
  calls,        \* how many times each completionHandler was called
  running,      \* the ids in #runningJobs
  notifyWorker, \* incarnation whose promise is in queue.notifyWorker
  waking,       \* incarnations whose promise a queued setImmediate will resolve
  replacing,    \* incarnations whose promise a queued setImmediate will reject
  inc,          \* incarnation of the worker process
  interrupts,   \* interruptions so far
  worker,       \* where the worker's loop is
  current       \* the job the worker executes

queueVars == <<high, low, name, data, notBefore, timer>>
jobVars == <<handler, calls, running>>
wakeVars == <<notifyWorker, waking, replacing>>
workerVars == <<inc, interrupts, worker, current>>
vars == <<clock, next, queueVars, jobVars, wakeVars, workerVars>>

WorkerStates == {"closed", "loop", "parked", "woken", "busy", "errored"}
HandlerStates == {"unused", "none", "pending", "settled", "dropped"}

TypeOK ==
  /\ clock \in 0..MaxTime
  /\ next \in 1..(MaxJobs + 1)
  /\ high \in Seq(Jobs \cup {Interrupt})
  /\ low \in Seq(Jobs)
  /\ name \in [Jobs -> Names \cup {NoName}]
  /\ data \in [Jobs -> SUBSET Jobs]
  /\ notBefore \in [Jobs -> 0..MaxTime]
  /\ timer \in SUBSET Jobs
  /\ handler \in [Jobs -> HandlerStates]
  /\ calls \in [Jobs -> Nat]
  /\ running \in SUBSET Jobs
  /\ notifyWorker \in 0..(MaxRestarts + 1)
  /\ waking \in SUBSET (1..(MaxRestarts + 1))
  /\ replacing \in SUBSET (1..(MaxRestarts + 1))
  /\ inc \in 1..(MaxRestarts + 1)
  /\ interrupts \in 0..MaxInterrupts
  /\ worker \in WorkerStates
  /\ current \in Jobs \cup {NoJob}

Init ==
  /\ clock = 0
  /\ next = 1
  /\ high = <<>> /\ low = <<>>
  /\ name = [j \in Jobs |-> NoName]
  /\ data = [j \in Jobs |-> {}]
  /\ notBefore = [j \in Jobs |-> 0]
  /\ timer = {}
  /\ handler = [j \in Jobs |-> "unused"]
  /\ calls = [j \in Jobs |-> 0]
  /\ running = {}
  /\ notifyWorker = NoWaiter
  /\ waking = {} /\ replacing = {}
  /\ inc = 1 /\ interrupts = 0 /\ worker = "loop" /\ current = NoJob

-----------------------------------------------------------------------------
(* Reading the queue                                                       *)

Ready(e) == e = Interrupt \/ notBefore[e] <= clock

ReadyIn(q) == {i \in DOMAIN q : Ready(q[i])}
(* Mutant: the newest ready entry first. *)
FirstOf_Newest(i, I) == i \in I /\ \A k \in I : k <= i

FirstOf(i, I) == i \in I /\ \A k \in I : i <= k
SameJob(j, n, d) == j # Interrupt /\ name[j] = n /\ data[j] = d
Matches(q, n) == {i \in DOMAIN q : SameJob(q[i], n, {})}

Entries == ToSet(high) \cup ToSet(low)
Queued == Entries \ {Interrupt}

(* Wake whoever is parked: the promise is resolved from a setImmediate.    *)
Notify ==
  /\ notifyWorker' = NoWaiter
  /\ waking' = IF notifyWorker = NoWaiter THEN waking ELSE waking \cup {notifyWorker}
  /\ UNCHANGED replacing

(* Mutant: an entry is postponed without a timer. *)
Postpone_NoTimer(j) ==
  /\ clock + DebounceTime <= MaxTime
  /\ notBefore' = [notBefore EXCEPT ![j] = clock + DebounceTime]
  /\ UNCHANGED timer

(* Debounce: the entry j must not run before now + DebounceTime, and a     *)
(* fresh timer wakes the worker then.                                      *)
Postpone(j) ==
  /\ clock + DebounceTime <= MaxTime
  /\ notBefore' = [notBefore EXCEPT ![j] = clock + DebounceTime]
  /\ timer' = timer \cup {j}

-----------------------------------------------------------------------------
(* Submissions                                                             *)

NewJob(n, d) ==
  /\ next \in Jobs
  /\ next' = next + 1
  /\ name' = [name EXCEPT ![next] = n]
  /\ data' = [data EXCEPT ![next] = d]

Enqueue(lowPriority) ==
  IF lowPriority THEN low' = Append(low, next) /\ UNCHANGED high
                 ELSE high' = Append(high, next) /\ UNCHANGED low

(* queueJobAndWrapResult (wrap) and queueJobWithoutResult (~wrap), without *)
(* options.debounce.                                                       *)
QueueJob(n, lowPriority, wrap) ==
  /\ NewJob(n, {})
  /\ Enqueue(lowPriority)
  /\ handler' = [handler EXCEPT ![next] = IF wrap THEN "pending" ELSE "none"]
  /\ Notify
  /\ UNCHANGED <<clock, notBefore, timer, calls, running, workerVars>>

(* The same with options.debounce: an equal job that still waits absorbs   *)
(* the submission, whose completionHandler is forgotten.                   *)
DebounceNew(n, lowPriority) ==
  /\ Matches(high, n) = {} /\ Matches(low, n) = {}
  /\ Enqueue(lowPriority)
  /\ Postpone(next)

DebounceHigh(n) ==
  /\ \E i \in DOMAIN high : FirstOf(i, Matches(high, n)) /\ Postpone(high[i])
  /\ UNCHANGED <<high, low>>

DebounceLow(n, lowPriority) ==
  /\ Matches(high, n) = {}
  /\ \E i \in DOMAIN low :
     /\ FirstOf(i, Matches(low, n))
     /\ Postpone(low[i])
     /\ IF lowPriority THEN UNCHANGED <<high, low>>
                       ELSE low' = RemoveAt(low, i) /\ high' = Append(high, low[i])

QueueDebounced(n, lowPriority, wrap) ==
  /\ NewJob(n, {})
  /\ LET absorbed == Matches(high, n) \cup Matches(low, n) # {}
     IN handler' = [handler EXCEPT ![next] =
                      IF ~wrap THEN "none" ELSE IF absorbed THEN "dropped" ELSE "pending"]
  /\ \/ DebounceNew(n, lowPriority)
     \/ DebounceHigh(n)
     \/ DebounceLow(n, lowPriority)
  /\ UNCHANGED <<clock, calls, running, wakeVars, workerVars>>

(* Mutants: any queued job of that name absorbs the event; the job that    *)
(* the worker just took still does.                                        *)
MergeTarget_Anywhere(n) ==
  IF \E j \in ToSet(high) : j # Interrupt /\ name[j] = n
  THEN CHOOSE j \in ToSet(high) : j # Interrupt /\ name[j] = n
  ELSE NoJob

(* mergeOrQueueJob: only the very last high priority entry may absorb the  *)
(* event.                                                                  *)
MergeTarget(n) ==
  IF high # <<>> /\ Last(high) # Interrupt /\ name[Last(high)] = n THEN Last(high) ELSE NoJob

MergeEvent(n) ==
  /\ MergeTarget(n) # NoJob
  /\ next \in Jobs
  /\ next' = next + 1
  /\ data' = [data EXCEPT ![MergeTarget(n)] = @ \cup {next}]
  /\ handler' = [handler EXCEPT ![next] = "none"]
  /\ UNCHANGED <<clock, high, low, name, notBefore, timer, calls, running, wakeVars, workerVars>>

QueueEvent(n) ==
  /\ MergeTarget(n) = NoJob
  /\ NewJob(n, {next})
  /\ Enqueue(FALSE)
  /\ handler' = [handler EXCEPT ![next] = "none"]
  /\ Notify
  /\ UNCHANGED <<clock, notBefore, timer, calls, running, workerVars>>

-----------------------------------------------------------------------------
(* The worker                                                              *)

(* Mutant: only the high priority list is looked at before parking. *)
WaitForNextJob_HighOnly ==
  /\ worker = "loop"
  /\ IF ReadyIn(high) # {}
     THEN worker' = "woken" /\ UNCHANGED wakeVars
     ELSE /\ worker' = "parked"
          /\ notifyWorker' = inc
          /\ replacing' = IF notifyWorker = NoWaiter THEN replacing ELSE replacing \cup {notifyWorker}
          /\ UNCHANGED waking
  /\ UNCHANGED <<clock, next, queueVars, jobVars, inc, interrupts, current>>

(* waitForNextJob returns at once when an entry is ready; else it parks    *)
(* the worker on a new promise, rejecting the promise it finds there.      *)
WaitForNextJob ==
  /\ worker = "loop"
  /\ IF ReadyIn(high) # {} \/ ReadyIn(low) # {}
     THEN worker' = "woken" /\ UNCHANGED wakeVars
     ELSE /\ worker' = "parked"
          /\ notifyWorker' = inc
          /\ replacing' = IF notifyWorker = NoWaiter THEN replacing ELSE replacing \cup {notifyWorker}
          /\ UNCHANGED waking
  /\ UNCHANGED <<clock, next, queueVars, jobVars, inc, interrupts, current>>

(* Mutant: a null entry is run like a job. *)
PopHigh_NoNullCheck ==
  /\ \E i \in DOMAIN high :
     /\ FirstOf(i, ReadyIn(high))
     /\ high' = RemoveAt(high, i)
     /\ UNCHANGED low
     /\ worker' = "busy"
     /\ current' = high[i]
     /\ running' = running \cup {high[i]}

PopHigh ==
  /\ \E i \in DOMAIN high :
     /\ FirstOf(i, ReadyIn(high))
     /\ high' = RemoveAt(high, i)
     /\ UNCHANGED low
     /\ IF high[i] = Interrupt
        THEN worker' = "loop" /\ UNCHANGED <<running, current>>
        ELSE /\ worker' = "busy"
             /\ current' = high[i]
             /\ running' = running \cup {high[i]}

PopLow ==
  /\ ReadyIn(high) = {}
  /\ \E i \in DOMAIN low :
     /\ FirstOf(i, ReadyIn(low))
     /\ low' = RemoveAt(low, i)
     /\ UNCHANGED high
     /\ worker' = "busy"
     /\ current' = low[i]
     /\ running' = running \cup {low[i]}

PopNothing ==
  /\ ReadyIn(high) = {} /\ ReadyIn(low) = {}
  /\ worker' = "loop"
  /\ UNCHANGED <<high, low, running, current>>

GetNextJob ==
  /\ worker = "woken"
  /\ PopHigh \/ PopLow \/ PopNothing
  /\ UNCHANGED <<clock, next, name, data, notBefore, timer, handler, calls, wakeVars, inc, interrupts>>

(* Mutant: the id stays in #runningJobs. *)
Settle_NoDelete(ids) ==
  /\ UNCHANGED running
  /\ calls' = [j \in Jobs |-> IF j \in ids \cap running /\ handler[j] \in {"pending", "settled"}
                              THEN calls[j] + 1 ELSE calls[j]]
  /\ handler' = [j \in Jobs |-> IF j \in ids \cap running /\ handler[j] = "pending"
                                THEN "settled" ELSE handler[j]]

(* jobFinished, the first time it hears of the id.                         *)
Settle(ids) ==
  /\ running' = running \ ids
  /\ calls' = [j \in Jobs |-> IF j \in ids \cap running /\ handler[j] \in {"pending", "settled"}
                              THEN calls[j] + 1 ELSE calls[j]]
  /\ handler' = [j \in Jobs |-> IF j \in ids \cap running /\ handler[j] = "pending"
                                THEN "settled" ELSE handler[j]]

(* The loop of parent-base.ts reports the result; when the report itself   *)
(* throws, its catch clause reports the same id once more.                 *)
ReportResult(again) ==
  /\ worker = "busy"
  /\ Settle({current})
  /\ IF again THEN UNCHANGED <<worker, current>>
              ELSE worker' = "loop" /\ current' = NoJob
  /\ UNCHANGED <<clock, next, queueVars, wakeVars, inc, interrupts>>

-----------------------------------------------------------------------------
(* Deferred callbacks, timers and interruptions                            *)

(* The setImmediate callback of #notifyWorker or interruptJobStream.       *)
ResolveWaiter(i) ==
  /\ i \in waking
  /\ waking' = waking \ {i}
  /\ worker' = IF i = inc /\ worker = "parked" THEN "woken" ELSE worker
  /\ UNCHANGED <<clock, next, queueVars, jobVars, notifyWorker, replacing, inc, interrupts, current>>

(* The setImmediate callback of waitForNextJob: `new workerThread,         *)
(* replacing the old'.  It would cost a worker that lives 5 s.             *)
RejectWaiter(i) ==
  /\ i \in replacing
  /\ replacing' = replacing \ {i}
  /\ worker' = IF i = inc /\ worker = "parked" THEN "errored" ELSE worker
  /\ UNCHANGED <<clock, next, queueVars, jobVars, notifyWorker, waking, inc, interrupts, current>>

TimerFires(j) ==
  /\ j \in timer
  /\ clock + EarlyBy >= notBefore[j]
  /\ timer' = timer \ {j}
  /\ Notify
  /\ UNCHANGED <<clock, next, high, low, name, data, notBefore, jobVars, workerVars>>

(* A child thread of the worker closed or restarted (registerStatusEvents) *)
InterruptJobStream ==
  /\ worker # "closed"
  /\ interrupts < MaxInterrupts
  /\ interrupts' = interrupts + 1
  /\ IF notifyWorker # NoWaiter
     THEN Notify /\ UNCHANGED high
     ELSE high' = <<Interrupt>> \o high /\ UNCHANGED wakeVars
  /\ UNCHANGED <<clock, next, low, name, data, notBefore, timer, jobVars, inc, worker, current>>

(* 'thread_closed' of the worker process: rejectAllRunning.                *)
ThreadClosed ==
  /\ worker # "closed"
  /\ inc <= MaxRestarts
  /\ worker' = "closed"
  /\ current' = NoJob
  /\ Settle(running)
  /\ UNCHANGED <<clock, next, queueVars, wakeVars, inc, interrupts>>

(* 'restarted': the new process subscribes to the queue afresh.            *)
Restarted ==
  /\ worker = "closed" /\ inc <= MaxRestarts
  /\ worker' = "loop"
  /\ inc' = inc + 1
  /\ UNCHANGED <<clock, next, queueVars, jobVars, wakeVars, interrupts, current>>

Tick ==
  /\ clock < MaxTime
  /\ clock' = clock + 1
  /\ UNCHANGED <<next, queueVars, jobVars, wakeVars, workerVars>>

Submit ==
  \E n \in Names :
    \/ \E lowPriority, wrap \in BOOLEAN : QueueJob(n, lowPriority, wrap)
    \/ \E lowPriority, wrap \in BOOLEAN : QueueDebounced(n, lowPriority, wrap)
    \/ MergeEvent(n)
    \/ QueueEvent(n)

Callback ==
  \/ \E i \in 1..(MaxRestarts + 1) : ResolveWaiter(i) \/ RejectWaiter(i)
  \/ \E j \in Jobs : TimerFires(j)

WorkerStep ==
  \/ WaitForNextJob
  \/ GetNextJob
  \/ \E again \in BOOLEAN : ReportResult(again)

Next ==
  \/ Submit
  \/ WorkerStep
  \/ Callback
  \/ InterruptJobStream
  \/ ThreadClosed
  \/ Restarted
  \/ Tick

Spec == Init /\ [][Next]_vars

(***************************************************************************)
(* The event loop runs every queued callback and the worker keeps looping; *)
(* time passes; threadedClass restarts a closed worker (autoRestart).      *)
(* Submissions, interruptions and crashes are never owed.                  *)
(***************************************************************************)
Fairness ==
  /\ WF_vars(WaitForNextJob) /\ WF_vars(GetNextJob)
  /\ WF_vars(ReportResult(FALSE))
  /\ \A i \in 1..(MaxRestarts + 1) : WF_vars(ResolveWaiter(i)) /\ WF_vars(RejectWaiter(i))
  /\ \A j \in Jobs : WF_vars(TimerFires(j))
  /\ WF_vars(Restarted) /\ WF_vars(Tick)

FairSpec == Spec /\ Fairness

-----------------------------------------------------------------------------
(* Properties                                                              *)

(* A parked worker is never forgotten: either a callback that ends its     *)
(* wait is already scheduled, or every entry of the queue still has the    *)
(* timer that will notify it (waitForNextJob, #notifyWorker,               *)
(* #scheduleDebounceWakeup and interruptJobStream together).               *)
NoLostWakeup ==
  worker = "parked" =>
    \/ inc \in waking
    \/ notifyWorker = inc /\ Entries \subseteq timer

OnePlace ==
  /\ \A i, k \in DOMAIN high : high[i] = high[k] => i = k \/ high[i] = Interrupt
  /\ \A i, k \in DOMAIN low : low[i] = low[k] => i = k
  /\ ToSet(high) \cap ToSet(low) = {}
  /\ Queued \cap running = {}

(* A job is one entry of one list, or one of #runningJobs; a caller that   *)
(* waits on its completionHandler has it queued or running, and the        *)
(* handler runs at most once: through debouncing, restarts of the worker,  *)
(* rejectAllRunning and a jobFinished that is reported twice.              *)
ExactlyOnce ==
  /\ OnePlace
  /\ \A j \in Jobs :
       /\ handler[j] = "pending" => calls[j] = 0 /\ j \in Queued \cup running
       /\ handler[j] = "settled" => calls[j] = 1 /\ j \notin Queued \cup running

(* mergeOrQueueJob never carries an event ahead of a job that was queued   *)
(* before it: `breaking the ordering guarantee relative to other job       *)
(* types'.  Debounced jobs move and wait, and are exempt.                  *)
MergeKeepsOrder ==
  \A i, k \in DOMAIN high :
    i < k /\ high[i] # Interrupt /\ high[k] # Interrupt /\ notBefore[high[k]] = 0 =>
      \A e \in data[high[i]] : e < high[k]

(* A dispatched job never overtakes an undebounced job of its own priority *)
(* or above that was queued before it.                                     *)
FirstComeFirstServed ==
  [][\A j \in Jobs \ running : j \in running' =>
       \A k \in 1..(j - 1) : notBefore[k] = 0 =>
         /\ k \notin ToSet(high)
         /\ k \in ToSet(low) => j \in ToSet(high)]_vars

(* What makes NoLostWakeup and TypeOK inductive: submissions yet to come    *)
(* leave no trace, and an entry without an armed timer is ready.           *)
Untouched == \A j \in Jobs : next <= j => notBefore[j] = 0 /\ j \notin timer \cup Queued

DueOrTimed == \A j \in Queued : j \in timer \/ notBefore[j] <= clock

WakeInv == TypeOK /\ Untouched /\ DueOrTimed /\ NoLostWakeup

(* What makes the three properties of the lists inductive: b stands behind *)
(* a only as another job, and undebounced only if it came after a and all  *)
(* that was merged into a; submissions yet to come have been given nothing.*)
Behind(a, b) ==
  a # Interrupt /\ b # Interrupt =>
    /\ a # b
    /\ notBefore[b] = 0 => a < b /\ \A e \in data[a] : e < b

InOrder(q) == \A i, k \in DOMAIN q : i < k => Behind(q[i], q[k])

Unserved ==
  \A j \in Jobs :
    /\ next <= j => j \notin Queued \cup running /\ handler[j] = "unused" /\ calls[j] = 0
    /\ \A e \in data[j] : e < next

QueueInv == TypeOK /\ Unserved /\ InOrder(high) /\ InOrder(low) /\ ExactlyOnce

(* Once no more jobs come, all are handed to the worker: no park, timer,   *)
(* interruption, stale promise or restart leaves one behind.               *)
EveryJobDispatched == <>[](Queued = {})

(* `Promise returning the result. Resolved upon completion of the job'     *)
(* (WorkerJob.complete, worker.ts), for each submission that asks for it.  *)
EveryPromiseSettles ==
  \A j \in Jobs : handler[j] \in {"pending", "dropped"} ~> handler[j] = "settled"
=============================================================================
