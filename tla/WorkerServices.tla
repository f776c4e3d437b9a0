----------------------------- MODULE WorkerServices -----------------------------
(***************************************************************************)
(* What happens in the end around the job worker: the queue that feeds it, *)
(* the life of one of its threads, and the external messages that its      *)
(* events thread sends.  The thread sees of the queue only how many jobs   *)
(* are there, and the messages are apart, so they are checked apart: each  *)
(* behaviour is one of the component `focus'.                              *)
(***************************************************************************)
EXTENDS Naturals, FiniteSets

CONSTANTS
  Names, MaxQueuedJobs, MaxTime, MaxInterrupts, MaxRestarts, DebounceTime, EarlyBy,
                                                   \* of JobQueue
  Parts, MaxJobs, MaxChanges, MaxFaults,           \* of WorkerThread
  Messages, Limit, MaxSends, MaxFailures, MaxEdits \* of ExternalMessages

VARIABLES
  focus,
  clock, next, high, low, name, data, notBefore, timer, handler, calls, queueRunning,
  notifyWorker, waking, replacing, inc, queueInterrupts, worker, current,
  threadStatus, pendingInvalidations, watchdogJobStarted, terminate, loop, call, taken,
  restarting, child, autoRestart, cached, config, told, lost, slow, queue, interrupts,
  jobs, changes, threadFaults,
  message, changesStream, changed, triggerTimeout, batchRunning, probablyHasMoreToSend,
  sends, posted, trouble, missed, messageFaults, edits

Queue == INSTANCE JobQueue WITH
  MaxJobs <- MaxQueuedJobs, running <- queueRunning, interrupts <- queueInterrupts
Thread == INSTANCE WorkerThread WITH faults <- threadFaults
External == INSTANCE ExternalMessages WITH
  MaxFaults <- MaxFailures, running <- batchRunning, faults <- messageFaults

ASSUME ServicesAssumption == Thread!ThreadAssumption /\ External!MessagesAssumption

queueVars ==
  <<clock, next, high, low, name, data, notBefore, timer, handler, calls, queueRunning,
    notifyWorker, waking, replacing, inc, queueInterrupts, worker, current>>
threadVars ==
  <<threadStatus, pendingInvalidations, watchdogJobStarted, terminate, loop, call, taken,
    restarting, child, autoRestart, cached, config, told, lost, slow, queue, interrupts,
    jobs, changes, threadFaults>>
externalVars ==
  <<message, changesStream, changed, triggerTimeout, batchRunning, probablyHasMoreToSend,
    sends, posted, trouble, missed, messageFaults, edits>>
vars == <<focus, queueVars, threadVars, externalVars>>

Init ==
  /\ focus \in {"queue", "thread", "external"}
  /\ Queue!Init /\ Thread!Init /\ External!Init

Next ==
  \/ /\ focus = "queue" /\ Queue!Next
     /\ UNCHANGED <<focus, threadVars, externalVars>>
  \/ /\ focus = "thread" /\ Thread!Next
     /\ UNCHANGED <<focus, queueVars, externalVars>>
  \/ /\ focus = "external" /\ External!Next
     /\ UNCHANGED <<focus, queueVars, threadVars>>

(* The fairness of each component, where it has the focus.                 *)
QueueFairness ==
  /\ WF_queueVars(focus = "queue" /\ Queue!WaitForNextJob)
  /\ WF_queueVars(focus = "queue" /\ Queue!GetNextJob)
  /\ WF_queueVars(focus = "queue" /\ Queue!ReportResult(FALSE))
  /\ WF_queueVars(focus = "queue" /\ Queue!Restarted)
  /\ WF_queueVars(focus = "queue" /\ Queue!Tick)
  /\ \A i \in 1..MaxQueuedJobs : /\ WF_queueVars(focus = "queue" /\ Queue!ResolveWaiter(i))
                     /\ WF_queueVars(focus = "queue" /\ Queue!RejectWaiter(i))
                     /\ WF_queueVars(focus = "queue" /\ Queue!TimerFires(i))
ThreadFairness ==
  /\ WF_threadVars(focus = "thread" /\ Thread!LoopStep)
  /\ WF_threadVars(focus = "thread" /\ Thread!ChildStep)
  /\ WF_threadVars(focus = "thread" /\ Thread!ChildRestarted)
  /\ WF_threadVars(focus = "thread" /\ Thread!Watchdog)
  /\ \A p \in Parts : WF_threadVars(focus = "thread" /\ Thread!QueueCacheInvalidation(p))
  /\ \A who \in {"loop", "watchdog"} : WF_threadVars(focus = "thread" /\ Thread!Restart(who))
ExternalFairness ==
  /\ WF_externalVars(focus = "external" /\ External!ChangeArrives)
  /\ WF_externalVars(focus = "external" /\ External!StartListeningForEvents)
  /\ WF_externalVars(focus = "external" /\ External!DoMessageQueue)
  /\ WF_externalVars(focus = "external" /\ External!BatchEnds)
  /\ \A m \in Messages : WF_externalVars(focus = "external" /\ External!MinutePasses(m))
  /\ \A i \in 1..MaxSends :
       WF_externalVars(focus = "external" /\ i \in External!Awaited /\ External!SendStep(i))

Spec ==
  /\ Init /\ [][Next]_vars
  /\ QueueFairness /\ ThreadFairness /\ ExternalFairness

-----------------------------------------------------------------------------
(* JobQueueManager: every queued job is handed to the worker: no park,     *)
(* timer, interruption, stale promise or restart leaves it behind.         *)
EveryJobDispatched == Queue!EveryJobDispatched

(* WorkerParentBase: the invalidation of data that the child has loaded is *)
(* pending, or on its way, through every crash and restart; and a thread   *)
(* counts as ready only when its child has its data.                       *)
ThreadHasItsData == Thread!TypeOK /\ Thread!StaleIsPending /\ Thread!ReadyThread

(* Whatever crashed or hung, the loop has taken all jobs in the end.       *)
JobsAreTaken == focus = "thread" => Thread!JobsAreTaken

(* ExternalMessageQueueRunner: a message is posted again only when a send  *)
(* of it went on unwatched or could not be recorded.                       *)
PostedOnce == External!TypeOK /\ External!PostedOnce

(* A message that was queued is tried.                                     *)
EveryMessageTried == External!EveryMessageTried
=============================================================================
