---------------------------- MODULE OptimizedObserver ----------------------------
(***************************************************************************)
(* Custom publications that share their work: all subscribers of one       *)
(* identifier join the wrapper that is registered for it, whose worker     *)
(* observes the sources, computes the documents again after a change and   *)
(* sends them to all (packages/sofie-core/src/lib/customPublication/       *)
(* optimizedObserverBase.ts).  This is the model of one identifier.        *)
(*                                                                         *)
(* A wrapper that is no longer registered may still be stopping when the   *)
(* next one is made.  Updates are put off by lazyIgnore, whose timers go   *)
(* by the identifier: there is one for all wrappers.                       *)
(*                                                                         *)
(* The sources are a version, and the documents the version they were      *)
(* computed from.                                                          *)
(***************************************************************************)
EXTENDS Naturals, FiniteSets

CONSTANTS
  Subscribers,
  MaxWrappers,   \* how many wrappers may be around at one time (bound)
  MaxChanges,    \* how often the sources change (bound)
  MaxFailures    \* how often setting up or computing throws (bound)

ObserverAssumption ==
  /\ MaxWrappers \in Nat \ {0}
  /\ {MaxChanges, MaxFailures} \subseteq Nat

VARIABLES
  source,      \* the version of the sources
  registered,  \* optimizedObservers[identifier], or Nobody
  wrapper,     \* all wrappers, in the registry or not
  timer,       \* the wrapper whose update lazyIgnore will run, or Nobody
  seen,        \* the version each subscriber was sent, or NotReady
  overlapped,  \* whether a wrapper was made while another was still around
  failures     \* how often something threw so far (bounds the model)

vars == <<source, registered, wrapper, timer, seen, overlapped, failures>>

Wrappers == 1..MaxWrappers
Nobody == 0
NotReady == MaxChanges + 1
Versions == 0..MaxChanges

(***************************************************************************)
(* observing   setupObservers has not returned                             *)
(* loading     the first documents are computed                            *)
(* idle        nothing to do, or the timer is set                          *)
(* updating    manipulateData works on an update                           *)
(* stopping    all subscribers have left, and the observers are stopped    *)
(* abandoned   the same, before the worker was ready                       *)
(***************************************************************************)
Phases == {"unused", "observing", "loading", "idle", "updating", "stopping", "abandoned", "dead"}

Wrapper ==
  [phase : Phases, new : SUBSET Subscribers, active : SUBSET Subscribers,
   lastData : Versions, computing : Versions,
   pendingUpdate : BOOLEAN,     \* the sources have changed
   hasPendingUpdate : BOOLEAN,  \* an update is to follow the one that runs
   retrigger : BOOLEAN,         \* setImmediate is to trigger it
   failed : BOOLEAN]            \* the last update threw

Unused ==
  [phase |-> "unused", new |-> {}, active |-> {}, lastData |-> 0, computing |-> 0,
   pendingUpdate |-> FALSE, hasPendingUpdate |-> FALSE, retrigger |-> FALSE, failed |-> FALSE]

TypeOK ==
  /\ source \in Versions
  /\ {registered, timer} \subseteq Wrappers \cup {Nobody}
  /\ wrapper \in [Wrappers -> Wrapper]
  /\ seen \in [Subscribers -> Versions \cup {NotReady}]
  /\ overlapped \in BOOLEAN
  /\ failures \in 0..MaxFailures

Init ==
  /\ source = 0
  /\ registered = Nobody /\ timer = Nobody
  /\ wrapper = [w \in Wrappers |-> Unused]
  /\ seen = [s \in Subscribers |-> NotReady]
  /\ overlapped = FALSE /\ failures = 0

Members(w) == wrapper[w].new \cup wrapper[w].active
Subscribed(s) == \E w \in Wrappers : s \in Members(w)

UpdateIsRunning(m) == m.phase \in {"observing", "loading", "updating", "stopping", "abandoned"}
IsSetUp(m) == m.phase \in {"idle", "updating", "stopping"}
Observes(m) == m.phase \in {"loading", "idle", "updating"}

(* triggerUpdate of wrapper w, when m is what becomes of it: the timer of  *)
(* the identifier is cleared, and set for w.                               *)
Trigger(w, m) ==
  IF UpdateIsRunning(m)
  THEN /\ wrapper' = [wrapper EXCEPT ![w] = [m EXCEPT !.hasPendingUpdate = TRUE]]
       /\ UNCHANGED timer
  ELSE /\ wrapper' = [wrapper EXCEPT ![w] = [m EXCEPT !.hasPendingUpdate = FALSE]]
       /\ timer' = w

(* A wrapper nothing refers to any more is forgotten.                      *)
Settle(w, m) == [wrapper EXCEPT ![w] = IF m.phase = "dead" /\ ~m.retrigger THEN Unused ELSE m]

(* What follows an update: the next one, asap, when it is asked for.       *)
Finished(m, phase) == [m EXCEPT !.phase = phase, !.retrigger = @ \/ m.hasPendingUpdate]

-----------------------------------------------------------------------------
Free == {w \in Wrappers : wrapper[w].phase = "unused" /\ w # timer /\ w # registered}

Register(s) ==
  \E w \in Free :
    /\ \A v \in Free : w <= v
    /\ registered' = w
    /\ wrapper' = [wrapper EXCEPT ![w] = [Unused EXCEPT !.phase = "observing", !.new = {s}]]
    /\ overlapped' = (overlapped \/ \E v \in Wrappers : wrapper[v].phase # "unused")
    /\ UNCHANGED timer

JoinWrapper(s) ==
  LET m == [wrapper[registered] EXCEPT !.new = @ \cup {s}]
  IN  /\ IF IsSetUp(m) THEN Trigger(registered, m)
         ELSE wrapper' = [wrapper EXCEPT ![registered] = m] /\ UNCHANGED timer
      /\ UNCHANGED <<registered, overlapped>>

Subscribe(s) ==
  /\ ~Subscribed(s)
  /\ IF registered = Nobody THEN Register(s) ELSE JoinWrapper(s)
  /\ UNCHANGED <<source, seen, failures>>

(* Mutant: whoever leaves deletes the entry.                               *)
Unsubscribe_Delete(s) ==
  \E w \in Wrappers :
    /\ s \in Members(w)
    /\ LET m == [wrapper[w] EXCEPT !.new = @ \ {s}, !.active = @ \ {s}]
       IN  IF m.new \cup m.active = {} /\ IsSetUp(m) THEN Trigger(w, m)
           ELSE wrapper' = [wrapper EXCEPT ![w] = m] /\ UNCHANGED timer
    /\ seen' = [seen EXCEPT ![s] = NotReady]
    /\ registered' = Nobody
    /\ UNCHANGED <<source, overlapped, failures>>

(* removeReceiver                                                          *)
Unsubscribe(s) ==
  \E w \in Wrappers :
    /\ s \in Members(w)
    /\ LET m == [wrapper[w] EXCEPT !.new = @ \ {s}, !.active = @ \ {s}]
       IN  IF m.new \cup m.active = {} /\ IsSetUp(m) THEN Trigger(w, m)
           ELSE wrapper' = [wrapper EXCEPT ![w] = m] /\ UNCHANGED timer
    /\ seen' = [seen EXCEPT ![s] = NotReady]
    /\ UNCHANGED <<source, registered, overlapped, failures>>

-----------------------------------------------------------------------------
(* Setting up.                                                             *)

ObserversReady(w) ==
  /\ wrapper[w].phase = "observing"
  /\ wrapper' = [wrapper EXCEPT ![w].phase = "loading", ![w].computing = source]
  /\ UNCHANGED <<source, registered, timer, seen, overlapped, failures>>

(* All who wait are told, and leave.                                       *)
SetupFails(w) ==
  /\ wrapper[w].phase \in {"observing", "loading"}
  /\ failures < MaxFailures
  /\ failures' = failures + 1
  /\ registered' = Nobody
  /\ wrapper' = [wrapper EXCEPT ![w] = Unused]
  /\ UNCHANGED <<source, timer, seen, overlapped>>

(* Mutant: what changed while the first documents were computed is lost.   *)
FirstData_NoPending(w) ==
  LET m == [wrapper[w] EXCEPT !.lastData = wrapper[w].computing, !.new = {},
                              !.active = wrapper[w].new, !.phase = "idle"]
  IN  /\ wrapper' = [wrapper EXCEPT ![w] = m]
      /\ seen' = [s \in Subscribers |-> IF s \in m.active THEN m.lastData ELSE seen[s]]
      /\ UNCHANGED registered

FirstData(w) ==
  LET m == [wrapper[w] EXCEPT !.lastData = wrapper[w].computing, !.new = {},
                              !.active = wrapper[w].new]
  IN  /\ wrapper' = [wrapper EXCEPT ![w] = Finished(m, "idle")]
      /\ seen' = [s \in Subscribers |-> IF s \in m.active THEN m.lastData ELSE seen[s]]
      /\ UNCHANGED registered

(* The entry is deleted before the observers are stopped, and once more    *)
(* when `All subscribers disappeared!' is caught.                          *)
Abandon(w) ==
  /\ registered' = Nobody
  /\ wrapper' = [wrapper EXCEPT ![w] = [@ EXCEPT !.phase = "abandoned"]]
  /\ UNCHANGED seen

FinishLoading(w) ==
  /\ wrapper[w].phase = "loading"
  /\ IF wrapper[w].new = {} THEN Abandon(w) ELSE FirstData(w)
  /\ UNCHANGED <<source, timer, overlapped, failures>>

AbandonedStops(w) ==
  /\ wrapper[w].phase = "abandoned"
  /\ registered' = Nobody
  /\ wrapper' = [wrapper EXCEPT ![w] = Unused]
  /\ UNCHANGED <<source, timer, seen, overlapped, failures>>

-----------------------------------------------------------------------------
(* Updates.                                                                *)

(* Every observer that sees the change triggers an update; those that set  *)
(* the timer clear that of the others.  Observers that are being stopped   *)
(* may see it or not.                                                      *)
SourceChanges ==
  LET triggered == {w \in Wrappers : Observes(wrapper[w])}
      setTimer == {w \in triggered : ~UpdateIsRunning(wrapper[w])}
      stopping == {w \in Wrappers : wrapper[w].phase = "stopping"}
  IN  /\ source < MaxChanges
      /\ source' = source + 1
      /\ \E S \in SUBSET stopping :
           wrapper' = [w \in Wrappers |->
             IF w \in triggered \cup S
             THEN [wrapper[w] EXCEPT !.pendingUpdate = TRUE, !.hasPendingUpdate = w \notin setTimer]
             ELSE wrapper[w]]
      /\ IF setTimer = {} THEN UNCHANGED timer ELSE timer' \in setTimer
      /\ UNCHANGED <<registered, seen, overlapped, failures>>

Retrigger(w) ==
  /\ wrapper[w].retrigger
  /\ Trigger(w, [wrapper[w] EXCEPT !.retrigger = FALSE])
  /\ UNCHANGED <<source, registered, seen, overlapped, failures>>

StopObservers(w) ==
  /\ registered' = Nobody
  /\ wrapper' = [wrapper EXCEPT ![w].phase = "stopping"]

StartUpdate(w) ==
  /\ wrapper' = [wrapper EXCEPT ![w].phase = "updating", ![w].pendingUpdate = FALSE,
                   ![w].computing = IF wrapper[w].pendingUpdate THEN source ELSE wrapper[w].lastData]
  /\ UNCHANGED registered

(* The update of a wrapper that has stopped does nothing.  What setImmediate *)
(* is to do comes first: timers run for 3 ms at least.                     *)
TimerFires ==
  LET w == timer
      m == wrapper[w]
  IN  /\ w # Nobody
      /\ \A v \in Wrappers : ~wrapper[v].retrigger
      /\ timer' = Nobody
      /\ CASE m.phase = "dead" -> wrapper' = Settle(w, m) /\ UNCHANGED registered
           [] m.phase = "idle" /\ Members(w) = {} -> StopObservers(w)
           [] m.phase = "idle" /\ Members(w) # {} -> StartUpdate(w)
           [] OTHER -> UNCHANGED <<wrapper, registered>>
      /\ UNCHANGED <<source, seen, overlapped, failures>>

(* The changes go to the active ones, all documents to those who joined.   *)
FinishUpdate(w) ==
  LET data == wrapper[w].computing
      m == [wrapper[w] EXCEPT !.lastData = data, !.active = Members(w), !.new = {},
                              !.failed = @ /\ data = wrapper[w].lastData]
  IN  /\ wrapper[w].phase = "updating"
      /\ wrapper' = [wrapper EXCEPT ![w] = Finished(m, "idle")]
      /\ seen' = [s \in Subscribers |-> IF s \in Members(w) THEN data ELSE seen[s]]
      /\ UNCHANGED <<source, registered, timer, overlapped, failures>>

(* What had changed is forgotten.                                          *)
UpdateFails(w) ==
  /\ wrapper[w].phase = "updating"
  /\ failures < MaxFailures
  /\ failures' = failures + 1
  /\ wrapper' = [wrapper EXCEPT ![w] = [Finished(wrapper[w], "idle") EXCEPT !.failed = TRUE]]
  /\ UNCHANGED <<source, registered, timer, seen, overlapped>>

ObserversStopped(w) ==
  /\ wrapper[w].phase = "stopping"
  /\ wrapper' = Settle(w, Finished(wrapper[w], "dead"))
  /\ UNCHANGED <<source, registered, timer, seen, overlapped, failures>>

WorkerStep(w) ==
  \/ ObserversReady(w) \/ FinishLoading(w) \/ AbandonedStops(w)
  \/ Retrigger(w) \/ FinishUpdate(w) \/ ObserversStopped(w)

Next ==
  \/ \E s \in Subscribers : Subscribe(s) \/ Unsubscribe(s)
  \/ SourceChanges
  \/ TimerFires
  \/ \E w \in Wrappers : WorkerStep(w) \/ SetupFails(w) \/ UpdateFails(w)

Spec == Init /\ [][Next]_vars

(* Promises settle and timers fire.  Nobody has to come or go.             *)
Fairness == WF_vars(TimerFires) /\ \A w \in Wrappers : WF_vars(WorkerStep(w))

FairSpec == Spec /\ Fairness

-----------------------------------------------------------------------------
(* All who are subscribed share one worker, as long as no one subscribes   *)
(* while the last one is being stopped; and who has got a first answer has *)
(* what the worker computed last.                                          *)
SharesWorker ==
  /\ ~overlapped => \A s \in Subscribers : \A w \in Wrappers : s \in Members(w) => w = registered
  /\ \A w \in Wrappers : \A s \in wrapper[w].active : seen[s] = wrapper[w].lastData

Latest(s) ==
  \A w \in Wrappers : s \in wrapper[w].active /\ ~wrapper[w].failed => seen[s] = source

Waits(s) == \E w \in Wrappers : s \in wrapper[w].new /\ ~wrapper[w].failed

(* Once the sources are at rest, who stays gets the documents as they are, *)
(* unless wrappers have overlapped.                                        *)
AllSeeLatest == <>[](overlapped \/ \A s \in Subscribers : Latest(s))

(* Who subscribes gets a first answer, unless that fails or wrappers       *)
(* have overlapped.                                                        *)
EveryoneServed == \A s \in Subscribers : Waits(s) ~> (overlapped \/ ~Waits(s))

(* `This is an optimization to enable multiple listeners that observes     *)
(* the same data [...] then receive the result for each listener.'         *)
EachReceivesResult == \A s \in Subscribers : <>[]Latest(s)
=============================================================================
