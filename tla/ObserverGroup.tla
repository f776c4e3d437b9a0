------------------------------ MODULE ObserverGroup ------------------------------
(***************************************************************************)
(* ReactiveMongoObserverGroup: a group of Mongo observers that a           *)
(* publication stops and starts again when what it depends on has changed  *)
(* (packages/sofie-core/src/publications/lib/observerGroup.ts).            *)
(*                                                                         *)
(* stop and restart leave a request and set a timer; runCheck serves the   *)
(* requests.  It waits for observers to stop and to start, and the timer   *)
(* may fire again meanwhile: several invocations of runCheck may be under  *)
(* way.  Each start of the observers is a generation.                      *)
(***************************************************************************)
EXTENDS Naturals, FiniteSets

CONSTANTS
  Checks,       \* invocations of runCheck that may be under way at one time (bound)
  MaxRestarts,  \* how often restart is called (bound)
  MaxFailures   \* how often the generator throws (bound)

GroupAssumption ==
  Checks # {} /\ IsFiniteSet(Checks) /\ MaxRestarts \in Nat /\ MaxFailures \in Nat

VARIABLES
  running, pendingStop, pendingRestart, checkRunning,
  handles,      \* the generation of observers that is known, or NoHandles
  timer,        \* whether deferCheck has set the timer
  check,        \* where each invocation of runCheck waits
  captured,     \* the generation that each invocation stops, or NoHandles
  live,         \* the generations whose observers are running
  started,      \* whether the group was handed to its owner
  owner,        \* what the owner did and saw: "uses", "stops", "stopped"
  restarts, failures,  \* how often each happened so far (bound the model)
  overrun       \* whether an invocation began while another one was under way

requests == <<running, pendingStop, pendingRestart>>
bounds == <<restarts, failures>>
invocations == <<check, captured>>
vars == <<requests, checkRunning, handles, timer, invocations, live, started, owner, bounds, overrun>>

NoHandles == 0
Generations == Nat \ {NoHandles}
CheckStates == {"idle", "stopping for good", "stopping", "starting"}

TypeOK ==
  /\ {running, pendingStop, pendingRestart, checkRunning, timer, started, overrun} \subseteq BOOLEAN
  /\ handles \in Generations \cup {NoHandles}
  /\ check \in [Checks -> CheckStates]
  /\ captured \in [Checks -> Generations \cup {NoHandles}]
  /\ live \subseteq Generations
  /\ owner \in {"uses", "stops", "stopped"}
  /\ restarts \in 0..MaxRestarts /\ failures \in 0..MaxFailures

(* The first runCheck is called at once.                                   *)
Init ==
  /\ running = TRUE /\ pendingStop = FALSE /\ pendingRestart = FALSE
  /\ checkRunning = TRUE
  /\ handles = NoHandles /\ live = {}
  /\ timer = FALSE
  /\ LET first == CHOOSE c \in Checks : TRUE
     IN  check = [c \in Checks |-> IF c = first THEN "starting" ELSE "idle"]
  /\ captured = [c \in Checks |-> NoHandles]
  /\ started = FALSE /\ owner = "uses"
  /\ restarts = 0 /\ failures = 0 /\ overrun = FALSE

-----------------------------------------------------------------------------
(* The owner has the handle when the first runCheck has returned.          *)

Stop ==
  /\ started /\ owner = "uses"
  /\ owner' = "stops"
  /\ pendingStop' = TRUE /\ timer' = TRUE
  /\ UNCHANGED <<running, pendingRestart, checkRunning, handles, invocations, live, started, bounds, overrun>>

(* Refused once stop was called.                                           *)
Restart ==
  /\ started /\ owner = "uses"
  /\ running /\ ~pendingStop
  /\ restarts < MaxRestarts
  /\ restarts' = restarts + 1
  /\ pendingRestart' = TRUE /\ timer' = TRUE
  /\ UNCHANGED <<running, pendingStop, checkRunning, handles, invocations, live, started, owner, failures,
                 overrun>>

-----------------------------------------------------------------------------
(* runCheck, from one await to the next.  Whoever returns, whether it did  *)
(* anything or not, takes checkRunning back.                               *)

Return(c) ==
  /\ check' = [check EXCEPT ![c] = "idle"] /\ captured' = [captured EXCEPT ![c] = NoHandles]
  /\ checkRunning' = FALSE
Wait(c, state) ==
  /\ check' = [check EXCEPT ![c] = state] /\ captured' = [captured EXCEPT ![c] = handles]
  /\ checkRunning' = TRUE

ServeRestart(c) ==
  /\ pendingRestart' = FALSE
  /\ Wait(c, IF handles # NoHandles THEN "stopping" ELSE "starting")
  /\ UNCHANGED <<running, pendingStop>>

ServeStop(c) ==
  /\ running' = FALSE /\ pendingStop' = FALSE
  /\ Wait(c, "stopping for good")
  /\ UNCHANGED pendingRestart

RunCheck(c) ==
  CASE ~running \/ checkRunning -> Return(c) /\ UNCHANGED requests
    [] running /\ ~checkRunning /\ pendingStop -> ServeStop(c)
    [] running /\ ~checkRunning /\ ~pendingStop /\ (pendingRestart \/ handles = NoHandles) -> ServeRestart(c)
    [] OTHER -> Return(c) /\ UNCHANGED requests

TimerFires(c) ==
  /\ timer /\ check[c] = "idle"
  /\ timer' = FALSE
  /\ RunCheck(c)
  /\ overrun' = (overrun \/ (~checkRunning /\ \E x \in Checks : check[x] # "idle"))
  /\ UNCHANGED <<handles, live, started, owner, bounds>>

(* Mutant: the caller is told that it has stopped right away.              *)
StoppedForGood_Early(c) ==
  /\ check[c] = "stopping for good"
  /\ Return(c)
  /\ handles' = NoHandles
  /\ owner' = "stopped"
  /\ UNCHANGED <<requests, timer, live, started, bounds, overrun>>

(* stopAll waits for those observers to stop that were known when it began,*)
(* and forgets those that are known when they have.                        *)
AllStopped(c) ==
  /\ live' = live \ {captured[c]}
  /\ handles' = IF captured[c] = NoHandles THEN handles ELSE NoHandles

StoppedForGood(c) ==
  /\ check[c] = "stopping for good"
  /\ Return(c)
  /\ AllStopped(c)
  /\ owner' = "stopped"
  /\ UNCHANGED <<requests, timer, started, bounds, overrun>>

Stopped(c) ==
  /\ check[c] = "stopping"
  /\ AllStopped(c)
  /\ check' = [check EXCEPT ![c] = "starting"]
  /\ captured' = [captured EXCEPT ![c] = NoHandles]
  /\ UNCHANGED <<requests, checkRunning, timer, started, owner, bounds, overrun>>

NewGeneration ==
  LET used == live \cup {handles} \cup {captured[c] : c \in Checks}
  IN  CHOOSE g \in 1..(Cardinality(used) + 1) : g \notin used

Started(c) ==
  /\ check[c] = "starting"
  /\ live' = live \cup {NewGeneration} /\ handles' = NewGeneration
  /\ timer' = TRUE
  /\ Return(c)
  /\ started' = TRUE
  /\ UNCHANGED <<requests, owner, bounds, overrun>>

(* Nobody is told, and no other check is asked for.                        *)
StartFails(c) ==
  /\ check[c] = "starting"
  /\ failures < MaxFailures
  /\ failures' = failures + 1
  /\ Return(c)
  /\ started' = TRUE
  /\ UNCHANGED <<requests, handles, timer, live, owner, restarts, overrun>>

Proceed(c) == StoppedForGood(c) \/ Stopped(c) \/ Started(c)

Next ==
  \/ Stop \/ Restart
  \/ \E c \in Checks : TimerFires(c) \/ Proceed(c) \/ StartFails(c)

Spec == Init /\ [][Next]_vars

(* The timer fires, and observers start and stop.                          *)
Fairness ==
  /\ WF_vars(\E c \in Checks : TimerFires(c))
  /\ \A c \in Checks : WF_vars(Proceed(c))

FairSpec == Spec /\ Fairness

-----------------------------------------------------------------------------
Settled == ~timer /\ \A c \in Checks : check[c] = "idle"

(* Unless two checks have overlapped, no observers are left running that   *)
(* are not known, and none at all when stop has returned.                  *)
NoneLeftRunning ==
  ~overrun => /\ live \subseteq {handles}
              /\ owner = "stopped" => live = {}

(* Nothing that was asked for is left lying when there is no check to come,*)
(* and the observers of a group in use are running; unless they could not  *)
(* be started.                                                             *)
RequestsServed ==
  Settled /\ failures = 0 =>
    /\ ~pendingStop /\ (running => ~pendingRestart)
    /\ running => handles # NoHandles /\ handles \in live

(* Whoever stops the group is told when it has stopped, unless its         *)
(* observers could not be started.                                         *)
StopReturns == owner = "stops" ~> (owner = "stopped" \/ failures > 0)
=============================================================================
