--------------------------- MODULE PeripheralCommand ---------------------------
(***************************************************************************)
(* One command to a peripheral device: Core stores it as a document and    *)
(* watches the document for the reply, under a time-out; the gateway sees  *)
(* the document in its collection, runs the function and replies           *)
(* (packages/sofie-core/src/api/peripheralDevice/executeFunction.ts and    *)
(* packages/playout-gateway/src/coreHandler.ts).                           *)
(*                                                                         *)
(* Core's look at the document is a query: what it found may have changed  *)
(* when the answer is looked at.                                           *)
(***************************************************************************)
EXTENDS Naturals

CONSTANTS
  MaxFaults    \* failed calls, lost connections, restarts, clocks set back (bound)

CommandAssumption == MaxFaults \in Nat

VARIABLES
  caller,      \* where the call stands, or how it ended
  observer, timeoutCheck, running, pending,
  found,       \* the query of checkReply: what it found, once asked
  events,      \* change notifications on their way to the observer
  removing,    \* whether removeAsync is under way
  elapsed,     \* whether the time-out has passed since the command's time, by the
               \* clock, which may be set: the timer does not go by it
  early,       \* whether a look that was to find the time-out found it not passed
  doc,         \* the command in the database
  seen,        \* whether it is in the collection of the gateway
  executed,    \* whether it is in #executedFunctions
  work,        \* what the gateway does with it
  runs,        \* how often the function was run
  restarts,    \* how often the gateway was restarted
  failedCheck, failedRemoval, \* whether a query or a removal failed
  faults       \* how many faults there were (bounds the model)

coreVars == <<caller, observer, timeoutCheck, running, pending, found, events, removing>>
gatewayVars == <<seen, executed, work, runs, restarts>>
failureVars == <<failedCheck, failedRemoval>>
clockVars == <<elapsed, early>>
vars == <<coreVars, clockVars, doc, gatewayVars, failureVars, faults>>

Waiting == {"observing", "inserting", "waits"}
Ended == {"resolved", "timed out", "threw"}

TypeOK ==
  /\ caller \in Waiting \cup Ended \cup {"gone"}
  /\ {observer, timeoutCheck, running, pending, removing, elapsed, early, seen, executed,
      failedCheck, failedRemoval} \subseteq BOOLEAN
  /\ found \in {"idle", "asked", "nothing", "open", "replied"}
  /\ events \in 0..(2 + MaxFaults)
  /\ doc \in {"never", "open", "replied", "removed"}
  /\ work \in {"none", "running", "replying"}
  /\ runs \in 0..(1 + MaxFaults) /\ restarts \in 0..MaxFaults /\ faults \in 0..MaxFaults

Init ==
  /\ caller = "observing" /\ found = "idle" /\ events = 0 /\ doc = "never"
  /\ observer = FALSE /\ timeoutCheck = FALSE /\ running = FALSE /\ pending = FALSE
  /\ removing = FALSE /\ elapsed = FALSE /\ early = FALSE /\ seen = FALSE /\ executed = FALSE
  /\ failedCheck = FALSE /\ failedRemoval = FALSE
  /\ work = "none" /\ runs = 0 /\ restarts = 0 /\ faults = 0

Fault == faults < MaxFaults /\ faults' = faults + 1

-----------------------------------------------------------------------------
(* The call: observe, set the timer, store the command.                    *)
Observed ==
  /\ caller = "observing" /\ caller' = "inserting"
  /\ observer' = TRUE /\ timeoutCheck' = TRUE
  /\ UNCHANGED <<running, pending, found, events, removing, clockVars, doc, gatewayVars,
                 failureVars, faults>>

(* The document is stored before insertAsync returns; what happens to it   *)
(* may come first.                                                         *)
Stored ==
  /\ caller = "inserting" /\ doc = "never"
  /\ doc' = "open" /\ events' = events + 1
  /\ UNCHANGED <<caller, observer, timeoutCheck, running, pending, found, removing,
                 clockVars, gatewayVars, failureVars, faults>>

Inserted ==
  /\ caller = "inserting" /\ doc # "never"
  /\ caller' = "waits"
  /\ UNCHANGED <<observer, timeoutCheck, running, pending, found, events, removing,
                 clockVars, doc, gatewayVars, failureVars, faults>>

(* The insert fails, and the document may be stored all the same.          *)
InsertFails ==
  /\ Fault
  /\ caller = "inserting" /\ caller' = "threw"
  /\ observer' = FALSE /\ events' = 0
  /\ UNCHANGED <<timeoutCheck, running, pending, found, removing, clockVars, doc,
                 gatewayVars, failureVars>>

-----------------------------------------------------------------------------
(* doCheckReply, by a change of the document, by the timer, or once more   *)
(* after a check during which it was called.                               *)
(* Mutant: a call that comes while a check runs is dropped.                *)
CheckReply_Drop ==
  IF running
    THEN UNCHANGED <<running, pending, found>>
    ELSE running' = TRUE /\ pending' = FALSE /\ found' = "asked"

CheckReply ==
  IF running
    THEN pending' = TRUE /\ UNCHANGED <<running, found>>
    ELSE running' = TRUE /\ pending' = FALSE /\ found' = "asked"

DocumentChanged ==
  /\ events > 0 /\ observer
  /\ events' = events - 1
  /\ CheckReply
  /\ UNCHANGED <<caller, observer, timeoutCheck, removing, clockVars, doc, gatewayVars,
                 failureVars, faults>>

(* The clock reaches the time-out, counted from the time that is stored; or*)
(* it is set back.                                                         *)
TimePasses ==
  /\ caller # "observing" /\ ~elapsed /\ elapsed' = TRUE
  /\ UNCHANGED <<coreVars, early, doc, gatewayVars, failureVars, faults>>

ClockSetBack ==
  /\ Fault
  /\ elapsed /\ elapsed' = FALSE
  /\ UNCHANGED <<coreVars, early, doc, gatewayVars, failureVars>>

(* The timer goes by no clock that can be set, and fires once.             *)
TimerFires ==
  /\ timeoutCheck
  /\ timeoutCheck' = FALSE
  /\ CheckReply
  /\ UNCHANGED <<caller, observer, events, removing, clockVars, doc, gatewayVars,
                 failureVars, faults>>

QueryRuns ==
  /\ found = "asked"
  /\ found' = IF doc \in {"never", "removed"} THEN "nothing" ELSE doc
  /\ UNCHANGED <<caller, observer, timeoutCheck, running, pending, events, removing,
                 clockVars, doc, gatewayVars, failureVars, faults>>

(* The `finally' of checkReply.                                            *)
Again ==
  /\ running' = pending /\ pending' = FALSE
  /\ found' = IF pending THEN "asked" ELSE "idle"

QueryFails ==
  /\ Fault
  /\ found \in {"asked", "nothing", "open", "replied"}
  /\ failedCheck' = TRUE
  /\ Again
  /\ UNCHANGED <<caller, observer, timeoutCheck, events, removing, clockVars, doc,
                 gatewayVars, failedRemoval>>

(* The timer and the observer are stopped, and the document is removed.    *)
Cleanup == timeoutCheck' = FALSE /\ observer' = FALSE /\ events' = 0 /\ removing' = TRUE

Settle(outcome) == caller' = IF caller \in Waiting THEN outcome ELSE caller

Checked ==
  /\ \/ found = "replied" /\ Cleanup /\ Settle("resolved")
     \/ found = "open" /\ elapsed /\ Cleanup /\ Settle("timed out")
     \/ /\ found = "nothing" \/ (found = "open" /\ ~elapsed)
        /\ UNCHANGED <<caller, observer, timeoutCheck, events, removing>>
  /\ early' = (early \/ (found = "open" /\ ~elapsed /\ ~timeoutCheck /\ ~pending))
  /\ Again
  /\ UNCHANGED <<elapsed, doc, gatewayVars, failureVars, faults>>

Removed ==
  /\ removing /\ removing' = FALSE
  /\ doc' = "removed"
  /\ UNCHANGED <<caller, observer, timeoutCheck, running, pending, found, events,
                 clockVars, gatewayVars, failureVars, faults>>

RemovalFails ==
  /\ Fault
  /\ removing /\ removing' = FALSE
  /\ failedRemoval' = TRUE
  /\ UNCHANGED <<caller, observer, timeoutCheck, running, pending, found, events,
                 clockVars, doc, gatewayVars, failedCheck>>

(* Core crashes: nothing is left of the call but its document.             *)
CoreCrashes ==
  /\ Fault
  /\ caller # "gone" /\ caller' = "gone"
  /\ observer' = FALSE /\ timeoutCheck' = FALSE /\ running' = FALSE /\ pending' = FALSE
  /\ found' = "idle" /\ events' = 0 /\ removing' = FALSE
  /\ UNCHANGED <<clockVars, doc, gatewayVars, failureVars>>

-----------------------------------------------------------------------------
(* The gateway: `added' and `changed' run a command once.                  *)
(* Mutant: the gateway does not remember what it runs.                     *)
ExecuteFunction_Always ==
  executed' = TRUE /\ work' = "running" /\ runs' = runs + 1

ExecuteFunction ==
  IF executed
    THEN UNCHANGED <<executed, work, runs>>
    ELSE executed' = TRUE /\ work' = "running" /\ runs' = runs + 1

CommandSeen ==
  /\ doc \in {"open", "replied"} /\ ~seen /\ seen' = TRUE
  /\ ExecuteFunction
  /\ UNCHANGED <<coreVars, clockVars, doc, restarts, failureVars, faults>>

(* `changed' after the reply, and `added' again when the gateway has       *)
(* connected anew.                                                         *)
CommandSeenAgain ==
  /\ seen
  /\ \/ doc = "replied" /\ UNCHANGED faults
     \/ doc = "open" /\ Fault
  /\ ExecuteFunction
  /\ UNCHANGED <<coreVars, clockVars, doc, seen, restarts, failureVars>>

RetireExecuteFunction ==
  /\ seen /\ doc = "removed"
  /\ seen' = FALSE /\ executed' = FALSE
  /\ UNCHANGED <<coreVars, clockVars, doc, work, runs, restarts, failureVars, faults>>

FunctionDone ==
  /\ work = "running" /\ work' = "replying"
  /\ UNCHANGED <<coreVars, clockVars, doc, seen, executed, runs, restarts, failureVars, faults>>

(* functionReply of Core updates the document, if it is still there.       *)
FunctionReply ==
  /\ work = "replying" /\ work' = "none"
  /\ IF doc \in {"open", "replied"}
       THEN doc' = "replied" /\ events' = IF observer THEN events + 1 ELSE events
       ELSE UNCHANGED <<doc, events>>
  /\ UNCHANGED <<caller, observer, timeoutCheck, running, pending, found, removing,
                 clockVars, seen, executed, runs, restarts, failureVars, faults>>

ReplyLost ==
  /\ Fault
  /\ work = "replying" /\ work' = "none"
  /\ UNCHANGED <<coreVars, clockVars, doc, seen, executed, runs, restarts, failureVars>>

GatewayRestarts ==
  /\ Fault
  /\ restarts' = restarts + 1
  /\ seen' = FALSE /\ executed' = FALSE /\ work' = "none"
  /\ UNCHANGED <<coreVars, clockVars, doc, runs, failureVars>>

CallStep == Observed \/ Stored \/ Inserted
CheckStep == QueryRuns \/ Checked

Next ==
  \/ CallStep \/ InsertFails \/ DocumentChanged \/ TimePasses \/ ClockSetBack \/ TimerFires
  \/ CheckStep \/ QueryFails \/ Removed \/ RemovalFails \/ CoreCrashes
  \/ CommandSeen \/ CommandSeenAgain \/ RetireExecuteFunction
  \/ FunctionDone \/ FunctionReply \/ ReplyLost \/ GatewayRestarts

Spec == Init /\ [][Next]_vars

(* Core's event loop, its timers, its clock and its database go on; nothing*)
(* is assumed of the gateway.                                              *)
Fairness ==
  /\ WF_vars(CallStep) /\ WF_vars(TimePasses) /\ WF_vars(TimerFires)
  /\ WF_vars(CheckStep) /\ WF_vars(DocumentChanged) /\ WF_vars(Removed)
FairSpec == Spec /\ Fairness

-----------------------------------------------------------------------------
(* A gateway runs a command once, however often the document comes to it:  *)
(* when it changes, when the gateway connects anew; only a gateway that    *)
(* was restarted runs it again.                                            *)
RunOnce == runs <= 1 + restarts

(* Nothing is left behind: no timer and no observer waits for the document,*)
(* and it is gone (it may stay when its insert failed).                    *)
NothingLeft ==
  /\ ~observer /\ ~timeoutCheck /\ ~running
  /\ doc \in {"never", "removed"} \/ caller = "threw"

(* Nobody looks again, unless the gateway replies: the timer has fired, and*)
(* by the clock, which is not the timer's, it was too early.               *)
Overlooked ==
  early /\ caller = "waits" /\ doc = "open" /\ observer /\ ~timeoutCheck /\ ~running

(* Whatever the gateway does or does not, the caller gets an outcome, and  *)
(* in the end nothing is left behind; unless a look at the document failed *)
(* or Core crashed, or the document could not be removed, or the timer came*)
(* too early for the clock: then the observer still waits for the reply.   *)
CallSettles ==
  <>[](failedCheck \/ caller = "gone" \/ Overlooked
         \/ (caller \in Ended /\ (failedRemoval \/ NothingLeft)))
=============================================================================
