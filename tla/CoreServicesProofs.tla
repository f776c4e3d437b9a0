---------------------------- MODULE CoreServicesProofs ----------------------------
(***************************************************************************)
(* Proofs about four of the components of CoreServices, for every set of   *)
(* subscribers, subscriptions, calls, documents, values and checks and for *)
(* every number of changes and failures.  Each part states the inductive   *)
(* invariant of its component, shows that every action keeps it, and       *)
(* concludes that the component does what CoreServices says of it.         *)
(***************************************************************************)
EXTENDS CoreServices, Integers, NaturalLemmas

-----------------------------------------------------------------------------
(***************************************************************************)
(* PeripheralCommand: calls of commands of a device.                       *)
(***************************************************************************)
Bit(b) == IF b THEN 1 ELSE 0

(* TypeOK, one variable after the other.                                   *)
CommandFlags ==
  /\ observer \in BOOLEAN /\ timeoutCheck \in BOOLEAN /\ replyChecking \in BOOLEAN
  /\ pending \in BOOLEAN /\ removing \in BOOLEAN /\ elapsed \in BOOLEAN
  /\ early \in BOOLEAN
  /\ seenByGateway \in BOOLEAN /\ executed \in BOOLEAN
  /\ failedCheck \in BOOLEAN /\ failedRemoval \in BOOLEAN

CommandStages ==
  /\ caller \in Command!Waiting \cup Command!Ended \cup {"gone"}
  /\ found \in {"idle", "asked", "nothing", "open", "replied"}
  /\ doc \in {"never", "open", "replied", "removed"}
  /\ work \in {"none", "running", "replying"}

(* Each notification on its way to the observer is of the insert, or of a  *)
(* reply that ended a run; and there are as many restarts as faults at the *)
(* most.                                                                   *)
EventsCounted ==
  /\ events \in Nat /\ runs \in Nat /\ gatewayRestarts \in Nat /\ commandFaults \in 0..MaxCommandFaults
  /\ events + Bit(work # "none") <= Bit(doc # "never") + runs
  /\ gatewayRestarts <= commandFaults

(* A gateway that does not remember the command will run it once more, if  *)
(* it can still come: every run so far was before a restart.               *)
RunsCounted ==
  /\ runs <= 1 + gatewayRestarts
  /\ ~executed /\ doc # "removed" => runs <= gatewayRestarts

CommandInv == CommandFlags /\ CommandStages /\ EventsCounted /\ RunsCounted

LEMMA CommandStarts ==
  ASSUME Command!CommandAssumption, Command!Init
  PROVE  CommandInv
<1>1. CommandFlags /\ CommandStages
  BY DEF Command!Init, CommandFlags, CommandStages, Command!Waiting, Command!Ended
<1>2. EventsCounted /\ RunsCounted
  BY DEF Command!CommandAssumption, Command!Init, EventsCounted, RunsCounted, Bit
<1> QED BY <1>1, <1>2 DEF CommandInv

LEMMA CommandFlagsKept ==
  ASSUME CommandFlags, Command!Next
  PROVE  CommandFlags'
<1> USE DEF CommandFlags, Command!gatewayVars, Command!failureVars, Command!coreVars, Command!clockVars
<1>1. CASE Command!CallStep
  <2>1. CASE Command!Observed
    BY <2>1 DEF Command!Observed
  <2>2. CASE Command!Stored
    BY <2>2 DEF Command!Stored
  <2>3. CASE Command!Inserted
    BY <2>3 DEF Command!Inserted
  <2> QED BY <1>1, <2>1, <2>2, <2>3 DEF Command!CallStep
<1>2. CASE Command!InsertFails
  BY <1>2 DEF Command!InsertFails
<1>3. CASE Command!DocumentChanged
  BY <1>3 DEF Command!DocumentChanged, Command!CheckReply
<1>4. CASE Command!TimePasses \/ Command!ClockSetBack
  BY <1>4 DEF Command!TimePasses, Command!ClockSetBack
<1>5. CASE Command!TimerFires
  BY <1>5 DEF Command!TimerFires, Command!CheckReply
<1>6. CASE Command!CheckStep
  BY <1>6 DEF Command!CheckStep, Command!QueryRuns, Command!Checked, Command!Cleanup, Command!Settle,
     Command!Again
<1>7. CASE Command!QueryFails
  BY <1>7 DEF Command!QueryFails, Command!Again
<1>8. CASE Command!Removed
  BY <1>8 DEF Command!Removed
<1>9. CASE Command!RemovalFails
  BY <1>9 DEF Command!RemovalFails
<1>10. CASE Command!CoreCrashes
  BY <1>10 DEF Command!CoreCrashes
<1>11. CASE Command!CommandSeen
  BY <1>11 DEF Command!CommandSeen, Command!ExecuteFunction
<1>12. CASE Command!CommandSeenAgain
  BY <1>12 DEF Command!CommandSeenAgain, Command!ExecuteFunction
<1>13. CASE Command!RetireExecuteFunction
  BY <1>13 DEF Command!RetireExecuteFunction
<1>14. CASE Command!FunctionDone
  BY <1>14 DEF Command!FunctionDone
<1>15. CASE Command!FunctionReply
  BY <1>15 DEF Command!FunctionReply
<1>16. CASE Command!ReplyLost
  BY <1>16 DEF Command!ReplyLost
<1>17. CASE Command!GatewayRestarts
  BY <1>17 DEF Command!GatewayRestarts
<1> QED BY <1>1, <1>2, <1>3, <1>4, <1>5, <1>6, <1>7, <1>8, <1>9, <1>10,
      <1>11, <1>12, <1>13, <1>14, <1>15, <1>16, <1>17 DEF Command!Next

LEMMA CommandStagesKept ==
  ASSUME CommandStages, Command!Next
  PROVE  CommandStages'
<1> USE DEF CommandStages, Command!Waiting, Command!Ended, Command!gatewayVars, Command!failureVars,
      Command!coreVars, Command!clockVars
<1>1. CASE Command!CallStep
  BY <1>1 DEF Command!CallStep, Command!Observed, Command!Stored, Command!Inserted
<1>2. CASE Command!InsertFails
  BY <1>2 DEF Command!InsertFails
<1>3. CASE Command!DocumentChanged
  BY <1>3 DEF Command!DocumentChanged, Command!CheckReply
<1>4. CASE Command!TimePasses \/ Command!ClockSetBack
  BY <1>4 DEF Command!TimePasses, Command!ClockSetBack
<1>5. CASE Command!TimerFires
  BY <1>5 DEF Command!TimerFires, Command!CheckReply
<1>6. CASE Command!CheckStep
  BY <1>6 DEF Command!CheckStep, Command!QueryRuns, Command!Checked, Command!Cleanup, Command!Settle,
     Command!Again
<1>7. CASE Command!QueryFails
  BY <1>7 DEF Command!QueryFails, Command!Again
<1>8. CASE Command!Removed
  BY <1>8 DEF Command!Removed
<1>9. CASE Command!RemovalFails
  BY <1>9 DEF Command!RemovalFails
<1>10. CASE Command!CoreCrashes
  BY <1>10 DEF Command!CoreCrashes
<1>11. CASE Command!CommandSeen
  BY <1>11 DEF Command!CommandSeen, Command!ExecuteFunction
<1>12. CASE Command!CommandSeenAgain
  BY <1>12 DEF Command!CommandSeenAgain, Command!ExecuteFunction
<1>13. CASE Command!RetireExecuteFunction
  BY <1>13 DEF Command!RetireExecuteFunction
<1>14. CASE Command!FunctionDone
  BY <1>14 DEF Command!FunctionDone
<1>15. CASE Command!FunctionReply
  BY <1>15 DEF Command!FunctionReply
<1>16. CASE Command!ReplyLost
  BY <1>16 DEF Command!ReplyLost
<1>17. CASE Command!GatewayRestarts
  BY <1>17 DEF Command!GatewayRestarts
<1> QED BY <1>1, <1>2, <1>3, <1>4, <1>5, <1>6, <1>7, <1>8, <1>9, <1>10,
      <1>11, <1>12, <1>13, <1>14, <1>15, <1>16, <1>17 DEF Command!Next

(* What happens in Core leaves the runs alone; only Stored makes a         *)
(* notification.                                                           *)
LEMMA CountsKept ==
  ASSUME Command!CommandAssumption, CommandInv, Command!Next
  PROVE  EventsCounted' /\ RunsCounted'
<1> USE DEF Command!CommandAssumption, CommandInv, CommandStages, EventsCounted, RunsCounted, Bit,
            Command!Fault, Command!gatewayVars, Command!failureVars, Command!coreVars, Command!clockVars
<1>1. CASE Command!CallStep
  BY <1>1 DEF Command!CallStep, Command!Observed, Command!Stored, Command!Inserted
<1>2. CASE Command!InsertFails
  BY <1>2 DEF Command!InsertFails
<1>3. CASE Command!DocumentChanged
  BY <1>3 DEF Command!DocumentChanged, Command!CheckReply
<1>4. CASE Command!TimePasses \/ Command!ClockSetBack
  BY <1>4 DEF Command!TimePasses, Command!ClockSetBack
<1>5. CASE Command!TimerFires
  BY <1>5 DEF Command!TimerFires, Command!CheckReply
<1>6. CASE Command!CheckStep
  <2>1. UNCHANGED <<doc, executed, work, runs, gatewayRestarts, commandFaults>>
    BY <1>6 DEF Command!CheckStep, Command!QueryRuns, Command!Checked
  <2>2. events' = events \/ events' = 0
    BY <1>6 DEF Command!CheckStep, Command!QueryRuns, Command!Checked, Command!Cleanup
  <2> QED BY <2>1, <2>2
<1>7. CASE Command!QueryFails
  BY <1>7 DEF Command!QueryFails, Command!Again
<1>8. CASE Command!Removed
  BY <1>8 DEF Command!Removed
<1>9. CASE Command!RemovalFails
  BY <1>9 DEF Command!RemovalFails
<1>10. CASE Command!CoreCrashes
  BY <1>10 DEF Command!CoreCrashes
<1>11. CASE Command!CommandSeen
  BY <1>11 DEF Command!CommandSeen, Command!ExecuteFunction
<1>12. CASE Command!CommandSeenAgain
  BY <1>12 DEF Command!CommandSeenAgain, Command!ExecuteFunction
<1>13. CASE Command!RetireExecuteFunction
  BY <1>13 DEF Command!RetireExecuteFunction
<1>14. CASE Command!FunctionDone
  BY <1>14 DEF Command!FunctionDone
<1>15. CASE Command!FunctionReply
  BY <1>15 DEF Command!FunctionReply
<1>16. CASE Command!ReplyLost
  BY <1>16 DEF Command!ReplyLost
<1>17. CASE Command!GatewayRestarts
  BY <1>17 DEF Command!GatewayRestarts
<1> QED BY <1>1, <1>2, <1>3, <1>4, <1>5, <1>6, <1>7, <1>8, <1>9, <1>10,
      <1>11, <1>12, <1>13, <1>14, <1>15, <1>16, <1>17 DEF Command!Next

LEMMA CommandInvariant == Spec => []CommandInv
<1>1. Init => CommandInv
  BY ServicesAssumption, CommandStarts DEF ServicesAssumption, Init
<1>2. CommandInv /\ [Next]_vars => CommandInv'
  <2>1. ASSUME CommandInv, Command!Next
        PROVE  CommandInv'
    BY <2>1, ServicesAssumption, CommandFlagsKept, CommandStagesKept, CountsKept DEF CommandInv,
       ServicesAssumption
  <2>2. ASSUME CommandInv, UNCHANGED commandVars
        PROVE  CommandInv'
    BY <2>2 DEF commandVars, CommandInv, CommandFlags, CommandStages, EventsCounted, RunsCounted
  <2>3. [Next]_vars => Command!Next \/ UNCHANGED commandVars
    BY DEF Next, vars
  <2> QED BY <2>1, <2>2, <2>3
<1> QED BY <1>1, <1>2, PTL DEF Spec

(* A gateway runs a command once, whatever comes to it again, for any      *)
(* number of failures, and a restarted gateway once more; and what is on   *)
(* its way to the observer is bounded, so that a call does not drown in    *)
(* checks of its document.                                                 *)
THEOREM CommandsRunOnce == Spec => []RunOnce
<1>1. CommandInv => Command!TypeOK
  <2>1. ASSUME CommandInv
        PROVE  {observer, timeoutCheck, replyChecking, pending, removing, elapsed, early, seenByGateway, executed,
                failedCheck, failedRemoval} \subseteq BOOLEAN
    BY <2>1 DEF CommandInv, CommandFlags
  <2>2. ASSUME CommandInv
        PROVE  /\ events \in 0..(2 + MaxCommandFaults) /\ runs \in 0..(1 + MaxCommandFaults)
               /\ gatewayRestarts \in 0..MaxCommandFaults /\ commandFaults \in 0..MaxCommandFaults
    BY <2>2, ServicesAssumption DEF CommandInv, EventsCounted, RunsCounted, Bit, ServicesAssumption,
       Command!CommandAssumption
  <2> QED BY <2>1, <2>2 DEF CommandInv, CommandStages, Command!TypeOK
<1>2. CommandInv => Command!RunOnce
  BY DEF CommandInv, RunsCounted, Command!RunOnce
<1> QED BY <1>1, <1>2, CommandInvariant, PTL DEF RunOnce

-----------------------------------------------------------------------------
(***************************************************************************)
(* OptimizedObserver: subscribers that share a worker.                     *)
(***************************************************************************)
Live == {"observing", "loading", "idle", "updating"}

ObserverTypes ==
  /\ source \in Observer!Versions
  /\ registered \in Observer!Wrappers \cup {Observer!Nobody}
  /\ timer \in Observer!Wrappers \cup {Observer!Nobody}
  /\ wrapper \in [Observer!Wrappers -> Observer!Wrapper]
  /\ seen \in [Subscribers -> Observer!Versions \cup {Observer!NotReady}]
  /\ overlapped \in BOOLEAN
  /\ failures \in 0..MaxFailures

Served(m) ==
  /\ m.phase \in Live \/ (m.new = {} /\ m.active = {})
  /\ m.phase \in {"observing", "loading"} => m.active = {}

(* Only a wrapper that works is registered, and only such a one has        *)
(* members; while it is set up they wait.                                  *)
MembersAreServed ==
  /\ registered # Observer!Nobody => wrapper[registered].phase \in Live
  /\ \A w \in Observer!Wrappers : Served(wrapper[w])

(* Until wrappers overlap there is one at most, in the registry as long as *)
(* it works.                                                               *)
OneWrapper ==
  ~overlapped =>
    /\ \A v, w \in Observer!Wrappers :
         wrapper[v].phase # "unused" /\ wrapper[w].phase # "unused" => v = w
    /\ \A w \in Observer!Wrappers : wrapper[w].phase \in Live => w = registered

OneMembership ==
  \A v, w \in Observer!Wrappers : \A s \in Subscribers :
    s \in Observer!Members(v) \cap Observer!Members(w) => v = w

SeesLastData ==
  \A w \in Observer!Wrappers : \A s \in wrapper[w].active : seen[s] = wrapper[w].lastData

ObserverInv == ObserverTypes /\ MembersAreServed /\ OneWrapper /\ OneMembership /\ SeesLastData


(* The fields of a wrapper, one after the other.                           *)
LEMMA WrapperFields ==
  ASSUME NEW m \in Observer!Wrapper
  PROVE  /\ m.phase \in Observer!Phases /\ m.new \in SUBSET Subscribers /\ m.active \in SUBSET Subscribers
         /\ m.lastData \in Observer!Versions /\ m.computing \in Observer!Versions
         /\ m.pendingUpdate \in BOOLEAN /\ m.hasPendingUpdate \in BOOLEAN
         /\ m.retrigger \in BOOLEAN /\ m.failed \in BOOLEAN
BY DEF Observer!Wrapper

LEMMA OneWrapperChanges ==
  ASSUME ObserverTypes, NEW w \in Observer!Wrappers, NEW m, wrapper' = [wrapper EXCEPT ![w] = m]
  PROVE  /\ wrapper'[w] = m
         /\ \A v \in Observer!Wrappers \ {w} : wrapper'[v] = wrapper[v]
         /\ m \in Observer!Wrapper => wrapper' \in [Observer!Wrappers -> Observer!Wrapper]
BY DEF ObserverTypes

(* A wrapper goes on: its members stay or leave, and it is taken from the  *)
(* registry when it does not work any more.                                *)
GoesOn(w, m) ==
  /\ m \in Observer!Wrapper /\ wrapper' = [wrapper EXCEPT ![w] = m]
  /\ Served(m)
  /\ m.new \cup m.active \subseteq Observer!Members(w)
  /\ m.phase # "unused" => wrapper[w].phase # "unused"
  /\ registered' \in {registered, Observer!Nobody}
  /\ registered' = w => m.phase \in Live
  /\ ~overlapped /\ m.phase \in Live => registered' = w
  /\ ~overlapped /\ registered' # registered => wrapper[w].phase # "unused"
  /\ overlapped' = overlapped
  /\ \A s \in Subscribers : s \notin Observer!Members(w) => seen'[s] = seen[s]
  /\ \A s \in m.active : seen'[s] = m.lastData

LEMMA GoingOnKeeps ==
  ASSUME ObserverInv, NEW w \in Observer!Wrappers, NEW m, GoesOn(w, m)
  PROVE  /\ wrapper' \in [Observer!Wrappers -> Observer!Wrapper]
         /\ MembersAreServed' /\ OneWrapper' /\ OneMembership' /\ SeesLastData'
<1>1. /\ wrapper'[w] = m
      /\ \A v \in Observer!Wrappers \ {w} : wrapper'[v] = wrapper[v]
      /\ wrapper' \in [Observer!Wrappers -> Observer!Wrapper]
  BY OneWrapperChanges DEF GoesOn, ObserverInv
<1>2. /\ \A v \in Observer!Wrappers \ {w} : Observer!Members(v)' = Observer!Members(v)
      /\ Observer!Members(w)' = m.new \cup m.active
      /\ Observer!Members(w)' \subseteq Observer!Members(w)
  BY <1>1 DEF Observer!Members, GoesOn
<1>3. \A v \in Observer!Wrappers : wrapper[v] \in Observer!Wrapper
  BY DEF ObserverInv, ObserverTypes
<1>4. MembersAreServed'
  <2>1. \A v \in Observer!Wrappers : Served(wrapper'[v])
    BY <1>1 DEF GoesOn, ObserverInv, MembersAreServed
  <2>2. registered' # Observer!Nobody => wrapper'[registered'].phase \in Live
    BY <1>1 DEF GoesOn, ObserverInv, MembersAreServed, ObserverTypes
  <2> QED BY <2>1, <2>2 DEF MembersAreServed, Served, Live, Observer!Nobody, Observer!Wrappers
<1>5. OneWrapper'
  BY <1>1 DEF GoesOn, ObserverInv, OneWrapper, Live
<1>6. OneMembership'
  BY <1>2 DEF ObserverInv, OneMembership
<1>7. SeesLastData'
  <2>1. ASSUME NEW v \in Observer!Wrappers, NEW s \in wrapper'[v].active
        PROVE  seen'[s] = wrapper'[v].lastData
    <3>1. CASE v = w
      BY <1>1, <2>1, <3>1 DEF GoesOn
    <3>2. CASE v # w
      <4>1. wrapper'[v] = wrapper[v] /\ s \in Subscribers /\ s \in Observer!Members(v)
        BY <1>1, <1>3, <2>1, <3>2, WrapperFields DEF Observer!Members
      <4>2. s \notin Observer!Members(w)
        BY <4>1, <3>2 DEF ObserverInv, OneMembership
      <4> QED BY <2>1, <4>1, <4>2 DEF GoesOn, ObserverInv, SeesLastData
    <3> QED BY <3>1, <3>2
  <2> QED BY <2>1 DEF SeesLastData
<1> QED BY <1>1, <1>4, <1>5, <1>6, <1>7

(* What is asked of a step besides: the types of the other variables.      *)
OtherTypes ==
  /\ source \in Observer!Versions
  /\ registered \in Observer!Wrappers \cup {Observer!Nobody}
  /\ timer \in Observer!Wrappers \cup {Observer!Nobody}
  /\ seen \in [Subscribers -> Observer!Versions \cup {Observer!NotReady}]
  /\ overlapped \in BOOLEAN
  /\ failures \in 0..MaxFailures

LEMMA StepGoesOn ==
  ASSUME ObserverInv, OtherTypes', NEW w \in Observer!Wrappers, NEW m, GoesOn(w, m)
  PROVE  ObserverInv'
BY GoingOnKeeps DEF ObserverInv, ObserverTypes, OtherTypes

(* triggerUpdate asks for an update, and leaves the rest.                  *)
LEMMA TriggerEffect ==
  ASSUME ObserverTypes, NEW w \in Observer!Wrappers, NEW m \in Observer!Wrapper, Observer!Trigger(w, m)
  PROVE  \E b \in BOOLEAN :
           /\ wrapper' = [wrapper EXCEPT ![w] = [m EXCEPT !.hasPendingUpdate = b]]
           /\ timer' \in Observer!Wrappers \cup {Observer!Nobody}
BY DEF Observer!Trigger, ObserverTypes

LEMMA PendingEffect ==
  ASSUME NEW m \in Observer!Wrapper, NEW b \in BOOLEAN
  PROVE  LET n == [m EXCEPT !.hasPendingUpdate = b]
         IN  /\ n \in Observer!Wrapper
             /\ n.phase = m.phase /\ n.new = m.new /\ n.active = m.active /\ n.lastData = m.lastData
BY DEF Observer!Wrapper

LEMMA UnsubscribeKeeps ==
  ASSUME ObserverInv, NEW s \in Subscribers, Observer!Unsubscribe(s)
  PROVE  ObserverInv'
<1>1. PICK w \in Observer!Wrappers :
        /\ s \in Observer!Members(w)
        /\ LET m == [wrapper[w] EXCEPT !.new = @ \ {s}, !.active = @ \ {s}]
           IN  IF m.new \cup m.active = {} /\ Observer!IsSetUp(m) THEN Observer!Trigger(w, m)
               ELSE wrapper' = [wrapper EXCEPT ![w] = m] /\ UNCHANGED timer
        /\ seen' = [seen EXCEPT ![s] = Observer!NotReady]
        /\ UNCHANGED <<source, registered, overlapped, failures>>
  BY DEF Observer!Unsubscribe
<1> DEFINE m == [wrapper[w] EXCEPT !.new = @ \ {s}, !.active = @ \ {s}]
<1>2. wrapper[w] \in Observer!Wrapper
  BY DEF ObserverInv, ObserverTypes
<1>3. /\ m \in Observer!Wrapper
      /\ m.phase = wrapper[w].phase /\ m.lastData = wrapper[w].lastData
      /\ m.new = wrapper[w].new \ {s} /\ m.active = wrapper[w].active \ {s}
  BY <1>2 DEF Observer!Wrapper
<1>4. IF m.new \cup m.active = {} /\ Observer!IsSetUp(m) THEN Observer!Trigger(w, m)
      ELSE wrapper' = [wrapper EXCEPT ![w] = m] /\ UNCHANGED timer
  BY <1>1
<1> HIDE DEF m
<1>5. PICK n : /\ n \in Observer!Wrapper /\ wrapper' = [wrapper EXCEPT ![w] = n]
               /\ n.phase = m.phase /\ n.new = m.new /\ n.active = m.active /\ n.lastData = m.lastData
               /\ timer' \in Observer!Wrappers \cup {Observer!Nobody}
  <2>1. CASE Observer!Trigger(w, m)
    <3>1. PICK b \in BOOLEAN :
            /\ wrapper' = [wrapper EXCEPT ![w] = [m EXCEPT !.hasPendingUpdate = b]]
            /\ timer' \in Observer!Wrappers \cup {Observer!Nobody}
      BY <1>3, <2>1, TriggerEffect DEF ObserverInv
    <3> QED BY <1>3, <3>1, PendingEffect
  <2>2. CASE wrapper' = [wrapper EXCEPT ![w] = m] /\ UNCHANGED timer
    BY <1>3, <2>2 DEF ObserverInv, ObserverTypes
  <2> QED BY <1>4, <2>1, <2>2
<1>6. GoesOn(w, n)
  <2>1. \A t \in Subscribers : t # s => seen'[t] = seen[t]
    BY <1>1 DEF ObserverInv, ObserverTypes
  <2>2. \A t \in n.active : t # s /\ t \in Subscribers /\ seen[t] = n.lastData
    BY <1>2, <1>3, <1>5, WrapperFields DEF ObserverInv, SeesLastData
  <2>3. n.new \cup n.active \subseteq Observer!Members(w)
    BY <1>3, <1>5 DEF Observer!Members
  <2> QED BY <1>1, <1>3, <1>5, <2>1, <2>2, <2>3
          DEF GoesOn, ObserverInv, ObserverTypes, MembersAreServed, OneWrapper, Served, Live
<1>7. OtherTypes'
  BY <1>1, <1>5 DEF OtherTypes, ObserverInv, ObserverTypes
<1> QED BY <1>6, <1>7, StepGoesOn

(* Who subscribes is a member of no wrapper before.                        *)
LEMMA SubscribeKeeps ==
  ASSUME ObserverInv, NEW s \in Subscribers, Observer!Subscribe(s)
  PROVE  ObserverInv'
<1>1. /\ \A v \in Observer!Wrappers : s \notin Observer!Members(v)
      /\ UNCHANGED <<source, seen, failures>>
  BY DEF Observer!Subscribe, Observer!Subscribed
<1>2. ASSUME NEW w \in Observer!Wrappers, NEW m \in Observer!Wrapper,
             wrapper' = [wrapper EXCEPT ![w] = m],
             m.new \subseteq wrapper[w].new \cup {s}, m.active = wrapper[w].active,
             m.lastData = wrapper[w].lastData \/ m.active = {},
             m.phase \in Live, Served(m), registered' = w,
             timer' \in Observer!Wrappers \cup {Observer!Nobody},
             overlapped' \in BOOLEAN, OneWrapper'
      PROVE  ObserverInv'
  <2>1. /\ wrapper'[w] = m
        /\ \A v \in Observer!Wrappers \ {w} : wrapper'[v] = wrapper[v]
        /\ wrapper' \in [Observer!Wrappers -> Observer!Wrapper]
    BY <1>2, OneWrapperChanges DEF ObserverInv
  <2>2. ObserverTypes'
    BY <1>1, <1>2, <2>1 DEF ObserverInv, ObserverTypes
  <2>3. MembersAreServed'
    <3>1. \A v \in Observer!Wrappers : Served(wrapper'[v])
      BY <1>2, <2>1 DEF ObserverInv, MembersAreServed
    <3>2. wrapper'[registered'].phase \in Live
      BY <1>2, <2>1
    <3> QED BY <3>1, <3>2 DEF MembersAreServed, Served, Live, Observer!Nobody, Observer!Wrappers
  <2>4. OneMembership'
    <3>1. /\ \A v \in Observer!Wrappers \ {w} : Observer!Members(v)' = Observer!Members(v)
          /\ Observer!Members(w)' \subseteq Observer!Members(w) \cup {s}
      BY <1>2, <2>1 DEF Observer!Members
    <3> QED BY <1>1, <3>1 DEF ObserverInv, OneMembership
  <2>5. SeesLastData'
    BY <1>1, <1>2, <2>1 DEF ObserverInv, SeesLastData
  <2> QED BY <1>2, <2>2, <2>3, <2>4, <2>5 DEF ObserverInv
<1>3. CASE registered = Observer!Nobody
  <2>1. PICK w \in Observer!Free :
          /\ registered' = w
          /\ wrapper' = [wrapper EXCEPT ![w] = [Observer!Unused EXCEPT !.phase = "observing", !.new = {s}]]
          /\ overlapped' = (overlapped \/ \E v \in Observer!Wrappers : wrapper[v].phase # "unused")
          /\ UNCHANGED timer
    BY <1>3 DEF Observer!Subscribe, Observer!Register
  <2>2. w \in Observer!Wrappers /\ wrapper[w].phase = "unused"
    BY DEF Observer!Free
  <2>3. PICK m \in Observer!Wrapper :
          /\ m = [Observer!Unused EXCEPT !.phase = "observing", !.new = {s}]
          /\ m.phase = "observing" /\ m.new = {s} /\ m.active = {}
    <3>1. 0 \in Observer!Versions
      BY ServicesAssumption DEF Observer!Versions, ServicesAssumption, Observer!ObserverAssumption
    <3>2. Observer!Unused \in Observer!Wrapper /\ Observer!Unused.active = {}
      BY <3>1 DEF Observer!Unused, Observer!Wrapper, Observer!Phases
    <3>3. ASSUME NEW u \in Observer!Wrapper, NEW m, m = [u EXCEPT !.phase = "observing", !.new = {s}]
          PROVE  m \in Observer!Wrapper /\ m.phase = "observing" /\ m.new = {s} /\ m.active = u.active
      BY <3>3 DEF Observer!Wrapper, Observer!Phases
    <3> QED BY <3>2, <3>3
  <2>4. wrapper[w].active = {}
    BY <2>2 DEF ObserverInv, MembersAreServed, Served, Live
  <2>5. /\ wrapper'[w] = m
        /\ \A v \in Observer!Wrappers \ {w} : wrapper'[v] = wrapper[v]
    BY <2>1, <2>2, <2>3, OneWrapperChanges DEF ObserverInv
  <2>6. OneWrapper'
    BY <2>1, <2>2, <2>5 DEF OneWrapper, Live
  <2> QED BY <1>1, <1>2, <2>1, <2>2, <2>3, <2>4, <2>6 DEF Live, Served, ObserverInv, ObserverTypes
<1>4. CASE registered # Observer!Nobody
  <2> DEFINE m == [wrapper[registered] EXCEPT !.new = @ \cup {s}]
  <2>1. registered \in Observer!Wrappers /\ wrapper[registered] \in Observer!Wrapper
    BY <1>4 DEF ObserverInv, ObserverTypes
  <2>2. PICK w \in Observer!Wrappers : w = registered
    BY <2>1
  <2>3. PICK n : n = m
    OBVIOUS
  <2>4. /\ n \in Observer!Wrapper
        /\ n.phase = wrapper[w].phase /\ n.lastData = wrapper[w].lastData
        /\ n.new = wrapper[w].new \cup {s} /\ n.active = wrapper[w].active
    BY <2>1, <2>2, <2>3 DEF Observer!Wrapper
  <2>5. /\ IF Observer!IsSetUp(n) THEN Observer!Trigger(w, n)
           ELSE wrapper' = [wrapper EXCEPT ![w] = n] /\ UNCHANGED timer
        /\ UNCHANGED <<registered, overlapped>>
    BY <1>4, <2>2, <2>3 DEF Observer!Subscribe, Observer!JoinWrapper
  <2>6. PICK k : /\ k \in Observer!Wrapper /\ wrapper' = [wrapper EXCEPT ![w] = k]
                 /\ k.phase = n.phase /\ k.new = n.new /\ k.active = n.active /\ k.lastData = n.lastData
                 /\ timer' \in Observer!Wrappers \cup {Observer!Nobody}
    <3>1. CASE Observer!Trigger(w, n)
      <4>1. PICK b \in BOOLEAN :
              /\ wrapper' = [wrapper EXCEPT ![w] = [n EXCEPT !.hasPendingUpdate = b]]
              /\ timer' \in Observer!Wrappers \cup {Observer!Nobody}
        BY <2>4, <3>1, TriggerEffect DEF ObserverInv
      <4> QED BY <2>4, <4>1, PendingEffect
    <3>2. CASE wrapper' = [wrapper EXCEPT ![w] = n] /\ UNCHANGED timer
      BY <2>4, <3>2 DEF ObserverInv, ObserverTypes
    <3> QED BY <2>5, <3>1, <3>2
  <2>7. /\ wrapper'[w] = k
        /\ \A v \in Observer!Wrappers \ {w} : wrapper'[v] = wrapper[v]
    BY <2>6, OneWrapperChanges DEF ObserverInv
  <2>8. k.phase \in Live /\ k.phase = wrapper[w].phase /\ Served(k)
    BY <1>4, <2>2, <2>4, <2>6 DEF ObserverInv, MembersAreServed, Served
  <2>9. OneWrapper'
    BY <2>2, <2>5, <2>7, <2>8 DEF ObserverInv, OneWrapper
  <2> QED BY <1>1, <1>2, <2>2, <2>4, <2>5, <2>6, <2>8, <2>9 DEF ObserverInv, ObserverTypes
<1> QED BY <1>3, <1>4

(* A change of the sources asks for updates, and leaves the rest.          *)
LEMMA SourceChangeKeeps ==
  ASSUME ObserverInv, Observer!SourceChanges
  PROVE  ObserverInv'
<1>1. PICK S \in SUBSET Observer!Wrappers, Q \in SUBSET Observer!Wrappers :
        wrapper' = [w \in Observer!Wrappers |->
                     IF w \in S
                     THEN [wrapper[w] EXCEPT !.pendingUpdate = TRUE, !.hasPendingUpdate = w \notin Q]
                     ELSE wrapper[w]]
  <2> DEFINE triggered == {w \in Observer!Wrappers : Observer!Observes(wrapper[w])}
             setTimer == {w \in triggered : ~Observer!UpdateIsRunning(wrapper[w])}
             stopping == {w \in Observer!Wrappers : wrapper[w].phase = "stopping"}
  <2>1. PICK S \in SUBSET stopping :
          wrapper' = [w \in Observer!Wrappers |->
             IF w \in triggered \cup S
             THEN [wrapper[w] EXCEPT !.pendingUpdate = TRUE, !.hasPendingUpdate = w \notin setTimer]
             ELSE wrapper[w]]
    BY DEF Observer!SourceChanges
  <2>2. triggered \cup S \in SUBSET Observer!Wrappers /\ setTimer \in SUBSET Observer!Wrappers
    OBVIOUS
  <2> QED BY <2>1, <2>2
<1>2. /\ source' \in Observer!Versions /\ timer' \in Observer!Wrappers \cup {Observer!Nobody}
      /\ UNCHANGED <<registered, seen, overlapped, failures>>
  <2>1. /\ source < MaxChanges /\ source' = source + 1
        /\ UNCHANGED <<registered, seen, overlapped, failures>>
    BY DEF Observer!SourceChanges
  <2>2. timer' = timer \/ timer' \in Observer!Wrappers
    BY DEF Observer!SourceChanges
  <2>3. source' \in Observer!Versions
    BY <2>1, ServicesAssumption DEF Observer!Versions, ObserverInv, ObserverTypes,
                                    ServicesAssumption, Observer!ObserverAssumption
  <2> QED BY <2>1, <2>2, <2>3 DEF ObserverInv, ObserverTypes
<1>3. ASSUME NEW w \in Observer!Wrappers
      PROVE  /\ wrapper'[w] \in Observer!Wrapper
             /\ wrapper'[w].phase = wrapper[w].phase /\ wrapper'[w].lastData = wrapper[w].lastData
             /\ wrapper'[w].new = wrapper[w].new /\ wrapper'[w].active = wrapper[w].active
  <2>1. wrapper[w] \in Observer!Wrapper
    BY DEF ObserverInv, ObserverTypes
  <2>2. PICK b \in BOOLEAN : b = (w \notin Q)
    OBVIOUS
  <2>3. wrapper'[w] = IF w \in S THEN [wrapper[w] EXCEPT !.pendingUpdate = TRUE, !.hasPendingUpdate = b]
                      ELSE wrapper[w]
    BY <1>1, <2>2
  <2> QED BY <2>1, <2>3 DEF Observer!Wrapper
<1>4. wrapper' \in [Observer!Wrappers -> Observer!Wrapper]
  BY <1>1, <1>3
<1>5. ObserverTypes'
  BY <1>2, <1>4 DEF ObserverInv, ObserverTypes
<1>6. MembersAreServed' /\ OneWrapper'
  BY <1>2, <1>3 DEF ObserverInv, ObserverTypes, MembersAreServed, OneWrapper, Served
<1>7. OneMembership' /\ SeesLastData'
  BY <1>2, <1>3 DEF ObserverInv, OneMembership, SeesLastData, Observer!Members
<1> QED BY <1>5, <1>6, <1>7 DEF ObserverInv

(* A step that leaves the members and what they see alone.                 *)
LEMMA QuietChange ==
  ASSUME ObserverInv, NEW w \in Observer!Wrappers, NEW m \in Observer!Wrapper,
         wrapper' = [wrapper EXCEPT ![w] = m],
         m.new = wrapper[w].new, m.active = wrapper[w].active, m.lastData = wrapper[w].lastData,
         (registered' # registered \/ m.phase # "unused") => wrapper[w].phase # "unused",
         m.phase \in Live => wrapper[w].phase \in Live,
         Served(m), registered' \in {registered, Observer!Nobody},
         registered' # registered => m.phase \notin Live,
         registered' = w => m.phase \in Live,
         seen' = seen, overlapped' = overlapped, OtherTypes'
  PROVE  ObserverInv'
<1>1. \A s \in m.active : seen'[s] = m.lastData
  BY DEF ObserverInv, SeesLastData
<1>2. ~overlapped /\ m.phase \in Live => registered' = w
  BY DEF ObserverInv, OneWrapper
<1>3. GoesOn(w, m)
  BY <1>1, <1>2 DEF GoesOn, Observer!Members
<1> QED BY <1>3, StepGoesOn

LEMMA ObserversReadyKeeps ==
  ASSUME ObserverInv, NEW w \in Observer!Wrappers, Observer!ObserversReady(w)
  PROVE  ObserverInv'
<1> DEFINE n == [wrapper[w] EXCEPT !.phase = "loading", !.computing = source]
<1>1. /\ wrapper[w].phase = "observing"
      /\ wrapper' = [wrapper EXCEPT ![w] = n]
      /\ UNCHANGED <<source, registered, timer, seen, overlapped, failures>>
  BY DEF Observer!ObserversReady, ObserverInv, ObserverTypes
<1>2. wrapper[w] \in Observer!Wrapper /\ source \in Observer!Versions
  BY DEF ObserverInv, ObserverTypes
<1>3. /\ n \in Observer!Wrapper /\ n.phase = "loading"
      /\ n.new = wrapper[w].new /\ n.active = wrapper[w].active /\ n.lastData = wrapper[w].lastData
  BY <1>2 DEF Observer!Wrapper, Observer!Phases
<1> HIDE DEF n
<1>4. OtherTypes'
  BY <1>1 DEF OtherTypes, ObserverInv, ObserverTypes
<1>5. wrapper[w].active = {}
  BY <1>1 DEF ObserverInv, MembersAreServed, Served
<1> QED BY <1>1, <1>3, <1>4, <1>5, QuietChange DEF Live, Served

LEMMA UnusedFields ==
  /\ Observer!Unused \in Observer!Wrapper /\ Observer!Unused.phase = "unused"
  /\ Observer!Unused.new = {} /\ Observer!Unused.active = {}
<1>1. 0 \in Observer!Versions
  BY ServicesAssumption DEF Observer!Versions, ServicesAssumption, Observer!ObserverAssumption
<1> QED BY <1>1 DEF Observer!Unused, Observer!Wrapper, Observer!Phases

(* A wrapper is forgotten.                                                 *)
LEMMA ForgottenKeeps ==
  ASSUME ObserverInv, NEW w \in Observer!Wrappers, wrapper' = [wrapper EXCEPT ![w] = Observer!Unused],
         wrapper[w].phase # "unused",
         registered' = Observer!Nobody \/ (registered' = registered /\ wrapper[w].phase \notin Live),
         seen' = seen, overlapped' = overlapped, OtherTypes'
  PROVE  ObserverInv'
<1> DEFINE m == Observer!Unused
<1>1. /\ m \in Observer!Wrapper /\ m.phase = "unused" /\ m.new = {} /\ m.active = {}
      /\ wrapper' = [wrapper EXCEPT ![w] = m]
  BY UnusedFields
<1> HIDE DEF m
<1>2. registered' # w
  BY DEF ObserverInv, MembersAreServed, Observer!Nobody, Observer!Wrappers
<1>3. GoesOn(w, m)
  BY <1>1, <1>2 DEF GoesOn, Served, Live
<1> QED BY <1>3, StepGoesOn

LEMMA SetupFailsKeeps ==
  ASSUME ObserverInv, NEW w \in Observer!Wrappers, Observer!SetupFails(w)
  PROVE  ObserverInv'
<1>1. /\ wrapper[w].phase # "unused" /\ registered' = Observer!Nobody
      /\ wrapper' = [wrapper EXCEPT ![w] = Observer!Unused]
      /\ UNCHANGED <<source, timer, seen, overlapped>>
  BY DEF Observer!SetupFails
<1>2. failures' \in 0..MaxFailures
  BY ServicesAssumption DEF Observer!SetupFails, ObserverInv, ObserverTypes, ServicesAssumption,
     Observer!ObserverAssumption
<1>3. OtherTypes'
  BY <1>1, <1>2 DEF OtherTypes, ObserverInv, ObserverTypes
<1> QED BY <1>1, <1>3, ForgottenKeeps

LEMMA AbandonedStopsKeeps ==
  ASSUME ObserverInv, NEW w \in Observer!Wrappers, Observer!AbandonedStops(w)
  PROVE  ObserverInv'
<1>1. /\ wrapper[w].phase # "unused" /\ registered' = Observer!Nobody
      /\ wrapper' = [wrapper EXCEPT ![w] = Observer!Unused]
      /\ UNCHANGED <<source, timer, seen, overlapped, failures>>
  BY DEF Observer!AbandonedStops
<1>2. OtherTypes'
  BY <1>1 DEF OtherTypes, ObserverInv, ObserverTypes
<1> QED BY <1>1, <1>2, ForgottenKeeps

(* A wrapper that loads has told nobody yet.                               *)
LEMMA FinishLoadingKeeps ==
  ASSUME ObserverInv, NEW w \in Observer!Wrappers, Observer!FinishLoading(w)
  PROVE  ObserverInv'
<1>1. /\ wrapper[w].phase = "loading" /\ wrapper[w].active = {}
      /\ UNCHANGED <<source, timer, overlapped, failures>>
      /\ wrapper[w] \in Observer!Wrapper
  BY DEF Observer!FinishLoading, ObserverInv, ObserverTypes, MembersAreServed, Served
<1>2. CASE wrapper[w].new = {}
  <2> DEFINE n == [wrapper[w] EXCEPT !.phase = "abandoned"]
  <2>1. /\ registered' = Observer!Nobody /\ seen' = seen
        /\ wrapper' = [wrapper EXCEPT ![w] = n]
    BY <1>2 DEF Observer!FinishLoading, Observer!Abandon
  <2>2. /\ n \in Observer!Wrapper /\ n.phase = "abandoned"
        /\ n.new = wrapper[w].new /\ n.active = wrapper[w].active /\ n.lastData = wrapper[w].lastData
    BY <1>1 DEF Observer!Wrapper, Observer!Phases
  <2> HIDE DEF n
  <2>3. OtherTypes'
    BY <1>1, <2>1 DEF OtherTypes, ObserverInv, ObserverTypes
  <2>4. registered' # w
    BY <2>1 DEF Observer!Nobody, Observer!Wrappers
  <2> QED BY <1>1, <1>2, <2>1, <2>2, <2>3, <2>4, QuietChange DEF Live, Served
<1>3. CASE wrapper[w].new # {}
  <2> DEFINE m == [wrapper[w] EXCEPT !.lastData = wrapper[w].computing, !.new = {},
                                     !.active = wrapper[w].new]
             n == Observer!Finished(m, "idle")
  <2>1. /\ m \in Observer!Wrapper /\ m.lastData = wrapper[w].computing /\ m.new = {}
        /\ m.active = wrapper[w].new
    BY <1>1 DEF Observer!Wrapper
  <2>2. /\ wrapper' = [wrapper EXCEPT ![w] = n]
        /\ seen' = [s \in Subscribers |-> IF s \in m.active THEN m.lastData ELSE seen[s]]
        /\ registered' = registered
    BY <1>3 DEF Observer!FinishLoading, Observer!FirstData
  <2> HIDE DEF m
  <2>3. /\ n \in Observer!Wrapper /\ n.phase = "idle"
        /\ n.new = {} /\ n.active = wrapper[w].new /\ n.lastData = m.lastData
    BY <2>1 DEF Observer!Finished, Observer!Wrapper, Observer!Phases
  <2> HIDE DEF n
  <2>4. m.lastData \in Observer!Versions /\ n.active \subseteq Subscribers
    BY <2>1, <2>3 DEF Observer!Wrapper
  <2>5. OtherTypes'
    BY <1>1, <2>2, <2>4 DEF OtherTypes, ObserverInv, ObserverTypes
  <2>6. GoesOn(w, n)
    <3>1. ~overlapped => registered = w
      BY <1>1 DEF ObserverInv, OneWrapper, Live
    <3>2. \A s \in Subscribers : s \notin Observer!Members(w) => seen'[s] = seen[s]
      BY <2>1, <2>2 DEF Observer!Members
    <3> QED BY <1>1, <2>1, <2>2, <2>3, <2>4, <3>1, <3>2 DEF GoesOn, Served, Live, Observer!Members
  <2> QED BY <2>5, <2>6, StepGoesOn
<1> QED BY <1>2, <1>3

LEMMA RetriggerKeeps ==
  ASSUME ObserverInv, NEW w \in Observer!Wrappers, Observer!Retrigger(w)
  PROVE  ObserverInv'
<1> DEFINE m == [wrapper[w] EXCEPT !.retrigger = FALSE]
<1>1. /\ Observer!Trigger(w, m)
      /\ UNCHANGED <<source, registered, seen, overlapped, failures>>
      /\ wrapper[w] \in Observer!Wrapper
  BY DEF Observer!Retrigger, ObserverInv, ObserverTypes
<1>2. /\ m \in Observer!Wrapper
      /\ m.phase = wrapper[w].phase /\ m.lastData = wrapper[w].lastData
      /\ m.new = wrapper[w].new /\ m.active = wrapper[w].active
  BY <1>1 DEF Observer!Wrapper
<1> HIDE DEF m
<1>3. PICK b \in BOOLEAN :
        /\ wrapper' = [wrapper EXCEPT ![w] = [m EXCEPT !.hasPendingUpdate = b]]
        /\ timer' \in Observer!Wrappers \cup {Observer!Nobody}
  BY <1>1, <1>2, TriggerEffect DEF ObserverInv
<1>4. PICK n \in Observer!Wrapper :
        /\ wrapper' = [wrapper EXCEPT ![w] = n]
        /\ n.phase = m.phase /\ n.new = m.new /\ n.active = m.active /\ n.lastData = m.lastData
  BY <1>2, <1>3, PendingEffect
<1>5. OtherTypes'
  BY <1>1, <1>3 DEF OtherTypes, ObserverInv, ObserverTypes
<1>6. Served(n) /\ (registered' = w => n.phase \in Live)
  BY <1>1, <1>2, <1>4 DEF Served, ObserverInv, MembersAreServed, Observer!Nobody, Observer!Wrappers
<1> QED BY <1>1, <1>2, <1>4, <1>5, <1>6, QuietChange

LEMMA TimerFiresKeeps ==
  ASSUME ObserverInv, Observer!TimerFires
  PROVE  ObserverInv'
<1>1. PICK w \in Observer!Wrappers : w = timer
  BY DEF Observer!TimerFires, ObserverInv, ObserverTypes
<1>2. /\ timer' = Observer!Nobody
      /\ UNCHANGED <<source, seen, overlapped, failures>>
      /\ wrapper[w] \in Observer!Wrapper
  BY <1>1 DEF Observer!TimerFires, ObserverInv, ObserverTypes
<1>3. ASSUME UNCHANGED <<wrapper, registered>>
      PROVE  ObserverInv'
  BY <1>2, <1>3 DEF ObserverInv, ObserverTypes, MembersAreServed, OneWrapper, OneMembership, SeesLastData,
                    Observer!Members
<1>4. ASSUME registered' \in {registered, Observer!Nobody}
      PROVE  OtherTypes'
  BY <1>2, <1>4 DEF OtherTypes, ObserverInv, ObserverTypes
<1>5. CASE wrapper[w].phase = "dead"
  <2>1. wrapper' = Observer!Settle(w, wrapper[w]) /\ registered' = registered
    BY <1>1, <1>5 DEF Observer!TimerFires
  <2>2. CASE wrapper[w].retrigger
    <3>1. wrapper' = wrapper
      BY <2>1, <2>2 DEF Observer!Settle, ObserverInv, ObserverTypes
    <3> QED BY <1>3, <2>1, <3>1
  <2>3. CASE ~wrapper[w].retrigger
    <3>1. wrapper' = [wrapper EXCEPT ![w] = Observer!Unused]
      BY <1>5, <2>1, <2>3 DEF Observer!Settle
    <3> QED BY <1>2, <1>4, <1>5, <2>1, <3>1, ForgottenKeeps DEF Live
  <2> QED BY <2>2, <2>3
<1>6. CASE wrapper[w].phase = "idle" /\ Observer!Members(w) = {}
  <2> DEFINE n == [wrapper[w] EXCEPT !.phase = "stopping"]
  <2>1. Observer!StopObservers(w)
    BY <1>1, <1>6 DEF Observer!TimerFires
  <2>2. /\ registered' = Observer!Nobody /\ wrapper' = [wrapper EXCEPT ![w] = n]
    BY <2>1 DEF Observer!StopObservers
  <2>3. /\ n \in Observer!Wrapper /\ n.phase = "stopping"
        /\ n.new = wrapper[w].new /\ n.active = wrapper[w].active /\ n.lastData = wrapper[w].lastData
    BY <1>2 DEF Observer!Wrapper, Observer!Phases
  <2> HIDE DEF n
  <2>4. Served(n) /\ n.phase \notin Live
    BY <1>6, <2>3 DEF Served, Live, Observer!Members
  <2>5. registered' # w
    BY <2>2 DEF Observer!Nobody, Observer!Wrappers
  <2> QED BY <1>2, <1>4, <1>6, <2>2, <2>3, <2>4, <2>5, QuietChange
<1>7. CASE wrapper[w].phase = "idle" /\ Observer!Members(w) # {}
  <2> DEFINE d == IF wrapper[w].pendingUpdate THEN source ELSE wrapper[w].lastData
             n == [wrapper[w] EXCEPT !.phase = "updating", !.pendingUpdate = FALSE, !.computing = d]
  <2>1. Observer!StartUpdate(w)
    BY <1>1, <1>7 DEF Observer!TimerFires
  <2>2. /\ registered' = registered /\ wrapper' = [wrapper EXCEPT ![w] = n]
    BY <2>1 DEF Observer!StartUpdate, ObserverInv, ObserverTypes
  <2>3. d \in Observer!Versions
    BY <1>2, WrapperFields DEF ObserverInv, ObserverTypes
  <2> HIDE DEF d
  <2>4. /\ n \in Observer!Wrapper /\ n.phase = "updating"
        /\ n.new = wrapper[w].new /\ n.active = wrapper[w].active /\ n.lastData = wrapper[w].lastData
    BY <1>2, <2>3 DEF Observer!Wrapper, Observer!Phases
  <2> HIDE DEF n
  <2> QED BY <1>2, <1>4, <1>7, <2>2, <2>4, QuietChange DEF Served, Live
<1>8. CASE wrapper[w].phase \notin {"dead", "idle"}
  BY <1>1, <1>3, <1>8 DEF Observer!TimerFires
<1> QED BY <1>5, <1>6, <1>7, <1>8

LEMMA FinishUpdateKeeps ==
  ASSUME ObserverInv, NEW w \in Observer!Wrappers, Observer!FinishUpdate(w)
  PROVE  ObserverInv'
<1> DEFINE data == wrapper[w].computing
           m == [wrapper[w] EXCEPT !.lastData = data, !.active = Observer!Members(w), !.new = {},
                                   !.failed = @ /\ data = wrapper[w].lastData]
           n == Observer!Finished(m, "idle")
<1>1. /\ wrapper[w].phase = "updating" /\ wrapper[w] \in Observer!Wrapper
      /\ wrapper' = [wrapper EXCEPT ![w] = n]
      /\ seen' = [s \in Subscribers |-> IF s \in Observer!Members(w) THEN data ELSE seen[s]]
      /\ UNCHANGED <<source, registered, timer, overlapped, failures>>
  BY DEF Observer!FinishUpdate, ObserverInv, ObserverTypes
<1>2. data \in Observer!Versions /\ Observer!Members(w) \subseteq Subscribers
  BY <1>1, WrapperFields DEF Observer!Members
<1> HIDE DEF data
<1>3. /\ m \in Observer!Wrapper /\ m.lastData = data /\ m.new = {} /\ m.active = Observer!Members(w)
  BY <1>1, <1>2 DEF Observer!Wrapper
<1> HIDE DEF m
<1>4. /\ n \in Observer!Wrapper /\ n.phase = "idle"
      /\ n.new = {} /\ n.active = Observer!Members(w) /\ n.lastData = data
  BY <1>3 DEF Observer!Finished, Observer!Wrapper, Observer!Phases
<1> HIDE DEF n
<1>5. OtherTypes'
  BY <1>1, <1>2 DEF OtherTypes, ObserverInv, ObserverTypes
<1>6. ~overlapped => registered = w
  BY <1>1 DEF ObserverInv, OneWrapper, Live
<1>7. GoesOn(w, n)
  BY <1>1, <1>2, <1>4, <1>6 DEF GoesOn, Served, Live
<1> QED BY <1>5, <1>7, StepGoesOn

LEMMA UpdateFailsKeeps ==
  ASSUME ObserverInv, NEW w \in Observer!Wrappers, Observer!UpdateFails(w)
  PROVE  ObserverInv'
<1> DEFINE m == Observer!Finished(wrapper[w], "idle")
           n == [m EXCEPT !.failed = TRUE]
<1>1. /\ wrapper[w].phase = "updating" /\ wrapper[w] \in Observer!Wrapper
      /\ wrapper' = [wrapper EXCEPT ![w] = n]
      /\ UNCHANGED <<source, registered, timer, seen, overlapped>>
  BY DEF Observer!UpdateFails, ObserverInv, ObserverTypes
<1>2. failures' \in 0..MaxFailures
  BY ServicesAssumption DEF Observer!UpdateFails, ObserverInv, ObserverTypes, ServicesAssumption,
     Observer!ObserverAssumption
<1>3. /\ m \in Observer!Wrapper /\ m.phase = "idle"
      /\ m.new = wrapper[w].new /\ m.active = wrapper[w].active /\ m.lastData = wrapper[w].lastData
  BY <1>1 DEF Observer!Finished, Observer!Wrapper, Observer!Phases
<1> HIDE DEF m
<1>4. /\ n \in Observer!Wrapper /\ n.phase = "idle"
      /\ n.new = wrapper[w].new /\ n.active = wrapper[w].active /\ n.lastData = wrapper[w].lastData
  BY <1>3 DEF Observer!Wrapper
<1> HIDE DEF n
<1>5. OtherTypes'
  BY <1>1, <1>2 DEF OtherTypes, ObserverInv, ObserverTypes
<1> QED BY <1>1, <1>4, <1>5, QuietChange DEF Live, Served

LEMMA ObserversStoppedKeeps ==
  ASSUME ObserverInv, NEW w \in Observer!Wrappers, Observer!ObserversStopped(w)
  PROVE  ObserverInv'
<1> DEFINE n == Observer!Finished(wrapper[w], "dead")
<1>1. /\ wrapper[w].phase = "stopping" /\ wrapper[w] \in Observer!Wrapper
      /\ wrapper' = Observer!Settle(w, n)
      /\ UNCHANGED <<source, registered, timer, seen, overlapped, failures>>
  BY DEF Observer!ObserversStopped, ObserverInv, ObserverTypes
<1>2. /\ n \in Observer!Wrapper /\ n.phase = "dead"
      /\ n.new = wrapper[w].new /\ n.active = wrapper[w].active /\ n.lastData = wrapper[w].lastData
  BY <1>1 DEF Observer!Finished, Observer!Wrapper, Observer!Phases
<1> HIDE DEF n
<1>3. OtherTypes'
  BY <1>1 DEF OtherTypes, ObserverInv, ObserverTypes
<1>4. CASE n.retrigger
  <2>1. wrapper' = [wrapper EXCEPT ![w] = n]
    BY <1>1, <1>4 DEF Observer!Settle
  <2>2. Served(n) /\ registered # w
    BY <1>1, <1>2 DEF Served, Live, ObserverInv, MembersAreServed, Observer!Nobody, Observer!Wrappers
  <2> QED BY <1>1, <1>2, <1>3, <2>1, <2>2, QuietChange DEF Live
<1>5. CASE ~n.retrigger
  <2>1. wrapper' = [wrapper EXCEPT ![w] = Observer!Unused]
    BY <1>1, <1>2, <1>5 DEF Observer!Settle
  <2> QED BY <1>1, <1>3, <2>1, ForgottenKeeps DEF Live
<1> QED BY <1>4, <1>5

LEMMA ObserverInvariant == Spec => []ObserverInv
<1>1. Init => ObserverInv
  <2>1. ASSUME Observer!Init
        PROVE  ObserverInv
    <3>1. ObserverTypes
      <4>1. 0 \in Observer!Versions /\ 0 \in 0..MaxFailures
        BY ServicesAssumption DEF Observer!Versions, ServicesAssumption, Observer!ObserverAssumption
      <4> QED BY <2>1, <4>1, UnusedFields DEF Observer!Init, ObserverTypes
    <3>2. \A w \in Observer!Wrappers :
            wrapper[w].phase = "unused" /\ wrapper[w].new = {} /\ wrapper[w].active = {}
      BY <2>1, UnusedFields DEF Observer!Init
    <3>3. MembersAreServed /\ OneWrapper /\ OneMembership /\ SeesLastData
      BY <2>1, <3>2 DEF Observer!Init, MembersAreServed, Served, OneWrapper, OneMembership, SeesLastData,
                        Observer!Members, Live
    <3> QED BY <3>1, <3>3 DEF ObserverInv
  <2> QED BY <2>1 DEF Init
<1>2. ObserverInv /\ [Next]_vars => ObserverInv'
  <2>1. ASSUME ObserverInv, Observer!Next
        PROVE  ObserverInv'
    BY <2>1, SubscribeKeeps, UnsubscribeKeeps, SourceChangeKeeps, TimerFiresKeeps, ObserversReadyKeeps,
       FinishLoadingKeeps, AbandonedStopsKeeps, RetriggerKeeps, FinishUpdateKeeps, ObserversStoppedKeeps,
       SetupFailsKeeps, UpdateFailsKeeps DEF Observer!Next, Observer!WorkerStep
  <2>2. ASSUME ObserverInv, UNCHANGED observerVars
        PROVE  ObserverInv'
    BY <2>2 DEF observerVars, ObserverInv, ObserverTypes, MembersAreServed, OneWrapper, OneMembership,
                SeesLastData, Observer!Members
  <2>3. [Next]_vars => Observer!Next \/ UNCHANGED observerVars
    BY DEF Next, vars
  <2> QED BY <2>1, <2>2, <2>3
<1> QED BY <1>1, <1>2, PTL DEF Spec

(* However subscribers come and go, sources change and workers fail: those *)
(* who are subscribed share the registered wrapper, until somebody         *)
(* subscribed while the last one was being stopped; and who has had an     *)
(* answer has what the worker computed last, overlaps or not.              *)
THEOREM SubscribersShareTheWorker == Spec => []SharesWorker
<1>1. ObserverInv => Observer!TypeOK
  BY DEF ObserverInv, ObserverTypes, Observer!TypeOK
<1>2. ObserverInv => Observer!SharesWorker
  <2>1. ASSUME ObserverInv, ~overlapped, NEW s \in Subscribers, NEW w \in Observer!Wrappers,
               s \in Observer!Members(w)
        PROVE  w = registered
    BY <2>1 DEF ObserverInv, MembersAreServed, Served, OneWrapper, Observer!Members
  <2>2. ASSUME ObserverInv
        PROVE  \A w \in Observer!Wrappers : \A s \in wrapper[w].active : seen[s] = wrapper[w].lastData
    BY <2>2 DEF ObserverInv, SeesLastData
  <2> QED BY <2>1, <2>2 DEF Observer!SharesWorker
<1> QED BY <1>1, <1>2, ObserverInvariant, PTL DEF SharesWorker

-----------------------------------------------------------------------------
(***************************************************************************)
(* ObserverGroup: observers that are stopped and started again.            *)
(***************************************************************************)
GroupFlags ==
  /\ running \in BOOLEAN /\ pendingStop \in BOOLEAN /\ pendingRestart \in BOOLEAN
  /\ checkRunning \in BOOLEAN /\ checkTimer \in BOOLEAN /\ started \in BOOLEAN /\ overrun \in BOOLEAN

GroupData ==
  /\ handles \in Nat
  /\ check \in [Checks -> Group!CheckStates]
  /\ captured \in [Checks -> Nat]
  /\ live \in SUBSET (Nat \ {0}) /\ IsFiniteSet(live)
  /\ owner \in {"uses", "stops", "stopped"}
  /\ restarts \in 0..MaxRestarts /\ startFailures \in 0..MaxStartFailures

GroupTypes == GroupFlags /\ GroupData

(* What has been asked for, by whom, and how far it is: a group that does  *)
(* not run has been stopped by its owner, and a check that stops it for    *)
(* good has served that request.                                           *)
StopIsFinal ==
  /\ pendingStop => owner = "stops"
  /\ ~running => ~pendingStop /\ owner # "uses"
  /\ owner = "stopped" => ~running
  /\ \A c \in Checks : check[c] = "stopping for good" => ~running

CheckPending == \E c \in Checks : check[c] # "idle"
Unserved == pendingStop \/ (running /\ (pendingRestart \/ handles = 0))

(* checkRunning is only set while a check is under way, and as long as     *)
(* something is to be done there is one, or the timer will start one.      *)
CheckWillCome ==
  /\ checkRunning => CheckPending
  /\ handles # 0 => handles \in live
  /\ startFailures = 0 /\ Unserved => checkTimer \/ CheckPending

(* Until two checks overlap.                                               *)
ChecksInTurn ==
  ~overrun =>
    /\ \A c, x \in Checks : check[c] # "idle" /\ check[x] # "idle" => c = x
    /\ live \subseteq {handles}
    /\ \A c \in Checks : check[c] = "starting" => handles = 0
    /\ \A c \in Checks : check[c] \in {"stopping for good", "stopping"} => captured[c] = handles
    /\ ~running => \A c \in Checks : check[c] \in {"idle", "stopping for good"}
    /\ owner = "stopped" => live = {} /\ \A c \in Checks : check[c] = "idle"

GroupInv == GroupTypes /\ StopIsFinal /\ CheckWillCome /\ ChecksInTurn

LEMMA GroupCardinality == \A S : Group!Cardinality(S) = Cardinality(S)
BY DEF Group!Cardinality, Cardinality

LEMMA GroupFinite == \A S : Group!IsFiniteSet(S) => IsFiniteSet(S)
BY DEF Group!IsFiniteSet, IsFiniteSet

(* There is a number for another generation.                               *)
LEMMA NewGenerationIsNew ==
  ASSUME Group!GroupAssumption, GroupTypes
  PROVE  Group!NewGeneration \in Nat \ {0} /\ Group!NewGeneration \notin live \cup {handles}
<1> DEFINE caught == {captured[c] : c \in Checks}
           used == live \cup {handles} \cup caught
           n == Cardinality(used)
<1>1. IsFiniteSet(used) /\ n \in Nat
  <2>1. IsFiniteSet(Checks)
    BY GroupFinite DEF Group!GroupAssumption
  <2>2. IsFiniteSet(caught)
    <3>1. captured \in Surjection(Checks, caught)
      BY DEF GroupTypes, GroupData, Surjection
    <3> HIDE DEF caught
    <3> QED BY <2>1, <3>1, FS_Surjection
  <2>3. IsFiniteSet(live \cup {handles})
    BY FS_AddElement DEF GroupTypes, GroupData
  <2> QED BY <2>2, <2>3, FS_Union, FS_CardinalityType
<1>2. \E g \in 1..(n + 1) : g \notin used
  <2>1. SUFFICES ASSUME 1..(n + 1) \subseteq used
                 PROVE  FALSE
    OBVIOUS
  <2>2. Cardinality(1..(n + 1)) = n + 1
    <3> HIDE DEF n
    <3> QED BY <1>1, FS_Interval
  <2>3. Cardinality(1..(n + 1)) <= n
    <3> HIDE DEF used
    <3> QED BY <1>1, <2>1, FS_Subset
  <2> HIDE DEF n
  <2> QED BY <1>1, <2>2, <2>3
<1>3. Group!NewGeneration = CHOOSE g \in 1..(n + 1) : g \notin used
  BY GroupCardinality DEF Group!NewGeneration
<1>4. Group!NewGeneration \in 1..(n + 1) /\ Group!NewGeneration \notin used
  <2> HIDE DEF n, used
  <2> QED BY <1>2, <1>3
<1>5. Group!NewGeneration \in Nat \ {0}
  <2> HIDE DEF n
  <2> QED BY <1>1, <1>4
<1> QED BY <1>4, <1>5

LEMMA GroupStarts ==
  ASSUME Group!GroupAssumption, Group!Init
  PROVE  GroupInv
<1> DEFINE first == CHOOSE c \in Checks : TRUE
<1>1. first \in Checks
  BY DEF Group!GroupAssumption
<1> HIDE DEF first
<1>2. check = [c \in Checks |-> IF c = first THEN "starting" ELSE "idle"]
  BY DEF Group!Init, first
<1>3. check[first] = "starting" /\ \A c \in Checks \ {first} : check[c] = "idle"
  BY <1>1, <1>2
<1>4. GroupTypes
  <2>1. GroupFlags
    BY DEF Group!Init, GroupFlags
  <2>2. IsFiniteSet({}) /\ 0 \in 0..MaxRestarts /\ 0 \in 0..MaxStartFailures
    BY FS_EmptySet DEF Group!GroupAssumption
  <2>3. GroupData
    BY <1>2, <2>2 DEF Group!Init, GroupData, Group!CheckStates, Group!NoHandles
  <2> QED BY <2>1, <2>3 DEF GroupTypes
<1>5. StopIsFinal /\ CheckWillCome
  BY <1>1, <1>3 DEF Group!Init, StopIsFinal, CheckWillCome, CheckPending, Group!NoHandles
<1>6. ChecksInTurn
  BY <1>1, <1>3 DEF Group!Init, ChecksInTurn, Group!NoHandles
<1> QED BY <1>4, <1>5, <1>6 DEF GroupInv

LEMMA OwnerKeeps ==
  ASSUME Group!GroupAssumption, GroupInv, Group!Stop \/ Group!Restart
  PROVE  GroupInv'
<1>1. GroupTypes'
  <2>1. CASE Group!Stop
    BY <2>1 DEF Group!Stop, Group!bounds, Group!invocations, GroupInv, GroupTypes, GroupFlags, GroupData
  <2>2. CASE Group!Restart
    <3>1. restarts' \in 0..MaxRestarts
      BY <2>2 DEF Group!GroupAssumption, Group!Restart, GroupInv, GroupTypes, GroupData
    <3> QED BY <2>2, <3>1 DEF Group!Restart, Group!invocations, GroupInv, GroupTypes, GroupFlags, GroupData
  <2> QED BY <2>1, <2>2
<1>2. StopIsFinal' /\ CheckWillCome'
  <2>1. CASE Group!Stop
    BY <2>1 DEF Group!Stop, Group!invocations, GroupInv, GroupTypes, GroupFlags, StopIsFinal, CheckWillCome, CheckPending
  <2>2. CASE Group!Restart
    BY <2>2 DEF Group!Restart, Group!invocations, GroupInv, GroupTypes, GroupFlags, StopIsFinal, CheckWillCome, CheckPending
  <2> QED BY <2>1, <2>2
<1>3. ChecksInTurn'
  BY DEF Group!Stop, Group!Restart, Group!bounds, Group!invocations, GroupInv, GroupTypes, GroupFlags, GroupData, StopIsFinal,
     ChecksInTurn
<1> QED BY <1>1, <1>2, <1>3 DEF GroupInv

(* An invocation moves on, and the others stay where they are.             *)
LEMMA CheckMoves ==
  ASSUME GroupTypes, NEW c \in Checks, NEW state \in Group!CheckStates, NEW g \in Nat,
         check' = [check EXCEPT ![c] = state], captured' = [captured EXCEPT ![c] = g]
  PROVE  /\ check' \in [Checks -> Group!CheckStates] /\ captured' \in [Checks -> Nat]
         /\ check'[c] = state /\ captured'[c] = g
         /\ \A x \in Checks \ {c} : check'[x] = check[x] /\ captured'[x] = captured[x]
BY DEF GroupTypes, GroupFlags, GroupData

LEMMA TimerKeeps ==
  ASSUME Group!GroupAssumption, GroupInv, NEW c \in Checks, Group!TimerFires(c)
  PROVE  GroupInv'
<1>1. /\ checkTimer /\ check[c] = "idle" /\ checkTimer' = FALSE
      /\ overrun' = (overrun \/ (~checkRunning /\ CheckPending)) /\ overrun' \in BOOLEAN
      /\ handles' = handles /\ live' = live /\ started' = started /\ owner' = owner
      /\ restarts' = restarts /\ startFailures' = startFailures
  BY DEF Group!TimerFires, CheckPending, Group!bounds, GroupInv, GroupTypes, GroupFlags
<1>2. CASE ~running \/ checkRunning \/ (~pendingStop /\ ~pendingRestart /\ handles # 0)
  <2>1. /\ check' = [check EXCEPT ![c] = "idle"] /\ checkRunning' = FALSE
        /\ captured' = [captured EXCEPT ![c] = 0]
        /\ running' = running /\ pendingStop' = pendingStop /\ pendingRestart' = pendingRestart
    BY <1>2 DEF Group!TimerFires, Group!RunCheck, Group!Return, Group!requests, Group!NoHandles
  <2>2. /\ check' = check /\ captured' \in [Checks -> Nat]
        /\ \A x \in Checks : check[x] # "idle" => captured'[x] = captured[x]
    BY <1>1, <2>1 DEF GroupInv, GroupTypes, GroupFlags, GroupData
  <2>3. GroupTypes' /\ StopIsFinal'
    BY <1>1, <2>1, <2>2 DEF GroupInv, GroupTypes, GroupFlags, GroupData, StopIsFinal
  <2>4. CheckWillCome'
    BY <1>1, <1>2, <2>1, <2>2 DEF GroupInv, StopIsFinal, CheckWillCome, CheckPending, Unserved
  <2>5. ChecksInTurn'
    BY <1>1, <2>1, <2>2 DEF GroupInv, GroupTypes, GroupFlags, GroupData, ChecksInTurn
  <2> QED BY <2>3, <2>4, <2>5 DEF GroupInv
<1>3. CASE running /\ ~checkRunning /\ (pendingStop \/ pendingRestart \/ handles = 0)
  <2>1. PICK state \in {"stopping for good", "stopping", "starting"} :
          /\ check' = [check EXCEPT ![c] = state] /\ checkRunning' = TRUE
          /\ captured' = [captured EXCEPT ![c] = handles]
          /\ state = "stopping for good" =>
               pendingStop /\ running' = FALSE /\ pendingStop' = FALSE /\ pendingRestart' = pendingRestart
          /\ state # "stopping for good" =>
               running' = running /\ pendingStop' = pendingStop /\ pendingRestart' = FALSE
          /\ state = "starting" => handles = 0
    <3>1. CASE pendingStop
      BY <1>3, <3>1 DEF Group!TimerFires, Group!RunCheck, Group!ServeStop, Group!Wait
    <3>2. CASE ~pendingStop
      <4>1. Group!ServeRestart(c)
        BY <1>3, <3>2 DEF Group!TimerFires, Group!RunCheck, Group!NoHandles
      <4> QED BY <1>3, <3>2, <4>1 DEF Group!ServeRestart, Group!Wait, Group!NoHandles
    <3> QED BY <3>1, <3>2
  <2>2. /\ check' \in [Checks -> Group!CheckStates] /\ captured' \in [Checks -> Nat]
        /\ check'[c] = state /\ captured'[c] = handles
        /\ \A x \in Checks \ {c} : check'[x] = check[x] /\ captured'[x] = captured[x]
    <3>1. state \in Group!CheckStates /\ handles \in Nat
      BY DEF GroupInv, GroupTypes, GroupData, Group!CheckStates
    <3> QED BY <2>1, <3>1, CheckMoves DEF GroupInv
  <2>3. GroupTypes'
    BY <1>1, <1>3, <2>1, <2>2 DEF GroupInv, GroupTypes, GroupFlags, GroupData
  <2>4. StopIsFinal'
    <3>1. CASE state = "stopping for good"
      BY <1>1, <1>3, <2>1, <2>2, <3>1 DEF GroupInv, StopIsFinal
    <3>2. CASE state # "stopping for good"
      <4>1. running' = running /\ pendingStop' = pendingStop /\ owner' = owner
        BY <1>1, <2>1, <3>2
      <4>2. \A x \in Checks : check'[x] = "stopping for good" => check[x] = "stopping for good"
        BY <2>2, <3>2
      <4> QED BY <4>1, <4>2 DEF GroupInv, StopIsFinal
    <3> QED BY <3>1, <3>2
  <2>5. CheckWillCome'
    BY <1>1, <2>1, <2>2 DEF GroupInv, CheckWillCome, CheckPending
  <2>6. ChecksInTurn'
    <3>1. ~overrun' => \A x \in Checks : check[x] = "idle"
      BY <1>1, <1>3 DEF CheckPending
    <3> QED BY <1>1, <1>3, <2>1, <2>2, <3>1 DEF GroupInv, GroupTypes, GroupFlags, GroupData, StopIsFinal,
          ChecksInTurn
  <2> QED BY <2>3, <2>4, <2>5, <2>6 DEF GroupInv
<1> QED BY <1>2, <1>3

LEMMA ProceedKeeps ==
  ASSUME Group!GroupAssumption, GroupInv, NEW c \in Checks, Group!Proceed(c) \/ Group!StartFails(c)
  PROVE  GroupInv'
<1>1. CASE Group!StoppedForGood(c)
  <2>1. /\ check[c] = "stopping for good" /\ check' = [check EXCEPT ![c] = "idle"] /\ checkRunning' = FALSE
        /\ captured' = [captured EXCEPT ![c] = 0]
        /\ live' = live \ {captured[c]}
        /\ handles' = (IF captured[c] = 0 THEN handles ELSE 0) /\ owner' = "stopped"
        /\ running' = running /\ pendingStop' = pendingStop /\ pendingRestart' = pendingRestart
        /\ checkTimer' = checkTimer /\ started' = started /\ restarts' = restarts
        /\ startFailures' = startFailures /\ overrun' = overrun
    BY <1>1 DEF Group!StoppedForGood, Group!AllStopped, Group!Return, Group!requests, Group!bounds, Group!NoHandles
  <2>2. /\ check' \in [Checks -> Group!CheckStates] /\ captured' \in [Checks -> Nat]
        /\ check'[c] = "idle" /\ captured'[c] = 0
        /\ \A x \in Checks \ {c} : check'[x] = check[x] /\ captured'[x] = captured[x]
    BY <2>1, CheckMoves DEF GroupInv, Group!CheckStates
  <2>3. GroupTypes'
    BY <2>1, <2>2, FS_RemoveElement DEF GroupInv, GroupTypes, GroupFlags, GroupData
  <2>4. StopIsFinal' /\ CheckWillCome'
    BY <2>1, <2>2 DEF GroupInv, StopIsFinal, CheckWillCome, Unserved
  <2>5. ChecksInTurn'
    BY <2>1, <2>2 DEF GroupInv, StopIsFinal, ChecksInTurn
  <2> QED BY <2>3, <2>4, <2>5 DEF GroupInv
<1>2. CASE Group!Stopped(c)
  <2>1. /\ check[c] = "stopping" /\ check' = [check EXCEPT ![c] = "starting"]
        /\ captured' = [captured EXCEPT ![c] = 0]
        /\ live' = live \ {captured[c]}
        /\ handles' = (IF captured[c] = 0 THEN handles ELSE 0) /\ owner' = owner
        /\ running' = running /\ pendingStop' = pendingStop /\ pendingRestart' = pendingRestart
        /\ checkRunning' = checkRunning
        /\ checkTimer' = checkTimer /\ started' = started /\ restarts' = restarts
        /\ startFailures' = startFailures /\ overrun' = overrun
    BY <1>2 DEF Group!Stopped, Group!AllStopped, Group!requests, Group!bounds, Group!NoHandles
  <2>2. /\ check' \in [Checks -> Group!CheckStates] /\ captured' \in [Checks -> Nat]
        /\ check'[c] = "starting" /\ captured'[c] = 0
        /\ \A x \in Checks \ {c} : check'[x] = check[x] /\ captured'[x] = captured[x]
    BY <2>1, CheckMoves DEF GroupInv, Group!CheckStates
  <2>3. GroupTypes'
    BY <2>1, <2>2, FS_RemoveElement DEF GroupInv, GroupTypes, GroupFlags, GroupData
  <2>4. StopIsFinal' /\ CheckWillCome'
    BY <2>1, <2>2 DEF GroupInv, StopIsFinal, CheckWillCome, Unserved, CheckPending
  <2>5. ChecksInTurn'
    BY <2>1, <2>2 DEF GroupInv, ChecksInTurn
  <2> QED BY <2>3, <2>4, <2>5 DEF GroupInv
<1>3. CASE Group!Started(c)
  <2>1. PICK new \in Nat \ {0} :
        /\ check[c] = "starting" /\ check' = [check EXCEPT ![c] = "idle"] /\ checkRunning' = FALSE
        /\ captured' = [captured EXCEPT ![c] = 0]
        /\ live' = live \cup {new} /\ handles' = new /\ owner' = owner
        /\ running' = running /\ pendingStop' = pendingStop /\ pendingRestart' = pendingRestart
        /\ checkTimer' = TRUE /\ started' = TRUE /\ restarts' = restarts
        /\ startFailures' = startFailures /\ overrun' = overrun
    BY <1>3, NewGenerationIsNew
       DEF GroupInv, Group!Started, Group!Return, Group!requests, Group!bounds, Group!NoHandles
  <2>2. /\ check' \in [Checks -> Group!CheckStates] /\ captured' \in [Checks -> Nat]
        /\ check'[c] = "idle" /\ captured'[c] = 0
        /\ \A x \in Checks \ {c} : check'[x] = check[x] /\ captured'[x] = captured[x]
    BY <2>1, CheckMoves DEF GroupInv, Group!CheckStates
  <2>3. GroupTypes'
    <3>1. IsFiniteSet(live') /\ live' \in SUBSET (Nat \ {0})
      BY <2>1, FS_AddElement DEF GroupInv, GroupTypes, GroupData
    <3> QED BY <2>1, <2>2, <3>1 DEF GroupInv, GroupTypes, GroupFlags, GroupData
  <2>4. StopIsFinal' /\ CheckWillCome'
    BY <2>1, <2>2 DEF GroupInv, StopIsFinal, CheckWillCome, Unserved
  <2>5. ChecksInTurn'
    <3>1. ~overrun => live = {}
      BY <2>1 DEF GroupInv, GroupTypes, GroupFlags, GroupData, ChecksInTurn
    <3> QED BY <2>1, <2>2, <3>1 DEF GroupInv, ChecksInTurn
  <2> QED BY <2>3, <2>4, <2>5 DEF GroupInv
<1>4. CASE Group!StartFails(c)
  <2>1. /\ check[c] = "starting" /\ check' = [check EXCEPT ![c] = "idle"] /\ checkRunning' = FALSE
        /\ captured' = [captured EXCEPT ![c] = 0]
        /\ live' = live /\ handles' = handles /\ owner' = owner
        /\ running' = running /\ pendingStop' = pendingStop /\ pendingRestart' = pendingRestart
        /\ checkTimer' = checkTimer /\ started' = TRUE /\ restarts' = restarts
        /\ startFailures < MaxStartFailures /\ startFailures' = startFailures + 1
        /\ overrun' = overrun
    BY <1>4 DEF Group!StartFails, Group!Return, Group!requests, Group!NoHandles
  <2>2. /\ check' \in [Checks -> Group!CheckStates] /\ captured' \in [Checks -> Nat]
        /\ check'[c] = "idle" /\ captured'[c] = 0
        /\ \A x \in Checks \ {c} : check'[x] = check[x] /\ captured'[x] = captured[x]
    BY <2>1, CheckMoves DEF GroupInv, Group!CheckStates
  <2>3. GroupTypes'
    <3>1. startFailures' \in 0..MaxStartFailures
      BY <2>1 DEF Group!GroupAssumption, GroupInv, GroupTypes, GroupData
    <3> QED BY <2>1, <2>2, <3>1 DEF GroupInv, GroupTypes, GroupFlags, GroupData
  <2>4. StopIsFinal' /\ CheckWillCome'
    <3>1. startFailures' # 0
      BY <2>1 DEF GroupInv, GroupTypes, GroupData
    <3> QED BY <2>1, <2>2, <3>1 DEF GroupInv, StopIsFinal, CheckWillCome
  <2>5. ChecksInTurn'
    BY <2>1, <2>2 DEF GroupInv, ChecksInTurn
  <2> QED BY <2>3, <2>4, <2>5 DEF GroupInv
<1> QED BY <1>1, <1>2, <1>3, <1>4 DEF Group!Proceed

LEMMA GroupInvariant == Spec => []GroupInv
<1>1. Init => GroupInv
  BY ServicesAssumption, GroupStarts DEF ServicesAssumption, Init
<1>2. GroupInv /\ [Next]_vars => GroupInv'
  <2>1. ASSUME GroupInv, Group!Next
        PROVE  GroupInv'
    BY <2>1, ServicesAssumption, OwnerKeeps, TimerKeeps, ProceedKeeps DEF Group!Next, ServicesAssumption
  <2>2. ASSUME GroupInv, UNCHANGED groupVars
        PROVE  GroupInv'
    BY <2>2 DEF groupVars, GroupInv, GroupTypes, GroupFlags, GroupData, StopIsFinal, CheckWillCome,
       CheckPending, Unserved,
                ChecksInTurn
  <2>3. [Next]_vars => Group!Next \/ UNCHANGED groupVars
    BY DEF Next, vars
  <2> QED BY <2>1, <2>2, <2>3
<1> QED BY <1>1, <1>2, PTL DEF Spec

(* Whenever its owner stops or restarts it, and however many checks there  *)
(* are at a time: until two of them overlap a group leaves no observers    *)
(* running that it does not know, and as long as observers start, whatever *)
(* is asked for is served.                                                 *)
THEOREM GroupIsServed == Spec => []GroupServed
<1>1. GroupInv => Group!TypeOK
  BY DEF GroupInv, GroupTypes, GroupFlags, GroupData, Group!TypeOK, Group!Generations, Group!NoHandles
<1>2. GroupInv => Group!NoneLeftRunning
  BY DEF GroupInv, ChecksInTurn, Group!NoneLeftRunning
<1>3. GroupInv => Group!RequestsServed
  BY DEF GroupInv, StopIsFinal, CheckWillCome, Unserved, CheckPending, Group!RequestsServed, Group!Settled,
         Group!NoHandles
<1> QED BY <1>1, <1>2, <1>3, GroupInvariant, PTL DEF GroupServed

-----------------------------------------------------------------------------
(***************************************************************************)
(* DdpSession: first what one entry of a precedence list does, then the    *)
(* merge box of a document, the contexts, and the queue of messages.       *)
(***************************************************************************)
Value == Session!Field \cup {Session!NoDoc}

Lists == Seq(Session!Precedence)
OneEntryEach(list) == \A i, j \in 1..Len(list) : list[i].sub = list[j].sub => i = j

(* What becomes of a list when the subscription s publishes v: the others  *)
(* stay, in their order, and so does the first one unless it is taken away.*)
Entered(list, after, s, v) ==
  /\ after \in Lists /\ OneEntryEach(after)
  /\ \A i \in 1..Len(after) :
       \/ after[i] = [sub |-> s, value |-> v] /\ v \in Values
       \/ \E j \in 1..Len(list) : after[i] = list[j] /\ list[j].sub # s
  /\ \A j \in 1..Len(list) : list[j].sub # s => \E i \in 1..Len(after) : after[i] = list[j]
  /\ v \in Values => \E i \in 1..Len(after) : after[i] = [sub |-> s, value |-> v]
  /\ list # <<>> /\ (v \in Values \/ list[1].sub # s) => after # <<>> /\ after[1].sub = list[1].sub

LEMMA EntriesAreTyped ==
  ASSUME NEW list \in Lists, NEW i \in 1..Len(list)
  PROVE  list[i].sub \in Subs /\ list[i].value \in Values
<1>1. list[i] \in Session!Precedence
  BY ElementOfSeq DEF Lists
<1> QED BY <1>1 DEF Session!Precedence

LEMMA PlaceIsFound ==
  ASSUME NEW list \in Lists, NEW s
  PROVE  /\ Session!PlaceOf(list, s) \in 0..Len(list)
         /\ Session!PlaceOf(list, s) # 0 => list[Session!PlaceOf(list, s)].sub = s
         /\ Session!PlaceOf(list, s) = 0 => \A i \in 1..Len(list) : list[i].sub # s
<1> DEFINE I == {i \in 1..Len(list) : list[i].sub = s}
<1>1. Session!PlaceOf(list, s) = IF I # {} THEN Min(I) ELSE 0
  BY DEF Session!PlaceOf, Session!SelectInSeq, Session!Min, Min
<1>2. Len(list) \in Nat
  BY LenProperties DEF Lists
<1>3. CASE I # {}
  <2>1. I \in SUBSET Nat
    BY <1>2
  <2>2. Min(I) \in I
    <3> HIDE DEF I
    <3> QED BY <1>3, <2>1, MinIsLeast
  <2> QED BY <1>1, <1>2, <1>3, <2>2
<1>4. CASE I = {}
  BY <1>1, <1>2, <1>4
<1> QED BY <1>3, <1>4

LEMMA EntryRemoved ==
  ASSUME NEW list \in Lists, OneEntryEach(list), NEW p \in 1..Len(list), NEW v, v \notin Values
  PROVE  /\ Entered(list, Session!RemoveAt(list, p), list[p].sub, v)
         /\ p # 1 => Session!Visible(Session!RemoveAt(list, p)) = Session!Visible(list)
<1> DEFINE left == Session!RemoveAt(list, p)
           n == Len(list)
<1>1. n \in Nat /\ list \in Seq(Session!Precedence)
  BY LenProperties DEF Lists
<1>2. Session!RemoveAt(list, p) = RemoveAt(list, p)
  BY DEF Session!RemoveAt, RemoveAt
<1>3. /\ left \in Lists /\ Len(left) = n - 1
      /\ \A i \in 1..(n - 1) : left[i] = IF i < p THEN list[i] ELSE list[i + 1]
  BY <1>1, <1>2, RemoveAtEntries DEF Lists
<1> HIDE DEF left, n
<1>4. p \in 1..n
  BY DEF n
<1>5. OneEntryEach(left)
  <2>1. ASSUME NEW i \in 1..(n - 1), NEW j \in 1..(n - 1), left[i].sub = left[j].sub
        PROVE  i = j
    BY <1>1, <1>3, <1>4, <2>1 DEF OneEntryEach, n
  <2> QED BY <1>3, <2>1 DEF OneEntryEach
<1>6. ASSUME NEW i \in 1..(n - 1)
      PROVE  \E j \in 1..n : left[i] = list[j] /\ list[j].sub # list[p].sub
  <2>1. CASE i < p
    BY <1>1, <1>3, <1>4, <2>1 DEF OneEntryEach, n
  <2>2. CASE ~(i < p)
    BY <1>1, <1>3, <1>4, <2>2 DEF OneEntryEach, n
  <2> QED BY <2>1, <2>2
<1>7. ASSUME NEW j \in 1..n, list[j].sub # list[p].sub
      PROVE  \E i \in 1..(n - 1) : left[i] = list[j]
  <2>1. CASE j < p
    BY <1>1, <1>3, <1>4, <2>1
  <2>2. CASE ~(j < p)
    <3>1. j # p
      BY <1>7
    <3>2. j - 1 \in 1..(n - 1) /\ left[j - 1] = list[j]
      BY <1>1, <1>3, <1>4, <2>2, <3>1
    <3> QED BY <3>2
  <2> QED BY <2>1, <2>2
<1>8. list[1].sub # list[p].sub => p # 1
  OBVIOUS
<1>9. p # 1 => left # <<>> /\ left[1] = list[1]
  BY <1>1, <1>3, <1>4
<1>10. list # <<>>
  BY <1>4, <1>1 DEF n
<1>11. Entered(list, left, list[p].sub, v)
  BY <1>3, <1>5, <1>6, <1>7, <1>8, <1>9 DEF Entered, n
<1> QED BY <1>9, <1>10, <1>11 DEF Session!Visible, left

LEMMA FieldCleared ==
  ASSUME NEW list \in Lists, OneEntryEach(list), NEW s, NEW v, v \notin Values
  PROVE  LET cleared == Session!ClearField(list, s, Session!Visible(list))
         IN  Entered(list, cleared.list, s, v) /\ cleared.seen = Session!Visible(cleared.list)
<1> DEFINE p == Session!PlaceOf(list, s)
           cleared == Session!ClearField(list, s, Session!Visible(list))
<1>1. /\ p \in 0..Len(list)
      /\ p # 0 => list[p].sub = s
      /\ p = 0 => \A i \in 1..Len(list) : list[i].sub # s
  BY PlaceIsFound
<1>2. Len(list) \in Nat
  BY LenProperties DEF Lists
<1>3. CASE p = 0
  <2>1. cleared.list = list /\ cleared.seen = Session!Visible(list)
    BY <1>3 DEF Session!ClearField
  <2>2. Entered(list, list, s, v)
    <3> HIDE DEF p
    <3> QED BY <1>1, <1>3 DEF Entered
  <2> QED BY <2>1, <2>2
<1>4. CASE p # 0
  <2>1. /\ cleared.list = Session!RemoveAt(list, p)
        /\ cleared.seen = IF p = 1 THEN Session!Visible(cleared.list) ELSE Session!Visible(list)
    BY <1>4 DEF Session!ClearField
  <2>2. p \in 1..Len(list) /\ list[p].sub = s
    <3> HIDE DEF p
    <3> QED BY <1>1, <1>2, <1>4
  <2> HIDE DEF p, cleared
  <2>3. /\ Entered(list, Session!RemoveAt(list, p), s, v)
        /\ p # 1 => Session!Visible(Session!RemoveAt(list, p)) = Session!Visible(list)
    BY <2>2, EntryRemoved
  <2>4. Entered(list, cleared.list, s, v) /\ cleared.seen = Session!Visible(cleared.list)
    BY <2>1, <2>3
  <2> QED BY <2>4 DEF cleared
<1> QED BY <1>3, <1>4

LEMMA FieldChanged ==
  ASSUME NEW list \in Lists, OneEntryEach(list), NEW s \in Subs, NEW v \in Values
  PROVE  LET changed == Session!ChangeField(list, s, v, Session!Visible(list))
         IN  Entered(list, changed.list, s, v) /\ changed.seen = Session!Visible(changed.list)
<1> DEFINE p == Session!PlaceOf(list, s)
           n == Len(list)
           changed == Session!ChangeField(list, s, v, Session!Visible(list))
           entry == [sub |-> s, value |-> v]
<1>1. /\ p \in 0..n
      /\ p # 0 => list[p].sub = s
      /\ p = 0 => \A i \in 1..n : list[i].sub # s
  BY PlaceIsFound
<1>2. n \in Nat /\ list \in Seq(Session!Precedence)
  BY LenProperties DEF Lists
<1>3. entry \in Session!Precedence
  BY DEF Session!Precedence
<1>4. CASE p = 0
  <2> DEFINE after == Append(list, entry)
  <2>1. changed.list = after /\ changed.seen = IF list = <<>> THEN v ELSE Session!Visible(list)
    BY <1>4 DEF Session!ChangeField
  <2> HIDE DEF p, entry
  <2>2. /\ after \in Lists /\ Len(after) = n + 1 /\ after # <<>>
        /\ \A i \in 1..n : after[i] = list[i]
        /\ after[n + 1] = entry
    BY <1>2, <1>3, AppendProperties DEF Lists
  <2> HIDE DEF after, changed, n
  <2>3. entry.sub = s /\ entry.value = v
    BY DEF entry
  <2>4. \A i \in 1..(n + 1) : i \in 1..n \/ i = n + 1
    BY <1>2
  <2>5. OneEntryEach(after)
    BY <1>1, <1>2, <1>4, <2>2, <2>3, <2>4 DEF OneEntryEach, n
  <2>6. list # <<>> => after[1] = list[1]
    <3>1. list # <<>> => 1 \in 1..n
      BY <1>2 DEF n
    <3> QED BY <2>2, <3>1
  <2>7. list = <<>> => after[1] = entry
    <3>1. list = <<>> => n = 0
      BY DEF n
    <3> QED BY <2>2, <3>1
  <2>8. \A i \in 1..n : i \in 1..(n + 1)
    BY <1>2
  <2>9. n + 1 \in 1..(n + 1)
    BY <1>2
  <2>10. Len(after) = n + 1 /\ Len(list) = n
    BY <2>2 DEF n
  <2>11. Entered(list, after, s, v)
    BY <1>1, <1>4, <2>2, <2>4, <2>5, <2>6, <2>8, <2>9, <2>10 DEF Entered, entry
  <2>12. changed.seen = Session!Visible(after)
    BY <2>1, <2>2, <2>3, <2>6, <2>7 DEF Session!Visible
  <2>13. Entered(list, changed.list, s, v) /\ changed.seen = Session!Visible(changed.list)
    BY <2>1, <2>11, <2>12
  <2> QED BY <2>13 DEF changed
<1>5. CASE p # 0
  <2> DEFINE after == [list EXCEPT ![p].value = v]
  <2>1. changed.list = after /\ changed.seen = IF p = 1 THEN v ELSE Session!Visible(list)
    BY <1>5 DEF Session!ChangeField
  <2> HIDE DEF p, changed
  <2>2. p \in 1..n /\ list[p].sub = s
    BY <1>1, <1>2, <1>5
  <2>3. [list[p] EXCEPT !.value = v] = entry
    <3>1. list[p] \in Session!Precedence
      BY <1>2, <2>2, ElementOfSeq
    <3> QED BY <2>2, <3>1 DEF Session!Precedence
  <2>4. after = [list EXCEPT ![p] = entry]
    BY <2>3
  <2> HIDE DEF after, entry
  <2>5. /\ after \in Lists /\ Len(after) = n
        /\ \A i \in 1..n : after[i] = IF i = p THEN entry ELSE list[i]
    BY <1>2, <1>3, <2>2, <2>4, ExceptSeq DEF Lists
  <2>6. entry.sub = s /\ entry.value = v
    BY DEF entry
  <2> HIDE DEF n
  <2>7. Len(after) = n /\ Len(list) = n
    BY <2>5 DEF n
  <2>8. \A i \in 1..n : after[i].sub = list[i].sub
    BY <2>2, <2>5, <2>6
  <2>9. OneEntryEach(after)
    BY <2>7, <2>8 DEF OneEntryEach
  <2>10. 1 \in 1..n /\ list # <<>> /\ after # <<>>
    BY <1>2, <2>2, <2>7
  <2>11. \A i \in 1..n : i # p => list[i].sub # s
    BY <2>2, <2>7 DEF OneEntryEach
  <2>12. Entered(list, after, s, v)
    BY <2>2, <2>5, <2>7, <2>8, <2>9, <2>10, <2>11 DEF Entered, entry
  <2>13. changed.seen = Session!Visible(after)
    BY <2>1, <2>5, <2>6, <2>10 DEF Session!Visible
  <2>14. Entered(list, changed.list, s, v) /\ changed.seen = Session!Visible(changed.list)
    BY <2>1, <2>12, <2>13
  <2> QED BY <2>14 DEF changed
<1> QED BY <1>4, <1>5

(* What the merge box keeps of a document, and the client has of it, is    *)
(* what the contexts have published.                                       *)
DocMerged(d) ==
  /\ dataByKey[d] \in Lists /\ OneEntryEach(dataByKey[d])
  /\ \A i \in 1..Len(dataByKey[d]) : dataByKey[d][i].value = published[dataByKey[d][i].sub][d]
  /\ \A s \in Subs : published[s][d] \in Values =>
       \E i \in 1..Len(dataByKey[d]) : dataByKey[d][i].sub = s
  /\ existsIn[d] = {s \in Subs : published[s][d] # Session!NoDoc}
  /\ client[d] = IF existsIn[d] = {} THEN Session!NoDoc ELSE Session!Visible(dataByKey[d])

MergeInv ==
  /\ published \in [Subs -> [Docs -> Value]]
  /\ existsIn \in [Docs -> SUBSET Subs]
  /\ dataByKey \in [Docs -> Lists]
  /\ client \in [Docs -> Value]
  /\ \A d \in Docs : DocMerged(d)

(* Whoever is first in the list stays there as long as it publishes the    *)
(* field.                                                                  *)
HeadKept(d) ==
  \A s \in Subs :
    dataByKey[d] # <<>> /\ dataByKey[d][1].sub = s /\ published'[s][d] \in Values
    => dataByKey'[d] # <<>> /\ dataByKey'[d][1].sub = s

LEMMA NoValues ==
  /\ Session!NoDoc \notin Values /\ Session!NoField \notin Values
  /\ Session!NoDoc # Session!NoField
BY ServicesAssumption DEF ServicesAssumption, Session!SessionAssumption, Session!NoDoc, Session!NoField

(* One subscription publishes v, or NoDoc when it takes the document away. *)
PublishesIn(d, s, v) ==
  /\ published'[s][d] = v
  /\ \A t \in Subs \ {s} : published'[t][d] = published[t][d]
  /\ Entered(dataByKey[d], dataByKey'[d], s, v)
  /\ existsIn'[d] = IF v = Session!NoDoc THEN existsIn[d] \ {s} ELSE existsIn[d] \cup {s}
  /\ client'[d] = IF existsIn'[d] = {} THEN Session!NoDoc ELSE Session!Visible(dataByKey'[d])

LEMMA DocumentMerged ==
  ASSUME NEW d \in Docs, NEW s \in Subs, NEW v \in Value, DocMerged(d), PublishesIn(d, s, v)
  PROVE  DocMerged(d)' /\ HeadKept(d)
<1> DEFINE list == dataByKey[d]
           after == dataByKey'[d]
<1>1. /\ list \in Lists /\ after \in Lists /\ OneEntryEach(after)
      /\ Entered(list, after, s, v)
  BY DEF DocMerged, PublishesIn, Entered
<1>2. \A i \in 1..Len(list) : list[i].sub \in Subs
  BY <1>1, EntriesAreTyped
<1>3. /\ \A i \in 1..Len(list) : list[i].value = published[list[i].sub][d]
      /\ \A t \in Subs : published[t][d] \in Values => \E i \in 1..Len(list) : list[i].sub = t
  BY DEF DocMerged
<1>4. published'[s][d] = v /\ \A t \in Subs \ {s} : published'[t][d] = published[t][d]
  BY DEF PublishesIn
<1> HIDE DEF list, after
<1>5. ASSUME NEW i \in 1..Len(after)
      PROVE  after[i].value = published'[after[i].sub][d]
  <2>1. CASE after[i] = [sub |-> s, value |-> v]
    BY <1>4, <2>1
  <2>2. CASE \E j \in 1..Len(list) : after[i] = list[j] /\ list[j].sub # s
    BY <1>2, <1>3, <1>4, <2>2
  <2> QED BY <1>1, <2>1, <2>2 DEF Entered
<1>6. ASSUME NEW t \in Subs, published'[t][d] \in Values
      PROVE  \E i \in 1..Len(after) : after[i].sub = t
  <2>1. CASE t = s
    <3>1. v \in Values
      BY <1>4, <1>6, <2>1
    <3>2. PICK i \in 1..Len(after) : after[i] = [sub |-> s, value |-> v]
      BY <1>1, <3>1 DEF Entered
    <3> QED BY <2>1, <3>2
  <2>2. CASE t # s
    <3>1. PICK j \in 1..Len(list) : list[j].sub = t
      BY <1>3, <1>4, <1>6, <2>2
    <3>2. PICK i \in 1..Len(after) : after[i] = list[j]
      BY <1>1, <2>2, <3>1 DEF Entered
    <3> QED BY <3>1, <3>2
  <2> QED BY <2>1, <2>2
<1>7. existsIn'[d] = {t \in Subs : published'[t][d] # Session!NoDoc}
  <2>1. existsIn[d] = {t \in Subs : published[t][d] # Session!NoDoc}
    BY DEF DocMerged
  <2>2. existsIn'[d] = IF v = Session!NoDoc THEN existsIn[d] \ {s} ELSE existsIn[d] \cup {s}
    BY DEF PublishesIn
  <2> QED BY <1>4, <2>1, <2>2
<1>8. client'[d] = IF existsIn'[d] = {} THEN Session!NoDoc ELSE Session!Visible(after)
  BY DEF PublishesIn, after
<1>9. DocMerged(d)'
  BY <1>1, <1>5, <1>6, <1>7, <1>8 DEF DocMerged, after
<1>10. HeadKept(d)
  <2>1. ASSUME NEW t \in Subs, list # <<>>, list[1].sub = t, published'[t][d] \in Values
        PROVE  after # <<>> /\ after[1].sub = t
    BY <1>1, <1>4, <2>1 DEF Entered
  <2> QED BY <2>1 DEF HeadKept, list, after
<1> QED BY <1>9, <1>10

LEMMA DocumentUntouched ==
  ASSUME NEW d \in Docs, DocMerged(d), \A t \in Subs : published'[t][d] = published[t][d],
         existsIn'[d] = existsIn[d], dataByKey'[d] = dataByKey[d], client'[d] = client[d]
  PROVE  DocMerged(d)' /\ HeadKept(d)
<1>1. \A i \in 1..Len(dataByKey[d]) : dataByKey[d][i].sub \in Subs
  BY EntriesAreTyped DEF DocMerged
<1>2. DocMerged(d)'
  BY <1>1 DEF DocMerged
<1>3. HeadKept(d)
  BY DEF HeadKept
<1> QED BY <1>2, <1>3

LEMMA VisibleIsValue ==
  ASSUME NEW list \in Lists
  PROVE  /\ Session!Visible(list) \in Session!Field /\ Session!Visible(list) # Session!NoDoc
         /\ Session!Visible(list) = Session!NoField <=> list = <<>>
<1>1. list # <<>> => list[1] \in Session!Precedence
  BY ElementOfSeq, LenProperties DEF Lists
<1> QED BY <1>1, NoValues DEF Session!Visible, Session!Precedence, Session!Field

LEMMA NobodyHolds ==
  ASSUME NEW d \in Docs, DocMerged(d), existsIn[d] = {}
  PROVE  dataByKey[d] = <<>>
<1>1. ASSUME NEW i \in 1..Len(dataByKey[d])
      PROVE  FALSE
  <2>1. dataByKey[d][i].sub \in Subs /\ dataByKey[d][i].value \in Values
    BY EntriesAreTyped DEF DocMerged
  <2>2. published[dataByKey[d][i].sub][d] \in Values
    BY <2>1 DEF DocMerged
  <2> QED BY <2>1, <2>2, NoValues DEF DocMerged
<1>2. dataByKey[d] \in Lists /\ Len(dataByKey[d]) \in Nat
  BY LenProperties DEF DocMerged, Lists
<1> QED BY <1>1, <1>2 DEF Lists

LEMMA SetsMerged ==
  ASSUME MergeInv, NEW s \in Subs, NEW d \in Docs, NEW value \in Session!Field,
         published' = [published EXCEPT ![s][d] = value],
         Session!MergeBoxSets(s, d, value, existsIn[d] \cup {s})
  PROVE  MergeInv' /\ \A e \in Docs : HeadKept(e)
<1> DEFINE list == dataByKey[d]
           shown == IF client[d] = Session!NoDoc THEN Session!NoField ELSE client[d]
           merged == Session!MergeField(list, s, value, shown)
<1>1. DocMerged(d) /\ list \in Lists /\ OneEntryEach(list)
  BY DEF MergeInv, DocMerged
<1>2. shown = Session!Visible(list)
  <2>1. CASE existsIn[d] = {}
    BY <1>1, <2>1, NobodyHolds DEF DocMerged, Session!Visible
  <2>2. CASE existsIn[d] # {}
    BY <1>1, <2>2, VisibleIsValue DEF DocMerged
  <2> QED BY <2>1, <2>2
<1>3. Entered(list, merged.list, s, value) /\ merged.seen = Session!Visible(merged.list)
  <2> HIDE DEF shown, list
  <2>1. CASE value = Session!NoField
    <3>1. merged = Session!ClearField(list, s, Session!Visible(list))
      BY <1>2, <2>1 DEF Session!MergeField
    <3> QED BY <1>1, <2>1, <3>1, FieldCleared, NoValues
  <2>2. CASE value # Session!NoField
    <3>1. value \in Values
      BY <2>2 DEF Session!Field
    <3>2. merged = Session!ChangeField(list, s, value, Session!Visible(list))
      BY <1>2, <2>2 DEF Session!MergeField
    <3> QED BY <1>1, <3>1, <3>2, FieldChanged
  <2> QED BY <2>1, <2>2
<1>4. /\ existsIn' = [existsIn EXCEPT ![d] = existsIn[d] \cup {s}]
      /\ dataByKey' = [dataByKey EXCEPT ![d] = merged.list]
      /\ client' = [client EXCEPT ![d] = merged.seen]
  BY DEF Session!MergeBoxSets
<1> HIDE DEF merged, list, shown
<1>5. merged.list \in Lists
  BY <1>3 DEF Entered
<1>6. merged.seen \in Session!Field
  BY <1>3, <1>5, VisibleIsValue
<1>7. /\ published' \in [Subs -> [Docs -> Value]]
      /\ existsIn' \in [Docs -> SUBSET Subs]
      /\ dataByKey' \in [Docs -> Lists]
      /\ client' \in [Docs -> Value]
  BY <1>4, <1>5, <1>6 DEF MergeInv, Value
<1>8. PublishesIn(d, s, value)
  <2>1. value # Session!NoDoc
    BY NoValues DEF Session!Field
  <2>2. dataByKey'[d] = merged.list /\ existsIn'[d] = existsIn[d] \cup {s} /\ client'[d] = merged.seen
    BY <1>4 DEF MergeInv
  <2>3. published'[s][d] = value /\ \A t \in Subs \ {s} : published'[t][d] = published[t][d]
    BY DEF MergeInv
  <2>4. existsIn'[d] # {}
    BY <2>2
  <2> QED BY <1>3, <2>1, <2>2, <2>3, <2>4 DEF PublishesIn, list
<1>9. DocMerged(d)' /\ HeadKept(d)
  BY <1>1, <1>8, DocumentMerged DEF Value
<1>10. ASSUME NEW e \in Docs, e # d
       PROVE  DocMerged(e)' /\ HeadKept(e)
  <2>1. /\ \A t \in Subs : published'[t][e] = published[t][e]
        /\ existsIn'[e] = existsIn[e] /\ dataByKey'[e] = dataByKey[e] /\ client'[e] = client[e]
    BY <1>4, <1>10 DEF MergeInv
  <2> QED BY <2>1, DocumentUntouched DEF MergeInv
<1>11. \A e \in Docs : DocMerged(e)' /\ HeadKept(e)
  BY <1>9, <1>10
<1> QED BY <1>7, <1>11 DEF MergeInv

LEMMA RemovesMerged ==
  ASSUME MergeInv, NEW s \in Subs, NEW ds \in SUBSET Docs,
         published' \in [Subs -> [Docs -> Value]],
         \A d \in ds : published'[s][d] = Session!NoDoc /\ published[s][d] # Session!NoDoc,
         \A d \in Docs \ ds : published'[s][d] = published[s][d],
         \A t \in Subs \ {s} : published'[t] = published[t],
         Session!MergeBoxRemoves(s, ds)
  PROVE  MergeInv' /\ \A d \in Docs : HeadKept(d)
<1> DEFINE cleared(d) == Session!ClearField(dataByKey[d], s, client[d])
           gone(d) == d \in ds /\ existsIn[d] \subseteq {s}
<1>1. /\ existsIn' = [d \in Docs |-> IF d \in ds THEN existsIn[d] \ {s} ELSE existsIn[d]]
      /\ dataByKey' = [d \in Docs |-> CASE gone(d) -> <<>>
                                        [] d \in ds /\ ~gone(d) -> cleared(d).list
                                        [] OTHER -> dataByKey[d]]
      /\ client' = [d \in Docs |-> CASE gone(d) -> Session!NoDoc
                                     [] d \in ds /\ ~gone(d) -> cleared(d).seen
                                     [] OTHER -> client[d]]
  BY DEF Session!MergeBoxRemoves
<1>2. ASSUME NEW d \in Docs
      PROVE  /\ existsIn'[d] = IF d \in ds THEN existsIn[d] \ {s} ELSE existsIn[d]
             /\ gone(d) => dataByKey'[d] = <<>> /\ client'[d] = Session!NoDoc
             /\ d \in ds /\ ~gone(d) => dataByKey'[d] = cleared(d).list /\ client'[d] = cleared(d).seen
             /\ d \notin ds => dataByKey'[d] = dataByKey[d] /\ client'[d] = client[d]
  <2> HIDE DEF cleared
  <2> QED BY <1>1
<1> HIDE DEF cleared
<1>3. ASSUME NEW d \in Docs
      PROVE  DocMerged(d)' /\ HeadKept(d) /\ dataByKey'[d] \in Lists
             /\ existsIn'[d] \in SUBSET Subs /\ client'[d] \in Value
  <2>1. DocMerged(d) /\ dataByKey[d] \in Lists /\ OneEntryEach(dataByKey[d]) /\ client[d] \in Value
    BY DEF MergeInv, DocMerged
  <2>2. CASE d \notin ds
    <3>1. \A t \in Subs : published'[t][d] = published[t][d]
      BY <2>2
    <3>2. DocMerged(d)' /\ HeadKept(d)
      BY <1>2, <2>1, <2>2, <3>1, DocumentUntouched
    <3> QED BY <1>2, <2>1, <2>2, <3>2 DEF MergeInv
  <2>3. CASE d \in ds
    <3>1. PublishesIn(d, s, Session!NoDoc) /\ dataByKey'[d] \in Lists
      <4>1. published'[s][d] = Session!NoDoc /\ \A t \in Subs \ {s} : published'[t][d] = published[t][d]
        BY <2>3
      <4>2. existsIn'[d] = existsIn[d] \ {s}
        BY <1>2, <2>3
      <4>3. CASE gone(d)
        <5>1. \A i \in 1..Len(dataByKey[d]) : dataByKey[d][i].sub = s
          <6>1. ASSUME NEW i \in 1..Len(dataByKey[d])
                PROVE  dataByKey[d][i].sub \in existsIn[d]
            <7>1. dataByKey[d][i].sub \in Subs /\ dataByKey[d][i].value \in Values
              BY <2>1, EntriesAreTyped
            <7>2. published[dataByKey[d][i].sub][d] \in Values
              BY <2>1, <7>1 DEF DocMerged
            <7> QED BY <2>1, <7>1, <7>2, NoValues DEF DocMerged
          <6> QED BY <4>3, <6>1
        <5>2. <<>> \in Lists /\ Len(<<>>) = 0 /\ OneEntryEach(<<>>)
          BY EmptySeq DEF Lists, OneEntryEach
        <5>3. Len(dataByKey[d]) \in Nat /\ (dataByKey[d] # <<>> => Len(dataByKey[d]) # 0)
          BY <2>1, LenProperties, EmptySeq DEF Lists
        <5>4. Entered(dataByKey[d], <<>>, s, Session!NoDoc)
          BY <5>1, <5>2, <5>3, NoValues DEF Entered
        <5> QED BY <1>2, <4>1, <4>2, <4>3, <5>2, <5>4 DEF PublishesIn
      <4>4. CASE ~gone(d)
        <5>1. existsIn'[d] # {} /\ client[d] = Session!Visible(dataByKey[d])
          BY <2>1, <2>3, <4>2, <4>4 DEF DocMerged
        <5>2. Entered(dataByKey[d], cleared(d).list, s, Session!NoDoc)
              /\ cleared(d).seen = Session!Visible(cleared(d).list)
          BY <2>1, <5>1, FieldCleared, NoValues DEF cleared
        <5>3. dataByKey'[d] = cleared(d).list /\ client'[d] = cleared(d).seen
          BY <1>2, <2>3, <4>4
        <5>4. dataByKey'[d] \in Lists
          BY <5>2, <5>3 DEF Entered
        <5> QED BY <4>1, <4>2, <5>1, <5>2, <5>3, <5>4 DEF PublishesIn
      <4> QED BY <4>3, <4>4
    <3>2. DocMerged(d)' /\ HeadKept(d)
      BY <2>1, <3>1, DocumentMerged DEF Value
    <3>3. client'[d] \in Value
      BY <3>1, VisibleIsValue DEF PublishesIn, Value
    <3>4. existsIn'[d] \in SUBSET Subs
      BY <1>2 DEF MergeInv
    <3> QED BY <3>1, <3>2, <3>3, <3>4
  <2> QED BY <2>2, <2>3
<1>4. existsIn' \in [Docs -> SUBSET Subs] /\ dataByKey' \in [Docs -> Lists] /\ client' \in [Docs -> Value]
  BY <1>1, <1>3, Zenon
<1> QED BY <1>3, <1>4 DEF MergeInv

(* What the client was told of a subscription, while it may still hear     *)
(* more.                                                                   *)
Told(s) == IF isReady[s] THEN <<"ready">> ELSE <<>>
Answers == {<<>>, <<"ready">>, <<"nosub">>, <<"ready", "nosub">>}

ContextTypes ==
  /\ contexts \in SUBSET Subs
  /\ sub \in [Subs -> {"unused", "running", "returned"}]
  /\ stopped \in [Subs -> BOOLEAN] /\ isReady \in [Subs -> BOOLEAN]
  /\ answers \in [Subs -> Answers]

(* A context is known from when its handler starts to when it is stopped;  *)
(* only then it holds documents, and has the end of it still to tell.      *)
ContextOf(s) ==
  /\ s \in contexts <=> sub[s] # "unused" /\ ~stopped[s]
  /\ sub[s] = "unused" => ~stopped[s] /\ ~isReady[s]
  /\ s \in contexts \/ sub[s] = "unused" => answers[s] = Told(s)
  /\ \A d \in Docs : published[s][d] # Session!NoDoc => s \in contexts

ContextInv == ContextTypes /\ \A s \in Subs : ContextOf(s)

(* The documents, before and after a step.                                 *)
DocumentsKept == MergeInv' /\ \A d \in Docs : HeadKept(d)

LEMMA MergeUnchanged ==
  ASSUME MergeInv, published' = published, UNCHANGED Session!mergeBox
  PROVE  DocumentsKept
<1>1. existsIn' = existsIn /\ dataByKey' = dataByKey /\ client' = client
  BY DEF Session!mergeBox
<1>2. \A d \in Docs : DocMerged(d)' /\ HeadKept(d)
  BY <1>1, DocumentUntouched DEF MergeInv
<1> QED BY <1>1, <1>2 DEF MergeInv, DocumentsKept

LEMMA ContextUnchanged ==
  ASSUME NEW s \in Subs, ContextOf(s), s \in contexts' <=> s \in contexts,
         sub'[s] = sub[s] \/ (sub[s] # "unused" /\ sub'[s] # "unused"),
         stopped'[s] = stopped[s], isReady'[s] = isReady[s], answers'[s] = answers[s],
         published'[s] = published[s]
  PROVE  ContextOf(s)'
BY DEF ContextOf, Told

LEMMA HandleSubKeeps ==
  ASSUME MergeInv, ContextInv, NEW s \in Subs, sub[s] = "unused", Session!HandleSub(s)
  PROVE  ContextInv' /\ DocumentsKept
<1>1. /\ contexts' = contexts \cup {s} /\ sub' = [sub EXCEPT ![s] = "running"]
      /\ published' = published /\ stopped' = stopped /\ isReady' = isReady /\ answers' = answers
      /\ UNCHANGED Session!mergeBox
  BY DEF Session!HandleSub
<1>2. DocumentsKept
  BY <1>1, MergeUnchanged
<1>3. ContextTypes'
  BY <1>1 DEF ContextInv, ContextTypes
<1>4. ContextOf(s)'
  BY <1>1 DEF ContextInv, ContextTypes, ContextOf, Told
<1>5. ASSUME NEW t \in Subs, t # s
      PROVE  ContextOf(t)'
  BY <1>1, <1>5, ContextUnchanged DEF ContextInv, ContextTypes
<1> QED BY <1>2, <1>3, <1>4, <1>5 DEF ContextInv

LEMMA ToldOnce ==
  /\ Append(<<>>, "ready") = <<"ready">> /\ Append(<<>>, "nosub") = <<"nosub">>
  /\ Append(<<"ready">>, "nosub") = <<"ready", "nosub">>
BY AppendTwo

LEMMA StopKeeps ==
  ASSUME MergeInv, ContextInv, NEW s \in Subs, Session!StopSubscription(s),
         sub' = sub \/ (sub[s] # "unused" /\ sub' = [sub EXCEPT ![s] = "returned"])
  PROVE  ContextInv' /\ DocumentsKept
<1>1. /\ sub' \in [Subs -> {"unused", "running", "returned"}]
      /\ sub'[s] = sub[s] \/ (sub[s] # "unused" /\ sub'[s] # "unused")
      /\ \A t \in Subs \ {s} : sub'[t] = sub[t]
  BY DEF ContextInv, ContextTypes
<1>2. CASE s \in contexts
  <2>1. /\ contexts' = contexts \ {s} /\ stopped' = [stopped EXCEPT ![s] = TRUE]
        /\ published' = [published EXCEPT ![s] = Session!NothingPublished]
        /\ answers' = [answers EXCEPT ![s] = Append(answers[s], "nosub")] /\ isReady' = isReady
        /\ Session!MergeBoxRemoves(s, Session!Holds(s))
    BY <1>2 DEF Session!StopSubscription, Session!StopContext, Session!Answer
  <2>2. Append(answers[s], "nosub") \in Answers
    <3>1. answers[s] = Told(s)
      BY <1>2 DEF ContextInv, ContextOf
    <3> QED BY <3>1, ToldOnce DEF Told, Answers
  <2>3. ContextTypes'
    BY <1>1, <2>1, <2>2 DEF ContextInv, ContextTypes
  <2>4. \A d \in Docs : published'[s][d] = Session!NoDoc
    BY <2>1 DEF MergeInv, Session!NothingPublished
  <2>5. ContextOf(s)'
    <3>1. s \notin contexts' /\ stopped'[s] /\ sub'[s] # "unused"
      BY <1>1, <1>2, <2>1 DEF ContextInv, ContextTypes, ContextOf
    <3> QED BY <2>4, <3>1 DEF ContextOf
  <2>6. ASSUME NEW t \in Subs, t # s
        PROVE  ContextOf(t)'
    <3>1. /\ stopped'[t] = stopped[t] /\ isReady'[t] = isReady[t] /\ answers'[t] = answers[t]
          /\ published'[t] = published[t] /\ (t \in contexts' <=> t \in contexts) /\ sub'[t] = sub[t]
      BY <1>1, <2>1, <2>6 DEF ContextInv, ContextTypes, MergeInv
    <3> QED BY <3>1, ContextUnchanged DEF ContextInv
  <2>7. DocumentsKept
    <3>1. published' \in [Subs -> [Docs -> Value]]
      BY <2>1 DEF MergeInv, Session!NothingPublished, Value
    <3>2. \A t \in Subs \ {s} : published'[t] = published[t]
      BY <2>1 DEF MergeInv
    <3> QED BY <2>1, <2>4, <3>1, <3>2, RemovesMerged DEF Session!Holds, DocumentsKept
  <2> QED BY <2>3, <2>5, <2>6, <2>7 DEF ContextInv
<1>3. CASE s \notin contexts
  <2>1. /\ contexts' = contexts /\ published' = published /\ stopped' = stopped /\ isReady' = isReady
        /\ answers' = answers /\ UNCHANGED Session!mergeBox
    BY <1>3 DEF Session!StopSubscription, Session!contexts
  <2>2. DocumentsKept
    BY <2>1, MergeUnchanged
  <2>3. ContextTypes'
    BY <1>1, <2>1 DEF ContextInv, ContextTypes
  <2>4. ASSUME NEW t \in Subs
        PROVE  ContextOf(t)'
    <3>1. sub'[t] = sub[t] \/ (sub[t] # "unused" /\ sub'[t] # "unused")
      BY <1>1
    <3> QED BY <2>1, <3>1, ContextUnchanged DEF ContextInv
  <2> QED BY <2>2, <2>3, <2>4 DEF ContextInv
<1> QED BY <1>2, <1>3

LEMMA ReadyKeeps ==
  ASSUME MergeInv, ContextInv, NEW s \in Subs, sub[s] = "running", Session!Ready(s),
         sub' = sub \/ sub' = [sub EXCEPT ![s] = "returned"],
         contexts' = contexts, published' = published, stopped' = stopped,
         UNCHANGED Session!mergeBox
  PROVE  ContextInv' /\ DocumentsKept
<1>1. DocumentsKept
  BY MergeUnchanged
<1>2. /\ sub' \in [Subs -> {"unused", "running", "returned"}] /\ sub'[s] # "unused"
      /\ \A t \in Subs \ {s} : sub'[t] = sub[t]
  BY DEF ContextInv, ContextTypes
<1>3. CASE ~stopped[s] /\ ~isReady[s]
  <2>1. /\ isReady' = [isReady EXCEPT ![s] = TRUE]
        /\ answers' = [answers EXCEPT ![s] = Append(answers[s], "ready")]
    BY <1>3 DEF Session!Ready, Session!Answer
  <2>2. s \in contexts /\ answers[s] = <<>>
    BY <1>3 DEF ContextInv, ContextOf, Told
  <2>3. Append(answers[s], "ready") = <<"ready">> /\ <<"ready">> \in Answers
    BY <2>2, ToldOnce DEF Answers
  <2>4. ContextTypes'
    BY <1>2, <2>1, <2>3 DEF ContextInv, ContextTypes
  <2>5. ContextOf(s)'
    <3>1. isReady'[s] /\ answers'[s] = <<"ready">>
      BY <2>1, <2>3 DEF ContextInv, ContextTypes
    <3> QED BY <1>2, <1>3, <2>2, <3>1 DEF ContextOf, Told
  <2>6. ASSUME NEW t \in Subs, t # s
        PROVE  ContextOf(t)'
    <3>1. isReady'[t] = isReady[t] /\ answers'[t] = answers[t] /\ sub'[t] = sub[t]
      BY <1>2, <2>1, <2>6 DEF ContextInv, ContextTypes
    <3> QED BY <3>1, ContextUnchanged DEF ContextInv
  <2> QED BY <1>1, <2>4, <2>5, <2>6 DEF ContextInv
<1>4. CASE ~(~stopped[s] /\ ~isReady[s])
  <2>1. isReady' = isReady /\ answers' = answers
    BY <1>4 DEF Session!Ready
  <2>2. ContextTypes'
    BY <1>2, <2>1 DEF ContextInv, ContextTypes
  <2>3. ASSUME NEW t \in Subs
        PROVE  ContextOf(t)'
    <3>1. sub'[t] = sub[t] \/ (sub[t] # "unused" /\ sub'[t] # "unused")
      BY <1>2
    <3> QED BY <2>1, <3>1, ContextUnchanged DEF ContextInv
  <2> QED BY <1>1, <2>2, <2>3 DEF ContextInv
<1> QED BY <1>3, <1>4

(* A context publishes something, or takes it away.                        *)
LEMMA ContextPublishes ==
  ASSUME MergeInv, ContextInv, NEW s \in Subs, s \in contexts, NEW d \in Docs, NEW v,
         published' = [published EXCEPT ![s][d] = v],
         UNCHANGED <<sub, contexts, stopped, isReady, answers>>
  PROVE  ContextInv'
<1>1. \A t \in Subs \ {s} : published'[t] = published[t]
  BY DEF MergeInv
<1>2. ContextOf(s)'
  BY DEF ContextInv, ContextOf, Told
<1>3. ASSUME NEW t \in Subs, t # s
      PROVE  ContextOf(t)'
  BY <1>1, <1>3, ContextUnchanged DEF ContextInv
<1> QED BY <1>2, <1>3 DEF ContextInv, ContextTypes

LEMMA PublicationKeeps ==
  ASSUME MergeInv, ContextInv, NEW s \in Subs, NEW d \in Docs,
         \/ \E value \in Session!Field : \/ Session!PublicationAdds(s, d, value)
                                         \/ Session!PublicationChanges(s, d, value)
         \/ Session!PublicationRemoves(s, d)
  PROVE  ContextInv' /\ DocumentsKept
<1>1. s \in contexts
  <2>1. d \in Session!Holds(s) => published[s][d] # Session!NoDoc
    BY DEF Session!Holds
  <2> QED BY <2>1 DEF Session!PublicationAdds, Session!PublicationChanges, Session!PublicationRemoves,
               Session!Publishes, ContextInv, ContextOf
<1>2. ASSUME NEW value \in Session!Field,
             Session!PublicationAdds(s, d, value) \/ Session!PublicationChanges(s, d, value)
      PROVE  ContextInv' /\ DocumentsKept
  <2>1. /\ published' = [published EXCEPT ![s][d] = value]
        /\ UNCHANGED <<sub, contexts, stopped, isReady, answers>>
    BY <1>2 DEF Session!PublicationAdds, Session!PublicationChanges
  <2>2. Session!MergeBoxSets(s, d, value, existsIn[d] \cup {s})
    <3>1. CASE Session!PublicationAdds(s, d, value)
      BY <3>1 DEF Session!PublicationAdds
    <3>2. CASE Session!PublicationChanges(s, d, value)
      <4>1. s \in existsIn[d]
        BY <3>2 DEF Session!PublicationChanges, Session!Holds, MergeInv, DocMerged
      <4>2. existsIn[d] \cup {s} = existsIn[d]
        BY <4>1
      <4> QED BY <3>2, <4>2 DEF Session!PublicationChanges
    <3> QED BY <1>2, <3>1, <3>2
  <2> QED BY <1>1, <2>1, <2>2, SetsMerged, ContextPublishes DEF DocumentsKept
<1>3. CASE Session!PublicationRemoves(s, d)
  <2>1. /\ published' = [published EXCEPT ![s][d] = Session!NoDoc]
        /\ published[s][d] # Session!NoDoc
        /\ UNCHANGED <<sub, contexts, stopped, isReady, answers>>
        /\ Session!MergeBoxRemoves(s, {d})
    BY <1>3 DEF Session!PublicationRemoves, Session!Holds
  <2>2. /\ published' \in [Subs -> [Docs -> Value]]
        /\ published'[s][d] = Session!NoDoc
        /\ \A e \in Docs \ {d} : published'[s][e] = published[s][e]
        /\ \A t \in Subs \ {s} : published'[t] = published[t]
    BY <2>1 DEF MergeInv, Value
  <2>3. DocumentsKept
    BY <2>1, <2>2, RemovesMerged DEF DocumentsKept
  <2> QED BY <1>1, <2>1, <2>3, ContextPublishes
<1> QED BY <1>2, <1>3

(* A message that waits to start a handler is the only one of its id, which*)
(* the client has used and no handler has.                                 *)
Waits(m, used, subs, calls) ==
  /\ m.msg = "sub" => m.id \in used /\ subs[m.id] = "unused"
  /\ m.msg = "method" => m.id \in used /\ calls[m.id] = "unused"

QueueOf(queue, used, subs, calls) ==
  /\ queue \in Seq(Session!Messages)
  /\ \A i \in 1..Len(queue) : Waits(queue[i], used, subs, calls)
  /\ \A i, j \in 1..Len(queue) :
       queue[i].msg = queue[j].msg /\ queue[i].id = queue[j].id /\ queue[i].msg # "unsub" => i = j

Blocking == {c \in Calls : call[c] = "blocking"}

(* One thing at most is to take the next message.                          *)
OneTurn ==
  \/ ~workerRunning /\ immediates = 0 /\ Blocking = {}
  \/ workerRunning /\ immediates = 1 /\ Blocking = {}
  \/ workerRunning /\ immediates = 0 /\ \E c \in Calls : Blocking = {c}

TurnInv == OneTurn /\ (~workerRunning => inQueue = <<>> \/ closed)

TrafficTypes ==
  /\ workerRunning \in BOOLEAN /\ closed \in BOOLEAN
  /\ call \in [Calls -> {"unused", "blocking", "unblocked", "returned"}]
  /\ sent \in SUBSET (Subs \cup Calls)
  /\ unsubscribed \in [Subs -> 0..MaxUnsubs]

QueueInv ==
  /\ \A s \in Subs \ sent : sub[s] = "unused"
  /\ \A c \in Calls \ sent : call[c] = "unused"
  /\ QueueOf(inQueue, sent, sub, call)

SessionInv == MergeInv /\ ContextInv /\ TrafficTypes /\ QueueInv /\ TurnInv

LEMMA MessageTyped ==
  ASSUME NEW m \in Session!Messages
  PROVE  /\ m.msg \in {"sub", "unsub", "method"}
         /\ m.msg \in {"sub", "unsub"} => m.id \in Subs
         /\ m.msg = "method" => m.id \in Calls
BY DEF Session!Messages

LEMMA TailWaits ==
  ASSUME NEW queue, NEW used, NEW subs, NEW calls, NEW subs2, NEW calls2,
         QueueOf(queue, used, subs, calls), queue # <<>>,
         \A s \in Subs : subs2[s] = subs[s] \/ (Head(queue).msg = "sub" /\ Head(queue).id = s),
         \A c \in Calls : calls2[c] = calls[c] \/ (Head(queue).msg = "method" /\ Head(queue).id = c)
  PROVE  /\ Head(queue) \in Session!Messages /\ Waits(Head(queue), used, subs, calls)
         /\ QueueOf(Tail(queue), used, subs2, calls2)
<1> DEFINE n == Len(queue)
<1>1. queue \in Seq(Session!Messages) /\ n \in Nat /\ n # 0
  BY LenProperties, EmptySeq DEF QueueOf
<1>2. /\ Head(queue) \in Session!Messages /\ Tail(queue) \in Seq(Session!Messages)
      /\ Len(Tail(queue)) = n - 1
      /\ \A i \in 1..(n - 1) : Tail(queue)[i] = queue[i + 1]
  BY <1>1, HeadTailProperties
<1>3. Head(queue) = queue[1]
  BY <1>1
<1>4. /\ \A i \in 1..n : Waits(queue[i], used, subs, calls)
      /\ \A i, j \in 1..n :
           queue[i].msg = queue[j].msg /\ queue[i].id = queue[j].id /\ queue[i].msg # "unsub" => i = j
  BY DEF QueueOf
<1> HIDE DEF n
<1>5. 1 \in 1..n /\ \A i \in 1..(n - 1) : i + 1 \in 1..n /\ i + 1 # 1
  BY <1>1
<1>6. ASSUME NEW i \in 1..(n - 1)
      PROVE  Waits(Tail(queue)[i], used, subs2, calls2)
  <2> DEFINE m == queue[i + 1]
  <2>1. m \in Session!Messages /\ Waits(m, used, subs, calls)
    BY <1>1, <1>4, <1>5, ElementOfSeq DEF n
  <2>2. ~(m.msg = Head(queue).msg /\ m.id = Head(queue).id /\ m.msg # "unsub")
    BY <1>3, <1>4, <1>5
  <2> HIDE DEF m
  <2>3. Waits(m, used, subs2, calls2)
    BY <2>1, <2>2, MessageTyped DEF Waits
  <2> QED BY <1>2, <2>3 DEF m
<1>7. ASSUME NEW i \in 1..(n - 1), NEW j \in 1..(n - 1), Tail(queue)[i].msg = Tail(queue)[j].msg,
             Tail(queue)[i].id = Tail(queue)[j].id, Tail(queue)[i].msg # "unsub"
      PROVE  i = j
  <2>1. i + 1 = j + 1
    BY <1>2, <1>4, <1>5, <1>7
  <2> QED BY <1>1, <2>1
<1> QED BY <1>2, <1>3, <1>4, <1>5, <1>6, <1>7 DEF QueueOf

LEMMA AppendWaits ==
  ASSUME NEW queue, NEW used, NEW used2, NEW subs, NEW calls, NEW m \in Session!Messages,
         QueueOf(queue, used, subs, calls), used \subseteq used2, Waits(m, used2, subs, calls),
         m.msg # "unsub" => m.id \notin used
  PROVE  QueueOf(Append(queue, m), used2, subs, calls)
<1> DEFINE n == Len(queue)
           after == Append(queue, m)
<1>1. queue \in Seq(Session!Messages) /\ n \in Nat
  BY LenProperties DEF QueueOf
<1>2. /\ after \in Seq(Session!Messages) /\ Len(after) = n + 1
      /\ \A i \in 1..n : after[i] = queue[i]
      /\ after[n + 1] = m
  BY <1>1, AppendProperties
<1>3. /\ \A i \in 1..n : Waits(queue[i], used, subs, calls)
      /\ \A i, j \in 1..n :
           queue[i].msg = queue[j].msg /\ queue[i].id = queue[j].id /\ queue[i].msg # "unsub" => i = j
      /\ \A i \in 1..n : queue[i] \in Session!Messages
  BY <1>1, ElementOfSeq DEF QueueOf
<1> HIDE DEF n, after
<1>4. \A i \in 1..(n + 1) : i \in 1..n \/ i = n + 1
  BY <1>1
<1>5. \A i \in 1..n : Waits(queue[i], used2, subs, calls)
  BY <1>3 DEF Waits
<1>6. ASSUME NEW i \in 1..n, queue[i].msg = m.msg, queue[i].id = m.id, m.msg # "unsub"
      PROVE  FALSE
  <2>1. queue[i].id \in used
    BY <1>3, <1>6, MessageTyped DEF Waits
  <2> QED BY <1>6, <2>1
<1>7. \A i \in 1..(n + 1) : Waits(after[i], used2, subs, calls)
  BY <1>2, <1>4, <1>5
<1>8. ASSUME NEW i \in 1..(n + 1), NEW j \in 1..(n + 1), after[i].msg = after[j].msg,
             after[i].id = after[j].id, after[i].msg # "unsub"
      PROVE  i = j
  <2>1. CASE i \in 1..n /\ j \in 1..n
    BY <1>2, <1>3, <1>8, <2>1
  <2>2. CASE i \in 1..n /\ j = n + 1
    BY <1>2, <1>6, <1>8, <2>2
  <2>3. CASE i = n + 1 /\ j \in 1..n
    BY <1>2, <1>6, <1>8, <2>3
  <2> QED BY <1>4, <2>1, <2>2, <2>3
<1>9. QueueOf(after, used2, subs, calls)
  BY <1>2, <1>7, <1>8 DEF QueueOf
<1> QED BY <1>9 DEF after

(* Whatever the message, its handler starts or does what it has to, and    *)
(* one thing is to take the next one.                                      *)
LEMMA DispatchKeeps ==
  ASSUME MergeInv, ContextInv, TrafficTypes, NEW m \in Session!Messages,
         Waits(m, sent', sub, call), Blocking = {}, Session!Dispatch(m, 0)
  PROVE  /\ ContextInv' /\ DocumentsKept
         /\ call' \in [Calls -> {"unused", "blocking", "unblocked", "returned"}]
         /\ \A s \in Subs : sub'[s] = sub[s] \/ (m.msg = "sub" /\ m.id = s /\ s \in sent')
         /\ \A c \in Calls : call'[c] = call[c] \/ (m.msg = "method" /\ m.id = c /\ c \in sent')
         /\ \/ immediates' = 1 /\ Blocking' = {}
            \/ immediates' = 0 /\ \E c \in Calls : Blocking' = {c}
<1>1. CASE m.msg = "method"
  <2>1. /\ call' = [call EXCEPT ![m.id] = "blocking"] /\ immediates' = 0 /\ sub' = sub
        /\ UNCHANGED Session!contexts /\ UNCHANGED Session!mergeBox /\ answers' = answers
    BY <1>1 DEF Session!Dispatch
  <2>2. /\ contexts' = contexts /\ published' = published /\ stopped' = stopped /\ isReady' = isReady
    BY <2>1 DEF Session!contexts
  <2>3. DocumentsKept
    BY <2>1, <2>2, MergeUnchanged
  <2>4. ContextInv'
    BY <2>1, <2>2, ContextUnchanged DEF ContextInv, ContextTypes
  <2>5. m.id \in Calls /\ m.id \in sent'
    BY <1>1, MessageTyped DEF Waits
  <2>6. Blocking' = {m.id}
    BY <2>1, <2>5 DEF Blocking, TrafficTypes
  <2> QED BY <1>1, <2>1, <2>3, <2>4, <2>5, <2>6 DEF TrafficTypes
<1>2. CASE m.msg = "sub"
  <2>1. immediates' = 0 + 1 /\ Session!HandleSub(m.id) /\ call' = call
    BY <1>2 DEF Session!Dispatch
  <2>2. m.id \in Subs /\ m.id \in sent' /\ sub[m.id] = "unused"
    BY <1>2, MessageTyped DEF Waits
  <2>3. ContextInv' /\ DocumentsKept
    BY <2>1, <2>2, HandleSubKeeps
  <2>4. \A s \in Subs : s # m.id => sub'[s] = sub[s]
    BY <2>1 DEF Session!HandleSub, ContextInv, ContextTypes
  <2> QED BY <1>2, <2>1, <2>2, <2>3, <2>4 DEF TrafficTypes, Blocking
<1>3. CASE m.msg = "unsub"
  <2>1. immediates' = 0 + 1 /\ Session!StopSubscription(m.id) /\ call' = call /\ sub' = sub
    BY <1>3 DEF Session!Dispatch
  <2>2. m.id \in Subs
    BY <1>3, MessageTyped
  <2>3. ContextInv' /\ DocumentsKept
    BY <2>1, <2>2, StopKeeps
  <2> QED BY <2>1, <2>3 DEF TrafficTypes, Blocking
<1> QED BY <1>1, <1>2, <1>3, MessageTyped

LEMMA ProcessKeeps ==
  ASSUME MergeInv, ContextInv, TrafficTypes, NEW queue, QueueOf(queue, sent', sub, call),
         Blocking = {}, closed' = closed, Session!ProcessNext(queue, 0),
         closed \/ queue = <<>> => queue = inQueue,
         sent' \in SUBSET (Subs \cup Calls), unsubscribed' \in [Subs -> 0..MaxUnsubs],
         \A s \in Subs \ sent' : sub[s] = "unused", \A c \in Calls \ sent' : call[c] = "unused"
  PROVE  SessionInv' /\ \A d \in Docs : HeadKept(d)
<1>1. CASE closed \/ queue = <<>>
  <2>1. /\ workerRunning' = FALSE /\ immediates' = 0 /\ inQueue' = inQueue /\ call' = call /\ sub' = sub
        /\ UNCHANGED Session!contexts /\ UNCHANGED Session!mergeBox /\ answers' = answers
    BY <1>1 DEF Session!ProcessNext
  <2>2. /\ contexts' = contexts /\ published' = published /\ stopped' = stopped /\ isReady' = isReady
    BY <2>1 DEF Session!contexts
  <2>3. DocumentsKept
    BY <2>1, <2>2, MergeUnchanged
  <2>4. ContextInv'
    BY <2>1, <2>2, ContextUnchanged DEF ContextInv, ContextTypes
  <2>5. TrafficTypes'
    BY <2>1 DEF TrafficTypes
  <2>6. QueueInv'
    BY <1>1, <2>1 DEF QueueInv
  <2>7. TurnInv'
    BY <1>1, <2>1 DEF TurnInv, OneTurn, Blocking
  <2> QED BY <2>3, <2>4, <2>5, <2>6, <2>7 DEF SessionInv, DocumentsKept
<1>2. CASE ~(closed \/ queue = <<>>)
  <2> DEFINE m == Head(queue)
  <2>1. workerRunning' = TRUE /\ inQueue' = Tail(queue) /\ Session!Dispatch(m, 0)
    BY <1>2 DEF Session!ProcessNext
  <2>2. m \in Session!Messages /\ Waits(m, sent', sub, call)
    BY <1>2, TailWaits
  <2> HIDE DEF m
  <2>3. /\ ContextInv' /\ DocumentsKept
        /\ call' \in [Calls -> {"unused", "blocking", "unblocked", "returned"}]
        /\ \A s \in Subs : sub'[s] = sub[s] \/ (m.msg = "sub" /\ m.id = s /\ s \in sent')
        /\ \A c \in Calls : call'[c] = call[c] \/ (m.msg = "method" /\ m.id = c /\ c \in sent')
        /\ \/ immediates' = 1 /\ Blocking' = {}
           \/ immediates' = 0 /\ \E c \in Calls : Blocking' = {c}
    BY <2>1, <2>2, DispatchKeeps
  <2>4. QueueOf(Tail(queue), sent', sub', call')
    BY <1>2, <2>3, TailWaits DEF m
  <2>5. TrafficTypes'
    BY <2>1, <2>3 DEF TrafficTypes
  <2>6. QueueInv'
    BY <2>1, <2>3, <2>4 DEF QueueInv
  <2>7. TurnInv'
    BY <2>1, <2>3 DEF TurnInv, OneTurn
  <2> QED BY <2>3, <2>5, <2>6, <2>7 DEF SessionInv, DocumentsKept
<1> QED BY <1>1, <1>2

LEMMA EnqueueKeeps ==
  ASSUME SessionInv, NEW m \in Session!Messages, Session!Enqueue(m),
         sent \subseteq sent', Waits(m, sent', sub, call), m.msg # "unsub" => m.id \notin sent,
         sent' \in SUBSET (Subs \cup Calls), unsubscribed' \in [Subs -> 0..MaxUnsubs]
  PROVE  SessionInv' /\ \A d \in Docs : HeadKept(d)
<1>1. QueueOf(Append(inQueue, m), sent', sub, call)
  BY AppendWaits DEF SessionInv, QueueInv
<1>2. /\ \A s \in Subs \ sent' : sub[s] = "unused"
      /\ \A c \in Calls \ sent' : call[c] = "unused"
  BY DEF SessionInv, QueueInv
<1>3. ~closed /\ closed' = closed
  BY DEF Session!Enqueue
<1>4. CASE workerRunning
  <2>1. /\ inQueue' = Append(inQueue, m) /\ workerRunning' = workerRunning /\ immediates' = immediates
        /\ call' = call /\ sub' = sub
        /\ UNCHANGED Session!contexts /\ UNCHANGED Session!mergeBox /\ answers' = answers
    BY <1>4 DEF Session!Enqueue
  <2>2. /\ contexts' = contexts /\ published' = published /\ stopped' = stopped /\ isReady' = isReady
    BY <2>1 DEF Session!contexts
  <2>3. DocumentsKept
    BY <2>1, <2>2, MergeUnchanged DEF SessionInv
  <2>4. ContextInv'
    BY <2>1, <2>2, ContextUnchanged DEF SessionInv, ContextInv, ContextTypes
  <2>5. TrafficTypes'
    BY <1>3, <2>1 DEF SessionInv, TrafficTypes
  <2>6. QueueInv'
    BY <1>1, <1>2, <2>1 DEF QueueInv
  <2>7. TurnInv'
    BY <1>4, <2>1 DEF SessionInv, TurnInv, OneTurn, Blocking
  <2> QED BY <2>3, <2>4, <2>5, <2>6, <2>7 DEF SessionInv, DocumentsKept
<1>5. CASE ~workerRunning
  <2>1. Session!ProcessNext(Append(inQueue, m), 0) /\ Blocking = {}
    BY <1>5 DEF Session!Enqueue, SessionInv, TurnInv, OneTurn
  <2>2. Append(inQueue, m) # <<>>
    BY AppendProperties DEF SessionInv, QueueInv, QueueOf
  <2> QED BY <1>1, <1>2, <1>3, <2>1, <2>2, ProcessKeeps DEF SessionInv
<1> QED BY <1>4, <1>5

(* What waits goes on waiting while no handler of it starts.               *)
LEMMA QueueKept ==
  ASSUME QueueInv, sent' = sent, inQueue' = inQueue,
         \A s \in Subs : sub[s] = "unused" => sub'[s] = "unused",
         \A c \in Calls : call[c] = "unused" => call'[c] = "unused"
  PROVE  QueueInv'
<1>1. ASSUME NEW i \in 1..Len(inQueue)
      PROVE  Waits(inQueue[i], sent, sub', call')
  <2>1. inQueue[i] \in Session!Messages /\ Waits(inQueue[i], sent, sub, call)
    BY ElementOfSeq DEF QueueInv, QueueOf
  <2> QED BY <2>1, MessageTyped DEF Waits
<1> QED BY <1>1 DEF QueueInv, QueueOf

LEMMA ClientSends ==
  ASSUME Session!SessionAssumption, SessionInv,
         \/ \E s \in Subs : Session!ClientSubscribes(s) \/ Session!ClientUnsubscribes(s)
         \/ \E c \in Calls : Session!ClientCalls(c)
  PROVE  SessionInv' /\ \A d \in Docs : HeadKept(d)
<1>1. ASSUME NEW s \in Subs, Session!ClientSubscribes(s)
      PROVE  SessionInv' /\ \A d \in Docs : HeadKept(d)
  <2> DEFINE m == [msg |-> "sub", id |-> s]
  <2>1. s \notin sent /\ sent' = sent \cup {s} /\ unsubscribed' = unsubscribed /\ Session!Enqueue(m)
    BY <1>1 DEF Session!ClientSubscribes
  <2>2. m \in Session!Messages /\ m.msg = "sub" /\ m.id = s
    BY DEF Session!Messages
  <2> HIDE DEF m
  <2>3. Waits(m, sent', sub, call)
    BY <2>1, <2>2 DEF Waits, SessionInv, QueueInv
  <2> QED BY <2>1, <2>2, <2>3, EnqueueKeeps DEF SessionInv, TrafficTypes
<1>2. ASSUME NEW s \in Subs, Session!ClientUnsubscribes(s)
      PROVE  SessionInv' /\ \A d \in Docs : HeadKept(d)
  <2> DEFINE m == [msg |-> "unsub", id |-> s]
  <2>1. /\ unsubscribed[s] < MaxUnsubs /\ unsubscribed' = [unsubscribed EXCEPT ![s] = unsubscribed[s] + 1]
        /\ sent' = sent /\ Session!Enqueue(m)
    BY <1>2 DEF Session!ClientUnsubscribes
  <2>2. m \in Session!Messages /\ m.msg = "unsub"
    BY DEF Session!Messages
  <2> HIDE DEF m
  <2>3. Waits(m, sent', sub, call)
    BY <2>2 DEF Waits
  <2>4. unsubscribed' \in [Subs -> 0..MaxUnsubs]
    BY <2>1 DEF Session!SessionAssumption, SessionInv, TrafficTypes
  <2> QED BY <2>1, <2>2, <2>3, <2>4, EnqueueKeeps DEF SessionInv, TrafficTypes
<1>3. ASSUME NEW c \in Calls, Session!ClientCalls(c)
      PROVE  SessionInv' /\ \A d \in Docs : HeadKept(d)
  <2> DEFINE m == [msg |-> "method", id |-> c]
  <2>1. c \notin sent /\ sent' = sent \cup {c} /\ unsubscribed' = unsubscribed /\ Session!Enqueue(m)
    BY <1>3 DEF Session!ClientCalls
  <2>2. m \in Session!Messages /\ m.msg = "method" /\ m.id = c
    BY DEF Session!Messages
  <2> HIDE DEF m
  <2>3. Waits(m, sent', sub, call)
    BY <2>1, <2>2 DEF Waits, SessionInv, QueueInv
  <2> QED BY <2>1, <2>2, <2>3, EnqueueKeeps DEF SessionInv, TrafficTypes
<1> QED BY <1>1, <1>2, <1>3

LEMMA ImmediateKeeps ==
  ASSUME SessionInv, Session!ImmediateFires
  PROVE  SessionInv' /\ \A d \in Docs : HeadKept(d)
<1>1. immediates = 1 /\ Blocking = {}
  BY DEF Session!ImmediateFires, SessionInv, TurnInv, OneTurn
<1>2. Session!ProcessNext(inQueue, 0) /\ sent' = sent /\ unsubscribed' = unsubscribed /\ closed' = closed
  BY <1>1 DEF Session!ImmediateFires, Session!traffic
<1>3. QueueOf(inQueue, sent', sub, call)
  BY <1>2 DEF SessionInv, QueueInv
<1>4. /\ \A s \in Subs \ sent' : sub[s] = "unused"
      /\ \A c \in Calls \ sent' : call[c] = "unused"
  BY <1>2 DEF SessionInv, QueueInv
<1>5. sent' \in SUBSET (Subs \cup Calls) /\ unsubscribed' \in [Subs -> 0..MaxUnsubs]
  BY <1>2 DEF SessionInv, TrafficTypes
<1> QED BY <1>1, <1>2, <1>3, <1>4, <1>5, ProcessKeeps DEF SessionInv

LEMMA MethodKeeps ==
  ASSUME SessionInv, NEW c \in Calls, Session!MethodUnblocks(c) \/ Session!MethodReturns(c)
  PROVE  SessionInv' /\ \A d \in Docs : HeadKept(d)
<1>1. PICK life \in {"unblocked", "returned"} : call' = [call EXCEPT ![c] = life]
  BY DEF Session!MethodUnblocks, Session!MethodReturns
<1>2. /\ call[c] \in {"blocking", "unblocked"}
      /\ immediates' = immediates + (IF call[c] = "blocking" THEN 1 ELSE 0)
      /\ inQueue' = inQueue /\ workerRunning' = workerRunning /\ sub' = sub /\ closed' = closed
      /\ answers' = answers
      /\ UNCHANGED Session!traffic /\ UNCHANGED Session!contexts /\ UNCHANGED Session!mergeBox
  BY DEF Session!MethodUnblocks, Session!MethodReturns, Session!Unblocks
<1>3. /\ contexts' = contexts /\ published' = published /\ stopped' = stopped /\ isReady' = isReady
      /\ sent' = sent /\ unsubscribed' = unsubscribed
  BY <1>2 DEF Session!contexts, Session!traffic
<1>4. DocumentsKept
  BY <1>2, <1>3, MergeUnchanged DEF SessionInv
<1>5. ContextInv'
  BY <1>2, <1>3, ContextUnchanged DEF SessionInv, ContextInv, ContextTypes
<1>6. TrafficTypes'
  BY <1>1, <1>2, <1>3 DEF SessionInv, TrafficTypes
<1>7. call'[c] = life /\ \A x \in Calls \ {c} : call'[x] = call[x]
  BY <1>1 DEF SessionInv, TrafficTypes
<1>8. QueueInv'
  <2>1. \A x \in Calls : call[x] = "unused" => call'[x] = "unused"
    BY <1>2, <1>7
  <2> QED BY <1>2, <1>3, <2>1, QueueKept DEF SessionInv
<1>9. TurnInv'
  <2>1. Blocking' = Blocking \ {c}
    BY <1>7 DEF Blocking
  <2>2. call[c] = "blocking" <=> c \in Blocking
    BY DEF Blocking
  <2> QED BY <1>2, <2>1, <2>2 DEF SessionInv, TurnInv, OneTurn
<1> QED BY <1>4, <1>5, <1>6, <1>8, <1>9 DEF SessionInv, DocumentsKept

(* A handler or its observers go on, and nothing of the queue changes.     *)
LEMMA QueueAside ==
  ASSUME SessionInv, UNCHANGED Session!queueVars, UNCHANGED Session!traffic, closed' = closed,
         \A s \in Subs : sub[s] = "unused" => sub'[s] = "unused"
  PROVE  TrafficTypes' /\ QueueInv' /\ TurnInv'
<1>1. /\ inQueue' = inQueue /\ workerRunning' = workerRunning /\ immediates' = immediates /\ call' = call
      /\ sent' = sent /\ unsubscribed' = unsubscribed
  BY DEF Session!queueVars, Session!traffic
<1>2. TrafficTypes' /\ TurnInv'
  BY <1>1 DEF SessionInv, TrafficTypes, TurnInv, OneTurn, Blocking
<1>3. QueueInv'
  BY <1>1, QueueKept DEF SessionInv
<1> QED BY <1>2, <1>3

LEMMA HandlerKeeps ==
  ASSUME SessionInv, NEW s \in Subs, Session!PublicationIsReady(s) \/ Session!HandlerEnds(s)
  PROVE  SessionInv' /\ \A d \in Docs : HeadKept(d)
<1>1. /\ sub[s] = "running" /\ closed' = closed
      /\ UNCHANGED Session!queueVars /\ UNCHANGED Session!traffic
      /\ sub' = sub \/ sub' = [sub EXCEPT ![s] = "returned"]
  BY DEF Session!PublicationIsReady, Session!HandlerEnds, Session!HandlerReturns, Session!HandlerThrows
<1>2. \A t \in Subs : sub[t] = "unused" => sub'[t] = "unused"
  BY <1>1 DEF SessionInv, ContextInv, ContextTypes
<1>3. TrafficTypes' /\ QueueInv' /\ TurnInv'
  BY <1>1, <1>2, QueueAside
<1>4. ContextInv' /\ DocumentsKept
  <2>1. CASE Session!HandlerThrows(s)
    BY <1>1, <2>1, StopKeeps DEF Session!HandlerThrows, SessionInv
  <2>2. CASE Session!PublicationIsReady(s) \/ Session!HandlerReturns(s)
    <3>1. /\ Session!Ready(s) /\ contexts' = contexts /\ published' = published /\ stopped' = stopped
          /\ UNCHANGED Session!mergeBox
      BY <2>2 DEF Session!PublicationIsReady, Session!HandlerReturns
    <3> QED BY <1>1, <3>1, ReadyKeeps DEF SessionInv
  <2> QED BY <2>1, <2>2 DEF Session!HandlerEnds
<1> QED BY <1>3, <1>4 DEF SessionInv, DocumentsKept

LEMMA ObserverOfSessionKeeps ==
  ASSUME SessionInv, NEW s \in Subs, NEW d \in Docs,
         \/ \E value \in Session!Field : \/ Session!PublicationAdds(s, d, value)
                                         \/ Session!PublicationChanges(s, d, value)
         \/ Session!PublicationRemoves(s, d)
  PROVE  SessionInv' /\ \A e \in Docs : HeadKept(e)
<1>1. /\ sub' = sub /\ closed' = closed /\ UNCHANGED Session!queueVars /\ UNCHANGED Session!traffic
  BY DEF Session!PublicationAdds, Session!PublicationChanges, Session!PublicationRemoves
<1>2. TrafficTypes' /\ QueueInv' /\ TurnInv'
  BY <1>1, QueueAside
<1>3. ContextInv' /\ DocumentsKept
  BY PublicationKeeps DEF SessionInv
<1> QED BY <1>2, <1>3 DEF SessionInv, DocumentsKept

(* Nothing is published any more.                                          *)
LEMMA NothingMerged ==
  ASSUME NEW d \in Docs, \A s \in Subs : published[s][d] = Session!NoDoc,
         existsIn[d] = {}, dataByKey[d] = <<>>, client[d] = Session!NoDoc
  PROVE  DocMerged(d)
<1>1. <<>> \in Lists /\ Len(<<>>) = 0 /\ OneEntryEach(<<>>)
  BY EmptySeq DEF Lists, OneEntryEach
<1> QED BY <1>1, NoValues DEF DocMerged

LEMMA CloseKeeps ==
  ASSUME SessionInv, Session!Close
  PROVE  SessionInv' /\ \A d \in Docs : HeadKept(d)
<1>1. /\ closed' = TRUE /\ contexts' = {}
      /\ stopped' = [s \in Subs |-> stopped[s] \/ s \in contexts]
      /\ published' = [s \in Subs |-> Session!NothingPublished]
      /\ existsIn' = [d \in Docs |-> {}] /\ dataByKey' = [d \in Docs |-> <<>>]
      /\ client' = [d \in Docs |-> Session!NoDoc]
      /\ sub' = sub /\ isReady' = isReady /\ answers' = answers
      /\ UNCHANGED Session!queueVars /\ UNCHANGED Session!traffic
  BY DEF Session!Close
<1>2. \A s \in Subs, d \in Docs : published'[s][d] = Session!NoDoc
  BY <1>1 DEF Session!NothingPublished
<1>3. MergeInv'
  <2>1. /\ published' \in [Subs -> [Docs -> Value]] /\ existsIn' \in [Docs -> SUBSET Subs]
        /\ dataByKey' \in [Docs -> Lists] /\ client' \in [Docs -> Value]
    <3>1. <<>> \in Lists
      BY EmptySeq DEF Lists
    <3> QED BY <1>1, <3>1 DEF Session!NothingPublished, Value
  <2>2. ASSUME NEW d \in Docs
        PROVE  DocMerged(d)'
    <3>1. existsIn'[d] = {} /\ dataByKey'[d] = <<>> /\ client'[d] = Session!NoDoc
      BY <1>1
    <3>2. <<>> \in Lists /\ Len(<<>>) = 0 /\ OneEntryEach(<<>>)
      BY EmptySeq DEF Lists, OneEntryEach
    <3> QED BY <1>2, <3>1, <3>2, NoValues DEF DocMerged
  <2> QED BY <2>1, <2>2 DEF MergeInv
<1>4. \A d \in Docs : HeadKept(d)
  BY <1>2, NoValues DEF HeadKept
<1>5. ContextInv'
  <2>1. ContextTypes'
    BY <1>1 DEF SessionInv, ContextInv, ContextTypes
  <2>2. ASSUME NEW s \in Subs
        PROVE  ContextOf(s)'
    <3>1. ContextOf(s) /\ (stopped'[s] <=> stopped[s] \/ s \in contexts) /\ s \notin contexts'
      BY <1>1 DEF SessionInv, ContextInv
    <3> QED BY <1>1, <1>2, <3>1 DEF ContextOf, Told
  <2> QED BY <2>1, <2>2 DEF ContextInv
<1>6. /\ inQueue' = inQueue /\ workerRunning' = workerRunning /\ immediates' = immediates /\ call' = call
      /\ sent' = sent /\ unsubscribed' = unsubscribed
  BY <1>1 DEF Session!queueVars, Session!traffic
<1>7. TrafficTypes' /\ TurnInv'
  BY <1>1, <1>6 DEF SessionInv, TrafficTypes, TurnInv, OneTurn, Blocking
<1>8. QueueInv'
  BY <1>1, <1>6, QueueKept DEF SessionInv
<1> QED BY <1>3, <1>4, <1>5, <1>7, <1>8 DEF SessionInv

LEMMA SessionStarts ==
  ASSUME Session!SessionAssumption, Session!Init
  PROVE  SessionInv
<1>1. \A s \in Subs, d \in Docs : published[s][d] = Session!NoDoc
  BY DEF Session!Init, Session!NothingPublished
<1>2. MergeInv
  <2>1. <<>> \in Lists
    BY EmptySeq DEF Lists
  <2>2. /\ published \in [Subs -> [Docs -> Value]] /\ existsIn \in [Docs -> SUBSET Subs]
        /\ dataByKey \in [Docs -> Lists] /\ client \in [Docs -> Value]
    BY <2>1 DEF Session!Init, Session!NothingPublished, Value
  <2>3. \A d \in Docs : DocMerged(d)
    BY <1>1, NothingMerged DEF Session!Init
  <2> QED BY <2>2, <2>3 DEF MergeInv
<1>3. ContextInv
  <2>1. ContextTypes
    BY DEF Session!Init, ContextTypes, Answers
  <2>2. \A s \in Subs : ContextOf(s)
    BY <1>1 DEF Session!Init, ContextOf, Told
  <2> QED BY <2>1, <2>2 DEF ContextInv
<1>4. TrafficTypes
  <2>1. 0 \in 0..MaxUnsubs
    BY DEF Session!SessionAssumption
  <2> QED BY <2>1 DEF Session!Init, TrafficTypes
<1>5. QueueInv
  <2>1. inQueue \in Seq(Session!Messages) /\ Len(inQueue) = 0
    BY EmptySeq DEF Session!Init
  <2>2. QueueOf(inQueue, sent, sub, call)
    BY <2>1 DEF QueueOf
  <2> QED BY <2>2 DEF Session!Init, QueueInv
<1>6. TurnInv
  BY DEF Session!Init, TurnInv, OneTurn, Blocking
<1> QED BY <1>2, <1>3, <1>4, <1>5, <1>6 DEF SessionInv

LEMMA SessionKeeps ==
  ASSUME SessionInv, Session!Next
  PROVE  SessionInv' /\ \A d \in Docs : HeadKept(d)
<1>1. Session!SessionAssumption
  BY ServicesAssumption DEF ServicesAssumption
<1>2. CASE \/ \E s \in Subs : Session!ClientSubscribes(s) \/ Session!ClientUnsubscribes(s)
           \/ \E c \in Calls : Session!ClientCalls(c)
  BY <1>1, <1>2, ClientSends
<1>3. CASE \E c \in Calls : Session!MethodUnblocks(c) \/ Session!MethodReturns(c)
  BY <1>3, MethodKeeps
<1>4. CASE \E s \in Subs : Session!PublicationIsReady(s) \/ Session!HandlerEnds(s)
  BY <1>4, HandlerKeeps
<1>5. CASE \E s \in Subs, d \in Docs :
             \/ \E value \in Session!Field : \/ Session!PublicationAdds(s, d, value)
                                             \/ Session!PublicationChanges(s, d, value)
             \/ Session!PublicationRemoves(s, d)
  BY <1>5, ObserverOfSessionKeeps
<1> QED BY <1>2, <1>3, <1>4, <1>5, ImmediateKeeps, CloseKeeps DEF Session!Next

LEMMA SessionInvariant == Spec => []SessionInv
<1>1. Init => SessionInv
  BY ServicesAssumption, SessionStarts DEF ServicesAssumption, Init
<1>2. SessionInv /\ [Next]_vars => SessionInv'
  <2>1. ASSUME SessionInv, UNCHANGED sessionVars
        PROVE  SessionInv'
    BY <2>1 DEF sessionVars, SessionInv, MergeInv, DocMerged, ContextInv, ContextTypes, ContextOf, Told,
                TrafficTypes, QueueInv, TurnInv, OneTurn, Blocking
  <2>2. [Next]_vars => Session!Next \/ UNCHANGED sessionVars
    BY DEF Next, vars
  <2> QED BY <2>1, <2>2, SessionKeeps
<1> QED BY <1>1, <1>2, PTL DEF Spec

(* Whoever joins, leaves, fails, is stopped or changes a document, and in  *)
(* whatever order: the client has a document exactly when a subscription   *)
(* of it publishes it, with a value one of them published.                 *)
THEOREM ClientHasTheMerge == Spec => []ClientSeesMerge
<1>1. ASSUME SessionInv
      PROVE  Session!TypeOK
  <2>1. \A k \in 1..Len(inQueue) : inQueue[k] \in Session!Messages
    BY <1>1, ElementOfSeq DEF SessionInv, QueueInv, QueueOf
  <2>2. \A d \in Docs : \A k \in 1..Len(dataByKey[d]) : dataByKey[d][k] \in Session!Precedence
    BY <1>1, ElementOfSeq DEF SessionInv, MergeInv, Lists
  <2>3. \A s \in Subs : answers[s] \in Seq({"ready", "nosub"})
    <3>1. Answers \subseteq Seq({"ready", "nosub"})
      BY DEF Answers
    <3> QED BY <1>1, <3>1 DEF SessionInv, ContextInv, ContextTypes
  <2>4. immediates \in Nat
    BY <1>1 DEF SessionInv, TurnInv, OneTurn
  <2>5. {workerRunning, closed} \subseteq BOOLEAN
    BY <1>1 DEF SessionInv, TrafficTypes
  <2> QED BY <1>1, <2>1, <2>2, <2>3, <2>4, <2>5
         DEF Session!TypeOK, SessionInv, TrafficTypes, ContextInv, ContextTypes, MergeInv, Value
<1>2. ASSUME SessionInv, NEW d \in Docs
      PROVE  /\ client[d] = Session!NoDoc <=> Session!Holders(d) = {}
             /\ client[d] = Session!NoField <=> Session!Holders(d) # {} /\ Session!ValuesPublished(d) = {}
             /\ client[d] \in Values => client[d] \in Session!ValuesPublished(d)
  <2> DEFINE list == dataByKey[d]
  <2>1. DocMerged(d) /\ list \in Lists
    BY <1>2 DEF SessionInv, MergeInv, DocMerged
  <2>2. Session!Holders(d) = existsIn[d]
    <3>1. \A s \in Subs : published[s][d] # Session!NoDoc => s \in contexts
      BY <1>2 DEF SessionInv, ContextInv, ContextOf
    <3>2. contexts \subseteq Subs
      BY <1>2 DEF SessionInv, ContextInv, ContextTypes
    <3> QED BY <2>1, <3>1, <3>2 DEF Session!Holders, DocMerged
  <2>3. /\ Session!Visible(list) # Session!NoDoc
        /\ Session!Visible(list) = Session!NoField <=> list = <<>>
    BY <2>1, VisibleIsValue
  <2>4. list # <<>> => Session!Visible(list) \in Session!ValuesPublished(d)
    <3>1. ASSUME list # <<>>
          PROVE  1 \in 1..Len(list)
      <4>1. list \in Seq(Session!Precedence)
        BY <2>1 DEF Lists
      <4>2. Len(list) \in Nat /\ Len(list) # 0
        <5> HIDE DEF list
        <5> QED BY <3>1, <4>1, LenProperties, EmptySeq
      <4> QED BY <4>2
    <3>2. ASSUME list # <<>>
          PROVE  list[1].sub \in existsIn[d] /\ list[1].value = published[list[1].sub][d]
                 /\ list[1].value \in Values
      <4>1. list[1].sub \in Subs /\ list[1].value \in Values
        BY <2>1, <3>1, <3>2, EntriesAreTyped
      <4>2. list[1].value = published[list[1].sub][d]
        BY <2>1, <3>1, <3>2 DEF DocMerged
      <4> QED BY <2>1, <4>1, <4>2, NoValues DEF DocMerged
    <3> QED BY <2>2, <3>2, NoValues DEF Session!ValuesPublished, Session!Visible
  <2>5. ASSUME list = <<>>
        PROVE  Session!ValuesPublished(d) = {}
    <3>1. \A s \in Subs : published[s][d] \notin Values
      BY <2>1, <2>5, EmptySeq DEF DocMerged
    <3>2. \A s \in Session!Holders(d) : s \in Subs /\ published[s][d] = Session!NoField
      BY <1>2, <2>1, <2>2, <3>1 DEF DocMerged, SessionInv, MergeInv, Value, Session!Field
    <3> QED BY <3>2 DEF Session!ValuesPublished
  <2>6. client[d] = IF existsIn[d] = {} THEN Session!NoDoc ELSE Session!Visible(list)
    BY <2>1 DEF DocMerged
  <2>7. existsIn[d] = {} => list = <<>>
    BY <2>1, NobodyHolds
  <2> HIDE DEF list
  <2>8. Session!Visible(list) \in Values => list # <<>>
    BY <2>3, NoValues
  <2> QED BY <2>2, <2>3, <2>4, <2>5, <2>6, <2>7, <2>8, NoValues
<1>3. SessionInv => ClientSeesMerge
  BY <1>1, <1>2 DEF ClientSeesMerge, Session!ClientSeesMerge
<1> QED BY <1>3, SessionInvariant, PTL

(* Nobody's joining, changing, leaving or failing takes the value of the   *)
(* subscription that published the field first away from the client.       *)
THEOREM FirstPublisherIsSeen == Spec => PrecedenceKept
<1> DEFINE Kept == \A d \in Docs : \A s \in contexts \cap contexts' :
                     /\ dataByKey[d] # <<>> /\ Head(dataByKey[d]).sub = s
                     /\ published'[s][d] \in Values
                     => client'[d] = published'[s][d]
<1>1. ASSUME SessionInv, SessionInv', Session!Next
      PROVE  Kept
  <2>1. SUFFICES ASSUME NEW d \in Docs, NEW s \in contexts \cap contexts', dataByKey[d] # <<>>,
                        Head(dataByKey[d]).sub = s, published'[s][d] \in Values
                 PROVE  client'[d] = published'[s][d]
    OBVIOUS
  <2>2. s \in Subs /\ HeadKept(d) /\ DocMerged(d) /\ DocMerged(d)'
    BY <1>1, SessionKeeps DEF SessionInv, ContextInv, ContextTypes, MergeInv
  <2>3. Head(dataByKey[d]) = dataByKey[d][1]
    <3>1. dataByKey[d] \in Seq(Session!Precedence)
      BY <2>2 DEF DocMerged, Lists
    <3> QED BY <2>1, <3>1
  <2> DEFINE after == dataByKey'[d]
  <2>4. after # <<>> /\ after[1].sub = s
    BY <2>1, <2>2, <2>3 DEF HeadKept
  <2>5. 1 \in 1..Len(after)
    <3>1. after \in Seq(Session!Precedence)
      BY <2>2 DEF DocMerged, Lists
    <3>2. Len(after) \in Nat /\ Len(after) # 0
      <4> HIDE DEF after
      <4> QED BY <2>4, <3>1, LenProperties, EmptySeq
    <3> QED BY <3>2
  <2>6. after[1].value = published'[s][d]
    BY <2>2, <2>4, <2>5 DEF DocMerged
  <2>7. s \in existsIn'[d]
    BY <2>1, <2>2, NoValues DEF DocMerged
  <2>8. client'[d] = Session!Visible(after)
    BY <2>2, <2>7 DEF DocMerged
  <2> QED BY <2>4, <2>6, <2>8 DEF Session!Visible
<1>2. SessionInv /\ SessionInv' /\ [Next]_vars => [Kept]_(Session!vars)
  <2>1. [Next]_vars => Session!Next \/ UNCHANGED sessionVars
    BY DEF Next, vars
  <2>2. UNCHANGED sessionVars => UNCHANGED Session!vars
    BY DEF sessionVars, Session!vars, Session!queueVars, Session!traffic, Session!contexts, Session!mergeBox
  <2> HIDE DEF Kept
  <2> QED BY <1>1, <2>1, <2>2
<1>3. Spec => [][Kept]_(Session!vars)
  <2> HIDE DEF Kept
  <2> QED BY <1>2, SessionInvariant, PTL DEF Spec
<1> QED BY <1>3 DEF PrecedenceKept, Session!PrecedenceKept

LEMMA SessionCardinality ==
  \A S : Session!Cardinality(S) = Cardinality(S)
BY DEF Session!Cardinality, Cardinality

(* However methods block, return and fail, and in whatever order messages  *)
(* arrive: a message waits only while exactly one thing is to take it, and *)
(* a client hears of a subscription that it is ready before it hears that  *)
(* it has ended, each at most once.                                        *)
THEOREM OneMessageAtATime == Spec => []MessagesInTurn
<1>1. ASSUME SessionInv
      PROVE  Session!OneProcessor
  <2>1. Cardinality({}) = 0 /\ \A c : Cardinality({c}) = 1
    BY FS_EmptySet, FS_Singleton
  <2>2. Session!Cardinality(Blocking) = IF Blocking = {} THEN 0 ELSE 1
    BY <1>1, <2>1, SessionCardinality DEF SessionInv, TurnInv, OneTurn
  <2>3. immediates + Session!Cardinality(Blocking) = IF workerRunning THEN 1 ELSE 0
    BY <1>1, <2>2 DEF SessionInv, TurnInv, OneTurn
  <2> QED BY <1>1, <2>3 DEF Session!OneProcessor, Blocking, SessionInv, TurnInv
<1>2. SessionInv => Session!AnsweredInOrder
  BY DEF SessionInv, ContextInv, ContextTypes, Answers, Session!AnsweredInOrder
<1> QED BY <1>1, <1>2, SessionInvariant, PTL DEF MessagesInTurn
=============================================================================
