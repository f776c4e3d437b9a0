------------------------------- MODULE CoreServices -------------------------------
(***************************************************************************)
(* Five components between the database of Core and its clients and        *)
(* devices.  They share no state and are checked apart: each behaviour is  *)
(* one of the component `focus'.                                           *)
(***************************************************************************)
EXTENDS Naturals, FiniteSets

CONSTANTS
  Checks, MaxRestarts, MaxStartFailures,                 \* of ObserverGroup
  Subscribers, MaxWrappers, MaxChanges, MaxFailures,     \* of OptimizedObserver
  Subs, Calls, Docs, Values, MaxUnsubs,                  \* of DdpSession
  AutoSubs, MaxSockets, MaxBreaks,                       \* of DdpClient
  MaxCommandFaults                                       \* of PeripheralCommand

VARIABLES
  focus,
  running, pendingStop, pendingRestart, checkRunning, handles, checkTimer, check, captured,
  live, started, owner, restarts, startFailures, overrun,
  source, registered, wrapper, timer, seen, overlapped, failures,
  inQueue, workerRunning, immediates, call, sub, sent, unsubscribed, contexts,
  published, stopped, isReady, existsIn, dataByKey, client, answers, closed,
  wire, greeted, asked, session, current, isConnecting, connected, monitor,
  promise, autoSubscriptions, refused, breaks,
  caller, observer, timeoutCheck, replyChecking, pending, found, events, removing,
  elapsed, early, doc, seenByGateway, executed, work, runs, gatewayRestarts, failedCheck,
  failedRemoval, commandFaults

Group == INSTANCE ObserverGroup WITH
  MaxFailures <- MaxStartFailures, timer <- checkTimer, failures <- startFailures
Observer == INSTANCE OptimizedObserver
Session == INSTANCE DdpSession WITH subscriptions <- contexts
Client == INSTANCE DdpClient WITH Subs <- AutoSubs
Command == INSTANCE PeripheralCommand WITH
  MaxFaults <- MaxCommandFaults, running <- replyChecking, seen <- seenByGateway,
  restarts <- gatewayRestarts, faults <- commandFaults

ASSUME ServicesAssumption ==
  /\ Group!GroupAssumption /\ Observer!ObserverAssumption
  /\ Session!SessionAssumption /\ Client!ClientAssumption
  /\ Command!CommandAssumption

groupVars ==
  <<running, pendingStop, pendingRestart, checkRunning, handles, checkTimer, check, captured,
    live, started, owner, restarts, startFailures, overrun>>
observerVars == <<source, registered, wrapper, timer, seen, overlapped, failures>>
sessionVars ==
  <<inQueue, workerRunning, immediates, call, sub, sent, unsubscribed, contexts,
    published, stopped, isReady, existsIn, dataByKey, client, answers, closed>>
clientVars ==
  <<wire, greeted, asked, session, current, isConnecting, connected, monitor,
    promise, autoSubscriptions, refused, breaks>>
commandVars ==
  <<caller, observer, timeoutCheck, replyChecking, pending, found, events, removing,
    elapsed, early, doc, seenByGateway, executed, work, runs, gatewayRestarts, failedCheck,
    failedRemoval, commandFaults>>
vars ==
  <<focus, groupVars, observerVars, sessionVars, clientVars, commandVars>>

Init ==
  /\ focus \in {"group", "observer", "session", "client", "command"}
  /\ Group!Init /\ Observer!Init /\ Session!Init /\ Client!Init /\ Command!Init

Next ==
  \/ /\ focus = "group" /\ Group!Next
     /\ UNCHANGED <<focus, observerVars, sessionVars, clientVars, commandVars>>
  \/ /\ focus = "observer" /\ Observer!Next
     /\ UNCHANGED <<focus, groupVars, sessionVars, clientVars, commandVars>>
  \/ /\ focus = "session" /\ Session!Next
     /\ UNCHANGED <<focus, groupVars, observerVars, clientVars, commandVars>>
  \/ /\ focus = "client" /\ Client!Next
     /\ UNCHANGED <<focus, groupVars, observerVars, sessionVars, commandVars>>
  \/ /\ focus = "command" /\ Command!Next
     /\ UNCHANGED <<focus, groupVars, observerVars, sessionVars, clientVars>>

(* The fairness of each component, where it has the focus.                 *)
GroupFairness ==
  /\ WF_groupVars(focus = "group" /\ \E c \in Checks : Group!TimerFires(c))
  /\ \A c \in Checks : WF_groupVars(focus = "group" /\ Group!Proceed(c))
ObserverFairness ==
  /\ WF_observerVars(focus = "observer" /\ Observer!TimerFires)
  /\ \A w \in 1..MaxWrappers : WF_observerVars(focus = "observer" /\ Observer!WorkerStep(w))
SessionFairness ==
  /\ WF_sessionVars(focus = "session" /\ Session!ImmediateFires)
  /\ \A c \in Calls : WF_sessionVars(focus = "session" /\ Session!MethodReturns(c))
  /\ \A s \in Subs : WF_sessionVars(focus = "session" /\ Session!HandlerEnds(s))
ClientFairness ==
  /\ WF_clientVars(focus = "client" /\ Client!MonitorTick)
  /\ \A k \in 1..MaxSockets :
       /\ WF_clientVars(focus = "client" /\ Client!SocketOpens(k))
       /\ WF_clientVars(focus = "client" /\ Client!Connected(k))
       /\ WF_clientVars(focus = "client" /\ Client!SocketCloses(k))
       /\ \A s \in AutoSubs :
            WF_clientVars(focus = "client" /\ Client!SubscriptionAnswered(k, s))
CommandFairness ==
  /\ WF_commandVars(focus = "command" /\ Command!CallStep)
  /\ WF_commandVars(focus = "command" /\ Command!TimePasses)
  /\ WF_commandVars(focus = "command" /\ Command!TimerFires)
  /\ WF_commandVars(focus = "command" /\ Command!CheckStep)
  /\ WF_commandVars(focus = "command" /\ Command!DocumentChanged)
  /\ WF_commandVars(focus = "command" /\ Command!Removed)

Spec ==
  /\ Init /\ [][Next]_vars
  /\ GroupFairness /\ ObserverFairness /\ SessionFairness /\ ClientFairness
  /\ CommandFairness

-----------------------------------------------------------------------------
(* Each variable has its type, in every component: part of the component's *)
(* first property below.                                                   *)

(* ReactiveMongoObserverGroup: no observers run unknown to the group, none *)
(* at all once stop has returned, a restart or a stop that is asked for    *)
(* during a check is not left lying.                                       *)
GroupServed == Group!TypeOK /\ Group!NoneLeftRunning /\ Group!RequestsServed

(* setUpOptimizedObserver: all subscribers share one worker, as long as no *)
(* one subscribes while the last one is being stopped, and see what it     *)
(* computed last.                                                          *)
SharesWorker == Observer!TypeOK /\ Observer!SharesWorker

(* Who subscribes gets a first answer and, once the sources are at rest,   *)
(* has the documents as they are.                                          *)
AllSeeLatest == Observer!AllSeeLatest /\ Observer!EveryoneServed

(* DdpSession: the client has a document exactly when a subscription of it *)
(* publishes it, with a value one of them published.                       *)
ClientSeesMerge == Session!TypeOK /\ Session!ClientSeesMerge

(* No subscription's joining or changing takes the value of the one that   *)
(* published the field first away from the client.                         *)
PrecedenceKept == Session!PrecedenceKept

(* A message waits only while one thing is to take it, and never two; a    *)
(* subscription is ready before it ends, each at most once.                *)
MessagesInTurn == Session!OneProcessor /\ Session!AnsweredInOrder

(* Every subscription and method call is answered, and whoever stops a     *)
(* group of observers is told when it has stopped.                         *)
EverythingAnswered == Session!EverythingAnswered /\ Group!StopReturns

(* CoreConnection: a client that believes to be connected has asked for its*)
(* automatic subscriptions on the socket it has; and unless it connects for*)
(* ever, it comes to be connected, with all of them in its session.        *)
SubscriptionsRenewed == []Client!TypeOK /\ Client!SubscriptionsRenewed

(* executePeripheralDeviceFunction: a gateway runs a command once, unless  *)
(* it was restarted.                                                       *)
RunOnce == Command!TypeOK /\ Command!RunOnce

(* The caller of a command gets an outcome, and no timer, no observer and  *)
(* no command is left behind; but for the failures that Command names.     *)
CallSettles == focus = "command" => Command!CallSettles
=============================================================================
