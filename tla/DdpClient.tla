--------------------------------- MODULE DdpClient ---------------------------------
(***************************************************************************)
(* A gateway's connection to Sofie Core: connecting, reconnecting, and the *)
(* subscriptions that are to be made again on every new connection         *)
(* (packages/server-core-integration/src/lib: ddpClient.ts,                *)
(* ddpConnector.ts, subscriptions.ts, and their use in coreConnection.ts). *)
(*                                                                         *)
(* A socket that was given up goes on to deliver its events: messages that *)
(* were on their way, and its close.  (One that was given up while it was  *)
(* connecting: an error and its close, at once.)  The handlers do not tell *)
(* sockets apart.  The server is here what a session of it has of          *)
(* subscriptions (module DdpSession).                                      *)
(***************************************************************************)
EXTENDS Naturals, FiniteSets

CONSTANTS
  Subs,        \* calls of autoSubscribe, each with its subscription id
  MaxSockets,  \* sockets that may have events to come at one time (bound)
  MaxBreaks    \* how often connections break, or cannot be made (bound)

ClientAssumption == MaxSockets \in Nat \ {0} /\ MaxBreaks \in Nat

VARIABLES
  wire,          \* each socket, as the client's end knows it
  greeted,       \* the sockets on which `connected' was received
  asked,         \* subscriptions that were sent on each socket and not answered
  session,       \* subscriptions that the server's session of each socket has
  current,       \* DDPClient.socket
  isConnecting,  \* DDPClient.isConnecting
  connected,     \* DDPConnector._connected
  monitor,       \* whether _monitorDDPConnectionInterval is set
  promise,       \* what became of each call of autoSubscribe
  autoSubscriptions,
  refused,       \* the subscriptions that the server refused
  breaks         \* breaks so far (bounds the model)

sockets == <<wire, greeted, asked, session>>
connector == <<current, isConnecting, connected, monitor>>
subscriptions == <<promise, autoSubscriptions, refused>>
vars == <<sockets, connector, subscriptions, breaks>>

Sockets == 1..MaxSockets

(***************************************************************************)
(* none      all its events have been delivered, or it is not used         *)
(* closing   closed by the client, and may still deliver messages          *)
(* closed    closed by the server or the network                           *)
(***************************************************************************)
TypeOK ==
  /\ wire \in [Sockets -> {"none", "connecting", "open", "closing", "closed"}]
  /\ greeted \subseteq Sockets
  /\ asked \in [Sockets -> SUBSET Subs] /\ session \in [Sockets -> SUBSET Subs]
  /\ current \in Sockets
  /\ {isConnecting, connected, monitor} \subseteq BOOLEAN
  /\ promise \in [Subs -> {"unused", "waiting", "resolved", "rejected"}]
  /\ autoSubscriptions \subseteq Subs /\ refused \subseteq Subs
  /\ breaks \in 0..MaxBreaks

(* CoreConnection.init has connected for the first time.                   *)
Init ==
  /\ wire = [k \in Sockets |-> IF k = 1 THEN "open" ELSE "none"] /\ greeted = {1}
  /\ asked = [k \in Sockets |-> {}] /\ session = [k \in Sockets |-> {}]
  /\ current = 1 /\ isConnecting = FALSE /\ connected = TRUE /\ monitor = TRUE
  /\ promise = [s \in Subs |-> "unused"] /\ autoSubscriptions = {} /\ refused = {}
  /\ breaks = 0

-----------------------------------------------------------------------------
(***************************************************************************)
(* Connecting.                                                             *)
(***************************************************************************)
(* createClient: the old socket is closed, and a new one is made.  The     *)
(* error of one that was connecting passes for that of the new one.        *)
Reconnect(k) ==
  /\ wire[k] = "none"
  /\ wire' = [wire EXCEPT
       ![current] = CASE @ = "connecting" -> "none" [] @ = "open" -> "closing" [] OTHER -> @,
       ![k] = "connecting"]
  /\ greeted' = greeted \ {k}
  /\ asked' = [asked EXCEPT ![k] = {}] /\ session' = [session EXCEPT ![k] = {}]
  /\ current' = k /\ isConnecting' = (wire[current] # "connecting")

(* The interval goes on until the connection is made, or made anew.        *)
MonitorTick ==
  /\ monitor
  /\ IF connected
     THEN monitor' = FALSE /\ UNCHANGED <<sockets, current, isConnecting>>
     ELSE (\E k \in Sockets : Reconnect(k)) /\ UNCHANGED monitor
  /\ UNCHANGED <<connected, subscriptions, breaks>>

(* The client sends its `connect' at once.                                 *)
SocketOpens(k) ==
  /\ wire[k] = "connecting"
  /\ wire' = [wire EXCEPT ![k] = "open"]
  /\ UNCHANGED <<greeted, asked, session, connector, subscriptions, breaks>>

(* A send throws while the current socket connects, and comes to nothing   *)
(* when it is closed.                                                      *)
RenewAutoSubscriptions ==
  asked' = IF wire[current] = "open"
           THEN [asked EXCEPT ![current] = @ \cup autoSubscriptions] ELSE asked

(* `connected' is received: renewed is what was not connected before.      *)
Connected(k) ==
  /\ wire[k] \in {"open", "closing"} /\ k \notin greeted
  /\ greeted' = greeted \cup {k}
  /\ isConnecting' = FALSE /\ connected' = TRUE
  /\ IF connected THEN UNCHANGED asked ELSE RenewAutoSubscriptions
  /\ UNCHANGED <<wire, session, current, monitor, subscriptions, breaks>>

(* Mutant: the close of a socket that was given up is of no interest.      *)
Disconnected_Current(k) ==
  /\ wire' = [wire EXCEPT ![k] = "none"]
  /\ connected' = (connected /\ k # current)
  /\ monitor' = (monitor \/ (connected /\ k = current))

(* _onclientConnectionChange(false), whichever socket it was.              *)
Disconnected(k) ==
  /\ wire' = [wire EXCEPT ![k] = "none"]
  /\ connected' = FALSE
  /\ monitor' = (monitor \/ connected)

SocketCloses(k) ==
  /\ wire[k] \in {"closing", "closed"}
  /\ Disconnected(k)
  /\ UNCHANGED <<greeted, asked, session, current, isConnecting, subscriptions, breaks>>

(* An error, and then the close.                                           *)
SocketRefused(k) ==
  /\ wire[k] = "connecting" /\ breaks < MaxBreaks
  /\ breaks' = breaks + 1
  /\ wire' = [wire EXCEPT ![k] = "none"]
  /\ isConnecting' = FALSE /\ connected' = FALSE /\ monitor' = TRUE
  /\ UNCHANGED <<greeted, asked, session, current, subscriptions>>

SocketBreaks(k) ==
  /\ wire[k] = "open" /\ breaks < MaxBreaks
  /\ breaks' = breaks + 1
  /\ wire' = [wire EXCEPT ![k] = "closed"]
  /\ UNCHANGED <<greeted, asked, session, connector, subscriptions>>

-----------------------------------------------------------------------------
(***************************************************************************)
(* Subscriptions.                                                          *)
(***************************************************************************)
(* While isConnecting, what is sent is dropped (DDPClient.send).           *)
CanSend == ~isConnecting /\ wire[current] = "open"
SendThrows == ~isConnecting /\ wire[current] = "connecting"

AutoSubscribe(s) ==
  /\ promise[s] = "unused"
  /\ promise' = [promise EXCEPT ![s] = IF SendThrows THEN "rejected" ELSE "waiting"]
  /\ asked' = IF CanSend THEN [asked EXCEPT ![current] = @ \cup {s}] ELSE asked
  /\ UNCHANGED <<wire, greeted, session, connector, autoSubscriptions, refused, breaks>>

CanAnswer(k, s) == wire[k] \in {"open", "closing"} /\ k \in greeted /\ s \in asked[k]

SubscriptionReady(k, s) ==
  /\ CanAnswer(k, s)
  /\ asked' = [asked EXCEPT ![k] = @ \ {s}]
  /\ session' = [session EXCEPT ![k] = @ \cup {s}]
  /\ promise' = [promise EXCEPT ![s] = IF @ = "waiting" THEN "resolved" ELSE @]
  /\ autoSubscriptions' = IF promise[s] = "waiting" THEN autoSubscriptions \cup {s} ELSE autoSubscriptions
  /\ UNCHANGED <<wire, greeted, connector, refused, breaks>>

(* An automatic subscription that cannot be renewed is kept nevertheless.  *)
SubscriptionRefused(k, s) ==
  /\ CanAnswer(k, s)
  /\ asked' = [asked EXCEPT ![k] = @ \ {s}]
  /\ refused' = refused \cup {s}
  /\ promise' = [promise EXCEPT ![s] = IF @ = "waiting" THEN "rejected" ELSE @]
  /\ UNCHANGED <<wire, greeted, session, connector, autoSubscriptions, breaks>>

SubscriptionAnswered(k, s) == SubscriptionReady(k, s) \/ SubscriptionRefused(k, s)

(* When the send throws, the subscription is kept.                         *)
Unsubscribe(s) ==
  /\ s \in autoSubscriptions
  /\ ~SendThrows
  /\ autoSubscriptions' = autoSubscriptions \ {s}
  /\ IF CanSend
     THEN /\ asked' = [asked EXCEPT ![current] = @ \ {s}]
          /\ session' = [session EXCEPT ![current] = @ \ {s}]
     ELSE UNCHANGED <<asked, session>>
  /\ UNCHANGED <<wire, greeted, connector, promise, refused, breaks>>

Next ==
  \/ MonitorTick
  \/ \E k \in Sockets : \/ SocketOpens(k) \/ Connected(k) \/ SocketCloses(k)
                        \/ SocketRefused(k) \/ SocketBreaks(k)
  \/ \E s \in Subs : AutoSubscribe(s) \/ Unsubscribe(s)
  \/ \E k \in Sockets, s \in Subs : SubscriptionAnswered(k, s)

Spec == Init /\ [][Next]_vars

(* The interval ticks, and what was sent arrives: sockets open, `connected'*)
(* and answers are received, and a close is.  None of them is before       *)
(* another: a connection may take longer than the interval, which gives it *)
(* up, or than the close of the one before.                                *)
Fairness ==
  /\ WF_vars(MonitorTick)
  /\ \A k \in Sockets :
       /\ WF_vars(SocketOpens(k)) /\ WF_vars(Connected(k)) /\ WF_vars(SocketCloses(k))
       /\ \A s \in Subs : WF_vars(SubscriptionAnswered(k, s))

FairSpec == Spec /\ Fairness

-----------------------------------------------------------------------------
GivenUp == {k \in Sockets \ {current} : wire[k] # "none"}
Renewed == autoSubscriptions \ refused

(* A client that believes that it is connected, with no event of an earlier*)
(* socket to come, has asked for all its automatic subscriptions on the    *)
(* socket it has, whatever came late: whatever step is taken.              *)
AskedAgain == connected /\ GivenUp = {} => Renewed \subseteq asked[current] \cup session[current]

(* And it is never stuck: in the end it is connected and its session has   *)
(* all its automatic subscriptions that were not refused; unless it        *)
(* connects for ever, since connections break, or since it gives each one  *)
(* up, the interval or the close of the one before being faster every time.*)
(*                                                                         *)
(* A subscription is automatic when it was first answered: one that was not*)
(* when its connection broke is forgotten, and its promise goes on waiting.*)
ConnectsForEver == []<>(wire[current] = "connecting")
StaysRenewed == <>[](connected /\ Renewed \subseteq session[current])
SubscriptionsRenewed == [][AskedAgain']_vars /\ (StaysRenewed \/ ConnectsForEver)
=============================================================================
