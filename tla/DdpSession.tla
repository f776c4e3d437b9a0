-------------------------------- MODULE DdpSession --------------------------------
(***************************************************************************)
(* One client's connection to the DDP server of Sofie Core: the queue of   *)
(* its messages, its subscriptions, and the merge box, which is what the   *)
(* client is to have of each document when several subscriptions publish   *)
(* it (packages/sofie-core/src/ddp-server: DdpSession, SessionDocumentView,*)
(* SessionCollectionView, DdpPublicationContext).                          *)
(*                                                                         *)
(* The messages to the client are applied as they are sent, as what the    *)
(* client has (ddpClient.ts: added, changed, removed).  One collection is  *)
(* modelled, and one field of its documents: the merge box treats every    *)
(* field alone.                                                            *)
(***************************************************************************)
EXTENDS Naturals, Sequences, FiniteSets, SequencesExt

CONSTANTS
  Subs,     \* subscription ids; a client does not use one twice in a session
  Calls,    \* ids of method calls
  Docs, Values,
  MaxUnsubs   \* how often a client may end one subscription (bound)

NoDoc == "no document"
NoField == "no field"

SessionAssumption == MaxUnsubs \in Nat /\ {NoDoc, NoField} \cap Values = {}

VARIABLES
  inQueue,        \* messages that are waiting
  workerRunning,
  immediates,     \* how many setImmediate(processNext) are due
  call,           \* the life of each method call's handler
  sub,            \* the life of each subscription's handler
  sent,           \* the ids the client has used
  unsubscribed,   \* how often it sent unsub (bounds the model)
  subscriptions,  \* the ids that have a context
  published,      \* what each context has added and not removed, with the field
  stopped, isReady,   \* of each context
  existsIn, dataByKey,   \* the merge box: SessionDocumentView of each document
  client,         \* what the client has of each document
  answers,        \* what the client was told of each subscription
  closed

queueVars == <<inQueue, workerRunning, immediates, call>>
mergeBox == <<existsIn, dataByKey, client>>
contexts == <<subscriptions, published, stopped, isReady>>
traffic == <<sent, unsubscribed>>
vars == <<queueVars, sub, traffic, contexts, mergeBox, answers, closed>>

Field == Values \cup {NoField}
Messages == [msg : {"sub", "unsub"}, id : Subs] \cup [msg : {"method"}, id : Calls]
Precedence == [sub : Subs, value : Values]

TypeOK ==
  /\ \A k \in 1..Len(inQueue) : inQueue[k] \in Messages
  /\ {workerRunning, closed} \subseteq BOOLEAN /\ immediates \in Nat
  /\ call \in [Calls -> {"unused", "blocking", "unblocked", "returned"}]
  /\ sub \in [Subs -> {"unused", "running", "returned"}]
  /\ sent \subseteq Subs \cup Calls
  /\ unsubscribed \in [Subs -> 0..MaxUnsubs]
  /\ subscriptions \subseteq Subs
  /\ published \in [Subs -> [Docs -> Field \cup {NoDoc}]]
  /\ stopped \in [Subs -> BOOLEAN] /\ isReady \in [Subs -> BOOLEAN]
  /\ existsIn \in [Docs -> SUBSET Subs]
  /\ \A d \in Docs : \A k \in 1..Len(dataByKey[d]) : dataByKey[d][k] \in Precedence
  /\ client \in [Docs -> Field \cup {NoDoc}]
  /\ \A s \in Subs : answers[s] \in Seq({"ready", "nosub"})

NothingPublished == [d \in Docs |-> NoDoc]

Init ==
  /\ inQueue = <<>> /\ workerRunning = FALSE /\ immediates = 0
  /\ call = [c \in Calls |-> "unused"]
  /\ sub = [s \in Subs |-> "unused"]
  /\ sent = {} /\ unsubscribed = [s \in Subs |-> 0]
  /\ subscriptions = {} /\ published = [s \in Subs |-> NothingPublished]
  /\ stopped = [s \in Subs |-> FALSE] /\ isReady = [s \in Subs |-> FALSE]
  /\ existsIn = [d \in Docs |-> {}] /\ dataByKey = [d \in Docs |-> <<>>]
  /\ client = [d \in Docs |-> NoDoc]
  /\ answers = [s \in Subs |-> <<>>]
  /\ closed = FALSE

-----------------------------------------------------------------------------
(***************************************************************************)
(* The merge box.  Each operator returns the precedence list of the field  *)
(* of one document, and what the client has of it afterwards.              *)
(***************************************************************************)
Visible(list) == IF list = <<>> THEN NoField ELSE list[1].value

PlaceOf(list, s) == SelectInSeq(list, LAMBDA item : item.sub = s)

(* Mutant: the client is not told when a value it did not see comes up.    *)
ClearField_Silent(list, s, seen) ==
  IF PlaceOf(list, s) = 0 THEN [list |-> list, seen |-> seen]
  ELSE LET left == RemoveAt(list, PlaceOf(list, s))
       IN  [list |-> left, seen |-> IF left = <<>> THEN NoField ELSE seen]

ClearField(list, s, seen) ==
  IF PlaceOf(list, s) = 0 THEN [list |-> list, seen |-> seen]
  ELSE LET left == RemoveAt(list, PlaceOf(list, s))
       IN  [list |-> left, seen |-> IF PlaceOf(list, s) = 1 THEN Visible(left) ELSE seen]

(* Mutant: whoever writes last is seen.                                    *)
ChangeField_Last(list, s, value, seen) ==
  IF PlaceOf(list, s) # 0
  THEN [list |-> [list EXCEPT ![PlaceOf(list, s)].value = value], seen |-> value]
  ELSE [list |-> Append(list, [sub |-> s, value |-> value]),
        seen |-> IF list = <<>> THEN value ELSE seen]

ChangeField(list, s, value, seen) ==
  IF PlaceOf(list, s) # 0
  THEN [list |-> [list EXCEPT ![PlaceOf(list, s)].value = value],
        seen |-> IF PlaceOf(list, s) = 1 THEN value ELSE seen]
  ELSE [list |-> Append(list, [sub |-> s, value |-> value]),
        seen |-> IF list = <<>> THEN value ELSE seen]

MergeField(list, s, value, seen) ==
  IF value = NoField THEN ClearField(list, s, seen) ELSE ChangeField(list, s, value, seen)

(* added and changed, of the document d.                                   *)
MergeBoxSets(s, d, value, holders) ==
  LET seen == IF client[d] = NoDoc THEN NoField ELSE client[d]
      merged == MergeField(dataByKey[d], s, value, seen)
  IN  /\ existsIn' = [existsIn EXCEPT ![d] = holders]
      /\ dataByKey' = [dataByKey EXCEPT ![d] = merged.list]
      /\ client' = [client EXCEPT ![d] = merged.seen]

(* removed, of all the documents ds: one at a time, each with a message.   *)
MergeBoxRemoves(s, ds) ==
  LET cleared(d) == ClearField(dataByKey[d], s, client[d])
      gone(d) == d \in ds /\ existsIn[d] \subseteq {s}
  IN  /\ existsIn' = [d \in Docs |-> IF d \in ds THEN existsIn[d] \ {s} ELSE existsIn[d]]
      /\ dataByKey' = [d \in Docs |-> CASE gone(d) -> <<>>
                                        [] d \in ds /\ ~gone(d) -> cleared(d).list
                                        [] OTHER -> dataByKey[d]]
      /\ client' = [d \in Docs |-> CASE gone(d) -> NoDoc
                                     [] d \in ds /\ ~gone(d) -> cleared(d).seen
                                     [] OTHER -> client[d]]

-----------------------------------------------------------------------------
(***************************************************************************)
(* Subscriptions.                                                          *)
(***************************************************************************)
Holds(s) == {d \in Docs : published[s][d] # NoDoc}
Answer(s, what) == answers' = [answers EXCEPT ![s] = Append(@, what)]

(* DdpPublicationContext.stop.                                             *)
StopContext(s) ==
  /\ stopped' = [stopped EXCEPT ![s] = TRUE]
  /\ published' = [published EXCEPT ![s] = NothingPublished]
  /\ MergeBoxRemoves(s, Holds(s))

(* Only a subscription that there is, is stopped and acknowledged.         *)
StopSubscription(s) ==
  IF s \in subscriptions
  THEN /\ subscriptions' = subscriptions \ {s}
       /\ StopContext(s)
       /\ Answer(s, "nosub")
       /\ UNCHANGED isReady
  ELSE UNCHANGED <<contexts, mergeBox, answers>>

(* The handler starts to run, and nothing is waited for.                   *)
HandleSub(s) ==
  /\ subscriptions' = subscriptions \cup {s}
  /\ sub' = [sub EXCEPT ![s] = "running"]
  /\ UNCHANGED <<published, stopped, isReady, mergeBox, answers>>

Ready(s) ==
  IF ~stopped[s] /\ ~isReady[s]
  THEN isReady' = [isReady EXCEPT ![s] = TRUE] /\ Answer(s, "ready")
  ELSE UNCHANGED <<isReady, answers>>

(* A handler that is still running, or the observers it left behind.       *)
Publishes(s) == sub[s] = "running" \/ (sub[s] = "returned" /\ ~stopped[s])

PublicationIsReady(s) ==
  /\ sub[s] = "running"
  /\ Ready(s)
  /\ UNCHANGED <<queueVars, traffic, sub, subscriptions, published, stopped, mergeBox, closed>>

(* Publications add what they have not added already.                      *)
PublicationAdds(s, d, value) ==
  /\ Publishes(s) /\ d \notin Holds(s)
  /\ ~stopped[s]
  /\ published' = [published EXCEPT ![s][d] = value]
  /\ MergeBoxSets(s, d, value, existsIn[d] \cup {s})
  /\ UNCHANGED <<queueVars, traffic, sub, subscriptions, stopped, isReady, answers, closed>>

PublicationChanges(s, d, value) ==
  /\ Publishes(s) /\ d \in Holds(s)
  /\ published' = [published EXCEPT ![s][d] = value]
  /\ MergeBoxSets(s, d, value, existsIn[d])
  /\ UNCHANGED <<queueVars, traffic, sub, subscriptions, stopped, isReady, answers, closed>>

PublicationRemoves(s, d) ==
  /\ Publishes(s) /\ d \in Holds(s)
  /\ published' = [published EXCEPT ![s][d] = NoDoc]
  /\ MergeBoxRemoves(s, {d})
  /\ UNCHANGED <<queueVars, traffic, sub, subscriptions, stopped, isReady, answers, closed>>

HandlerReturns(s) ==
  /\ sub[s] = "running"
  /\ sub' = [sub EXCEPT ![s] = "returned"]
  /\ Ready(s)
  /\ UNCHANGED <<queueVars, traffic, subscriptions, published, stopped, mergeBox, closed>>

HandlerThrows(s) ==
  /\ sub[s] = "running"
  /\ sub' = [sub EXCEPT ![s] = "returned"]
  /\ StopSubscription(s)
  /\ UNCHANGED <<queueVars, traffic, closed>>

HandlerEnds(s) == HandlerReturns(s) \/ HandlerThrows(s)

-----------------------------------------------------------------------------
(***************************************************************************)
(* The queue.  A message is taken from it, and its handler runs up to its  *)
(* first await; the next one follows when the handler calls unblock, or    *)
(* else when it is done.  Subscriptions call it at once.                   *)
(***************************************************************************)
Dispatch(msg, due) ==
  CASE msg.msg = "method" ->
         /\ call' = [call EXCEPT ![msg.id] = "blocking"]
         /\ immediates' = due
         /\ UNCHANGED <<sub, contexts, mergeBox, answers>>
    [] msg.msg = "sub" -> immediates' = due + 1 /\ HandleSub(msg.id) /\ UNCHANGED call
    [] msg.msg = "unsub" -> immediates' = due + 1 /\ StopSubscription(msg.id) /\ UNCHANGED <<call, sub>>

(* Mutant: the worker counts as running for ever.                          *)
ProcessNext_StaysRunning(queue, due) ==
  /\ inQueue' = IF queue = <<>> THEN queue ELSE Tail(queue)
  /\ workerRunning' = TRUE
  /\ IF closed \/ queue = <<>>
     THEN immediates' = due /\ UNCHANGED <<call, sub, contexts, mergeBox, answers>>
     ELSE Dispatch(Head(queue), due)

ProcessNext(queue, due) ==
  IF closed \/ queue = <<>>
  THEN /\ workerRunning' = FALSE /\ immediates' = due
       /\ UNCHANGED <<inQueue, call, sub, contexts, mergeBox, answers>>
  ELSE /\ workerRunning' = TRUE
       /\ inQueue' = Tail(queue)
       /\ Dispatch(Head(queue), due)

ImmediateFires ==
  /\ immediates > 0
  /\ ProcessNext(inQueue, immediates - 1)
  /\ UNCHANGED <<traffic, closed>>

Enqueue(msg) ==
  /\ ~closed
  /\ IF workerRunning
     THEN /\ inQueue' = Append(inQueue, msg)
          /\ UNCHANGED <<workerRunning, immediates, call, sub, contexts, mergeBox, answers>>
     ELSE ProcessNext(Append(inQueue, msg), immediates)
  /\ UNCHANGED closed

ClientSubscribes(s) ==
  /\ s \notin sent
  /\ sent' = sent \cup {s} /\ UNCHANGED unsubscribed
  /\ Enqueue([msg |-> "sub", id |-> s])

(* Also when the subscription has ended already.                           *)
ClientUnsubscribes(s) ==
  /\ s \in sent
  /\ unsubscribed[s] < MaxUnsubs
  /\ unsubscribed' = [unsubscribed EXCEPT ![s] = @ + 1]
  /\ UNCHANGED sent
  /\ Enqueue([msg |-> "unsub", id |-> s])

ClientCalls(c) ==
  /\ c \notin sent
  /\ sent' = sent \cup {c} /\ UNCHANGED unsubscribed
  /\ Enqueue([msg |-> "method", id |-> c])

(* Mutant: unblock starts the next message each time it is called.         *)
Unblocks_Again(c) == immediates' = immediates + 1

Unblocks(c) == immediates' = immediates + (IF call[c] = "blocking" THEN 1 ELSE 0)

MethodUnblocks(c) ==
  /\ call[c] = "blocking"
  /\ call' = [call EXCEPT ![c] = "unblocked"]
  /\ Unblocks(c)
  /\ UNCHANGED <<inQueue, workerRunning, traffic, sub, contexts, mergeBox, answers, closed>>

MethodReturns(c) ==
  /\ call[c] \in {"blocking", "unblocked"}
  /\ call' = [call EXCEPT ![c] = "returned"]
  /\ Unblocks(c)
  /\ UNCHANGED <<inQueue, workerRunning, traffic, sub, contexts, mergeBox, answers, closed>>

(* The socket closed, or the heartbeat timed out: all is stopped, and      *)
(* nothing is sent any more (what the client has does not count any more). *)
Close ==
  /\ ~closed
  /\ closed' = TRUE
  /\ subscriptions' = {}
  /\ stopped' = [s \in Subs |-> stopped[s] \/ s \in subscriptions]
  /\ published' = [s \in Subs |-> NothingPublished]
  /\ existsIn' = [d \in Docs |-> {}] /\ dataByKey' = [d \in Docs |-> <<>>]
  /\ client' = [d \in Docs |-> NoDoc]
  /\ UNCHANGED <<queueVars, traffic, sub, isReady, answers>>

Next ==
  \/ \E s \in Subs : ClientSubscribes(s) \/ ClientUnsubscribes(s)
  \/ \E c \in Calls : ClientCalls(c) \/ MethodUnblocks(c) \/ MethodReturns(c)
  \/ ImmediateFires
  \/ \E s \in Subs : PublicationIsReady(s) \/ HandlerEnds(s)
  \/ \E s \in Subs, d \in Docs : \/ \E value \in Field : \/ PublicationAdds(s, d, value)
                                                        \/ PublicationChanges(s, d, value)
                                 \/ PublicationRemoves(s, d)
  \/ Close

Spec == Init /\ [][Next]_vars

(* Immediates fire, and the handlers of methods and publications end.      *)
Fairness ==
  /\ WF_vars(ImmediateFires)
  /\ \A c \in Calls : WF_vars(MethodReturns(c))
  /\ \A s \in Subs : WF_vars(HandlerEnds(s))

FairSpec == Spec /\ Fairness

-----------------------------------------------------------------------------
Holders(d) == {s \in subscriptions : published[s][d] # NoDoc}
ValuesPublished(d) == {published[s][d] : s \in Holders(d)} \ {NoField}

(* The client has a document exactly when some subscription that is not    *)
(* stopped publishes it; it has the field when one of them does, and then  *)
(* with what that one published last.  Whoever joins, leaves or fails.     *)
ClientSeesMerge ==
  \A d \in Docs :
    /\ client[d] = NoDoc <=> Holders(d) = {}
    /\ client[d] = NoField <=> Holders(d) # {} /\ ValuesPublished(d) = {}
    /\ client[d] \in Values => client[d] \in ValuesPublished(d)

(* Of several subscriptions it sees the one that published the field first:*)
(* nobody's joining or changing takes a value away from it.                *)
PrecedenceKept ==
  [][\A d \in Docs : \A s \in subscriptions \cap subscriptions' :
        /\ dataByKey[d] # <<>> /\ Head(dataByKey[d]).sub = s
        /\ published'[s][d] \in Values
        => client'[d] = published'[s][d]]_vars

(* As long as the session is open, a message waits only while something is *)
(* to take it: a method that blocks, or one immediate; never two.          *)
OneProcessor ==
  /\ immediates + Cardinality({c \in Calls : call[c] = "blocking"}) = IF workerRunning THEN 1 ELSE 0
  /\ ~workerRunning => inQueue = <<>> \/ closed

(* A client hears of a subscription that it is ready, that it has ended,   *)
(* or the one and then the other; nothing after the end.                   *)
AnsweredInOrder ==
  \A s \in Subs : answers[s] \in {<<>>, <<"ready">>, <<"nosub">>, <<"ready", "nosub">>}

(* Every subscription is answered, one that the client ends has ended, and *)
(* every method call returns; unless the session is closed.                *)
EverythingAnswered ==
  <>[](\/ closed
       \/ /\ \A s \in Subs \cap sent : answers[s] # <<>>
          /\ \A s \in subscriptions : unsubscribed[s] = 0
          /\ \A c \in Calls \cap sent : call[c] = "returned")
=============================================================================
