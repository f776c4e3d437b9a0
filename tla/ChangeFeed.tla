------------------------------- MODULE ChangeFeed -------------------------------
(***************************************************************************)
(* Live queries over one MongoDB collection: the change feed that all      *)
(* observers of the collection share (packages/corelib/src/                *)
(* collectionChangeFeed.ts), the multiplexer that all observers of one     *)
(* query share (packages/sofie-core/src/collections/changeStream/          *)
(* observeMultiplexer.ts) and the view it keeps of the documents that      *)
(* match (packages/corelib/src/memoryCollection/observeView.ts).           *)
(*                                                                         *)
(* A multiplexer works through one queue of tasks: snapshots of the        *)
(* collection, events of the feed, observers that join.  A snapshot is     *)
(* read in batches and used when the last one is there; the collection,    *)
(* the stream and the observers move on in between.                        *)
(*                                                                         *)
(* External: the collection and its change stream.  The cluster time is    *)
(* the number of writes so far.  A cursor reads each document once.  A     *)
(* stream that breaks tells so once.                                       *)
(***************************************************************************)
EXTENDS Naturals, Sequences, FiniteSets, SequencesExt

CONSTANTS
  Docs,         \* documents of the collection
  Values,       \* what documents may hold
  Queries,      \* selectors in use
  Matching,     \* the values each selector matches
  Observers,
  QueryOf,      \* the query of each observer
  Initial,      \* what each document holds before the first write
  Writes,       \* the writes there may be (bound)
  MaxWrites,    \* how often documents are written (bound)
  MaxFaults     \* how often a stream breaks or cannot be opened, or a
                \* snapshot cannot be read (bound)

ASSUME ChangeFeedAssumption ==
  /\ Matching \in [Queries -> SUBSET Values]
  /\ Initial \in [Docs -> Values \cup {"absent"}]
  /\ QueryOf \in [Observers -> Queries]
  /\ {MaxWrites, MaxFaults} \subseteq Nat

VARIABLES
  log,        \* the writes to the collection: the oplog
  stream,     \* the open stream: how many writes it has delivered, or None
  opening,    \* a stream is being opened, to start at this time or later, or None
  others,     \* whether multiplexers of other queries subscribe to the feed
  restart,    \* whether the restart of the feed is scheduled
  mux,        \* the multiplexer of each query
  phase,      \* of each observer
  seen,       \* the documents each observer was told about
  faults      \* how often it failed so far (bounds the model)

feedVars == <<stream, opening, restart, others>>
observerVars == <<mux, phase, seen>>
vars == <<log, feedVars, observerVars, faults>>

None == MaxWrites + 1
Absent == "absent"
NoDocs == [d \in Docs |-> Absent]
Now == Len(log)

Phases == {"away", "joining", "live", "left"}
Present == {"joining", "live"}
Contents == [Docs -> Values \cup {Absent}]
Write == [doc : Docs, kind : {"replace", "update", "delete"}, value : Values \cup {Absent}]
Tasks ==
  [kind : {"event"}, doc : Docs, value : Values \cup {Absent}, time : 1..MaxWrites]
    \cup [kind : {"sync"}, startup : BOOLEAN]
    \cup [kind : {"join"}, observer : Observers]

Unread == [d \in Docs |-> None]

(* reading is when the running snapshot read each document.  Two fields    *)
(* are history, which no guard reads: asOf, up to when the view has been   *)
(* told of each document, by a snapshot or an event; and unsynced, those   *)
(* that a snapshot failed to read, without an event of theirs since.       *)
Multiplexer ==
  [subscribers : SUBSET Observers, queue : Seq(Tasks), reading : [Docs -> 0..None],
   view : Contents, snapshotTime : 0..MaxWrites, startupError : BOOLEAN,
   asOf : [Docs -> 0..None], unsynced : SUBSET Docs]

NoMultiplexer ==
  [subscribers |-> {}, queue |-> <<>>, reading |-> Unread, view |-> NoDocs,
   snapshotTime |-> 0, startupError |-> FALSE, asOf |-> Unread, unsynced |-> {}]

TypeOK ==
  /\ log \in Seq(Write) /\ Now <= MaxWrites
  /\ {stream, opening} \subseteq (0..Now) \cup {None}
  /\ restart \in BOOLEAN /\ others \in BOOLEAN
  /\ mux \in [Queries -> Multiplexer]
  /\ phase \in [Observers -> Phases]
  /\ seen \in [Observers -> Contents]
  /\ faults \in 0..MaxFaults

Init ==
  /\ log = <<>>
  /\ stream = None /\ opening = None /\ restart = FALSE /\ others = FALSE
  /\ mux = [q \in Queries |-> NoMultiplexer]
  /\ phase = [o \in Observers |-> "away"]
  /\ seen = [o \in Observers |-> NoDocs]
  /\ faults = 0

-----------------------------------------------------------------------------
(* The collection.                                                         *)

ValueAt(d, time) ==
  LET writes == {t \in 1..time : log[t].doc = d}
  IN  IF writes = {} THEN Initial[d] ELSE log[Max(writes)].value

Matched(q, d, time) ==
  LET value == ValueAt(d, time) IN IF value \in Matching[q] THEN value ELSE Absent

WriteDoc(d, kind, value) ==
  /\ Now < MaxWrites
  /\ [doc |-> d, kind |-> kind, value |-> value] \in Writes
  /\ kind # "replace" => ValueAt(d, Now) # Absent
  /\ ValueAt(d, Now) # value
  /\ (kind = "delete") = (value = Absent)
  /\ log' = Append(log, [doc |-> d, kind |-> kind, value |-> value])
  /\ UNCHANGED <<feedVars, observerVars, faults>>

-----------------------------------------------------------------------------
(* The feed.  A query subscribes to it as long as it has a multiplexer.    *)

Observed == {q \in Queries : mux[q].subscribers # {}}
Subscribed == Observed # {} \/ others

Enqueue(m, task) == [m EXCEPT !.queue = Append(@, task)]
EnqueueAll(task) ==
  [q \in Queries |-> IF q \in Observed THEN Enqueue(mux[q], task) ELSE mux[q]]

(* Mutant: only the snapshot of the start is read.                         *)
AttachStream_NoResync(time) ==
  /\ opening # None
  /\ time \in opening..Now
  /\ opening' = None
  /\ stream' = time
  /\ UNCHANGED <<log, restart, others, mux, phase, seen, faults>>

(* Mutant: the stream starts after the time that was captured.             *)
AttachStream_After(time) ==
  /\ opening # None
  /\ time \in opening..Now
  /\ opening' = None
  /\ stream' = time + 1
  /\ mux' = EnqueueAll([kind |-> "sync", startup |-> FALSE])
  /\ UNCHANGED <<log, restart, others, phase, seen, faults>>

(* Opened with startAtOperationTime: all that is written from then on.     *)
(* Whoever is subscribed by now reads a snapshot again.                    *)
AttachStream(time) ==
  /\ opening # None
  /\ time \in opening..Now
  /\ opening' = None
  /\ stream' = time
  /\ mux' = EnqueueAll([kind |-> "sync", startup |-> FALSE])
  /\ UNCHANGED <<log, restart, others, phase, seen, faults>>

(* An update does not carry the document: it is looked up on delivery.     *)
DeliverChange ==
  /\ stream # None /\ stream < Now
  /\ LET write == log[stream + 1]
         value == IF write.kind = "update" THEN ValueAt(write.doc, Now) ELSE write.value
     IN  mux' = EnqueueAll([kind |-> "event", doc |-> write.doc, value |-> value,
                            time |-> stream + 1])
  /\ stream' = stream + 1
  /\ UNCHANGED <<log, opening, restart, others, phase, seen, faults>>

StreamBreaks ==
  /\ stream # None /\ faults < MaxFaults
  /\ stream' = None /\ restart' = TRUE
  /\ faults' = faults + 1
  /\ UNCHANGED <<log, opening, others, observerVars>>

(* Mutant: the feed gives up when a stream cannot be opened.               *)
OpeningFails_GiveUp ==
  /\ opening # None /\ faults < MaxFaults
  /\ opening' = None
  /\ faults' = faults + 1
  /\ UNCHANGED <<log, stream, restart, others, observerVars>>

OpeningFails ==
  /\ opening # None /\ faults < MaxFaults
  /\ opening' = None /\ restart' = TRUE
  /\ faults' = faults + 1
  /\ UNCHANGED <<log, stream, others, observerVars>>

RestartFeed ==
  /\ restart
  /\ restart' = FALSE /\ opening' = Now
  /\ UNCHANGED <<log, stream, others, observerVars, faults>>

(* Started by the first subscriber, unless it waits to be restarted.       *)
StartFeed ==
  /\ opening' = IF stream = None /\ opening = None /\ ~restart THEN Now ELSE opening
  /\ UNCHANGED <<stream, restart>>

StopFeed == stream' = None /\ opening' = None /\ restart' = FALSE

OthersSubscribe ==
  /\ ~others /\ others' = TRUE
  /\ StartFeed
  /\ UNCHANGED <<log, observerVars, faults>>

OthersStop ==
  /\ others /\ others' = FALSE
  /\ IF Observed = {} THEN StopFeed ELSE UNCHANGED <<stream, opening, restart>>
  /\ UNCHANGED <<log, observerVars, faults>>

-----------------------------------------------------------------------------
(* Observers come and go, each once.  The first one of a query makes the   *)
(* multiplexer, the last one takes it away.                                *)

StartMultiplexer ==
  LET started == Enqueue(NoMultiplexer, [kind |-> "sync", startup |-> TRUE])
  IN  IF stream = None THEN started ELSE Enqueue(started, [kind |-> "sync", startup |-> FALSE])

AddSubscriber(o) ==
  LET q == QueryOf[o]
      m == IF q \in Observed THEN mux[q] ELSE StartMultiplexer
  IN  /\ phase[o] = "away"
      /\ phase' = [phase EXCEPT ![o] = "joining"]
      /\ mux' = [mux EXCEPT ![q] =
                   [Enqueue(m, [kind |-> "join", observer |-> o]) EXCEPT !.subscribers = @ \cup {o}]]
      /\ StartFeed
      /\ UNCHANGED <<log, others, seen, faults>>

(* A join that is still in the queue will find that it was aborted, and do *)
(* nothing.                                                                *)
DropJoin(o, queue) ==
  LET joins == {i \in DOMAIN queue : queue[i].kind = "join" /\ queue[i].observer = o}
  IN  IF joins = {} THEN queue ELSE RemoveAt(queue, CHOOSE i \in joins : TRUE)

RemoveSubscriber(o, m) ==
  LET q == QueryOf[o]
      left == [m EXCEPT !.subscribers = @ \ {o}, !.queue = DropJoin(o, @)]
  IN  /\ phase' = [phase EXCEPT ![o] = "left"]
      /\ seen' = [seen EXCEPT ![o] = NoDocs]
      /\ mux' = [mux EXCEPT ![q] = IF left.subscribers = {} THEN NoMultiplexer ELSE left]
      /\ IF left.subscribers = {} /\ Observed \subseteq {q} /\ ~others
         THEN StopFeed ELSE UNCHANGED <<stream, opening, restart>>
      /\ UNCHANGED others

Abort(o) ==
  /\ phase[o] \in Present
  /\ RemoveSubscriber(o, mux[QueryOf[o]])
  /\ UNCHANGED <<log, faults>>

-----------------------------------------------------------------------------
(* The tasks of a multiplexer, one after the other.                        *)

NextTask(q, kind) == mux[q].queue # <<>> /\ Head(mux[q].queue).kind = kind
Task(q) == Head(mux[q].queue)
Done(m) == [m EXCEPT !.queue = Tail(@)]

(* The transitions from the old view to the new one go to all who are live.*)
Publish(q, m) ==
  /\ mux' = [mux EXCEPT ![q] = Done(m)]
  /\ seen' = [o \in Observers |->
                IF phase[o] = "live" /\ QueryOf[o] = q
                THEN [d \in Docs |-> IF m.view[d] # mux[q].view[d] THEN m.view[d] ELSE seen[o][d]]
                ELSE seen[o]]
  /\ UNCHANGED <<log, feedVars, phase, faults>>

(* The documents are read batch by batch, each as it is by then.           *)
ReadBatch(q, batch) ==
  /\ NextTask(q, "sync")
  /\ batch # {} /\ \A d \in batch : mux[q].reading[d] = None
  /\ mux' = [mux EXCEPT ![q].reading = [d \in Docs |-> IF d \in batch THEN Now ELSE @[d]]]
  /\ UNCHANGED <<log, feedVars, phase, seen, faults>>

(* The snapshot's time is the one that comes with the last batch.          *)
ApplySnapshot(q, operationTime) ==
  LET read == mux[q].reading
  IN  /\ NextTask(q, "sync")
      /\ \A d \in Docs : read[d] # None /\ read[d] <= operationTime
      /\ Publish(q, [mux[q] EXCEPT !.view = [d \in Docs |-> Matched(q, d, read[d])],
                                   !.snapshotTime = operationTime, !.reading = Unread,
                                   !.asOf = read, !.unsynced = {}])

(* Who joins learns of the first snapshot's failure; others are logged.    *)
SnapshotFails(q) ==
  /\ NextTask(q, "sync")
  /\ faults < MaxFaults
  /\ faults' = faults + 1
  /\ mux' = [mux EXCEPT ![q] =
                Done([mux[q] EXCEPT !.startupError = @ \/ Task(q).startup,
                                    !.reading = Unread, !.unsynced = Docs])]
  /\ UNCHANGED <<log, feedVars, phase, seen>>

ApplyChange(q) ==
  LET change == Task(q)
      value == IF change.value \in Matching[q] THEN change.value ELSE Absent
  IN  [mux[q] EXCEPT !.view[change.doc] = value, !.unsynced = @ \ {change.doc},
                     !.asOf[change.doc] = IF @ = None \/ @ < change.time THEN change.time ELSE @]

(* Mutant: events are applied, however old they are.                       *)
ProcessEvent_NoFilter(q) ==
  /\ NextTask(q, "event")
  /\ Publish(q, ApplyChange(q))

ProcessEvent(q) ==
  /\ NextTask(q, "event")
  /\ Publish(q, IF Task(q).time < mux[q].snapshotTime THEN mux[q] ELSE ApplyChange(q))

(* Replays the view.  After a failed start the caller gets the error, and  *)
(* aborts.                                                                 *)
JoinLive(q) ==
  /\ NextTask(q, "join")
  /\ LET o == Task(q).observer
     IN  IF mux[q].startupError
         THEN RemoveSubscriber(o, Done(mux[q]))
         ELSE /\ phase' = [phase EXCEPT ![o] = "live"]
              /\ seen' = [seen EXCEPT ![o] = mux[q].view]
              /\ mux' = [mux EXCEPT ![q] = Done(@)]
              /\ UNCHANGED feedVars
  /\ UNCHANGED <<log, faults>>

TaskProceeds(q) ==
  \/ \E batch \in SUBSET Docs : ReadBatch(q, batch)
  \/ \E operationTime \in 0..Now : ApplySnapshot(q, operationTime)
  \/ ProcessEvent(q) \/ JoinLive(q)
RunTask(q) == TaskProceeds(q) \/ SnapshotFails(q)

Feed ==
  \/ \E time \in 0..Now : AttachStream(time)
  \/ DeliverChange \/ StreamBreaks \/ OpeningFails \/ RestartFeed
  \/ OthersSubscribe \/ OthersStop

Next ==
  \/ \E d \in Docs, kind \in {"replace", "update", "delete"}, value \in Values \cup {Absent} :
       WriteDoc(d, kind, value)
  \/ Feed
  \/ \E o \in Observers : AddSubscriber(o) \/ Abort(o)
  \/ \E q \in Queries : RunTask(q)

Spec == Init /\ [][Next]_vars

(* Streams open, deliver and are restarted, and tasks are worked through.  *)
(* Nobody has to write, to join or to leave.                               *)
Fairness ==
  /\ WF_vars(\E time \in 0..Now : AttachStream(time))
  /\ WF_vars(DeliverChange) /\ WF_vars(RestartFeed)
  /\ \A q \in Queries : WF_vars(TaskProceeds(q))

FairSpec == Spec /\ Fairness

-----------------------------------------------------------------------------
(* A document is behind until its next event or snapshot when a snapshot   *)
(* failed, which is only logged; or when it was written after its batch    *)
(* was read and before the last one was: the event counts as being from    *)
(* before the snapshot, and is dropped.                                    *)
WrittenBetween(q, d) ==
  \E t \in (mux[q].asOf[d] + 1)..(mux[q].snapshotTime - 1) : log[t].doc = d
Behind(q, d) == d \in mux[q].unsynced \/ WrittenBetween(q, d)

(* Whatever was lost while a stream was opened, broken or joined late:     *)
(* when the stream has delivered all writes and the multiplexer has worked *)
(* through its queue, its view shows what matches, except for documents    *)
(* that are behind.                                                        *)
CaughtUp ==
  \A q \in Observed : \A d \in Docs :
    stream = Now /\ mux[q].queue = <<>> /\ ~Behind(q, d) => mux[q].view[d] = Matched(q, d, Now)

(* No event takes a document back behind what a snapshot has read, nor     *)
(* behind an earlier event: what is published of a document was stored at  *)
(* the time up to which the view was told of it, or later.                 *)
NeverBack ==
  \A q \in Queries : \A d \in Docs :
    mux[q].asOf[d] # None =>
      \E time \in mux[q].asOf[d]..Now : mux[q].view[d] = Matched(q, d, time)

(* An observer goes live at a point of the queue where what it was         *)
(* replayed and what it gets from then on add up.                          *)
SeenIsView ==
  \A o \in Observers : phase[o] = "live" => seen[o] = mux[QueryOf[o]].view

(* Observers see each document as it was when it was last read, or later,  *)
(* and those that are not behind as they are when all tasks are done.      *)
ObserversFollow == CaughtUp /\ NeverBack /\ SeenIsView

(* Why observers follow.                                                   *)
IsEvent(m, i) == m.queue[i].kind = "event"
IsResync(m, i) == m.queue[i].kind = "sync" /\ ~m.queue[i].startup

(* A snapshot will read the document as it is now or later.                *)
WillRead(m, d) == \E i \in DOMAIN m.queue : IsResync(m, i) /\ (i > 1 \/ m.reading[d] = None)

(* Who is there is counted; a join is of who is there, and once.           *)
Counted == \A o \in Observers : phase[o] \in Present <=> o \in mux[QueryOf[o]].subscribers
JoinsOnce(q) ==
  \A i \in DOMAIN mux[q].queue :
    mux[q].queue[i].kind = "join" =>
      /\ QueryOf[mux[q].queue[i].observer] = q
      /\ phase[mux[q].queue[i].observer] \in Present
      /\ \A j \in DOMAIN mux[q].queue :
           mux[q].queue[j].kind = "join" /\ mux[q].queue[j].observer = mux[q].queue[i].observer
             => j = i
Registered(q) ==
  /\ mux[q].subscribers = {} => mux[q] = NoMultiplexer
  /\ JoinsOnce(q)

(* Only the first task reads, and what it read was stored.                 *)
ReadsStored(m) == \A d \in Docs : m.reading[d] # None => m.reading[d] <= Now
ReadsFirst(m) ==
  /\ m.reading # Unread => m.queue # <<>> /\ m.queue[1].kind = "sync"
  /\ m.snapshotTime <= Now
  /\ \A d \in Docs : m.asOf[d] = None => m.snapshotTime = 0

(* An event is of a write, and carries what was stored then or later.      *)
IsTrue(event) ==
  /\ event.time \in 1..Now
  /\ log[event.time].doc = event.doc
  /\ \E time \in event.time..Now : event.value = ValueAt(event.doc, time)
EventsTrue(m) == \A i \in DOMAIN m.queue : IsEvent(m, i) => IsTrue(m.queue[i])

(* While there is a stream, the first snapshot is not the last one.        *)
StartFollowed(m) ==
  \A i \in DOMAIN m.queue :
    m.queue[i].kind = "sync" /\ m.queue[i].startup => \E j \in DOMAIN m.queue : j > i /\ IsResync(m, j)

(* There is a stream, or one is being opened, or it waits to be restarted. *)
OneStream ==
  /\ stream # None => opening = None
  /\ restart => stream = None /\ opening = None

(* Events come in their order, whatever stream they are of, and those that *)
(* are not dropped tell of later times than the view knows.                *)
Latest == IF stream # None THEN stream ELSE IF opening # None THEN opening ELSE Now
Ascends(m) ==
  /\ \A i \in DOMAIN m.queue : IsEvent(m, i) =>
       LET event == m.queue[i]
       IN  /\ event.time <= Latest
           /\ m.asOf[event.doc] # None =>
                m.asOf[event.doc] <= event.time \/ event.time < m.snapshotTime
           /\ \A j \in DOMAIN m.queue : j > i /\ IsEvent(m, j) => m.queue[j].time > event.time
  /\ \A d \in Docs : m.asOf[d] # None => m.asOf[d] <= Latest \/ m.asOf[d] <= m.snapshotTime

(* Behind the last snapshot are the events of this stream, with none left  *)
(* out, up to what it has delivered.                                       *)
InTurn(m) ==
  \A i \in DOMAIN m.queue :
    IsEvent(m, i) /\ (\A j \in DOMAIN m.queue : IsResync(m, j) => j < i) =>
      \A t \in (m.queue[i].time + 1)..stream :
        \E j \in DOMAIN m.queue : j > i /\ IsEvent(m, j) /\ m.queue[j].time = t

(* What was delivered is still to come, or it is in the view already: or   *)
(* in what a snapshot has read of the document.                            *)
Base(q, d) ==
  IF mux[q].reading[d] = None THEN mux[q].view[d] ELSE Matched(q, d, mux[q].reading[d])
Covered(q, d) ==
  \A t \in 0..stream :
    t = 0 \/ log[t].doc = d =>
      \/ \E i \in DOMAIN mux[q].queue :
           IsEvent(mux[q], i) /\ mux[q].queue[i].doc = d /\ mux[q].queue[i].time >= t
      \/ \E time \in t..Now : Base(q, d) = Matched(q, d, time)

Follows(q) ==
  /\ StartFollowed(mux[q]) /\ InTurn(mux[q])
  /\ \A d \in Docs :
       \/ WillRead(mux[q], d)
       \/ mux[q].reading[d] = None /\ Behind(q, d)
       \/ Covered(q, d)

FeedInv ==
  /\ SeenIsView /\ NeverBack /\ Counted /\ OneStream
  /\ \A q \in Queries :
       Registered(q) /\ ReadsStored(mux[q]) /\ ReadsFirst(mux[q]) /\ EventsTrue(mux[q])
       /\ Ascends(mux[q])
FollowInv == stream # None => \A q \in Observed : Follows(q)

(* Every observer that comes goes live, is told that it cannot or leaves;  *)
(* and once nobody writes or comes any more, all who stay see what is      *)
(* stored, except for documents that are behind.                           *)
Settled(o) ==
  /\ phase[o] # "joining"
  /\ phase[o] = "live" =>
       \A d \in Docs : ~Behind(QueryOf[o], d) => seen[o][d] = Matched(QueryOf[o], d, Now)
Converges == <>[](\A o \in Observers : Settled(o))
=============================================================================
