--------------------------- MODULE ChangeFeedProofs ---------------------------
(***************************************************************************)
(* Type correctness of ChangeFeed, and that observers follow: views never  *)
(* go back behind what they were told of a document, observers see the     *)
(* view they subscribed to, and a multiplexer that has caught up shows     *)
(* what is stored, except for documents that are behind.                   *)
(***************************************************************************)
EXTENDS ChangeFeed, NaturalLemmas

(* The collection at a time: the value of the last write, if there is one. *)
LEMMA LastWrite ==
  ASSUME TypeOK, NEW d \in Docs, NEW time \in 0..Now,
         NEW t \in 1..time, log[t].doc = d, \A u \in (t + 1)..time : log[u].doc # d
  PROVE  ValueAt(d, time) = log[t].value
<1> DEFINE writes == {u \in 1..time : log[u].doc = d}
<1>1. Now \in Nat
  BY LenProperties DEF TypeOK, Now
<1>2. time \in Nat /\ writes \in SUBSET Nat /\ t \in writes /\ \A y \in writes : y <= time
  BY <1>1
<1>3. \A y \in writes : y <= t
  BY <1>1
<1> HIDE DEF writes
<1>4. Max(writes) \in writes /\ \A y \in writes : y <= Max(writes)
  <2>1. writes # {}
    BY <1>2
  <2> QED BY <1>2, <2>1, MaxIsGreatest, Zenon
<1>5. Max(writes) = t
  <2>1. Max(writes) \in Nat /\ t \in Nat
    BY <1>2, <1>4
  <2> QED BY <1>2, <1>3, <1>4, <2>1
<1> QED BY <1>2, <1>5 DEF ValueAt, writes

(* A document that was never written is what it was initially.             *)
LEMMA NoWrite ==
  ASSUME TypeOK, NEW d \in Docs, NEW time \in 0..Now,
         \A u \in 1..time : log[u].doc # d
  PROVE  ValueAt(d, time) = Initial[d]
BY DEF ValueAt

(* There is a last write of a document, or there is none.                  *)
LEMMA LastWriteExists ==
  ASSUME TypeOK, NEW d \in Docs, NEW time \in 0..Now
  PROVE  \/ \A u \in 1..time : log[u].doc # d
         \/ \E t \in 1..time : log[t].doc = d /\ \A u \in (t + 1)..time : log[u].doc # d
<1> DEFINE writes == {u \in 1..time : log[u].doc = d}
<1>1. Now \in Nat
  BY LenProperties DEF TypeOK, Now
<1>2. time \in Nat /\ writes \in SUBSET Nat /\ \A y \in writes : y <= time
  BY <1>1
<1>3. CASE writes = {}
  BY <1>3
<1>4. CASE writes # {}
  <2>1. PICK t \in writes : \A y \in writes : y <= t
    BY <1>2, <1>4, GreatestNat, Zenon
  <2>2. ASSUME NEW u \in (t + 1)..time
        PROVE  log[u].doc # d
    BY <1>1, <2>1
  <2> QED BY <2>1, <2>2
<1> QED BY <1>3, <1>4

(* What is stored is a value, or nothing.                                  *)
LEMMA ValueAtType ==
  ASSUME TypeOK, NEW d \in Docs, NEW time \in 0..Now
  PROVE  ValueAt(d, time) \in Values \cup {Absent}
<1>1. Now \in Nat /\ log \in Seq(Write)
  BY LenProperties DEF TypeOK, Now
<1>2. CASE \A u \in 1..time : log[u].doc # d
  BY <1>2, NoWrite, ChangeFeedAssumption DEF Absent
<1>3. CASE \E t \in 1..time : log[t].doc = d /\ \A u \in (t + 1)..time : log[u].doc # d
  <2>1. PICK t \in 1..time : log[t].doc = d /\ \A u \in (t + 1)..time : log[u].doc # d
    BY <1>3
  <2>2. t \in 1..Len(log)
    BY <1>1 DEF Now
  <2>3. log[t] \in Write
    BY <1>1, <2>2, ElementOfSeq
  <2> QED BY <2>1, <2>3, LastWrite DEF Write
<1> QED BY <1>2, <1>3, LastWriteExists

(* Between two times at which nothing is written a document stays as it is.*)
LEMMA ValueStays ==
  ASSUME TypeOK, NEW d \in Docs, NEW from \in 0..Now, NEW to \in from..Now,
         \A u \in (from + 1)..to : log[u].doc # d
  PROVE  ValueAt(d, from) = ValueAt(d, to)
<1>1. Now \in Nat
  BY LenProperties DEF TypeOK, Now
<1>2. {u \in 1..from : log[u].doc = d} = {u \in 1..to : log[u].doc = d}
  BY <1>1
<1> QED BY <1>2 DEF ValueAt

(* What the operations on a queue of tasks do.                             *)
LEMMA EnqueueTask ==
  ASSUME NEW m \in Multiplexer, NEW task \in Tasks
  PROVE  /\ Enqueue(m, task) \in Multiplexer
         /\ Enqueue(m, task) = [m EXCEPT !.queue = Append(m.queue, task)]
         /\ m.queue \in Seq(Tasks) /\ Len(m.queue) \in Nat
         /\ DOMAIN m.queue = 1..Len(m.queue)
         /\ Append(m.queue, task) \in Seq(Tasks)
         /\ DOMAIN Append(m.queue, task) = 1..(Len(m.queue) + 1)
         /\ \A i \in 1..Len(m.queue) : Append(m.queue, task)[i] = m.queue[i]
         /\ Append(m.queue, task)[Len(m.queue) + 1] = task
<1>1. m.queue \in Seq(Tasks)
  BY DEF Multiplexer
<1>2. Len(m.queue) \in Nat /\ DOMAIN m.queue = 1..Len(m.queue)
  BY <1>1, LenProperties
<1>3. /\ Append(m.queue, task) \in Seq(Tasks)
      /\ Len(Append(m.queue, task)) = Len(m.queue) + 1
      /\ \A i \in 1..Len(m.queue) : Append(m.queue, task)[i] = m.queue[i]
      /\ Append(m.queue, task)[Len(m.queue) + 1] = task
  BY <1>1, AppendProperties
<1>4. DOMAIN Append(m.queue, task) = 1..(Len(m.queue) + 1)
  BY <1>3, LenProperties
<1>5. Enqueue(m, task) = [m EXCEPT !.queue = Append(m.queue, task)]
  BY DEF Enqueue
<1>6. Enqueue(m, task) \in Multiplexer
  BY <1>3, <1>5 DEF Multiplexer
<1> QED BY <1>1, <1>2, <1>3, <1>4, <1>5, <1>6

(* Without its first task a queue is the rest of it.                       *)
LEMMA DoneTask ==
  ASSUME NEW m \in Multiplexer, m.queue # <<>>
  PROVE  /\ Done(m) \in Multiplexer
         /\ Done(m) = [m EXCEPT !.queue = Tail(m.queue)]
         /\ Head(m.queue) = m.queue[1] /\ m.queue[1] \in Tasks
         /\ m.queue \in Seq(Tasks) /\ Len(m.queue) \in Nat \ {0}
         /\ DOMAIN m.queue = 1..Len(m.queue)
         /\ Tail(m.queue) \in Seq(Tasks)
         /\ DOMAIN Tail(m.queue) = 1..(Len(m.queue) - 1)
         /\ \A i \in 1..(Len(m.queue) - 1) : Tail(m.queue)[i] = m.queue[i + 1]
<1>1. m.queue \in Seq(Tasks)
  BY DEF Multiplexer
<1>2. Len(m.queue) \in Nat \ {0} /\ DOMAIN m.queue = 1..Len(m.queue)
  BY <1>1, LenProperties, EmptySeq
<1>3. /\ Head(m.queue) \in Tasks
      /\ Tail(m.queue) \in Seq(Tasks)
      /\ Len(Tail(m.queue)) = Len(m.queue) - 1
      /\ \A i \in 1..Len(Tail(m.queue)) : Tail(m.queue)[i] = m.queue[i + 1]
  BY <1>1, HeadTailProperties
<1>4. DOMAIN Tail(m.queue) = 1..(Len(m.queue) - 1)
  BY <1>3, LenProperties
<1>5. Done(m) = [m EXCEPT !.queue = Tail(m.queue)]
  BY DEF Done
<1>6. Done(m) \in Multiplexer
  BY <1>3, <1>5 DEF Multiplexer
<1>7. Head(m.queue) = m.queue[1]
  BY <1>1, <1>2
<1> QED BY <1>1, <1>2, <1>3, <1>4, <1>5, <1>6, <1>7

(* The queue without its entry at p, which is a join of o; or the queue.   *)
LEMMA DropJoinTask ==
  ASSUME NEW o \in Observers, NEW queue \in Seq(Tasks)
  PROVE  /\ DropJoin(o, queue) \in Seq(Tasks)
         /\ \/ /\ DropJoin(o, queue) = queue
               /\ \A i \in 1..Len(queue) : ~(queue[i].kind = "join" /\ queue[i].observer = o)
            \/ \E p \in 1..Len(queue) :
                 /\ queue[p].kind = "join" /\ queue[p].observer = o
                 /\ DOMAIN DropJoin(o, queue) = 1..(Len(queue) - 1)
                 /\ \A i \in 1..(Len(queue) - 1) :
                      DropJoin(o, queue)[i] = IF i < p THEN queue[i] ELSE queue[i + 1]
<1> DEFINE joins == {i \in DOMAIN queue : queue[i].kind = "join" /\ queue[i].observer = o}
           p == CHOOSE i \in joins : TRUE
<1>1. Len(queue) \in Nat /\ DOMAIN queue = 1..Len(queue)
  BY LenProperties
<1>2. CASE joins = {}
  BY <1>1, <1>2 DEF DropJoin
<1>3. CASE joins # {}
  <2>1. p \in joins
    BY <1>3
  <2>2. p \in 1..Len(queue) /\ queue[p].kind = "join" /\ queue[p].observer = o
    BY <1>1, <2>1
  <2>3. DropJoin(o, queue) = RemoveAt(queue, p)
    BY <1>3 DEF DropJoin
  <2> HIDE DEF p, joins
  <2>4. /\ RemoveAt(queue, p) \in Seq(Tasks)
        /\ Len(RemoveAt(queue, p)) = Len(queue) - 1
        /\ \A i \in 1..(Len(queue) - 1) :
             RemoveAt(queue, p)[i] = IF i < p THEN queue[i] ELSE queue[i + 1]
    BY <2>2, RemoveAtEntries
  <2>5. DOMAIN RemoveAt(queue, p) = 1..(Len(queue) - 1)
    BY <2>4, LenProperties
  <2> QED BY <2>2, <2>3, <2>4, <2>5
<1> QED BY <1>2, <1>3

(* What the conversions of times and tasks return.                         *)
LEMMA BasicTypes ==
  ASSUME TypeOK
  PROVE  /\ Now \in Nat /\ Now <= MaxWrites /\ MaxWrites \in Nat
         /\ None = MaxWrites + 1 /\ NoDocs \in Contents
         /\ NoMultiplexer \in Multiplexer /\ Unread \in [Docs -> 0..None]
         /\ \A q \in Queries : mux[q] \in Multiplexer
<1>1. Now \in Nat /\ Now <= MaxWrites /\ MaxWrites \in Nat
  BY LenProperties, ChangeFeedAssumption DEF TypeOK, Now
<1>2. NoDocs \in Contents
  BY DEF NoDocs, Contents
<1>3. <<>> \in Seq(Tasks)
  BY EmptySeq
<1>5. Unread \in [Docs -> 0..None]
  BY <1>1 DEF Unread, None
<1>4. NoMultiplexer \in Multiplexer
  BY <1>1, <1>2, <1>3, <1>5 DEF NoMultiplexer, Multiplexer
<1> QED BY <1>1, <1>2, <1>4, <1>5 DEF TypeOK, None

(* What the records of the state are made of, by their operations.         *)
LEMMA SnapshotType ==
  ASSUME TypeOK, NEW q \in Queries, NEW read \in [Docs -> 0..Now]
  PROVE  [d \in Docs |-> Matched(q, d, read[d])] \in Contents
<1> SUFFICES ASSUME NEW d \in Docs
             PROVE  Matched(q, d, read[d]) \in Values \cup {Absent}
  BY DEF Contents
<1>1. ValueAt(d, read[d]) \in Values \cup {Absent}
  BY ValueAtType
<1> QED BY <1>1 DEF Matched

LEMMA EnqueueAllType ==
  ASSUME TypeOK, NEW task \in Tasks
  PROVE  EnqueueAll(task) \in [Queries -> Multiplexer]
BY BasicTypes, EnqueueTask DEF EnqueueAll

LEMMA SyncIsTask ==
  /\ [kind |-> "sync", startup |-> TRUE] \in Tasks
  /\ [kind |-> "sync", startup |-> FALSE] \in Tasks
  /\ \A o \in Observers : [kind |-> "join", observer |-> o] \in Tasks
BY DEF Tasks

LEMMA StartMultiplexerType ==
  ASSUME TypeOK
  PROVE  StartMultiplexer \in Multiplexer
BY BasicTypes, SyncIsTask, EnqueueTask DEF StartMultiplexer

LEMMA RemoveSubscriberType ==
  ASSUME TypeOK, NEW o \in Observers, NEW m \in Multiplexer, RemoveSubscriber(o, m),
         UNCHANGED log
  PROVE  /\ mux' \in [Queries -> Multiplexer]
         /\ phase' \in [Observers -> Phases]
         /\ seen' \in [Observers -> Contents]
         /\ {stream', opening'} \subseteq (0..Now') \cup {None}
         /\ restart' \in BOOLEAN /\ others' \in BOOLEAN
<1> DEFINE left == [m EXCEPT !.subscribers = @ \ {o}, !.queue = DropJoin(o, m.queue)]
<1>1. m.queue \in Seq(Tasks)
  BY DEF Multiplexer
<1>2. DropJoin(o, m.queue) \in Seq(Tasks)
  BY <1>1, DropJoinTask
<1>3. left \in Multiplexer
  BY <1>2 DEF Multiplexer
<1>4. QueryOf[o] \in Queries
  BY ChangeFeedAssumption
<1>5. mux' = [mux EXCEPT ![QueryOf[o]] = IF left.subscribers = {} THEN NoMultiplexer ELSE left]
  BY DEF RemoveSubscriber
<1>6. mux' \in [Queries -> Multiplexer]
  <2> HIDE DEF left
  <2> QED BY <1>3, <1>4, <1>5, BasicTypes DEF TypeOK
<1>7. phase' \in [Observers -> Phases]
  BY DEF TypeOK, RemoveSubscriber, Phases
<1>8. seen' \in [Observers -> Contents]
  BY BasicTypes DEF TypeOK, RemoveSubscriber
<1>9. /\ {stream', opening'} \subseteq (0..Now') \cup {None}
      /\ restart' \in BOOLEAN /\ others' \in BOOLEAN
  <2>1. Now' = Now
    BY DEF Now
  <2> QED BY <2>1 DEF TypeOK, RemoveSubscriber, StopFeed
<1> QED BY <1>6, <1>7, <1>8, <1>9

(* Publishing keeps the types.                                             *)
LEMMA PublishType ==
  ASSUME TypeOK, NEW q \in Queries, NEW m \in Multiplexer, m.queue # <<>>, Publish(q, m)
  PROVE  TypeOK'
<1>1. mux' = [mux EXCEPT ![q] = Done(m)] /\ Done(m) \in Multiplexer
  BY DoneTask DEF Publish
<1>2. mux' \in [Queries -> Multiplexer]
  BY <1>1 DEF TypeOK
<1>3. m.view \in Contents
  BY DEF Multiplexer
<1>4. seen' \in [Observers -> Contents]
  <2> SUFFICES ASSUME NEW o \in Observers
               PROVE  seen'[o] \in Contents
    BY DEF Publish
  <2>1. seen[o] \in Contents
    BY DEF TypeOK
  <2>2. [d \in Docs |-> IF m.view[d] # mux[q].view[d] THEN m.view[d] ELSE seen[o][d]] \in Contents
    BY <2>1, <1>3 DEF Contents
  <2> QED BY <2>1, <2>2 DEF Publish
<1>5. Now' = Now
  BY DEF Publish, Now
<1> QED BY <1>2, <1>4, <1>5 DEF TypeOK, Publish, feedVars

(* Writes are only ever added.                                             *)
LEMMA TimeStep ==
  ASSUME TypeOK, [Next]_vars
  PROVE  /\ Now' \in Nat /\ Now' >= Now
         /\ \A t \in 1..Now : log'[t] = log[t]
<1>1. Now \in Nat /\ log \in Seq(Write)
  BY BasicTypes DEF TypeOK
<1>2. ASSUME NEW d \in Docs, NEW kind \in {"replace", "update", "delete"},
             NEW value \in Values \cup {Absent}, WriteDoc(d, kind, value)
      PROVE  /\ Now' = Now + 1
             /\ \A t \in 1..Now : log'[t] = log[t]
  <2>1. [doc |-> d, kind |-> kind, value |-> value] \in Write
    BY DEF Write
  <2> QED BY <1>1, <1>2, <2>1, AppendProperties DEF WriteDoc, Now
<1>3. ASSUME NEW o \in Observers, AddSubscriber(o) \/ Abort(o)
      PROVE  UNCHANGED log
  BY <1>3 DEF AddSubscriber, Abort
<1>4. ASSUME Feed
      PROVE  UNCHANGED log
  BY <1>4 DEF Feed, AttachStream, DeliverChange, StreamBreaks, OpeningFails, RestartFeed,
              OthersSubscribe, OthersStop
<1>5. ASSUME NEW q \in Queries, RunTask(q)
      PROVE  UNCHANGED log
  <2>1. \A m : Publish(q, m) => UNCHANGED log
    BY DEF Publish
  <2>2. \A time \in 0..Now : ApplySnapshot(q, time) => UNCHANGED log
    BY <2>1 DEF ApplySnapshot
  <2>3. ProcessEvent(q) => UNCHANGED log
    BY <2>1 DEF ProcessEvent
  <2> QED BY <1>5, <2>2, <2>3 DEF RunTask, TaskProceeds, ReadBatch, SnapshotFails, JoinLive
<1>6. ASSUME UNCHANGED log
      PROVE  Now' = Now
  BY <1>6 DEF Now
<1> QED BY <1>1, <1>2, <1>3, <1>4, <1>5, <1>6 DEF Next, vars

(* A snapshot that is being used was read before now.                      *)
LEMMA ReadingStep ==
  ASSUME TypeOK, \A q \in Queries : ReadsStored(mux[q]), [Next]_vars
  PROVE  (\A q \in Queries : ReadsStored(mux[q]))'
<1>1. /\ Now \in Nat /\ MaxWrites \in Nat /\ None = MaxWrites + 1
      /\ \A q \in Queries : mux[q] \in Multiplexer
      /\ mux \in [Queries -> Multiplexer]
  BY BasicTypes DEF TypeOK
<1>2. Now' \in Nat /\ Now' >= Now
  BY TimeStep
<1> DEFINE Read(d) == {mux[p].reading[d] : p \in Queries} \cup {None, Now}
<1> SUFFICES ASSUME NEW q \in Queries, NEW d \in Docs
             PROVE  mux'[q].reading[d] \in Read(d)
  <2> SUFFICES ASSUME NEW q \in Queries, NEW d \in Docs
               PROVE  mux'[q].reading[d] # None => mux'[q].reading[d] <= Now'
    BY DEF ReadsStored, None
  <2>1. \A r \in Read(d) : r \in Nat /\ (r # None => r <= Now)
    BY <1>1 DEF ReadsStored, Multiplexer
  <2>2. mux'[q].reading[d] \in Read(d)
    OBVIOUS
  <2> HIDE DEF Read
  <2> QED BY <1>1, <1>2, <2>1, <2>2
<1> DEFINE R == Read(d)
<1> HIDE DEF Read
<1>r. mux[q].reading[d] \in R /\ None \in R /\ Now \in R
      /\ \A p \in Queries : mux[p].reading[d] \in R
  BY DEF Read
<1> SUFFICES mux'[q].reading[d] \in R
  OBVIOUS
<1>3. CASE UNCHANGED mux
  BY <1>3, <1>r
<1>4. ASSUME NEW task, mux' = EnqueueAll(task)
      PROVE  mux'[q].reading = mux[q].reading
  <2>1. mux[q] \in Multiplexer
    BY <1>1
  <2> QED BY <1>4, <2>1 DEF EnqueueAll, Enqueue, Multiplexer
<1>5. ASSUME NEW o \in Observers, AddSubscriber(o)
      PROVE  mux'[q].reading[d] \in R
  <2>1. mux[QueryOf[o]] \in Multiplexer /\ StartMultiplexer \in Multiplexer
    BY <1>1, StartMultiplexerType, ChangeFeedAssumption
  <2>2. StartMultiplexer.reading = Unread /\ Unread[d] = None
    BY DEF StartMultiplexer, Enqueue, NoMultiplexer, Unread
  <2>3. \A m \in Multiplexer : \A task :
          [Enqueue(m, task) EXCEPT !.subscribers = @ \cup {o}].reading = m.reading
    BY DEF Enqueue, Multiplexer
  <2>4. mux'[q].reading \in {mux[q].reading, Unread}
    BY <1>1, <1>5, <2>1, <2>2, <2>3 DEF AddSubscriber
  <2> QED BY <1>r, <2>2, <2>4
<1>6. ASSUME NEW o \in Observers, NEW m \in Multiplexer, RemoveSubscriber(o, m),
             m.reading[d] \in R
      PROVE  mux'[q].reading[d] \in R
  <2> DEFINE left == [m EXCEPT !.subscribers = @ \ {o}, !.queue = DropJoin(o, m.queue)]
  <2>1. left.reading = m.reading /\ NoMultiplexer.reading[d] = None
    BY DEF Multiplexer, NoMultiplexer, Unread
  <2>2. mux' = [mux EXCEPT ![QueryOf[o]] = IF left.subscribers = {} THEN NoMultiplexer ELSE left]
    BY <1>6 DEF RemoveSubscriber
  <2> HIDE DEF left, R
  <2>4. CASE q = QueryOf[o]
    <3>1. mux'[q] \in {NoMultiplexer, left}
      BY <1>1, <2>2, <2>4
    <3> QED BY <1>6, <1>r, <2>1, <3>1
  <2>5. CASE q # QueryOf[o]
    BY <1>1, <1>r, <2>2, <2>5
  <2> QED BY <2>4, <2>5
<1> HIDE DEF R
<1>7. ASSUME NEW p \in Queries, NEW m \in Multiplexer, mux' = [mux EXCEPT ![p] = Done(m)],
             m.reading[d] \in R
      PROVE  mux'[q].reading[d] \in R
  <2>1. Done(m).reading = m.reading
    BY DEF Done, Multiplexer
  <2> QED BY <1>1, <1>7, <1>r, <2>1
<1>8. ASSUME NEW p \in Queries, RunTask(p)
      PROVE  mux'[q].reading[d] \in R
  <2>1. mux[p] \in Multiplexer /\ mux[p].reading[d] \in R /\ Unread[d] = None
    BY <1>1, <1>r DEF Unread
  <2>2. ASSUME NEW batch \in SUBSET Docs, ReadBatch(p, batch)
        PROVE  mux'[q].reading[d] \in R
    <3>1. mux'[q] = mux[q] \/ mux'[q].reading[d] \in {mux[q].reading[d], Now}
      BY <1>1, <2>1, <2>2 DEF ReadBatch, Multiplexer
    <3> QED BY <1>r, <3>1
  <2>3. ASSUME NEW time \in 0..Now, ApplySnapshot(p, time)
        PROVE  mux'[q].reading[d] \in R
    <3>1. mux'[q] = mux[q] \/ mux'[q].reading = Unread
      BY <1>1, <2>1, <2>3 DEF ApplySnapshot, Publish, Done, Multiplexer
    <3> QED BY <1>r, <2>1, <3>1
  <2>4. CASE SnapshotFails(p)
    <3>1. mux'[q] = mux[q] \/ mux'[q].reading = Unread
      BY <1>1, <2>1, <2>4 DEF SnapshotFails, Done, Multiplexer
    <3> QED BY <1>r, <2>1, <3>1
  <2>5. CASE ProcessEvent(p)
    <3>1. mux'[q] = mux[q] \/ (p = q /\ mux'[q].reading = mux[q].reading)
      BY <1>1, <2>1, <2>5 DEF ProcessEvent, Publish, ApplyChange, Done, Multiplexer
    <3> QED BY <1>r, <3>1
  <2>6. CASE JoinLive(p)
    <3>1. mux[p].queue # <<>> /\ Task(p).kind = "join"
      BY <2>6 DEF JoinLive, NextTask, Task
    <3>2. Done(mux[p]) \in Multiplexer /\ Done(mux[p]).reading = mux[p].reading
      <4>1. Done(mux[p]) \in Multiplexer /\ Done(mux[p]) = [mux[p] EXCEPT !.queue = Tail(mux[p].queue)]
        BY <2>1, <3>1, DoneTask
      <4> QED BY <2>1, <4>1 DEF Multiplexer
    <3>3. CASE mux[p].startupError
      <4>1. Task(p).observer \in Observers
        BY <2>1, <3>1, DoneTask DEF Task, Tasks
      <4> QED BY <2>1, <2>6, <3>2, <3>3, <4>1, <1>6 DEF JoinLive
    <3>4. CASE ~mux[p].startupError
      BY <1>7, <2>1, <2>6, <3>4 DEF JoinLive
    <3> QED BY <3>3, <3>4
  <2> QED BY <1>8, <2>2, <2>3, <2>4, <2>5, <2>6 DEF RunTask, TaskProceeds
<1>9. CASE Feed
  BY <1>3, <1>4, <1>9, <1>r DEF Feed, AttachStream, DeliverChange, StreamBreaks, OpeningFails,
                               RestartFeed, OthersSubscribe, OthersStop, observerVars
<1>10. ASSUME NEW o \in Observers, Abort(o)
       PROVE  mux'[q].reading[d] \in R
  <2>1. QueryOf[o] \in Queries /\ mux[QueryOf[o]] \in Multiplexer
    BY <1>1, ChangeFeedAssumption
  <2>2. mux[QueryOf[o]].reading[d] \in R
    BY <1>r, <2>1
  <2>3. RemoveSubscriber(o, mux[QueryOf[o]])
    BY <1>10 DEF Abort
  <2> QED BY <1>6, <2>1, <2>2, <2>3
<1> QED BY <1>3, <1>5, <1>8, <1>9, <1>10 DEF Next, WriteDoc, observerVars, vars

(* No step leaves the types.                                               *)
LEMMA TypeStep ==
  ASSUME TypeOK, \A q \in Queries : ReadsStored(mux[q]), [Next]_vars
  PROVE  TypeOK'
<1>1. /\ Now \in Nat /\ Now <= MaxWrites /\ MaxWrites \in Nat /\ None = MaxWrites + 1
      /\ \A q \in Queries : mux[q] \in Multiplexer
  BY BasicTypes
<1>2. ASSUME NEW d \in Docs, NEW kind \in {"replace", "update", "delete"},
             NEW value \in Values \cup {Absent}, WriteDoc(d, kind, value)
      PROVE  TypeOK'
  <2>1. log' \in Seq(Write) /\ Len(log') = Now + 1
    BY <1>2, AppendProperties DEF TypeOK, WriteDoc, Write, Now
  <2>2. Now' = Now + 1 /\ Now < MaxWrites
    BY <1>2, <2>1 DEF WriteDoc, Now
  <2> QED BY <1>1, <1>2, <2>1, <2>2 DEF TypeOK, WriteDoc, feedVars, observerVars
<1>3. ASSUME Feed
      PROVE  TypeOK'
  <2>1. UNCHANGED log /\ Now' = Now
    BY <1>3 DEF Feed, AttachStream, DeliverChange, StreamBreaks, OpeningFails, RestartFeed,
                OthersSubscribe, OthersStop, Now
  <2>2. ASSUME NEW time \in 0..Now, AttachStream(time)
        PROVE  TypeOK'
    <3>1. mux' \in [Queries -> Multiplexer]
      BY <2>2, EnqueueAllType, SyncIsTask DEF AttachStream
    <3>2. stream' \in 0..Now' /\ opening' = None
      BY <2>1, <2>2 DEF AttachStream
    <3> QED BY <2>1, <2>2, <3>1, <3>2 DEF TypeOK, AttachStream
  <2>3. ASSUME DeliverChange
        PROVE  TypeOK'
    <3> DEFINE write == log[stream + 1]
               value == IF write.kind = "update" THEN ValueAt(write.doc, Now) ELSE write.value
               event == [kind |-> "event", doc |-> write.doc, value |-> value,
                         time |-> stream + 1]
    <3>1. stream \in 0..Now /\ stream + 1 \in 1..Now
      BY <1>1, <2>3 DEF DeliverChange, TypeOK
    <3>2. write \in Write
      BY <3>1, ElementOfSeq DEF TypeOK, Now
    <3>3. ValueAt(write.doc, Now) \in Values \cup {Absent}
      BY <3>2, <1>1, ValueAtType DEF Write
    <3>4. event \in Tasks
      BY <1>1, <3>1, <3>2, <3>3 DEF Tasks, Write
    <3>5. mux' = EnqueueAll(event)
      BY <2>3 DEF DeliverChange
    <3>6. mux' \in [Queries -> Multiplexer]
      BY <3>4, <3>5, EnqueueAllType
    <3>7. stream' \in 0..Now' /\ opening' = opening
      BY <1>1, <2>1, <2>3, <3>1 DEF DeliverChange
    <3> QED BY <2>1, <2>3, <3>6, <3>7 DEF TypeOK, DeliverChange
  <2>4. CASE StreamBreaks \/ OpeningFails
    <3>1. faults' \in 0..MaxFaults
      BY <2>4, ChangeFeedAssumption DEF TypeOK, StreamBreaks, OpeningFails
    <3>2. {stream', opening'} \subseteq {stream, opening, None}
      BY <2>4 DEF StreamBreaks, OpeningFails
    <3> QED BY <2>1, <2>4, <3>1, <3>2 DEF TypeOK, StreamBreaks, OpeningFails, observerVars
  <2>5. CASE RestartFeed
    <3>1. opening' \in 0..Now' /\ stream' = stream
      BY <1>1, <2>1, <2>5 DEF RestartFeed
    <3> QED BY <2>1, <2>5, <3>1 DEF TypeOK, RestartFeed, observerVars
  <2>6. CASE OthersSubscribe
    BY <1>1, <2>1, <2>6 DEF TypeOK, OthersSubscribe, StartFeed, observerVars
  <2>7. CASE OthersStop
    BY <1>1, <2>1, <2>7 DEF TypeOK, OthersStop, StopFeed, observerVars
  <2> QED BY <1>3, <2>2, <2>3, <2>4, <2>5, <2>6, <2>7 DEF Feed
<1>4. ASSUME NEW o \in Observers, AddSubscriber(o)
      PROVE  TypeOK'
  <2> DEFINE q == QueryOf[o]
             m == IF q \in Observed THEN mux[q] ELSE StartMultiplexer
             join == [kind |-> "join", observer |-> o]
  <2>1. q \in Queries /\ m \in Multiplexer /\ join \in Tasks
    BY <1>1, StartMultiplexerType, SyncIsTask, ChangeFeedAssumption
  <2>2. mux' = [mux EXCEPT ![q] = [Enqueue(m, join) EXCEPT !.subscribers = @ \cup {o}]]
    BY <1>4 DEF AddSubscriber
  <2> HIDE DEF q, m, join
  <2>3. [Enqueue(m, join) EXCEPT !.subscribers = @ \cup {o}] \in Multiplexer
    <3>1. Enqueue(m, join) \in Multiplexer
      BY <2>1, EnqueueTask
    <3> QED BY <3>1 DEF Multiplexer
  <2>4. mux' \in [Queries -> Multiplexer]
    BY <2>1, <2>2, <2>3 DEF TypeOK
  <2>5. Now' = Now
    BY <1>4 DEF AddSubscriber, Now
  <2> QED BY <1>1, <1>4, <2>4, <2>5 DEF TypeOK, AddSubscriber, StartFeed, Phases
<1>5. ASSUME NEW o \in Observers, Abort(o)
      PROVE  TypeOK'
  <2>1. mux[QueryOf[o]] \in Multiplexer
    BY <1>1, ChangeFeedAssumption
  <2>2. RemoveSubscriber(o, mux[QueryOf[o]]) /\ UNCHANGED log /\ Now' = Now
    BY <1>5 DEF Abort, Now
  <2>3. faults' = faults
    BY <1>5 DEF Abort
  <2> QED BY <2>1, <2>2, <2>3, RemoveSubscriberType DEF TypeOK
<1>6. ASSUME NEW q \in Queries, RunTask(q)
      PROVE  TypeOK'
  <2>1. mux[q] \in Multiplexer
    BY <1>1
  <2>2. mux[q].queue # <<>>
    BY <1>6 DEF RunTask, TaskProceeds, ReadBatch, ApplySnapshot, SnapshotFails, ProcessEvent, JoinLive, NextTask
  <2>3. Task(q) \in Tasks
    BY <2>1, <2>2, DoneTask DEF Task
  <2>4. ASSUME NEW batch \in SUBSET Docs, ReadBatch(q, batch)
        PROVE  TypeOK'
    <3> DEFINE read == [d \in Docs |-> IF d \in batch THEN Now ELSE mux[q].reading[d]]
    <3>1. read \in [Docs -> 0..None]
      BY <1>1, <2>1 DEF Multiplexer
    <3>2. mux' = [mux EXCEPT ![q] = [mux[q] EXCEPT !.reading = read]]
      BY <2>1, <2>4 DEF ReadBatch, Multiplexer
    <3> HIDE DEF read
    <3>3. [mux[q] EXCEPT !.reading = read] \in Multiplexer
      BY <2>1, <3>1 DEF Multiplexer
    <3>4. mux' \in [Queries -> Multiplexer]
      BY <3>2, <3>3 DEF TypeOK
    <3> QED BY <2>4, <3>4 DEF TypeOK, ReadBatch, feedVars, Now
  <2>5. ASSUME NEW time \in 0..Now, ApplySnapshot(q, time)
        PROVE  TypeOK'
    <3> DEFINE read == mux[q].reading
               view == [d \in Docs |-> Matched(q, d, read[d])]
               m == [mux[q] EXCEPT !.view = view, !.snapshotTime = time,
                                   !.reading = Unread, !.asOf = read, !.unsynced = {}]
    <3>1. read \in [Docs -> 0..Now] /\ read \in [Docs -> 0..None]
      BY <1>1, <2>1, <2>5 DEF ApplySnapshot, ReadsStored, Multiplexer
    <3>2. view \in Contents /\ Unread \in [Docs -> 0..None] /\ time \in 0..MaxWrites
      BY <1>1, <3>1, SnapshotType, BasicTypes
    <3>4. Publish(q, m)
      BY <2>5 DEF ApplySnapshot
    <3> HIDE DEF read, view
    <3>3. m \in Multiplexer /\ m.queue # <<>>
      BY <2>1, <2>2, <3>1, <3>2 DEF Multiplexer
    <3> HIDE DEF m
    <3> QED BY <3>3, <3>4, PublishType
  <2>6. CASE SnapshotFails(q)
    <3> DEFINE m == [mux[q] EXCEPT !.startupError = @ \/ Task(q).startup,
                                   !.reading = Unread, !.unsynced = Docs]
    <3>1. m \in Multiplexer /\ m.queue # <<>>
      BY <2>1, <2>2, BasicTypes DEF Multiplexer
    <3>2. mux' = [mux EXCEPT ![q] = Done(m)]
      BY <2>1, <2>6 DEF SnapshotFails, TypeOK
    <3> HIDE DEF m
    <3>3. mux' \in [Queries -> Multiplexer]
      BY <3>1, <3>2, DoneTask DEF TypeOK
    <3>4. faults' \in 0..MaxFaults
      BY <2>6, ChangeFeedAssumption DEF SnapshotFails, TypeOK
    <3> QED BY <2>6, <3>3, <3>4 DEF TypeOK, SnapshotFails, feedVars, Now
  <2>7. CASE ProcessEvent(q)
    <3> DEFINE m == IF Task(q).time < mux[q].snapshotTime THEN mux[q] ELSE ApplyChange(q)
    <3> DEFINE change == Task(q)
               value == IF change.value \in Matching[q] THEN change.value ELSE Absent
    <3>a. change.value \in Values \cup {Absent} /\ mux[q].view \in Contents
      BY <2>1, <2>3, <2>7 DEF ProcessEvent, NextTask, Task, Tasks, Multiplexer
    <3>b. [mux[q].view EXCEPT ![change.doc] = value] \in Contents
      <4>1. value \in Values \cup {Absent}
        BY <3>a
      <4> HIDE DEF value, change
      <4> QED BY <3>a, <4>1 DEF Contents
    <3>e. change.doc \in Docs /\ change.time \in 0..None /\ mux[q].asOf \in [Docs -> 0..None]
      BY <1>1, <2>1, <2>3, <2>7 DEF ProcessEvent, NextTask, Task, Tasks, Multiplexer
    <3> DEFINE asOf == [mux[q].asOf EXCEPT ![change.doc] =
                          IF @ = None \/ @ < change.time THEN change.time ELSE @]
    <3>f. asOf \in [Docs -> 0..None]
      <4> HIDE DEF change
      <4> QED BY <3>e
    <3>c. ApplyChange(q) = [mux[q] EXCEPT !.view = [mux[q].view EXCEPT ![change.doc] = value],
                                          !.unsynced = mux[q].unsynced \ {change.doc}, !.asOf = asOf]
      BY <2>1 DEF ApplyChange, Multiplexer
    <3> HIDE DEF value, change
    <3> DEFINE view == [mux[q].view EXCEPT ![change.doc] = value]
               unsynced == mux[q].unsynced \ {change.doc}
    <3>g. unsynced \in SUBSET Docs
      BY <2>1 DEF Multiplexer
    <3> HIDE DEF view, unsynced, asOf
    <3> DEFINE n == [mux[q] EXCEPT !.view = view, !.unsynced = unsynced, !.asOf = asOf]
    <3>d. n \in Multiplexer /\ n.queue # <<>>
      BY <2>1, <2>2, <3>b, <3>f, <3>g DEF Multiplexer, view
    <3>1. m \in Multiplexer /\ m.queue # <<>>
      BY <2>1, <2>2, <3>c, <3>d DEF view, unsynced
    <3>2. Publish(q, m)
      BY <2>7 DEF ProcessEvent
    <3> HIDE DEF m
    <3> QED BY <3>1, <3>2, PublishType
  <2>8. CASE JoinLive(q)
    <3>1. Done(mux[q]) \in Multiplexer
      BY <2>1, <2>2, DoneTask
    <3>2. Task(q).observer \in Observers
      BY <2>3, <2>8 DEF JoinLive, NextTask, Task, Tasks
    <3>3. UNCHANGED log /\ UNCHANGED faults /\ Now' = Now
      BY <2>8 DEF JoinLive, Now
    <3>4. CASE mux[q].startupError
      <4>1. RemoveSubscriber(Task(q).observer, Done(mux[q]))
        BY <2>8, <3>4 DEF JoinLive
      <4> QED BY <3>1, <3>2, <3>3, <4>1, RemoveSubscriberType DEF TypeOK
    <3>5. CASE ~mux[q].startupError
      <4>1. mux' = [mux EXCEPT ![q] = Done(mux[q])]
        BY <2>8, <3>5 DEF JoinLive, TypeOK
      <4>2. mux' \in [Queries -> Multiplexer]
        BY <3>1, <4>1 DEF TypeOK
      <4>3. mux[q].view \in Contents
        BY <2>1 DEF Multiplexer
      <4> QED BY <2>8, <3>2, <3>3, <3>5, <4>2, <4>3 DEF TypeOK, JoinLive, feedVars, Phases
    <3> QED BY <3>4, <3>5
  <2> QED BY <1>6, <2>4, <2>5, <2>6, <2>7, <2>8 DEF RunTask, TaskProceeds
<1>7. CASE UNCHANGED vars
  BY <1>7 DEF TypeOK, vars, feedVars, observerVars, Now
<1> QED BY <1>2, <1>3, <1>4, <1>5, <1>6, <1>7 DEF Next

(* Nothing is written, and nobody is there.                                *)
LEMMA TypeInit ==
  ASSUME Init
  PROVE  TypeOK
<1>1. log \in Seq(Write) /\ Now = 0
  BY EmptySeq DEF Init, Now
<1>2. NoDocs \in Contents /\ NoMultiplexer \in Multiplexer
  <2>1. <<>> \in Seq(Tasks) /\ NoDocs \in Contents
    BY EmptySeq DEF NoDocs, Contents
  <2> QED BY <2>1, ChangeFeedAssumption DEF NoMultiplexer, Multiplexer, None, Unread
<1>3. mux \in [Queries -> Multiplexer] /\ seen \in [Observers -> Contents]
  BY <1>2 DEF Init
<1>4. Now <= MaxWrites /\ faults \in 0..MaxFaults
  BY <1>1, ChangeFeedAssumption DEF Init
<1> QED BY <1>1, <1>3, <1>4 DEF Init, TypeOK, Phases

(* Type correctness, for every collection and any number of observers.     *)
THEOREM TypeCorrect == Spec => []TypeOK
<1>1. Init => TypeOK
  BY TypeInit
<1>2. Init => \A q \in Queries : ReadsStored(mux[q])
  BY DEF Init, ReadsStored, NoMultiplexer, Unread
<1>3. /\ TypeOK /\ (\A q \in Queries : ReadsStored(mux[q])) /\ [Next]_vars
      => TypeOK' /\ (\A q \in Queries : ReadsStored(mux[q]))'
  BY TypeStep, ReadingStep
<1> QED BY <1>1, <1>2, <1>3, PTL DEF Spec
-----------------------------------------------------------------------------
(* What a step does to one multiplexer m, and to its queue.                *)
Added(m, n, task) ==
  /\ DOMAIN n.queue = 1..(Len(m.queue) + 1)
  /\ \A i \in 1..Len(m.queue) : n.queue[i] = m.queue[i]
  /\ n.queue[Len(m.queue) + 1] = task

Dropped(m, n, p) ==
  /\ p \in 1..Len(m.queue)
  /\ DOMAIN n.queue = 1..(Len(m.queue) - 1)
  /\ \A i \in 1..(Len(m.queue) - 1) :
       n.queue[i] = IF i < p THEN m.queue[i] ELSE m.queue[i + 1]

SameView(m, n) ==
  /\ n.reading = m.reading /\ n.view = m.view /\ n.snapshotTime = m.snapshotTime
  /\ n.asOf = m.asOf /\ n.unsynced = m.unsynced

Startup == [kind |-> "sync", startup |-> TRUE]
Resync == [kind |-> "sync", startup |-> FALSE]
JoinOf(o) == [kind |-> "join", observer |-> o]
EventOf(time) ==
  LET write == log[time]
  IN  [kind |-> "event", doc |-> write.doc,
       value |-> IF write.kind = "update" THEN ValueAt(write.doc, Now) ELSE write.value,
       time |-> time]

Resynced(q) ==
  /\ \E time \in 0..Now : AttachStream(time)
  /\ Added(mux[q], mux'[q], Resync)
Delivered(q) ==
  /\ DeliverChange /\ q \in Observed
  /\ Added(mux[q], mux'[q], EventOf(stream + 1))
Joined(q, o) ==
  /\ AddSubscriber(o) /\ QueryOf[o] = q /\ q \in Observed
  /\ Added(mux[q], mux'[q], JoinOf(o))
Started(q, o) ==
  /\ AddSubscriber(o) /\ QueryOf[o] = q /\ q \notin Observed
  /\ SameView(NoMultiplexer, mux'[q])
  /\ mux'[q].queue \in {<<Startup, JoinOf(o)>>, <<Startup, Resync, JoinOf(o)>>}
  /\ stream # None => mux'[q].queue = <<Startup, Resync, JoinOf(o)>>
JoinDropped(q) ==
  \E p \in 1..Len(mux[q].queue) :
    mux[q].queue[p].kind = "join" /\ Dropped(mux[q], mux'[q], p) /\ SameView(mux[q], mux'[q])
(* What a snapshot has read becomes the view, as of when it was read.      *)
SnapshotApplied(q) ==
  /\ \E time \in 0..Now :
       /\ ApplySnapshot(q, time) /\ mux'[q].snapshotTime = time
       /\ \A d \in Docs : mux[q].reading[d] \in 0..time
  /\ Dropped(mux[q], mux'[q], 1) /\ mux[q].queue # <<>>
  /\ mux'[q].view = [d \in Docs |-> Matched(q, d, mux[q].reading[d])]
  /\ mux'[q].reading = Unread /\ mux'[q].asOf = mux[q].reading /\ mux'[q].unsynced = {}
SnapshotFailed(q) ==
  /\ SnapshotFails(q)
  /\ Dropped(mux[q], mux'[q], 1)
  /\ mux'[q].view = mux[q].view /\ mux'[q].snapshotTime = mux[q].snapshotTime
  /\ mux'[q].reading = Unread /\ mux'[q].asOf = mux[q].asOf /\ mux'[q].unsynced = Docs

(* The event is used for its document, or dropped.                         *)
Used(q, d) == d = mux[q].queue[1].doc /\ mux[q].queue[1].time >= mux[q].snapshotTime
EventProcessed(q) ==
  /\ ProcessEvent(q)
  /\ Dropped(mux[q], mux'[q], 1)
  /\ mux'[q].reading = mux[q].reading /\ mux'[q].snapshotTime = mux[q].snapshotTime
  /\ \A d \in Docs :
       /\ mux'[q].view[d] =
            IF Used(q, d)
            THEN IF mux[q].queue[1].value \in Matching[q] THEN mux[q].queue[1].value ELSE Absent
            ELSE mux[q].view[d]
       /\ mux'[q].asOf[d] =
            IF Used(q, d) /\ (mux[q].asOf[d] = None \/ mux[q].asOf[d] < mux[q].queue[1].time)
            THEN mux[q].queue[1].time ELSE mux[q].asOf[d]
       /\ d \in mux'[q].unsynced <=> d \in mux[q].unsynced /\ ~Used(q, d)
SnapshotRead(q) ==
  \E batch \in SUBSET Docs :
    /\ ReadBatch(q, batch)
    /\ mux'[q].queue = mux[q].queue
    /\ mux'[q].view = mux[q].view /\ mux'[q].snapshotTime = mux[q].snapshotTime
    /\ mux'[q].asOf = mux[q].asOf /\ mux'[q].unsynced = mux[q].unsynced
    /\ \A d \in Docs : mux'[q].reading[d] = IF d \in batch THEN Now ELSE mux[q].reading[d]

(* What enqueueing a task, and doing one, does to a multiplexer.           *)
LEMMA AddedByEnqueue ==
  ASSUME NEW m \in Multiplexer, NEW task \in Tasks
  PROVE  /\ Added(m, Enqueue(m, task), task) /\ SameView(m, Enqueue(m, task))
         /\ Enqueue(m, task).subscribers = m.subscribers
<1>1. /\ Enqueue(m, task) = [m EXCEPT !.queue = Append(m.queue, task)]
      /\ DOMAIN Append(m.queue, task) = 1..(Len(m.queue) + 1)
      /\ \A i \in 1..Len(m.queue) : Append(m.queue, task)[i] = m.queue[i]
      /\ Append(m.queue, task)[Len(m.queue) + 1] = task
  BY EnqueueTask
<1>2. /\ Enqueue(m, task).queue = Append(m.queue, task)
      /\ Enqueue(m, task).subscribers = m.subscribers
      /\ SameView(m, Enqueue(m, task))
  BY <1>1 DEF Multiplexer, SameView
<1> QED BY <1>1, <1>2 DEF Added

LEMMA DroppedByDone ==
  ASSUME NEW m \in Multiplexer, m.queue # <<>>
  PROVE  /\ Dropped(m, Done(m), 1) /\ SameView(m, Done(m))
         /\ Done(m).subscribers = m.subscribers
<1>1. /\ Done(m) = [m EXCEPT !.queue = Tail(m.queue)]
      /\ Len(m.queue) \in Nat \ {0}
      /\ DOMAIN Tail(m.queue) = 1..(Len(m.queue) - 1)
      /\ \A i \in 1..(Len(m.queue) - 1) : Tail(m.queue)[i] = m.queue[i + 1]
  BY DoneTask
<1>2. /\ Done(m).queue = Tail(m.queue)
      /\ Done(m).subscribers = m.subscribers
      /\ SameView(m, Done(m))
  BY <1>1 DEF Multiplexer, SameView
<1>3. \A i \in 1..(Len(m.queue) - 1) : ~(i < 1)
  BY <1>1
<1> QED BY <1>1, <1>2, <1>3 DEF Dropped

(* What a step of each kind does to the multiplexers.                      *)
LEMMA RemoveEffect ==
  ASSUME TypeOK, NEW o \in Observers, NEW m \in Multiplexer, RemoveSubscriber(o, m),
         NEW q \in Queries
  PROVE  /\ q # QueryOf[o] => mux'[q] = mux[q]
         /\ q = QueryOf[o] /\ m.subscribers \ {o} = {} => mux'[q] = NoMultiplexer
         /\ q = QueryOf[o] /\ m.subscribers \ {o} # {} =>
              /\ mux'[q].subscribers = m.subscribers \ {o} /\ SameView(m, mux'[q])
              /\ \/ /\ mux'[q].queue = m.queue
                    /\ \A i \in 1..Len(m.queue) :
                         ~(m.queue[i].kind = "join" /\ m.queue[i].observer = o)
                 \/ \E p \in 1..Len(m.queue) :
                      /\ m.queue[p].kind = "join" /\ m.queue[p].observer = o
                      /\ Dropped(m, mux'[q], p)
<1> DEFINE left == [m EXCEPT !.subscribers = @ \ {o}, !.queue = DropJoin(o, m.queue)]
<1>1. mux' = [mux EXCEPT ![QueryOf[o]] = IF left.subscribers = {} THEN NoMultiplexer ELSE left]
  BY DEF RemoveSubscriber
<1>2. /\ left.subscribers = m.subscribers \ {o} /\ left.queue = DropJoin(o, m.queue)
      /\ SameView(m, left)
  BY DEF Multiplexer, SameView
<1>3. m.queue \in Seq(Tasks)
  BY DEF Multiplexer
<1>4. \/ /\ left.queue = m.queue
         /\ \A i \in 1..Len(m.queue) : ~(m.queue[i].kind = "join" /\ m.queue[i].observer = o)
      \/ \E p \in 1..Len(m.queue) :
           /\ m.queue[p].kind = "join" /\ m.queue[p].observer = o
           /\ Dropped(m, left, p)
  <2>1. CASE /\ DropJoin(o, m.queue) = m.queue
             /\ \A i \in 1..Len(m.queue) : ~(m.queue[i].kind = "join" /\ m.queue[i].observer = o)
    BY <1>2, <2>1
  <2>2. CASE \E p \in 1..Len(m.queue) :
                 /\ m.queue[p].kind = "join" /\ m.queue[p].observer = o
                 /\ DOMAIN DropJoin(o, m.queue) = 1..(Len(m.queue) - 1)
                 /\ \A i \in 1..(Len(m.queue) - 1) :
                      DropJoin(o, m.queue)[i] = IF i < p THEN m.queue[i] ELSE m.queue[i + 1]
    <3> HIDE DEF left
    <3> QED BY <1>2, <2>2 DEF Dropped
  <2> QED BY <1>3, <2>1, <2>2, DropJoinTask
<1> HIDE DEF left
<1>5. mux \in [Queries -> Multiplexer] /\ QueryOf[o] \in Queries
  BY ChangeFeedAssumption DEF TypeOK
<1>6. q # QueryOf[o] => mux'[q] = mux[q]
  BY <1>1, <1>5
<1>7. q = QueryOf[o] => mux'[q] = IF m.subscribers \ {o} = {} THEN NoMultiplexer ELSE left
  BY <1>1, <1>2, <1>5
<1>8. CASE q = QueryOf[o] /\ m.subscribers \ {o} # {}
  <2>1. mux'[q] = left
    BY <1>7, <1>8
  <2> QED BY <1>2, <1>4, <1>8, <2>1
<1> QED BY <1>6, <1>7, <1>8

(* A join that is done or aborted, and the multiplexer stays.              *)
LEMMA LeaveEffect ==
  ASSUME TypeOK, \A q \in Queries : Registered(q), NEW q \in Queries,
         NEW o \in Observers,
         \/ Abort(o)
         \/ /\ JoinLive(QueryOf[o]) /\ Task(QueryOf[o]).observer = o
            /\ mux[QueryOf[o]].startupError
  PROVE  \/ q # QueryOf[o] /\ mux'[q] = mux[q]
         \/ q = QueryOf[o] /\ mux'[q] = NoMultiplexer /\ mux[q].subscribers \subseteq {o}
         \/ /\ q = QueryOf[o] /\ mux'[q].subscribers = mux[q].subscribers \ {o}
            /\ mux'[q].subscribers # {}
            /\ \/ /\ mux'[q].queue = mux[q].queue /\ SameView(mux[q], mux'[q])
                  /\ \A i \in 1..Len(mux[q].queue) :
                       ~(mux[q].queue[i].kind = "join" /\ mux[q].queue[i].observer = o)
               \/ \E p \in 1..Len(mux[q].queue) :
                    /\ mux[q].queue[p].kind = "join" /\ mux[q].queue[p].observer = o
                    /\ Dropped(mux[q], mux'[q], p) /\ SameView(mux[q], mux'[q])
<1> DEFINE k == QueryOf[o]
<1>1. k \in Queries /\ mux[k] \in Multiplexer
  BY BasicTypes, ChangeFeedAssumption
<1>2. CASE Abort(o)
  <2>1. RemoveSubscriber(o, mux[k])
    BY <1>2 DEF Abort
  <2> HIDE DEF k
  <2>2. /\ q # QueryOf[o] => mux'[q] = mux[q]
        /\ q = QueryOf[o] /\ mux[k].subscribers \ {o} = {} => mux'[q] = NoMultiplexer
        /\ q = QueryOf[o] /\ mux[k].subscribers \ {o} # {} =>
              /\ mux'[q].subscribers = mux[k].subscribers \ {o} /\ SameView(mux[k], mux'[q])
              /\ \/ /\ mux'[q].queue = mux[k].queue
                    /\ \A i \in 1..Len(mux[k].queue) :
                         ~(mux[k].queue[i].kind = "join" /\ mux[k].queue[i].observer = o)
                 \/ \E p \in 1..Len(mux[k].queue) :
                      /\ mux[k].queue[p].kind = "join" /\ mux[k].queue[p].observer = o
                      /\ Dropped(mux[k], mux'[q], p)
    BY <1>1, <2>1, RemoveEffect
  <2> USE DEF k
  <2>3. CASE q # QueryOf[o]
    BY <2>2, <2>3
  <2>4. CASE q = QueryOf[o] /\ mux[q].subscribers \ {o} = {}
    BY <2>2, <2>4
  <2>5. CASE q = QueryOf[o] /\ mux[q].subscribers \ {o} # {}
    <3>1. /\ mux'[q].subscribers = mux[q].subscribers \ {o} /\ SameView(mux[q], mux'[q])
          /\ \/ /\ mux'[q].queue = mux[q].queue
                /\ \A i \in 1..Len(mux[q].queue) :
                     ~(mux[q].queue[i].kind = "join" /\ mux[q].queue[i].observer = o)
             \/ \E p \in 1..Len(mux[q].queue) :
                  /\ mux[q].queue[p].kind = "join" /\ mux[q].queue[p].observer = o
                  /\ Dropped(mux[q], mux'[q], p)
      BY <2>2, <2>5
    <3> QED BY <2>5, <3>1
  <2> QED BY <2>3, <2>4, <2>5
<1>3. CASE JoinLive(k) /\ Task(k).observer = o /\ mux[k].startupError
  <2> DEFINE m == Done(mux[k])
  <2>1. RemoveSubscriber(o, m)
    BY <1>3 DEF JoinLive
  <2>2. mux[k].queue # <<>> /\ Head(mux[k].queue).kind = "join" /\ Head(mux[k].queue).observer = o
    BY <1>3 DEF JoinLive, NextTask, Task
  <2>3. /\ m \in Multiplexer /\ Dropped(mux[k], m, 1) /\ SameView(mux[k], m)
        /\ m.subscribers = mux[k].subscribers
        /\ m.queue \in Seq(Tasks) /\ Len(m.queue) = Len(mux[k].queue) - 1
        /\ Len(mux[k].queue) \in Nat \ {0} /\ DOMAIN mux[k].queue = 1..Len(mux[k].queue)
        /\ mux[k].queue[1].kind = "join" /\ mux[k].queue[1].observer = o
    <3>0. m = [mux[k] EXCEPT !.queue = Tail(mux[k].queue)] /\ Head(mux[k].queue) = mux[k].queue[1]
          /\ m \in Multiplexer
      BY <1>1, <2>2, DoneTask
    <3>1. m \in Multiplexer /\ m.queue = Tail(mux[k].queue) /\ Head(mux[k].queue) = mux[k].queue[1]
      <4> HIDE DEF m, k
      <4> QED BY <1>1, <3>0 DEF Multiplexer
    <3>2. Len(m.queue) = Len(mux[k].queue) - 1
      BY <1>1, <2>2, <3>1, HeadTailProperties DEF Multiplexer
    <3> QED BY <1>1, <2>2, <3>1, <3>2, DoneTask, DroppedByDone DEF Multiplexer
  <2> HIDE DEF m
  <2>4. \A i \in 1..Len(m.queue) : ~(m.queue[i].kind = "join" /\ m.queue[i].observer = o)
    <3> SUFFICES ASSUME NEW i \in 1..Len(m.queue), m.queue[i].kind = "join", m.queue[i].observer = o
                 PROVE  FALSE
      OBVIOUS
    <3>0. i \in 1..(Len(mux[k].queue) - 1) /\ ~(i < 1)
      BY <2>3
    <3>1. m.queue[i] = mux[k].queue[i + 1] /\ i + 1 \in DOMAIN mux[k].queue /\ i + 1 # 1
          /\ 1 \in DOMAIN mux[k].queue
      <4>1. m.queue[i] = mux[k].queue[i + 1]
        BY <2>3, <3>0 DEF Dropped
      <4>2. i + 1 \in DOMAIN mux[k].queue /\ i + 1 # 1 /\ 1 \in DOMAIN mux[k].queue
        BY <2>3, <3>0
      <4> QED BY <4>1, <4>2
    <3> QED BY <1>1, <2>3, <3>1 DEF Registered, JoinsOnce
  <2> HIDE DEF k
  <2>5. /\ q # QueryOf[o] => mux'[q] = mux[q]
        /\ q = QueryOf[o] /\ m.subscribers \ {o} = {} => mux'[q] = NoMultiplexer
        /\ q = QueryOf[o] /\ m.subscribers \ {o} # {} =>
              /\ mux'[q].subscribers = m.subscribers \ {o} /\ SameView(m, mux'[q])
              /\ \/ mux'[q].queue = m.queue
                 \/ \E p \in 1..Len(m.queue) :
                      m.queue[p].kind = "join" /\ m.queue[p].observer = o
    BY <2>1, <2>3, RemoveEffect
  <2>6. CASE q # QueryOf[o]
    BY <2>5, <2>6
  <2>7. CASE q = QueryOf[o] /\ m.subscribers \ {o} = {}
    BY <2>3, <2>5, <2>7 DEF k
  <2>8. CASE q = QueryOf[o] /\ m.subscribers \ {o} # {}
    <3>1. /\ mux'[q].subscribers = mux[q].subscribers \ {o} /\ SameView(mux[q], mux'[q])
          /\ mux'[q].queue = m.queue
      BY <2>3, <2>4, <2>5, <2>8 DEF k, SameView
    <3>2. Dropped(mux[q], mux'[q], 1)
      BY <2>3, <2>8, <3>1 DEF k, Dropped
    <3>3. 1 \in 1..Len(mux[q].queue) /\ mux[q].queue[1].kind = "join" /\ mux[q].queue[1].observer = o
      BY <2>3, <2>8 DEF k
    <3>4. \E p \in 1..Len(mux[q].queue) :
            /\ mux[q].queue[p].kind = "join" /\ mux[q].queue[p].observer = o
            /\ Dropped(mux[q], mux'[q], p) /\ SameView(mux[q], mux'[q])
      BY <3>1, <3>2, <3>3
    <3>5. mux'[q].subscribers # {}
      BY <2>3, <2>8, <3>1 DEF k
    <3> QED BY <2>8, <3>1, <3>4, <3>5
  <2> QED BY <2>6, <2>7, <2>8
<1> QED BY <1>2, <1>3
Stays(q) ==
  /\ mux'[q] = mux[q]
  /\ stream' \in {stream, None} \/ q \notin Observed
Left(q) == mux'[q].queue = mux[q].queue /\ SameView(mux[q], mux'[q])

(* The cases of a step, as the proofs below take them.                     *)
MuxCases(q) ==
  \/ Stays(q)
  \/ Resynced(q) /\ SameView(mux[q], mux'[q]) /\ log' = log
  \/ Delivered(q) /\ SameView(mux[q], mux'[q]) /\ log' = log
  \/ /\ log' = log /\ stream' \in {stream, None}
     /\ \/ \E o \in Observers : \/ Joined(q, o) /\ SameView(mux[q], mux'[q])
                                \/ Started(q, o)
        \/ mux'[q] = NoMultiplexer
        \/ Left(q) /\ q \in Observed
        \/ JoinDropped(q)
        \/ SnapshotRead(q) \/ SnapshotApplied(q) \/ SnapshotFailed(q) \/ EventProcessed(q)

(* What is delivered can be queued.                                        *)
LEMMA EventIsTask ==
  ASSUME TypeOK, DeliverChange
  PROVE  EventOf(stream + 1) \in Tasks /\ stream + 1 \in 1..Now /\ log[stream + 1] \in Write
<1>1. stream + 1 \in 1..Now /\ stream + 1 <= MaxWrites
  BY BasicTypes DEF DeliverChange, TypeOK
<1>2. log[stream + 1] \in Write
  BY <1>1, ElementOfSeq DEF TypeOK, Now
<1>3. ValueAt(log[stream + 1].doc, Now) \in Values \cup {Absent}
  BY <1>2, BasicTypes, ValueAtType DEF Write
<1> QED BY <1>1, <1>2, <1>3, BasicTypes DEF EventOf, Tasks, Write

(* The feed queues a task everywhere, or nowhere.                          *)
LEMMA FeedStep ==
  ASSUME TypeOK, Feed, NEW q \in Queries
  PROVE  MuxCases(q)
<1>1. mux[q] \in Multiplexer
  BY BasicTypes
<1>2. ASSUME NEW time \in 0..Now, AttachStream(time)
      PROVE  MuxCases(q)
  <2>1. mux'[q] = IF q \in Observed THEN Enqueue(mux[q], Resync) ELSE mux[q]
    BY <1>2 DEF AttachStream, EnqueueAll, Resync
  <2>2. Resync \in Tasks /\ log' = log
    BY <1>2, SyncIsTask DEF Resync, AttachStream
  <2>3. CASE q \in Observed
    BY <1>1, <1>2, <2>1, <2>2, <2>3, AddedByEnqueue DEF MuxCases, Resynced
  <2>4. CASE q \notin Observed
    BY <2>1, <2>4 DEF MuxCases, Stays
  <2> QED BY <2>3, <2>4
<1>3. CASE DeliverChange
  <2>1. EventOf(stream + 1) \in Tasks
    BY <1>3, EventIsTask
  <2>2. mux'[q] = IF q \in Observed THEN Enqueue(mux[q], EventOf(stream + 1)) ELSE mux[q]
    BY <1>3 DEF DeliverChange, EnqueueAll, EventOf
  <2>3. log' = log
    BY <1>3 DEF DeliverChange
  <2>4. CASE q \in Observed
    BY <1>1, <1>3, <2>1, <2>2, <2>3, <2>4, AddedByEnqueue DEF MuxCases, Delivered
  <2>5. CASE q \notin Observed
    BY <2>2, <2>5 DEF MuxCases, Stays
  <2> QED BY <2>4, <2>5
<1>4. CASE StreamBreaks \/ OpeningFails \/ RestartFeed \/ OthersSubscribe \/ OthersStop
  BY <1>4 DEF MuxCases, Stays, StreamBreaks, OpeningFails, RestartFeed, OthersSubscribe, OthersStop,
              StartFeed, StopFeed, observerVars
<1> QED BY <1>2, <1>3, <1>4 DEF Feed

(* Who subscribes joins the queue, of a multiplexer that is new or not.    *)
LEMMA AddEffect ==
  ASSUME TypeOK, NEW o \in Observers, AddSubscriber(o), NEW q \in Queries
  PROVE  /\ log' = log /\ stream' = stream
         /\ q # QueryOf[o] => mux'[q] = mux[q]
         /\ q = QueryOf[o] =>
              /\ mux'[q].subscribers = mux[q].subscribers \cup {o}
              /\ \/ Joined(q, o) /\ SameView(mux[q], mux'[q])
                 \/ Started(q, o)
<1> DEFINE k == QueryOf[o]
           m == IF k \in Observed THEN mux[k] ELSE StartMultiplexer
           n == [Enqueue(m, JoinOf(o)) EXCEPT !.subscribers = @ \cup {o}]
<1>1. k \in Queries /\ mux \in [Queries -> Multiplexer] /\ m \in Multiplexer
  BY BasicTypes, StartMultiplexerType, ChangeFeedAssumption DEF TypeOK
<1>2. mux' = [mux EXCEPT ![k] = n] /\ log' = log /\ stream' = stream
  BY DEF AddSubscriber, JoinOf, StartFeed
<1>3. JoinOf(o) \in Tasks /\ Startup \in Tasks /\ Resync \in Tasks
  BY SyncIsTask DEF JoinOf, Startup, Resync
<1>4. Enqueue(m, JoinOf(o)) \in Multiplexer
  BY <1>1, <1>3, EnqueueTask
<1>5. /\ n.queue = Enqueue(m, JoinOf(o)).queue
      /\ SameView(Enqueue(m, JoinOf(o)), n)
      /\ n.subscribers = Enqueue(m, JoinOf(o)).subscribers \cup {o}
  BY <1>4 DEF Multiplexer, SameView
<1>6. Added(m, n, JoinOf(o)) /\ SameView(m, n) /\ n.subscribers = m.subscribers \cup {o}
  <2>1. /\ Added(m, Enqueue(m, JoinOf(o)), JoinOf(o)) /\ SameView(m, Enqueue(m, JoinOf(o)))
        /\ Enqueue(m, JoinOf(o)).subscribers = m.subscribers
    BY <1>1, <1>3, AddedByEnqueue
  <2> HIDE DEF m, n
  <2> QED BY <1>5, <2>1 DEF Added, SameView
<1>7. CASE q # k
  BY <1>1, <1>2, <1>7
<1>8. CASE q = k /\ k \in Observed
  <2>1. mux'[q] = n /\ mux[q] = m
    BY <1>1, <1>2, <1>8
  <2>2. Joined(q, o) /\ SameView(mux[q], mux'[q])
    BY <1>6, <1>8, <2>1 DEF Joined
  <2> QED BY <1>2, <1>6, <1>8, <2>1, <2>2
<1>9. CASE q = k /\ k \notin Observed
  <2>1. mux'[q] = n
    BY <1>1, <1>2, <1>9
  <2>2. m = StartMultiplexer
    BY <1>9
  <2>3. /\ NoMultiplexer \in Multiplexer /\ NoMultiplexer.queue = <<>>
    BY BasicTypes DEF NoMultiplexer
  <2>4. /\ SameView(NoMultiplexer, StartMultiplexer)
        /\ StartMultiplexer.queue = IF stream = None THEN <<Startup>> ELSE <<Startup, Resync>>
    <3> DEFINE first == Enqueue(NoMultiplexer, Startup)
    <3>1. /\ first \in Multiplexer /\ SameView(NoMultiplexer, first)
          /\ first.queue = <<Startup>>
      <4>1. first \in Multiplexer /\ SameView(NoMultiplexer, first)
        BY <1>3, <2>3, EnqueueTask, AddedByEnqueue
      <4>2. first.queue = Append(NoMultiplexer.queue, Startup)
        <5>1. first = [NoMultiplexer EXCEPT !.queue = Append(NoMultiplexer.queue, Startup)]
          BY <1>3, <2>3, EnqueueTask
        <5> HIDE DEF first
        <5> QED BY <2>3, <5>1 DEF Multiplexer
      <4>3. Append(<<>>, Startup) = <<Startup>>
        OBVIOUS
      <4> HIDE DEF first
      <4> QED BY <2>3, <4>1, <4>2, <4>3
    <3>2. StartMultiplexer = IF stream = None THEN first ELSE Enqueue(first, Resync)
      BY DEF StartMultiplexer, Startup, Resync
    <3> HIDE DEF first
    <3>3. SameView(first, Enqueue(first, Resync)) /\ Enqueue(first, Resync).queue = <<Startup, Resync>>
      <4>1. Enqueue(first, Resync) = [first EXCEPT !.queue = Append(first.queue, Resync)]
        BY <1>3, <3>1, EnqueueTask
      <4>2. Enqueue(first, Resync).queue = Append(first.queue, Resync)
        BY <3>1, <4>1 DEF Multiplexer
      <4>3. Append(<<Startup>>, Resync) = <<Startup, Resync>>
        BY AppendTwo
      <4> QED BY <1>3, <3>1, <4>2, <4>3, AddedByEnqueue
    <3> QED BY <2>3, <3>1, <3>2, <3>3 DEF SameView
  <2>5. SameView(NoMultiplexer, n)
    BY <1>6, <2>2, <2>4 DEF SameView
  <2>6. n.queue = IF stream = None THEN <<Startup, JoinOf(o)>> ELSE <<Startup, Resync, JoinOf(o)>>
    <3>1. n.queue = Append(StartMultiplexer.queue, JoinOf(o))
      <4> HIDE DEF n, m
      <4>1. Enqueue(m, JoinOf(o)) = [m EXCEPT !.queue = Append(m.queue, JoinOf(o))]
        BY <1>1, <1>3, EnqueueTask
      <4>2. Enqueue(m, JoinOf(o)).queue = Append(m.queue, JoinOf(o))
        BY <1>1, <4>1 DEF Multiplexer
      <4> QED BY <1>5, <2>2, <4>2
    <3> HIDE DEF n, m
    <3>2. Append(<<Startup>>, JoinOf(o)) = <<Startup, JoinOf(o)>>
          /\ Append(<<Startup, Resync>>, JoinOf(o)) = <<Startup, Resync, JoinOf(o)>>
      BY AppendTwo, AppendThree
    <3> QED BY <2>4, <3>1, <3>2
  <2>7. mux[q].subscribers = {} /\ m.subscribers = {}
    <3>1. /\ NoMultiplexer \in Multiplexer /\ NoMultiplexer.subscribers = {}
          /\ Startup \in Tasks /\ Resync \in Tasks
      BY <1>3, <2>3 DEF NoMultiplexer
    <3> DEFINE first == Enqueue(NoMultiplexer, Startup)
    <3>2. first \in Multiplexer /\ first.subscribers = {}
      BY <3>1, EnqueueTask, AddedByEnqueue
    <3>3. StartMultiplexer = IF stream = None THEN first ELSE Enqueue(first, Resync)
      BY DEF StartMultiplexer, Startup, Resync
    <3> HIDE DEF first
    <3>4. Enqueue(first, Resync).subscribers = {}
      BY <3>1, <3>2, AddedByEnqueue
    <3> QED BY <1>9, <2>2, <3>2, <3>3, <3>4 DEF Observed
  <2> HIDE DEF n, m
  <2>8. Started(q, o)
    BY <1>9, <2>1, <2>5, <2>6 DEF Started
  <2> QED BY <1>2, <1>6, <1>9, <2>1, <2>7, <2>8
<1> QED BY <1>7, <1>8, <1>9

LEMMA AddStep ==
  ASSUME TypeOK, NEW o \in Observers, AddSubscriber(o), NEW q \in Queries
  PROVE  MuxCases(q)
<1>1. CASE q # QueryOf[o]
  BY <1>1, AddEffect DEF MuxCases, Stays
<1>2. CASE q = QueryOf[o]
  BY <1>2, AddEffect DEF MuxCases
<1> QED BY <1>1, <1>2

(* Who leaves takes its join along, and the multiplexer if it is last.     *)
LEMMA LeaveStep ==
  ASSUME TypeOK, \A q \in Queries : Registered(q), NEW q \in Queries,
         NEW o \in Observers,
         \/ Abort(o)
         \/ /\ JoinLive(QueryOf[o]) /\ Task(QueryOf[o]).observer = o
            /\ mux[QueryOf[o]].startupError
  PROVE  MuxCases(q)
<1>1. log' = log /\ stream' \in {stream, None}
  BY DEF Abort, JoinLive, RemoveSubscriber, StopFeed
<1>2. CASE mux'[q] = mux[q]
  BY <1>1, <1>2 DEF MuxCases, Stays
<1>3. CASE mux'[q] = NoMultiplexer
  BY <1>1, <1>3 DEF MuxCases
<1>4. CASE /\ mux'[q].subscribers = mux[q].subscribers \ {o} /\ mux'[q].subscribers # {}
           /\ mux'[q].queue = mux[q].queue /\ SameView(mux[q], mux'[q])
  BY <1>1, <1>4 DEF MuxCases, Left, Observed
<1>5. CASE \E p \in 1..Len(mux[q].queue) :
             /\ mux[q].queue[p].kind = "join" /\ mux[q].queue[p].observer = o
             /\ Dropped(mux[q], mux'[q], p) /\ SameView(mux[q], mux'[q])
  BY <1>1, <1>5 DEF MuxCases, JoinDropped
<1> QED BY <1>2, <1>3, <1>4, <1>5, LeaveEffect

(* The first task is done, and the multiplexer may have changed to m.      *)
LEMMA DoneEffect ==
  ASSUME TypeOK, NEW q \in Queries, NEW m \in Multiplexer, m.queue = mux[q].queue,
         m.queue # <<>>, mux' = [mux EXCEPT ![q] = Done(m)]
  PROVE  /\ Dropped(mux[q], mux'[q], 1) /\ SameView(m, mux'[q])
         /\ mux'[q].subscribers = m.subscribers
         /\ \A p \in Queries \ {q} : mux'[p] = mux[p]
<1>1. mux'[q] = Done(m) /\ \A p \in Queries \ {q} : mux'[p] = mux[p]
  BY DEF TypeOK
<1>2. Dropped(m, Done(m), 1) /\ SameView(m, Done(m)) /\ Done(m).subscribers = m.subscribers
  BY DroppedByDone
<1>3. Dropped(mux[q], Done(m), 1)
  BY <1>2 DEF Dropped
<1> QED BY <1>1, <1>2, <1>3

(* Nothing but the multiplexer of q and its observers change.              *)
OnlyAt(q) ==
  /\ log' = log /\ stream' = stream
  /\ mux'[q].subscribers = mux[q].subscribers
  /\ \A r \in Queries \ {q} : mux'[r] = mux[r]

(* Who is live is told of the documents that are not what they were.       *)
Told(q) ==
  /\ phase' = phase
  /\ seen' = [o \in Observers |->
                IF phase[o] = "live" /\ QueryOf[o] = q
                THEN [d \in Docs |-> IF mux'[q].view[d] # mux[q].view[d] THEN mux'[q].view[d]
                                    ELSE seen[o][d]]
                ELSE seen[o]]

(* What the tasks do, each to its own multiplexer only.                    *)
LEMMA ApplyEffect ==
  ASSUME TypeOK, NEW p \in Queries, NEW time \in 0..Now, ApplySnapshot(p, time)
  PROVE  SnapshotApplied(p) /\ OnlyAt(p) /\ Told(p)
<1> DEFINE read == mux[p].reading
           view == [d \in Docs |-> Matched(p, d, read[d])]
           m == [mux[p] EXCEPT !.view = view, !.snapshotTime = time,
                               !.reading = Unread, !.asOf = read, !.unsynced = {}]
<1>1. /\ mux[p] \in Multiplexer /\ Unread \in [Docs -> 0..None]
      /\ Now \in Nat /\ MaxWrites \in Nat /\ Now <= MaxWrites /\ None = MaxWrites + 1
  BY BasicTypes
<1>2. /\ read \in [Docs -> 0..Now] /\ read \in [Docs -> 0..None] /\ time \in 0..MaxWrites
      /\ \A d \in Docs : read[d] \in 0..time
  BY <1>1 DEF ApplySnapshot, Multiplexer
<1>3. view \in Contents
  BY <1>2, SnapshotType
<1>4. Publish(p, m) /\ mux[p].queue # <<>>
  BY DEF ApplySnapshot, NextTask
<1>9. view = [d \in Docs |-> Matched(p, d, mux[p].reading[d])]
  OBVIOUS
<1> HIDE DEF view
<1>10. read = mux[p].reading
  OBVIOUS
<1> HIDE DEF read
<1>5. /\ m \in Multiplexer /\ m.queue = mux[p].queue /\ m.subscribers = mux[p].subscribers
      /\ m.view = view /\ m.snapshotTime = time /\ m.reading = Unread
      /\ m.asOf = read /\ m.unsynced = {}
  BY <1>1, <1>2, <1>3 DEF Multiplexer
<1> HIDE DEF m
<1>6. mux' = [mux EXCEPT ![p] = Done(m)] /\ log' = log /\ stream' = stream
  BY <1>4 DEF Publish, feedVars
<1>7. /\ Dropped(mux[p], mux'[p], 1) /\ SameView(m, mux'[p])
      /\ mux'[p].subscribers = m.subscribers
      /\ \A r \in Queries \ {p} : mux'[r] = mux[r]
  BY <1>4, <1>5, <1>6, DoneEffect
<1>8. Told(p)
  BY <1>4, <1>7 DEF Told, Publish, SameView
<1> QED BY <1>2, <1>4, <1>5, <1>6, <1>7, <1>8, <1>9, <1>10 DEF SnapshotApplied, OnlyAt, SameView

LEMMA FailEffect ==
  ASSUME TypeOK, NEW p \in Queries, SnapshotFails(p)
  PROVE  SnapshotFailed(p) /\ OnlyAt(p)
<1> DEFINE m == [mux[p] EXCEPT !.startupError = @ \/ Task(p).startup,
                               !.reading = Unread, !.unsynced = Docs]
<1>1. mux[p] \in Multiplexer /\ mux[p].queue # <<>> /\ Task(p).startup \in BOOLEAN
  <2>1. mux[p] \in Multiplexer /\ mux[p].queue # <<>> /\ Task(p).kind = "sync"
    BY BasicTypes DEF SnapshotFails, NextTask, Task
  <2>2. Task(p) \in Tasks
    BY <2>1, DoneTask DEF Task
  <2> QED BY <2>1, <2>2 DEF Tasks
<1>2. /\ m \in Multiplexer /\ m.queue = mux[p].queue /\ m.subscribers = mux[p].subscribers
      /\ m.view = mux[p].view /\ m.snapshotTime = mux[p].snapshotTime
      /\ m.reading = Unread /\ m.asOf = mux[p].asOf /\ m.unsynced = Docs
  BY <1>1, BasicTypes DEF Multiplexer
<1>3. mux' = [mux EXCEPT ![p] = Done(m)] /\ log' = log /\ stream' = stream
  BY DEF SnapshotFails, feedVars, TypeOK
<1> HIDE DEF m
<1>4. /\ Dropped(mux[p], mux'[p], 1) /\ SameView(m, mux'[p])
      /\ mux'[p].subscribers = m.subscribers
      /\ \A r \in Queries \ {p} : mux'[r] = mux[r]
  BY <1>1, <1>2, <1>3, DoneEffect
<1> QED BY <1>2, <1>3, <1>4 DEF SnapshotFailed, OnlyAt, SameView

LEMMA ProcessEffect ==
  ASSUME TypeOK, NEW p \in Queries, ProcessEvent(p)
  PROVE  EventProcessed(p) /\ OnlyAt(p) /\ Told(p)
<1> DEFINE change == mux[p].queue[1]
           value == IF change.value \in Matching[p] THEN change.value ELSE Absent
           view == [mux[p].view EXCEPT ![change.doc] = value]
           asOf == [mux[p].asOf EXCEPT ![change.doc] =
                      IF @ = None \/ @ < change.time THEN change.time ELSE @]
           unsynced == mux[p].unsynced \ {change.doc}
           n == [mux[p] EXCEPT !.view = view, !.unsynced = unsynced, !.asOf = asOf]
           m == IF change.time < mux[p].snapshotTime THEN mux[p] ELSE n
<1>1. mux[p] \in Multiplexer /\ mux[p].queue # <<>> /\ change = Head(mux[p].queue) /\ change \in Tasks
  BY BasicTypes, DoneTask DEF ProcessEvent, NextTask
<1>2. /\ change.value \in Values \cup {Absent} /\ change.doc \in Docs
      /\ change.time \in 0..None /\ change.time \in Nat /\ mux[p].snapshotTime \in Nat
      /\ mux[p].view \in Contents /\ mux[p].asOf \in [Docs -> 0..None]
      /\ mux[p].unsynced \in SUBSET Docs
  <2>1. change.kind = "event"
    BY <1>1 DEF ProcessEvent, NextTask
  <2>2. change.value \in Values \cup {Absent} /\ change.doc \in Docs /\ change.time \in 1..MaxWrites
    <3> HIDE DEF change
    <3> QED BY <1>1, <2>1 DEF Tasks
  <2>3. mux[p].snapshotTime \in 0..MaxWrites /\ mux[p].view \in Contents /\ MaxWrites \in Nat
        /\ mux[p].asOf \in [Docs -> 0..None] /\ mux[p].unsynced \in SUBSET Docs
    BY <1>1, BasicTypes DEF Multiplexer
  <2> QED BY <2>2, <2>3 DEF None
<1>3. /\ view \in Contents /\ asOf \in [Docs -> 0..None] /\ unsynced \in SUBSET Docs
  <2>1. value \in Values \cup {Absent}
    BY <1>2
  <2> HIDE DEF value, change
  <2> QED BY <1>2, <2>1 DEF Contents
<1>4. \A d \in Docs :
        /\ view[d] = IF d = change.doc THEN value ELSE mux[p].view[d]
        /\ asOf[d] = IF d = change.doc /\ (mux[p].asOf[d] = None \/ mux[p].asOf[d] < change.time)
                     THEN change.time ELSE mux[p].asOf[d]
        /\ d \in unsynced <=> d \in mux[p].unsynced /\ d # change.doc
  <2> HIDE DEF value, change
  <2> QED BY <1>2 DEF Contents
<1>5. Publish(p, m)
  <2>1. ApplyChange(p) = n
    BY <1>1 DEF ApplyChange, Task, Multiplexer
  <2>2. Task(p) = change
    BY <1>1 DEF Task
  <2> HIDE DEF n, change
  <2> QED BY <2>1, <2>2 DEF ProcessEvent
<1> HIDE DEF view, value, change, asOf, unsynced
<1>6. /\ n \in Multiplexer /\ n.queue = mux[p].queue /\ n.subscribers = mux[p].subscribers
      /\ n.reading = mux[p].reading /\ n.snapshotTime = mux[p].snapshotTime
      /\ n.view = view /\ n.asOf = asOf /\ n.unsynced = unsynced
  BY <1>1, <1>3 DEF Multiplexer
<1> HIDE DEF n
<1>7. /\ m \in Multiplexer /\ m.queue = mux[p].queue /\ m.subscribers = mux[p].subscribers
      /\ m.reading = mux[p].reading /\ m.snapshotTime = mux[p].snapshotTime
      /\ change.time < mux[p].snapshotTime =>
           m.view = mux[p].view /\ m.asOf = mux[p].asOf /\ m.unsynced = mux[p].unsynced
      /\ ~(change.time < mux[p].snapshotTime) =>
           m.view = view /\ m.asOf = asOf /\ m.unsynced = unsynced
  BY <1>1, <1>6
<1> HIDE DEF m
<1>8. mux' = [mux EXCEPT ![p] = Done(m)] /\ log' = log /\ stream' = stream
  BY <1>5 DEF Publish, feedVars
<1>9. /\ Dropped(mux[p], mux'[p], 1) /\ SameView(m, mux'[p])
      /\ mux'[p].subscribers = m.subscribers
      /\ \A r \in Queries \ {p} : mux'[r] = mux[r]
  BY <1>1, <1>7, <1>8, DoneEffect
<1>10. change.time < mux[p].snapshotTime <=> ~(change.time >= mux[p].snapshotTime)
  BY <1>2
<1>11. ASSUME NEW d \in Docs
       PROVE  /\ mux'[p].view[d] = IF Used(p, d) THEN value ELSE mux[p].view[d]
              /\ mux'[p].asOf[d] =
                   IF Used(p, d) /\ (mux[p].asOf[d] = None \/ mux[p].asOf[d] < change.time)
                   THEN change.time ELSE mux[p].asOf[d]
              /\ d \in mux'[p].unsynced <=> d \in mux[p].unsynced /\ ~Used(p, d)
  <2>1. Used(p, d) <=> d = change.doc /\ ~(change.time < mux[p].snapshotTime)
    BY <1>10 DEF Used, change
  <2>2. mux'[p].view = m.view /\ mux'[p].asOf = m.asOf /\ mux'[p].unsynced = m.unsynced
    BY <1>9 DEF SameView
  <2>3. CASE change.time < mux[p].snapshotTime
    BY <1>7, <2>1, <2>2, <2>3
  <2>4. CASE ~(change.time < mux[p].snapshotTime)
    BY <1>4, <1>7, <2>1, <2>2, <2>4
  <2> QED BY <2>3, <2>4
<1>12. mux'[p].reading = mux[p].reading /\ mux'[p].snapshotTime = mux[p].snapshotTime
  BY <1>7, <1>9 DEF SameView
<1>13. Told(p)
  BY <1>5, <1>9 DEF Told, Publish, SameView
<1>14. EventProcessed(p)
  BY <1>9, <1>11, <1>12 DEF EventProcessed, change, value
<1> QED BY <1>7, <1>8, <1>9, <1>13, <1>14 DEF OnlyAt

LEMMA HasTask ==
  ASSUME NEW q \in Queries, RunTask(q)
  PROVE  mux[q].queue # <<>>
<1>1. ASSUME NEW batch \in SUBSET Docs, ReadBatch(q, batch)
      PROVE  mux[q].queue # <<>>
  BY <1>1 DEF ReadBatch, NextTask
<1>2. ASSUME NEW time \in 0..Now, ApplySnapshot(q, time)
      PROVE  mux[q].queue # <<>>
  BY <1>2 DEF ApplySnapshot, NextTask
<1>3. CASE SnapshotFails(q) \/ ProcessEvent(q) \/ JoinLive(q)
  BY <1>3 DEF SnapshotFails, ProcessEvent, JoinLive, NextTask
<1> QED BY <1>1, <1>2, <1>3 DEF RunTask, TaskProceeds

LEMMA ReadEffect ==
  ASSUME TypeOK, NEW p \in Queries, NEW batch \in SUBSET Docs, ReadBatch(p, batch)
  PROVE  /\ SnapshotRead(p) /\ OnlyAt(p) /\ Told(p)
         /\ mux[p].queue # <<>> /\ Head(mux[p].queue).kind = "sync" /\ phase' = phase
<1> DEFINE read == [d \in Docs |-> IF d \in batch THEN Now ELSE mux[p].reading[d]]
<1>1. mux \in [Queries -> Multiplexer] /\ mux[p] \in Multiplexer
  BY BasicTypes DEF TypeOK
<1>2. mux' = [mux EXCEPT ![p] = [mux[p] EXCEPT !.reading = read]] /\ log' = log /\ stream' = stream
  BY <1>1 DEF ReadBatch, feedVars
<1>3. \A d \in Docs : read[d] = IF d \in batch THEN Now ELSE mux[p].reading[d]
  OBVIOUS
<1> HIDE DEF read
<1>4. /\ mux'[p].queue = mux[p].queue
      /\ mux'[p].view = mux[p].view /\ mux'[p].snapshotTime = mux[p].snapshotTime
      /\ mux'[p].asOf = mux[p].asOf /\ mux'[p].unsynced = mux[p].unsynced
      /\ mux'[p].reading = read /\ mux'[p].subscribers = mux[p].subscribers
  BY <1>1, <1>2 DEF Multiplexer
<1>5. OnlyAt(p)
  BY <1>1, <1>2, <1>4 DEF OnlyAt
<1>6. Told(p)
  <2>1. ASSUME NEW o \in Observers, phase[o] = "live", QueryOf[o] = p
        PROVE  seen[o] = [d \in Docs |-> IF mux'[p].view[d] # mux[p].view[d] THEN mux'[p].view[d]
                                         ELSE seen[o][d]]
    <3>1. seen[o] \in [Docs -> Values \cup {Absent}]
      BY DEF TypeOK, Contents
    <3> QED BY <1>4, <3>1
  <2>2. seen' = seen /\ seen = [o \in Observers |-> seen[o]] /\ phase' = phase
    BY DEF ReadBatch, TypeOK
  <2> QED BY <2>1, <2>2 DEF Told
<1> QED BY <1>3, <1>4, <1>5, <1>6 DEF SnapshotRead, ReadBatch, NextTask

(* A task is one of the cases, and so is every step.                       *)
LEMMA TaskStep ==
  ASSUME TypeOK, \A q \in Queries : Registered(q) /\ ReadsStored(mux[q]),
         NEW p \in Queries, RunTask(p), NEW q \in Queries
  PROVE  MuxCases(q)
<1>1. /\ mux \in [Queries -> Multiplexer] /\ mux[p] \in Multiplexer
      /\ Now \in Nat /\ MaxWrites \in Nat /\ Now <= MaxWrites /\ None = MaxWrites + 1
  BY BasicTypes DEF TypeOK
<1>2. mux[p].queue # <<>>
  BY HasTask
<1>3. Head(mux[p].queue) = mux[p].queue[1] /\ mux[p].queue[1] \in Tasks
      /\ DOMAIN mux[p].queue = 1..Len(mux[p].queue) /\ Len(mux[p].queue) \in Nat \ {0}
  BY <1>1, <1>2, DoneTask
<1>4. ASSUME NEW batch \in SUBSET Docs, ReadBatch(p, batch)
      PROVE  MuxCases(q)
  <2>1. /\ SnapshotRead(p) /\ log' = log /\ stream' = stream
        /\ \A r \in Queries \ {p} : mux'[r] = mux[r]
    BY <1>4, ReadEffect DEF OnlyAt
  <2>2. CASE q = p
    BY <2>1, <2>2 DEF MuxCases
  <2>3. CASE q # p
    BY <2>1, <2>3 DEF MuxCases, Stays
  <2> QED BY <2>2, <2>3
<1>5. CASE (\E time \in 0..Now : ApplySnapshot(p, time)) \/ SnapshotFails(p) \/ ProcessEvent(p)
  <2>1. OnlyAt(p) /\ (SnapshotApplied(p) \/ SnapshotFailed(p) \/ EventProcessed(p))
    BY <1>5, ApplyEffect, FailEffect, ProcessEffect
  <2>2. log' = log /\ stream' = stream
    BY <2>1 DEF OnlyAt
  <2>3. CASE q = p
    BY <2>1, <2>2, <2>3 DEF MuxCases
  <2>4. CASE q # p
    BY <2>1, <2>2, <2>4 DEF MuxCases, Stays, OnlyAt
  <2> QED BY <2>3, <2>4
<1>6. CASE JoinLive(p)
  <2> DEFINE o == mux[p].queue[1].observer
  <2>1. o \in Observers /\ mux[p].queue[1].kind = "join" /\ Task(p).observer = o
    BY <1>3, <1>6 DEF JoinLive, NextTask, Task, Tasks
  <2>2. QueryOf[o] = p
    BY <1>3, <2>1 DEF Registered, JoinsOnce
  <2>3. CASE mux[p].startupError
    <3> HIDE DEF o
    <3> QED BY <1>6, <2>1, <2>2, <2>3, LeaveStep
  <2>4. CASE ~mux[p].startupError
    <3>1. mux' = [mux EXCEPT ![p] = Done(mux[p])] /\ log' = log /\ stream' = stream
      BY <1>6, <2>4 DEF JoinLive, feedVars
    <3>2. /\ Dropped(mux[p], mux'[p], 1) /\ SameView(mux[p], mux'[p])
          /\ \A r \in Queries \ {p} : mux'[r] = mux[r]
      BY <1>1, <1>2, <3>1, DoneEffect
    <3>3. CASE q = p
      BY <1>3, <2>1, <3>1, <3>2, <3>3 DEF MuxCases, JoinDropped
    <3>4. CASE q # p
      BY <3>1, <3>2, <3>4 DEF MuxCases, Stays
    <3> QED BY <3>3, <3>4
  <2> QED BY <2>3, <2>4
<1> QED BY <1>4, <1>5, <1>6 DEF RunTask, TaskProceeds

LEMMA MuxStep ==
  ASSUME TypeOK, \A q \in Queries : Registered(q) /\ ReadsStored(mux[q]), [Next]_vars,
         NEW q \in Queries
  PROVE  MuxCases(q)
<1>1. ASSUME UNCHANGED <<mux, stream>>
      PROVE  MuxCases(q)
  BY <1>1 DEF MuxCases, Stays
<1>2. ASSUME NEW o \in Observers, Abort(o)
      PROVE  MuxCases(q)
  BY <1>2, LeaveStep
<1> QED BY <1>1, <1>2, FeedStep, AddStep, TaskStep
        DEF Next, WriteDoc, feedVars, observerVars, vars
-----------------------------------------------------------------------------
(* Positions in a queue, before and after a task is dropped or added.      *)
From(p, i) == IF i < p THEN i ELSE i + 1

(* The positions that are left keep their order.                           *)
LEMMA DroppedPositions ==
  ASSUME NEW m \in Multiplexer, NEW n, NEW p, Dropped(m, n, p)
  PROVE  /\ p \in DOMAIN m.queue /\ DOMAIN m.queue \subseteq Nat /\ DOMAIN n.queue \subseteq Nat
         /\ \A i \in DOMAIN n.queue :
              /\ From(p, i) \in DOMAIN m.queue \ {p}
              /\ n.queue[i] = m.queue[From(p, i)]
         /\ \A j \in DOMAIN m.queue \ {p} : \E i \in DOMAIN n.queue : From(p, i) = j
         /\ \A i, k \in DOMAIN n.queue : i < k <=> From(p, i) < From(p, k)
         /\ \A i, k \in DOMAIN n.queue : From(p, i) = From(p, k) => i = k
<1>1. Len(m.queue) \in Nat /\ DOMAIN m.queue = 1..Len(m.queue)
  BY LenProperties DEF Multiplexer
<1>2. p \in 1..Len(m.queue) /\ DOMAIN n.queue = 1..(Len(m.queue) - 1)
  BY DEF Dropped
<1>3. \A i \in DOMAIN n.queue :
        /\ From(p, i) \in DOMAIN m.queue \ {p}
        /\ n.queue[i] = m.queue[From(p, i)]
  BY <1>1, <1>2 DEF Dropped, From
<1>4. ASSUME NEW j \in DOMAIN m.queue \ {p}
      PROVE  \E i \in DOMAIN n.queue : From(p, i) = j
  <2> DEFINE i == IF j < p THEN j ELSE j - 1
  <2>1. i \in DOMAIN n.queue /\ From(p, i) = j
    BY <1>1, <1>2 DEF From
  <2> QED BY <2>1
<1>5. ASSUME NEW i \in DOMAIN n.queue, NEW k \in DOMAIN n.queue
      PROVE  /\ i < k <=> From(p, i) < From(p, k)
             /\ From(p, i) = From(p, k) => i = k
  BY <1>1, <1>2 DEF From
<1> QED BY <1>1, <1>2, <1>3, <1>4, <1>5

(* The new one comes after all others.                                     *)
LEMMA AddedPositions ==
  ASSUME NEW m \in Multiplexer, NEW n, NEW task, Added(m, n, task)
  PROVE  /\ DOMAIN m.queue \subseteq Nat /\ DOMAIN n.queue \subseteq Nat
         /\ \A i \in DOMAIN m.queue : i \in DOMAIN n.queue /\ n.queue[i] = m.queue[i]
         /\ \E e \in DOMAIN n.queue :
              /\ n.queue[e] = task /\ DOMAIN n.queue = DOMAIN m.queue \cup {e}
              /\ \A i \in DOMAIN m.queue : i < e
<1>1. Len(m.queue) \in Nat /\ DOMAIN m.queue = 1..Len(m.queue)
  BY LenProperties DEF Multiplexer
<1>2. DOMAIN n.queue = (1..Len(m.queue)) \cup {Len(m.queue) + 1}
  BY <1>1 DEF Added
<1>3. /\ \A i \in DOMAIN m.queue : n.queue[i] = m.queue[i] /\ i < Len(m.queue) + 1
      /\ n.queue[Len(m.queue) + 1] = task
  BY <1>1 DEF Added
<1> QED BY <1>1, <1>2, <1>3

(* What is in a queue is a task, and whose join it is an observer.         *)
LEMMA QueueTasks ==
  ASSUME NEW m \in Multiplexer, NEW i \in DOMAIN m.queue
  PROVE  m.queue[i] \in Tasks
BY ElementOfSeq, LenProperties DEF Multiplexer

LEMMA QueueObservers ==
  ASSUME NEW m \in Multiplexer, NEW i \in DOMAIN m.queue, m.queue[i].kind = "join"
  PROVE  m.queue[i].observer \in Observers
BY QueueTasks DEF Tasks

(* A queue without one task, or with one more, still holds the joins of    *)
(* those who are there.                                                    *)
LEMMA JoinsDropped ==
  ASSUME NEW q, mux[q] \in Multiplexer, JoinsOnce(q), NEW p, Dropped(mux[q], mux'[q], p),
         \A i \in DOMAIN mux[q].queue \ {p} :
           mux[q].queue[i].kind = "join" => phase'[mux[q].queue[i].observer] \in Present
  PROVE  JoinsOnce(q)'
<1>1. /\ p \in DOMAIN mux[q].queue
      /\ \A i \in DOMAIN mux'[q].queue :
           /\ From(p, i) \in DOMAIN mux[q].queue \ {p}
           /\ mux'[q].queue[i] = mux[q].queue[From(p, i)]
      /\ \A i, k \in DOMAIN mux'[q].queue : From(p, i) = From(p, k) => i = k
  BY DroppedPositions
<1> QED BY <1>1 DEF JoinsOnce

LEMMA JoinsAdded ==
  ASSUME NEW q, mux[q] \in Multiplexer, JoinsOnce(q), NEW task, Added(mux[q], mux'[q], task),
         task.kind = "join" =>
           /\ QueryOf[task.observer] = q /\ phase'[task.observer] \in Present
           /\ phase[task.observer] \notin Present,
         \A o \in Observers : phase[o] \in Present => phase'[o] \in Present
  PROVE  JoinsOnce(q)'
<1>1. PICK e \in DOMAIN mux'[q].queue :
        /\ mux'[q].queue[e] = task /\ DOMAIN mux'[q].queue = DOMAIN mux[q].queue \cup {e}
        /\ \A i \in DOMAIN mux[q].queue : i < e
  BY AddedPositions
<1>2. \A i \in DOMAIN mux[q].queue :
        /\ mux'[q].queue[i] = mux[q].queue[i]
        /\ mux[q].queue[i].kind = "join" => mux[q].queue[i].observer \in Observers
  BY AddedPositions, QueueObservers
<1> QED BY <1>1, <1>2 DEF JoinsOnce

(* Nobody is missing from a multiplexer, and nobody is there who left.     *)
LEMMA RegisteredStep ==
  ASSUME TypeOK, Counted, \A q \in Queries : Registered(q) /\ ReadsStored(mux[q]), [Next]_vars
  PROVE  Counted' /\ (\A q \in Queries : Registered(q))'
<1>1. /\ mux \in [Queries -> Multiplexer] /\ \A q \in Queries : mux[q] \in Multiplexer
      /\ phase \in [Observers -> Phases]
      /\ \A o \in Observers : QueryOf[o] \in Queries
  BY BasicTypes, ChangeFeedAssumption DEF TypeOK
<1> USE DEF Present
(* No observer comes or goes.                                              *)
<1>2. ASSUME \A o \in Observers : (phase'[o] \in Present) <=> (phase[o] \in Present),
             \A q \in Queries :
               \/ mux'[q] = mux[q]
               \/ /\ mux'[q].subscribers = mux[q].subscribers /\ mux[q].subscribers # {}
                  /\ mux'[q].queue = mux[q].queue \/ JoinsOnce(q)'
      PROVE  Counted' /\ (\A q \in Queries : Registered(q))'
  <2>1. \A q \in Queries : mux'[q].subscribers = mux[q].subscribers
    BY <1>2
  <2>2. ASSUME NEW q \in Queries, mux'[q].queue = mux[q].queue
        PROVE  JoinsOnce(q)'
    <3>1. \A i \in DOMAIN mux[q].queue :
            mux[q].queue[i].kind = "join" => mux[q].queue[i].observer \in Observers
      BY <1>1, QueueObservers
    <3> QED BY <1>2, <2>2, <3>1 DEF Registered, JoinsOnce
  <2>3. ASSUME NEW q \in Queries, mux'[q] = mux[q]
        PROVE  Registered(q)'
    <3>1. NoMultiplexer' = NoMultiplexer
      BY DEF NoMultiplexer, None
    <3> QED BY <2>2, <2>3, <3>1 DEF Registered
  <2>4. \A q \in Queries : Registered(q)'
    BY <1>2, <2>2, <2>3 DEF Registered
  <2> QED BY <1>1, <1>2, <2>1, <2>4 DEF Counted
<1>3. ASSUME UNCHANGED <<mux, phase>>
      PROVE  Counted' /\ (\A q \in Queries : Registered(q))'
  BY <1>2, <1>3
<1>4. ASSUME NEW task \in Tasks, task.kind # "join", mux' = EnqueueAll(task), phase' = phase
      PROVE  Counted' /\ (\A q \in Queries : Registered(q))'
  <2>1. ASSUME NEW q \in Queries, q \in Observed
        PROVE  /\ mux'[q].subscribers = mux[q].subscribers /\ mux[q].subscribers # {}
               /\ JoinsOnce(q)'
    <3>1. mux'[q] = Enqueue(mux[q], task)
      BY <1>4, <2>1 DEF EnqueueAll
    <3>2. Added(mux[q], mux'[q], task) /\ mux'[q].subscribers = mux[q].subscribers
      BY <1>1, <3>1, AddedByEnqueue
    <3>3. JoinsOnce(q)'
      BY <1>1, <1>4, <3>2, JoinsAdded DEF Registered
    <3> QED BY <2>1, <3>2, <3>3 DEF Observed
  <2>2. ASSUME NEW q \in Queries, q \notin Observed
        PROVE  mux'[q] = mux[q]
    BY <1>4, <2>2 DEF EnqueueAll
  <2> QED BY <1>2, <1>4, <2>1, <2>2
<1>5. ASSUME NEW o \in Observers, AddSubscriber(o)
      PROVE  Counted' /\ (\A q \in Queries : Registered(q))'
  <2> DEFINE k == QueryOf[o]
  <2>1. phase[o] = "away" /\ phase' = [phase EXCEPT ![o] = "joining"] /\ k \in Queries
    BY <1>1, <1>5 DEF AddSubscriber
  <2>2. \A q \in Queries :
          /\ q # k => mux'[q] = mux[q]
          /\ q = k => mux'[q].subscribers = mux[q].subscribers \cup {o}
    BY <1>5, AddEffect
  <2>3. Joined(k, o) \/ Started(k, o)
    BY <1>5, <2>1, AddEffect
  <2>4. Counted'
    BY <1>1, <2>1, <2>2 DEF Counted
  <2>5. ASSUME NEW q \in Queries, q # k
        PROVE  Registered(q)'
    <3>1. \A i \in DOMAIN mux[q].queue :
            mux[q].queue[i].kind = "join" =>
              mux[q].queue[i].observer \in Observers
      BY <1>1, QueueObservers
    <3>2. NoMultiplexer' = NoMultiplexer
      BY DEF NoMultiplexer, None
    <3>3. \A x \in Observers : phase[x] \in Present => phase'[x] \in Present
      BY <1>1, <2>1
    <3> QED BY <2>2, <2>5, <3>1, <3>2, <3>3 DEF Registered, JoinsOnce
  <2>6. JoinsOnce(k)'
    <3>1. CASE Joined(k, o)
      <4>1. JoinOf(o).kind = "join" /\ JoinOf(o).observer = o
        BY DEF JoinOf
      <4>2. Added(mux[k], mux'[k], JoinOf(o))
        BY <3>1 DEF Joined
      <4>3. phase'[o] \in Present /\ \A x \in Observers : phase[x] \in Present => phase'[x] \in Present
        BY <1>1, <2>1
      <4> HIDE DEF k
      <4>4. JoinsOnce(k) /\ QueryOf[o] = k
        BY <2>1 DEF Registered, k
      <4> QED BY <1>1, <2>1, <4>1, <4>2, <4>3, <4>4, JoinsAdded
    <3>2. CASE Started(k, o)
      <4>1. mux'[k].queue \in {<<Startup, JoinOf(o)>>, <<Startup, Resync, JoinOf(o)>>}
        BY <3>2 DEF Started
      <4>2. phase'[o] \in Present
        BY <1>1, <2>1
      <4>3. CASE mux'[k].queue = <<Startup, JoinOf(o)>>
        BY <4>2, <4>3 DEF JoinsOnce, Startup, JoinOf
      <4>4. CASE mux'[k].queue = <<Startup, Resync, JoinOf(o)>>
        BY <4>2, <4>4 DEF JoinsOnce, Startup, Resync, JoinOf
      <4> QED BY <4>1, <4>3, <4>4
    <3> QED BY <2>3, <3>1, <3>2
  <2>7. Registered(k)'
    <3>1. mux'[k].subscribers # {}
      BY <2>1, <2>2
    <3> QED BY <2>6, <3>1 DEF Registered
  <2> QED BY <2>4, <2>5, <2>7
<1>6. ASSUME NEW o \in Observers,
             \/ Abort(o)
             \/ /\ JoinLive(QueryOf[o]) /\ Task(QueryOf[o]).observer = o
                /\ mux[QueryOf[o]].startupError
      PROVE  Counted' /\ (\A q \in Queries : Registered(q))'
  <2>1. phase' = [phase EXCEPT ![o] = "left"]
    BY <1>6 DEF Abort, JoinLive, RemoveSubscriber
  <2>2. ASSUME NEW q \in Queries
        PROVE  /\ Registered(q)'
               /\ QueryOf[o] # q => mux'[q].subscribers = mux[q].subscribers
               /\ QueryOf[o] = q => mux'[q].subscribers = mux[q].subscribers \ {o}
    <3>1. \A i \in DOMAIN mux[q].queue :
            mux[q].queue[i].kind = "join" =>
              /\ mux[q].queue[i].observer \in Observers /\ QueryOf[mux[q].queue[i].observer] = q
              /\ phase[mux[q].queue[i].observer] \in Present
              /\ mux[q].queue[i].observer # o => phase'[mux[q].queue[i].observer] \in Present
              /\ \A j \in DOMAIN mux[q].queue :
                   mux[q].queue[j].kind = "join" /\ mux[q].queue[j].observer = mux[q].queue[i].observer
                     => j = i
      BY <1>1, <2>1, QueueObservers DEF Registered, JoinsOnce
    <3>3. NoMultiplexer' = NoMultiplexer /\ NoMultiplexer.subscribers = {} /\ NoMultiplexer.queue = <<>>
      BY DEF NoMultiplexer, None
    <3>4. CASE q # QueryOf[o] /\ mux'[q] = mux[q]
      BY <3>1, <3>3, <3>4 DEF Registered, JoinsOnce
    <3>5. CASE q = QueryOf[o] /\ mux'[q] = NoMultiplexer /\ mux[q].subscribers \subseteq {o}
      BY <3>3, <3>5 DEF Registered, JoinsOnce
    <3>6. CASE /\ q = QueryOf[o] /\ mux'[q].subscribers = mux[q].subscribers \ {o}
               /\ mux'[q].subscribers # {} /\ mux'[q].queue = mux[q].queue
               /\ \A i \in 1..Len(mux[q].queue) :
                    ~(mux[q].queue[i].kind = "join" /\ mux[q].queue[i].observer = o)
      <4>1. DOMAIN mux[q].queue = 1..Len(mux[q].queue)
        BY <1>1, LenProperties DEF Multiplexer
      <4> QED BY <3>1, <3>6, <4>1 DEF Registered, JoinsOnce
    <3>7. ASSUME q = QueryOf[o], mux'[q].subscribers = mux[q].subscribers \ {o},
                 mux'[q].subscribers # {}, NEW p \in 1..Len(mux[q].queue),
                 mux[q].queue[p].kind = "join", mux[q].queue[p].observer = o,
                 Dropped(mux[q], mux'[q], p)
          PROVE  Registered(q)' /\ q = QueryOf[o] /\ mux'[q].subscribers = mux[q].subscribers \ {o}
      <4>1. DOMAIN mux[q].queue = 1..Len(mux[q].queue)
        BY <1>1, LenProperties DEF Multiplexer
      <4>2. \A i \in DOMAIN mux[q].queue \ {p} :
              mux[q].queue[i].kind = "join" => phase'[mux[q].queue[i].observer] \in Present
        BY <3>1, <3>7, <4>1
      <4>3. JoinsOnce(q)'
        BY <1>1, <3>7, <4>2, JoinsDropped DEF Registered
      <4> QED BY <3>7, <4>3 DEF Registered
    <3> QED BY <1>6, <3>4, <3>5, <3>6, <3>7, LeaveEffect
  <2>3. Counted'
    BY <1>1, <2>1, <2>2 DEF Counted
  <2> QED BY <2>2, <2>3
<1>7. ASSUME NEW p \in Queries, mux[p].queue # <<>>, Dropped(mux[p], mux'[p], 1), OnlyAt(p),
             \A o \in Observers : (phase'[o] \in Present) <=> (phase[o] \in Present)
      PROVE  Counted' /\ (\A q \in Queries : Registered(q))'
  <2>1. mux[p].subscribers # {}
    BY <1>7 DEF Registered, NoMultiplexer
  <2>2. /\ \A q \in Queries \ {p} : mux'[q] = mux[q]
        /\ mux'[p].subscribers = mux[p].subscribers
    BY <1>7 DEF OnlyAt
  <2>3. JoinsOnce(p)'
    <3>1. \A i \in DOMAIN mux[p].queue \ {1} :
            mux[p].queue[i].kind = "join" => phase'[mux[p].queue[i].observer] \in Present
      BY <1>1, <1>7, QueueObservers DEF Registered, JoinsOnce
    <3> QED BY <1>1, <1>7, <3>1, JoinsDropped DEF Registered
  <2> QED BY <1>2, <1>7, <2>1, <2>2, <2>3
<1>8. ASSUME NEW p \in Queries, RunTask(p)
      PROVE  Counted' /\ (\A q \in Queries : Registered(q))'
  <2>1. ASSUME NEW batch \in SUBSET Docs, ReadBatch(p, batch)
        PROVE  Counted' /\ (\A q \in Queries : Registered(q))'
    <3>1. SnapshotRead(p) /\ OnlyAt(p) /\ phase' = phase /\ mux[p].queue # <<>>
      BY <2>1, ReadEffect
    <3>2. mux[p].subscribers # {}
      BY <3>1 DEF Registered, NoMultiplexer
    <3>3. /\ mux'[p].subscribers = mux[p].subscribers /\ mux'[p].queue = mux[p].queue
          /\ \A q \in Queries \ {p} : mux'[q] = mux[q]
      BY <3>1 DEF SnapshotRead, OnlyAt
    <3> QED BY <1>2, <3>1, <3>2, <3>3
  <2>2. ASSUME \/ \E time \in 0..Now : ApplySnapshot(p, time)
               \/ SnapshotFails(p) \/ ProcessEvent(p)
        PROVE  Counted' /\ (\A q \in Queries : Registered(q))'
    <3>1. OnlyAt(p) /\ (SnapshotApplied(p) \/ SnapshotFailed(p) \/ EventProcessed(p))
      BY <2>2, ApplyEffect, FailEffect, ProcessEffect
    <3>2. Dropped(mux[p], mux'[p], 1)
      BY <3>1 DEF SnapshotApplied, SnapshotFailed, EventProcessed
    <3>3. ASSUME NEW time \in 0..Now, ApplySnapshot(p, time)
          PROVE  phase' = phase /\ mux[p].queue # <<>>
      BY <3>3 DEF ApplySnapshot, Publish, NextTask
    <3>4. phase' = phase /\ mux[p].queue # <<>>
      BY <2>2, <3>3 DEF SnapshotFails, ProcessEvent, Publish, NextTask
    <3> QED BY <1>7, <3>1, <3>2, <3>4
  <2>5. CASE JoinLive(p)
    <3>1. /\ mux[p].queue # <<>> /\ Task(p).kind = "join" /\ Task(p).observer \in Observers
          /\ QueryOf[Task(p).observer] = p /\ phase[Task(p).observer] \in Present
      <4>1. mux[p].queue # <<>> /\ Task(p).kind = "join" /\ Task(p) = Head(mux[p].queue)
        BY <2>5 DEF JoinLive, NextTask, Task
      <4>2. 1 \in DOMAIN mux[p].queue /\ Task(p) = mux[p].queue[1]
        BY <1>1, <4>1, DoneTask
      <4> QED BY <1>1, <4>1, <4>2, QueueObservers DEF Registered, JoinsOnce
    <3>2. CASE mux[p].startupError
      BY <1>6, <2>5, <3>1, <3>2
    <3>3. CASE ~mux[p].startupError
      <4>1. /\ mux' = [mux EXCEPT ![p] = Done(mux[p])]
            /\ phase' = [phase EXCEPT ![Task(p).observer] = "live"]
        BY <2>5, <3>3 DEF JoinLive
      <4>2. \A o \in Observers : (phase'[o] \in Present) <=> (phase[o] \in Present)
        BY <1>1, <3>1, <4>1
      <4>3. Dropped(mux[p], mux'[p], 1) /\ OnlyAt(p)
        BY <1>1, <2>5, <3>1, <3>3, <4>1, DoneEffect DEF OnlyAt, JoinLive, feedVars
      <4> QED BY <1>7, <3>1, <4>2, <4>3
    <3> QED BY <3>2, <3>3
  <2> QED BY <1>8, <2>1, <2>2, <2>5 DEF RunTask, TaskProceeds
<1>9. CASE Feed
  <2>1. ASSUME NEW task \in Tasks, task.kind # "join", mux' = EnqueueAll(task), phase' = phase
        PROVE  Counted' /\ (\A q \in Queries : Registered(q))'
    BY <1>4, <2>1
  <2>2. CASE \E time \in 0..Now : AttachStream(time)
    <3>1. [kind |-> "sync", startup |-> FALSE] \in Tasks
      BY SyncIsTask
    <3> QED BY <2>1, <2>2, <3>1 DEF AttachStream
  <2>3. CASE DeliverChange
    <3>1. EventOf(stream + 1) \in Tasks /\ EventOf(stream + 1).kind = "event"
      BY <2>3, EventIsTask DEF EventOf
    <3>2. mux' = EnqueueAll(EventOf(stream + 1)) /\ phase' = phase
      BY <2>3 DEF DeliverChange, EventOf
    <3> QED BY <2>1, <3>1, <3>2
  <2>4. CASE StreamBreaks \/ OpeningFails \/ RestartFeed \/ OthersSubscribe \/ OthersStop
    BY <1>3, <2>4 DEF StreamBreaks, OpeningFails, RestartFeed, OthersSubscribe, OthersStop, observerVars
  <2> QED BY <1>9, <2>2, <2>3, <2>4 DEF Feed
<1> QED BY <1>3, <1>5, <1>6, <1>8, <1>9 DEF Next, WriteDoc, observerVars, vars

-----------------------------------------------------------------------------
(* What was stored at a time, in the next state.                           *)
ValueNext(d, time) ==
  LET writes == {t \in 1..time : log'[t].doc = d}
  IN  IF writes = {} THEN Initial[d] ELSE log'[Max(writes)].value

(* What was stored at a time stays what was stored at that time.           *)
LEMMA ValueKept ==
  ASSUME TypeOK, [Next]_vars, NEW d \in Docs, NEW time \in 0..Now
  PROVE  ValueAt(d, time)' = ValueAt(d, time) /\ ValueNext(d, time) = ValueAt(d, time)
<1>1. Now \in Nat /\ time \in Nat /\ \A t \in 1..time : log'[t] = log[t]
  BY TimeStep, BasicTypes
<1> DEFINE writes == {t \in 1..time : log[t].doc = d}
<1>2. {t \in 1..time : log'[t].doc = d} = writes
  BY <1>1
<1>3. writes # {} => Max(writes) \in 1..time
  <2>1. writes \in SUBSET Nat /\ \A y \in writes : y <= time
    BY <1>1
  <2>2. writes \subseteq 1..time
    OBVIOUS
  <2> HIDE DEF writes
  <2> QED BY <1>1, <2>1, <2>2, MaxIsGreatest
<1> QED BY <1>1, <1>2, <1>3 DEF ValueAt, ValueNext

LEMMA MatchedKept ==
  ASSUME TypeOK, [Next]_vars, NEW q \in Queries, NEW d \in Docs, NEW time \in 0..Now
  PROVE  Matched(q, d, time)' = Matched(q, d, time)
BY ValueKept DEF Matched

(* A true event stays true, and one that is delivered is.                  *)
LEMMA TrueKept ==
  ASSUME TypeOK, [Next]_vars, NEW event, event.doc \in Docs, IsTrue(event)
  PROVE  /\ event.time \in 1..Now' /\ log'[event.time].doc = event.doc
         /\ \E time \in event.time..Now' : event.value = ValueNext(event.doc, time)
<1>1. /\ Now \in Nat /\ Now' \in Nat /\ Now' >= Now
      /\ \A t \in 1..Now : log'[t] = log[t]
  BY TimeStep, BasicTypes
<1>2. event.time \in 1..Now /\ log[event.time].doc = event.doc
  BY DEF IsTrue
<1>3. PICK time \in event.time..Now : event.value = ValueAt(event.doc, time)
  BY DEF IsTrue
<1>4. time \in 0..Now /\ time \in event.time..Now'
  BY <1>1, <1>2
<1>5. ValueNext(event.doc, time) = ValueAt(event.doc, time)
  BY <1>4, ValueKept
<1> QED BY <1>1, <1>2, <1>3, <1>4, <1>5

(* An event carries what its write stored, or what was looked up.          *)
LEMMA DeliveredTrue ==
  ASSUME TypeOK, DeliverChange
  PROVE  IsTrue(EventOf(stream + 1))
<1> DEFINE t == stream + 1
           write == log[t]
<1>1. t \in 1..Now /\ write \in Write /\ Now \in Nat
  BY EventIsTask, BasicTypes
<1>2. /\ EventOf(t).time = t /\ EventOf(t).doc = write.doc
      /\ EventOf(t).value = IF write.kind = "update" THEN ValueAt(write.doc, Now) ELSE write.value
  BY DEF EventOf
<1>3. ValueAt(write.doc, t) = write.value
  <2>1. write.doc \in Docs /\ t \in 0..Now /\ t \in 1..t /\ \A u \in (t + 1)..t : FALSE
    BY <1>1 DEF Write
  <2> HIDE DEF t
  <2> QED BY <2>1, LastWrite
<1>4. t \in t..Now /\ Now \in t..Now
  BY <1>1
<1> HIDE DEF t, write
<1>5. EventOf(t).value \in {ValueAt(write.doc, t), ValueAt(write.doc, Now)}
  BY <1>2, <1>3
<1> QED BY <1>1, <1>2, <1>4, <1>5 DEF IsTrue, t, write

(* Where the tasks of a queue come from.                                   *)
LEMMA TasksStep ==
  ASSUME TypeOK, NEW q \in Queries, MuxCases(q), NEW i \in DOMAIN mux'[q].queue
  PROVE  \/ \E j \in DOMAIN mux[q].queue : mux'[q].queue[i] = mux[q].queue[j]
         \/ mux'[q].queue[i].kind # "event"
         \/ DeliverChange /\ log' = log /\ mux'[q].queue[i] = EventOf(stream + 1)
<1>1. mux[q] \in Multiplexer
  BY BasicTypes
<1>2. ASSUME NEW p, Dropped(mux[q], mux'[q], p)
      PROVE  \E j \in DOMAIN mux[q].queue : mux'[q].queue[i] = mux[q].queue[j]
  BY <1>1, <1>2, DroppedPositions
<1>3. ASSUME NEW task, Added(mux[q], mux'[q], task)
      PROVE  \/ \E j \in DOMAIN mux[q].queue : mux'[q].queue[i] = mux[q].queue[j]
             \/ mux'[q].queue[i] = task
  BY <1>1, <1>3, AddedPositions
<1>4. ASSUME NEW o \in Observers, Started(q, o)
      PROVE  mux'[q].queue[i].kind # "event"
  <2>1. CASE mux'[q].queue = <<Startup, JoinOf(o)>>
    BY <2>1 DEF Startup, JoinOf
  <2>2. CASE mux'[q].queue = <<Startup, Resync, JoinOf(o)>>
    BY <2>2 DEF Startup, Resync, JoinOf
  <2> QED BY <1>4, <2>1, <2>2 DEF Started
<1>5. ASSUME NEW o \in Observers, Joined(q, o)
      PROVE  \/ \E j \in DOMAIN mux[q].queue : mux'[q].queue[i] = mux[q].queue[j]
             \/ mux'[q].queue[i].kind # "event"
  BY <1>3, <1>5 DEF Joined, JoinOf
<1>6. CASE mux'[q] = NoMultiplexer
  BY <1>6 DEF NoMultiplexer
<1>7. CASE Stays(q) \/ Left(q) \/ SnapshotRead(q)
  BY <1>7 DEF Stays, Left, SnapshotRead
<1>8. CASE Resynced(q)
  BY <1>3, <1>8 DEF Resynced, Resync
<1>9. CASE Delivered(q) /\ log' = log
  BY <1>3, <1>9 DEF Delivered
<1>10. CASE JoinDropped(q) \/ SnapshotApplied(q) \/ SnapshotFailed(q) \/ EventProcessed(q)
  BY <1>2, <1>10 DEF JoinDropped, SnapshotApplied, SnapshotFailed, EventProcessed
<1> QED BY <1>4, <1>5, <1>6, <1>7, <1>8, <1>9, <1>10 DEF MuxCases

(* The events of a queue stay true.                                        *)
LEMMA EventsStep ==
  ASSUME TypeOK, [Next]_vars, NEW q \in Queries, MuxCases(q), EventsTrue(mux[q])
  PROVE  EventsTrue(mux[q])'
<1> SUFFICES ASSUME NEW i \in DOMAIN mux'[q].queue, mux'[q].queue[i].kind = "event"
             PROVE  IsTrue(mux[q].queue[i])'
  BY DEF EventsTrue, IsEvent
<1>1. ASSUME NEW j \in DOMAIN mux[q].queue, mux'[q].queue[i] = mux[q].queue[j]
      PROVE  IsTrue(mux[q].queue[i])'
  <2>1. mux[q].queue[j] \in Tasks /\ mux[q].queue[j].kind = "event"
    BY <1>1, BasicTypes, QueueTasks
  <2>2. mux[q].queue[j].doc \in Docs
    BY <2>1 DEF Tasks
  <2>3. IsTrue(mux[q].queue[j])
    BY <2>1 DEF EventsTrue, IsEvent
  <2>4. LET event == mux'[q].queue[i]
        IN  /\ event.time \in 1..Now' /\ log'[event.time].doc = event.doc
            /\ \E time \in event.time..Now' : event.value = ValueNext(event.doc, time)
    BY <1>1, <2>2, <2>3, TrueKept
  <2> QED BY <2>4, Zenon DEF IsTrue, ValueAt, ValueNext
<1>2. ASSUME DeliverChange, log' = log, mux'[q].queue[i] = EventOf(stream + 1)
      PROVE  IsTrue(mux[q].queue[i])'
  <2>1. IsTrue(EventOf(stream + 1)) /\ Now' = Now
    BY <1>2, DeliveredTrue DEF Now
  <2>2. \A d, time : ValueNext(d, time) = ValueAt(d, time)
    BY <1>2 DEF ValueNext, ValueAt
  <2>3. LET event == mux'[q].queue[i]
        IN  /\ event.time \in 1..Now' /\ log'[event.time].doc = event.doc
            /\ \E time \in event.time..Now' : event.value = ValueNext(event.doc, time)
    BY <1>2, <2>1, <2>2 DEF IsTrue
  <2> QED BY <2>3, Zenon DEF IsTrue, ValueAt, ValueNext
<1> QED BY <1>1, <1>2, TasksStep

(* What a multiplexer is that nobody uses, or that just started.           *)
LEMMA NothingRead ==
  /\ NoMultiplexer.queue = <<>> /\ NoMultiplexer.subscribers = {}
  /\ NoMultiplexer.reading = Unread /\ NoMultiplexer.asOf = Unread
  /\ NoMultiplexer.snapshotTime = 0 /\ NoMultiplexer.unsynced = {}
  /\ \A d \in Docs : Unread[d] = None
BY DEF NoMultiplexer, Unread

(* What a multiplexer keeps are times, and its first task is what it reads.*)
LEMMA MuxTimes ==
  ASSUME TypeOK, NEW q \in Queries
  PROVE  /\ mux[q] \in Multiplexer /\ Now \in Nat /\ Now <= MaxWrites /\ None = MaxWrites + 1
         /\ MaxWrites \in Nat /\ mux[q].snapshotTime \in Nat
         /\ \A d \in Docs : mux[q].asOf[d] \in Nat /\ mux[q].reading[d] \in Nat
         /\ Len(mux[q].queue) \in Nat /\ DOMAIN mux[q].queue = 1..Len(mux[q].queue)
         /\ mux[q].reading \in [Docs -> 0..None]
         /\ mux[q].queue # <<>> =>
              1 \in DOMAIN mux[q].queue /\ Head(mux[q].queue) = mux[q].queue[1]
<1>1. mux[q] \in Multiplexer /\ Now \in Nat /\ Now <= MaxWrites /\ None = MaxWrites + 1 /\ MaxWrites \in Nat
  BY BasicTypes
<1>2. /\ mux[q].snapshotTime \in 0..MaxWrites /\ mux[q].asOf \in [Docs -> 0..None]
      /\ mux[q].reading \in [Docs -> 0..None] /\ mux[q].queue \in Seq(Tasks)
  BY <1>1 DEF Multiplexer
<1>3. /\ Len(mux[q].queue) \in Nat /\ DOMAIN mux[q].queue = 1..Len(mux[q].queue)
      /\ mux[q].queue # <<>> =>
           1 \in DOMAIN mux[q].queue /\ Head(mux[q].queue) = mux[q].queue[1]
  BY <1>2, LenProperties, EmptySeq
<1>4. /\ mux[q].snapshotTime \in Nat
      /\ \A d \in Docs : mux[q].asOf[d] \in Nat /\ mux[q].reading[d] \in Nat
  <2>1. 0..MaxWrites \subseteq Nat /\ 0..None \subseteq Nat
    BY <1>1
  <2> QED BY <1>2, <2>1
<1> QED BY <1>1, <1>2, <1>3, <1>4

(* The kind of the task that is worked on.                                 *)
LEMMA FirstTask ==
  ASSUME TypeOK, NEW q \in Queries
  PROVE  /\ SnapshotRead(q) \/ SnapshotApplied(q) \/ SnapshotFailed(q) =>
              mux[q].queue # <<>> /\ 1 \in DOMAIN mux[q].queue /\ mux[q].queue[1].kind = "sync"
         /\ EventProcessed(q) =>
              /\ mux[q].queue # <<>> /\ 1 \in DOMAIN mux[q].queue /\ IsEvent(mux[q], 1)
              /\ mux[q].queue[1].doc \in Docs /\ mux[q].queue[1].time \in 1..MaxWrites
<1>1. mux[q].queue # <<>> =>
        1 \in DOMAIN mux[q].queue /\ Head(mux[q].queue) = mux[q].queue[1] /\ mux[q].queue[1] \in Tasks
  BY MuxTimes, QueueTasks
<1>2. ASSUME NEW kind, NextTask(q, kind)
      PROVE  mux[q].queue # <<>> /\ 1 \in DOMAIN mux[q].queue /\ mux[q].queue[1].kind = kind
  BY <1>1, <1>2 DEF NextTask
<1>3. ASSUME NEW batch \in SUBSET Docs, ReadBatch(q, batch)
      PROVE  NextTask(q, "sync")
  BY <1>3 DEF ReadBatch
<1>4. ASSUME NEW time \in 0..Now, ApplySnapshot(q, time)
      PROVE  NextTask(q, "sync")
  BY <1>4 DEF ApplySnapshot
<1>5. SnapshotRead(q) \/ SnapshotApplied(q) \/ SnapshotFailed(q) => NextTask(q, "sync")
  BY <1>3, <1>4 DEF SnapshotRead, SnapshotApplied, SnapshotFailed, SnapshotFails
<1>6. EventProcessed(q) => NextTask(q, "event")
  BY DEF EventProcessed, ProcessEvent
<1>7. mux[q].queue # <<>> /\ mux[q].queue[1].kind = "event" =>
        mux[q].queue[1].doc \in Docs /\ mux[q].queue[1].time \in 1..MaxWrites
  BY <1>1 DEF Tasks
<1> QED BY <1>2, <1>5, <1>6, <1>7 DEF IsEvent

(* Only the first task reads, and what was never read has no snapshot.     *)
LEMMA ReadsFirstStep ==
  ASSUME TypeOK, [Next]_vars, NEW q \in Queries, MuxCases(q), ReadsFirst(mux[q])
  PROVE  ReadsFirst(mux[q])'
<1>1. /\ mux[q] \in Multiplexer /\ Now \in Nat /\ Now' \in Nat /\ Now' >= Now
      /\ None' = None /\ Unread' = Unread /\ mux[q].snapshotTime \in Nat
      /\ mux[q].snapshotTime <= Now
      /\ DOMAIN mux[q].queue = 1..Len(mux[q].queue) /\ Len(mux[q].queue) \in Nat
      /\ \A d \in Docs : mux[q].asOf[d] = None => mux[q].snapshotTime = 0
  BY MuxTimes, TimeStep DEF ReadsFirst, None, Unread
<1>2. mux[q].reading # Unread => Len(mux[q].queue) # 0 /\ mux[q].queue[1].kind = "sync"
  BY <1>1, EmptySeq DEF ReadsFirst, Multiplexer
<1>3. ASSUME mux'[q].snapshotTime \in 0..Now,
             mux'[q].reading # Unread =>
               1 \in DOMAIN mux'[q].queue /\ mux'[q].queue[1].kind = "sync",
             \A d \in Docs : mux'[q].asOf[d] = None => mux'[q].snapshotTime = 0
      PROVE  ReadsFirst(mux[q])'
  <2>1. mux'[q].snapshotTime <= Now'
    BY <1>1, <1>3
  <2>2. 1 \in DOMAIN mux'[q].queue => mux'[q].queue # <<>>
    OBVIOUS
  <2> QED BY <1>1, <1>3, <2>1, <2>2 DEF ReadsFirst
<1>4. CASE Stays(q) \/ Left(q)
  <2>1. /\ mux'[q].queue = mux[q].queue /\ mux'[q].reading = mux[q].reading
        /\ mux'[q].snapshotTime = mux[q].snapshotTime /\ mux'[q].asOf = mux[q].asOf
    BY <1>4 DEF Stays, Left, SameView
  <2> QED BY <1>1, <1>2, <1>3, <2>1
<1>5. ASSUME NEW task, Added(mux[q], mux'[q], task), SameView(mux[q], mux'[q])
      PROVE  ReadsFirst(mux[q])'
  <2>1. /\ mux'[q].reading = mux[q].reading /\ mux'[q].snapshotTime = mux[q].snapshotTime
        /\ mux'[q].asOf = mux[q].asOf
    BY <1>5 DEF SameView
  <2>2. mux'[q].reading # Unread =>
          1 \in DOMAIN mux'[q].queue /\ mux'[q].queue[1].kind = "sync"
    BY <1>1, <1>2, <1>5, <2>1 DEF Added
  <2> QED BY <1>1, <1>3, <2>1, <2>2
<1>6. CASE mux'[q] = NoMultiplexer \/ \E o \in Observers : Started(q, o)
  BY <1>1, <1>3, <1>6, NothingRead DEF Started, SameView
<1>7. ASSUME NEW p \in 1..Len(mux[q].queue), mux[q].queue[p].kind = "join",
             Dropped(mux[q], mux'[q], p), SameView(mux[q], mux'[q])
      PROVE  ReadsFirst(mux[q])'
  <2>1. /\ mux'[q].reading = mux[q].reading /\ mux'[q].snapshotTime = mux[q].snapshotTime
        /\ mux'[q].asOf = mux[q].asOf
    BY <1>7 DEF SameView
  <2>2. ASSUME mux'[q].reading # Unread
        PROVE  1 \in DOMAIN mux'[q].queue /\ mux'[q].queue[1].kind = "sync"
    <3>1. p # 1 /\ mux[q].queue[1].kind = "sync"
      BY <1>2, <1>7, <2>1, <2>2
    <3>2. 1 \in 1..(Len(mux[q].queue) - 1) /\ 1 < p
      BY <1>1, <1>7, <3>1
    <3> QED BY <1>7, <3>1, <3>2 DEF Dropped
  <2> QED BY <1>1, <1>3, <2>1, <2>2
<1>8. CASE SnapshotRead(q)
  <2>1. 1 \in DOMAIN mux[q].queue /\ mux[q].queue[1].kind = "sync"
    BY <1>8, FirstTask
  <2> QED BY <1>1, <1>3, <1>8, <2>1 DEF SnapshotRead
<1>9. CASE SnapshotApplied(q)
  <2>1. PICK time \in 0..Now : mux'[q].snapshotTime = time /\ \A d \in Docs : mux[q].reading[d] \in 0..time
    BY <1>9 DEF SnapshotApplied
  <2>2. \A d \in Docs : mux'[q].asOf[d] # None
    BY <1>1, <1>9, <2>1, MuxTimes DEF SnapshotApplied
  <2> QED BY <1>3, <1>9, <2>1, <2>2 DEF SnapshotApplied
<1>10. CASE SnapshotFailed(q)
  BY <1>1, <1>3, <1>10 DEF SnapshotFailed
<1>11. CASE EventProcessed(q)
  <2>1. mux[q].queue[1].kind = "event" /\ mux[q].queue[1].time # None
    BY <1>11, FirstTask, MuxTimes DEF IsEvent
  <2>2. mux[q].reading = Unread
    BY <1>2, <2>1
  <2>3. \A d \in Docs : mux'[q].asOf[d] = None => mux[q].asOf[d] = None
    BY <1>11, <2>1 DEF EventProcessed
  <2> QED BY <1>1, <1>3, <1>11, <2>2, <2>3 DEF EventProcessed
<1> QED BY <1>4, <1>5, <1>6, <1>7, <1>8, <1>9, <1>10, <1>11
        DEF MuxCases, Resynced, Delivered, Joined, JoinDropped

(* A stream does not go back, whether it goes on, starts or is restarted.  *)
LatestNext ==
  IF stream' # None THEN stream' ELSE IF opening' # None THEN opening' ELSE Now'

LEMMA LatestStep ==
  ASSUME TypeOK, OneStream, [Next]_vars
  PROVE  Latest \in Nat /\ LatestNext \in Nat /\ LatestNext >= Latest /\ OneStream'
<1>1. /\ Now \in Nat /\ Now' \in Nat /\ Now' >= Now /\ None' = None
      /\ Now <= MaxWrites /\ MaxWrites \in Nat /\ None = MaxWrites + 1
      /\ {stream, opening} \subseteq (0..Now) \cup {None} /\ restart \in BOOLEAN
  BY BasicTypes, TimeStep DEF TypeOK, None
<1> DEFINE Goal == LatestNext \in Nat /\ LatestNext >= Latest /\ OneStream'
<1>2. Latest \in Nat /\ Latest <= Now
  BY <1>1 DEF Latest
<1> USE DEF OneStream
<1>3. ASSUME UNCHANGED <<stream, opening, restart>>
      PROVE  Goal
  BY <1>1, <1>2, <1>3 DEF Latest, LatestNext
<1>4. ASSUME StartFeed
      PROVE  Goal
  <2>1. CASE stream = None /\ opening = None /\ ~restart
    <3>1. stream' = None /\ opening' = Now /\ restart' = FALSE /\ Now # None
      BY <1>1, <1>4, <2>1 DEF StartFeed
    <3>2. Latest = Now /\ LatestNext = Now
      BY <1>1, <2>1, <3>1 DEF Latest, LatestNext
    <3> QED BY <1>1, <3>1, <3>2
  <2>2. CASE ~(stream = None /\ opening = None /\ ~restart)
    BY <1>3, <1>4, <2>2 DEF StartFeed
  <2> QED BY <2>1, <2>2
<1>5. ASSUME StopFeed
      PROVE  Goal
  BY <1>1, <1>2, <1>5 DEF LatestNext, StopFeed
<1>6. ASSUME NEW o \in Observers, NEW m, RemoveSubscriber(o, m)
      PROVE  Goal
  <2>1. StopFeed \/ UNCHANGED <<stream, opening, restart>>
    BY <1>6 DEF RemoveSubscriber
  <2> QED BY <1>3, <1>5, <2>1
<1>7. ASSUME Feed
      PROVE  Goal
  <2>1. ASSUME NEW time \in 0..Now, AttachStream(time)
        PROVE  Goal
    <3>1. /\ stream' = time /\ opening' = None /\ restart' = restart /\ time # None
          /\ opening # None /\ time >= opening
      BY <1>1, <2>1 DEF AttachStream
    <3>2. stream = None /\ restart = FALSE
      BY <1>1, <3>1 DEF TypeOK
    <3>3. Latest = opening /\ LatestNext = time
      BY <1>1, <3>1, <3>2 DEF Latest, LatestNext
    <3> QED BY <1>1, <3>1, <3>2, <3>3
  <2>2. CASE DeliverChange
    <3>1. /\ stream' = stream + 1 /\ opening' = opening /\ restart' = restart
          /\ stream \in 0..Now /\ stream # None /\ stream < Now
      BY <1>1, <2>2 DEF DeliverChange
    <3> QED BY <1>1, <1>2, <3>1 DEF Latest, LatestNext
  <2>3. CASE StreamBreaks \/ OpeningFails
    <3>1. stream' = None /\ opening' = None
      BY <1>1, <2>3 DEF StreamBreaks, OpeningFails
    <3> QED BY <1>1, <1>2, <3>1 DEF LatestNext
  <2>4. CASE RestartFeed
    <3>1. /\ stream = None /\ stream' = None /\ opening' = Now /\ Now # None /\ restart' = FALSE
      BY <1>1, <2>4 DEF RestartFeed
    <3> QED BY <1>1, <1>2, <3>1 DEF LatestNext
  <2>5. CASE OthersSubscribe
    BY <1>4, <2>5 DEF OthersSubscribe
  <2>6. CASE OthersStop
    BY <1>3, <1>5, <2>6 DEF OthersStop
  <2> QED BY <1>7, <2>1, <2>2, <2>3, <2>4, <2>5, <2>6 DEF Feed
<1>8. ASSUME NEW o \in Observers, AddSubscriber(o) \/ Abort(o)
      PROVE  Goal
  BY <1>4, <1>6, <1>8 DEF AddSubscriber, Abort
<1>9. ASSUME NEW p \in Queries, RunTask(p)
      PROVE  Goal
  <2>1. ASSUME NEW batch \in SUBSET Docs, ReadBatch(p, batch)
        PROVE  UNCHANGED <<stream, opening, restart>>
    BY <2>1 DEF ReadBatch, feedVars
  <2>2. ASSUME NEW time \in 0..Now, ApplySnapshot(p, time)
        PROVE  UNCHANGED <<stream, opening, restart>>
    BY <2>2 DEF ApplySnapshot, Publish, feedVars
  <2>3. SnapshotFails(p) \/ ProcessEvent(p) => UNCHANGED <<stream, opening, restart>>
    BY DEF SnapshotFails, ProcessEvent, Publish, feedVars
  <2>4. CASE JoinLive(p)
    <3>1. Task(p).observer \in Observers
      <4>1. mux[p].queue # <<>> /\ Head(mux[p].queue).kind = "join"
        BY <2>4 DEF JoinLive, NextTask
      <4>2. mux[p] \in Multiplexer /\ 1 \in DOMAIN mux[p].queue /\ Task(p) = mux[p].queue[1]
        BY <4>1, MuxTimes DEF Task
      <4> QED BY <4>1, <4>2, QueueObservers DEF Task
    <3>2. CASE mux[p].startupError
      <4>1. RemoveSubscriber(Task(p).observer, Done(mux[p]))
        BY <2>4, <3>2 DEF JoinLive
      <4> QED BY <1>6, <3>1, <4>1
    <3>3. CASE ~mux[p].startupError
      BY <1>3, <2>4, <3>3 DEF JoinLive, feedVars
    <3> QED BY <3>2, <3>3
  <2> QED BY <1>3, <1>9, <2>1, <2>2, <2>3, <2>4 DEF RunTask, TaskProceeds
<1> HIDE DEF Goal
<1>10. Goal
  BY <1>3, <1>7, <1>8, <1>9 DEF Next, WriteDoc, feedVars, vars
<1> QED BY <1>2, <1>10 DEF Goal

(* What Ascends says, without the state.                                   *)
Rises(m, latest) ==
  /\ \A i \in DOMAIN m.queue : IsEvent(m, i) =>
       LET event == m.queue[i]
       IN  /\ event.time <= latest
           /\ m.asOf[event.doc] # None =>
                m.asOf[event.doc] <= event.time \/ event.time < m.snapshotTime
           /\ \A j \in DOMAIN m.queue : j > i /\ IsEvent(m, j) => m.queue[j].time > event.time
  /\ \A d \in Docs : m.asOf[d] # None => m.asOf[d] <= latest \/ m.asOf[d] <= m.snapshotTime

(* A task less, with the view as it was or a snapshot later.               *)
LEMMA RisesDropped ==
  ASSUME NEW m \in Multiplexer, NEW n, NEW p, Dropped(m, n, p), NEW latest, Rises(m, latest),
         \A d \in Docs : n.asOf[d] # None => n.asOf[d] <= latest \/ n.asOf[d] <= n.snapshotTime,
         \A j \in DOMAIN m.queue \ {p} :
           IsEvent(m, j) /\ n.asOf[m.queue[j].doc] # None =>
             n.asOf[m.queue[j].doc] <= m.queue[j].time \/ m.queue[j].time < n.snapshotTime
  PROVE  Rises(n, latest)
<1>1. /\ \A i \in DOMAIN n.queue :
           From(p, i) \in DOMAIN m.queue \ {p} /\ n.queue[i] = m.queue[From(p, i)]
      /\ \A i, k \in DOMAIN n.queue : i < k <=> From(p, i) < From(p, k)
      /\ DOMAIN m.queue \subseteq Nat /\ DOMAIN n.queue \subseteq Nat
  BY DroppedPositions
<1>2. ASSUME NEW i \in DOMAIN n.queue, IsEvent(n, i)
      PROVE  /\ n.queue[i].time <= latest
             /\ n.asOf[n.queue[i].doc] # None =>
                  n.asOf[n.queue[i].doc] <= n.queue[i].time \/ n.queue[i].time < n.snapshotTime
             /\ \A j \in DOMAIN n.queue : j > i /\ IsEvent(n, j) => n.queue[j].time > n.queue[i].time
  <2>1. /\ From(p, i) \in DOMAIN m.queue \ {p} /\ n.queue[i] = m.queue[From(p, i)]
        /\ IsEvent(m, From(p, i))
    BY <1>1, <1>2 DEF IsEvent
  <2>2. ASSUME NEW j \in DOMAIN n.queue, j > i, IsEvent(n, j)
        PROVE  n.queue[j].time > n.queue[i].time
    <3>1. /\ From(p, j) \in DOMAIN m.queue /\ n.queue[j] = m.queue[From(p, j)]
          /\ IsEvent(m, From(p, j))
      BY <1>1, <2>2 DEF IsEvent
    <3>2. From(p, j) > From(p, i)
      BY <1>1, <2>1, <2>2, <3>1
    <3> QED BY <2>1, <3>1, <3>2 DEF Rises
  <2> QED BY <2>1, <2>2 DEF Rises
<1> QED BY <1>2 DEF Rises

(* A task more that is no event.                                           *)
LEMMA RisesAdded ==
  ASSUME NEW m \in Multiplexer, NEW n, NEW task, Added(m, n, task), task.kind # "event",
         SameView(m, n), NEW latest, Rises(m, latest)
  PROVE  Rises(n, latest)
<1>1. PICK e \in DOMAIN n.queue :
        n.queue[e] = task /\ DOMAIN n.queue = DOMAIN m.queue \cup {e}
  BY AddedPositions
<1>2. \A i \in DOMAIN n.queue :
        IsEvent(n, i) => i \in DOMAIN m.queue /\ n.queue[i] = m.queue[i] /\ IsEvent(m, i)
  BY <1>1, AddedPositions DEF IsEvent
<1> QED BY <1>2 DEF Rises, SameView

LEMMA AscendsStep ==
  ASSUME TypeOK, OneStream, [Next]_vars, NEW q \in Queries, MuxCases(q), EventsTrue(mux[q]),
         Ascends(mux[q])
  PROVE  Ascends(mux[q])'
<1>1. /\ Latest \in Nat /\ LatestNext \in Nat /\ LatestNext >= Latest
      /\ Rises(mux[q], Latest) /\ mux[q] \in Multiplexer
      /\ \A d \in Docs : mux[q].asOf[d] \in Nat
      /\ \A i \in DOMAIN mux[q].queue :
           IsEvent(mux[q], i) => mux[q].queue[i].time \in Nat /\ mux[q].queue[i].doc \in Docs
  <2>1. \A i \in DOMAIN mux[q].queue :
           IsEvent(mux[q], i) => mux[q].queue[i].time \in Nat /\ mux[q].queue[i].doc \in Docs
    BY MuxTimes, QueueTasks DEF IsEvent, Tasks
  <2> QED BY <2>1, LatestStep, MuxTimes DEF Ascends, Rises
<1>2. ASSUME Rises(mux'[q], LatestNext)
      PROVE  Ascends(mux[q])'
  <2>1. Latest' = LatestNext /\ None' = None
    BY DEF Latest, LatestNext, None
  <2> QED BY <1>2, <2>1 DEF Rises, Ascends, IsEvent
<1>3. Rises(mux[q], LatestNext)
  <2>1. \A i \in DOMAIN mux[q].queue : IsEvent(mux[q], i) => mux[q].queue[i].time <= LatestNext
    BY <1>1 DEF Rises
  <2>2. \A d \in Docs : mux[q].asOf[d] # None =>
          mux[q].asOf[d] <= LatestNext \/ mux[q].asOf[d] <= mux[q].snapshotTime
    BY <1>1 DEF Rises
  <2> QED BY <1>1, <2>1, <2>2 DEF Rises
<1>4. CASE Stays(q) \/ Left(q) \/ SnapshotRead(q)
  <2>1. /\ mux'[q].queue = mux[q].queue /\ mux'[q].asOf = mux[q].asOf
        /\ mux'[q].snapshotTime = mux[q].snapshotTime
    BY <1>4 DEF Stays, Left, SameView, SnapshotRead
  <2>2. Rises(mux'[q], LatestNext)
    BY <1>3, <2>1 DEF Rises, IsEvent
  <2> QED BY <1>2, <2>2
<1>5. CASE (Resynced(q) \/ \E o \in Observers : Joined(q, o)) /\ SameView(mux[q], mux'[q])
  <2>1. Resync.kind # "event" /\ \A o \in Observers : JoinOf(o).kind # "event"
    BY DEF Resync, JoinOf
  <2> QED BY <1>1, <1>2, <1>3, <1>5, <2>1, RisesAdded DEF Resynced, Joined
<1>6. CASE mux'[q] = NoMultiplexer \/ \E o \in Observers : Started(q, o)
  <2>1. /\ \A d \in Docs : mux'[q].asOf[d] = None
        /\ \A i \in DOMAIN mux'[q].queue : ~IsEvent(mux'[q], i)
    <3>1. CASE mux'[q] = NoMultiplexer
      BY <3>1, NothingRead
    <3>2. ASSUME NEW o \in Observers, Started(q, o)
          PROVE  <2>1
      <4>1. \A d \in Docs : mux'[q].asOf[d] = None
        BY <3>2, NothingRead DEF Started, SameView
      <4>2. CASE mux'[q].queue = <<Startup, JoinOf(o)>>
        BY <4>1, <4>2 DEF IsEvent, Startup, JoinOf
      <4>3. CASE mux'[q].queue = <<Startup, Resync, JoinOf(o)>>
        BY <4>1, <4>3 DEF IsEvent, Startup, Resync, JoinOf
      <4> QED BY <3>2, <4>2, <4>3 DEF Started
    <3> QED BY <1>6, <3>1, <3>2
  <2> QED BY <1>2, <2>1 DEF Rises
<1>7. CASE JoinDropped(q) \/ SnapshotFailed(q)
  <2>1. PICK p : Dropped(mux[q], mux'[q], p)
    BY <1>7 DEF JoinDropped, SnapshotFailed
  <2>2. mux'[q].asOf = mux[q].asOf /\ mux'[q].snapshotTime = mux[q].snapshotTime
    BY <1>7 DEF JoinDropped, SnapshotFailed, SameView
  <2>3. /\ \A d \in Docs : mux'[q].asOf[d] # None =>
             mux'[q].asOf[d] <= LatestNext \/ mux'[q].asOf[d] <= mux'[q].snapshotTime
        /\ \A j \in DOMAIN mux[q].queue :
             IsEvent(mux[q], j) /\ mux'[q].asOf[mux[q].queue[j].doc] # None =>
               \/ mux'[q].asOf[mux[q].queue[j].doc] <= mux[q].queue[j].time
               \/ mux[q].queue[j].time < mux'[q].snapshotTime
    BY <1>3, <2>2 DEF Rises
  <2> QED BY <1>1, <1>2, <1>3, <2>1, <2>3, RisesDropped
<1>8. CASE SnapshotApplied(q)
  <2>1. PICK time \in 0..Now : mux'[q].snapshotTime = time /\ \A d \in Docs : mux[q].reading[d] \in 0..time
    BY <1>8 DEF SnapshotApplied
  <2>2. Dropped(mux[q], mux'[q], 1) /\ mux'[q].asOf = mux[q].reading /\ Now \in Nat
    BY <1>8, BasicTypes DEF SnapshotApplied
  <2>3. \A d \in Docs : mux'[q].asOf[d] \in Nat /\ mux'[q].asOf[d] <= mux'[q].snapshotTime
    BY <2>1, <2>2
  <2>4. \A j \in DOMAIN mux[q].queue : IsEvent(mux[q], j) =>
          \/ mux'[q].asOf[mux[q].queue[j].doc] <= mux[q].queue[j].time
          \/ mux[q].queue[j].time < mux'[q].snapshotTime
    BY <1>1, <2>1, <2>2, <2>3
  <2> QED BY <1>1, <1>2, <1>3, <2>2, <2>3, <2>4, RisesDropped
<1>9. CASE EventProcessed(q)
  <2> DEFINE event == mux[q].queue[1]
  <2>1. /\ 1 \in DOMAIN mux[q].queue /\ IsEvent(mux[q], 1) /\ Dropped(mux[q], mux'[q], 1)
        /\ mux'[q].snapshotTime = mux[q].snapshotTime
    BY <1>9, FirstTask DEF EventProcessed
  <2>2. \A d \in Docs : mux'[q].asOf[d] = mux[q].asOf[d] \/ (Used(q, d) /\ mux'[q].asOf[d] = event.time)
    BY <1>9 DEF EventProcessed
  <2>3. \A d \in Docs : mux'[q].asOf[d] # None =>
          mux'[q].asOf[d] <= LatestNext \/ mux'[q].asOf[d] <= mux'[q].snapshotTime
    <3>1. event.time <= LatestNext
      BY <1>3, <2>1 DEF Rises
    <3> HIDE DEF event
    <3>2. \A d \in Docs : mux[q].asOf[d] # None =>
            mux[q].asOf[d] <= LatestNext \/ mux[q].asOf[d] <= mux[q].snapshotTime
      BY <1>3 DEF Rises
    <3> QED BY <2>1, <2>2, <3>1, <3>2
  <2>4. ASSUME NEW j \in DOMAIN mux[q].queue \ {1}, IsEvent(mux[q], j),
               mux'[q].asOf[mux[q].queue[j].doc] # None
        PROVE  \/ mux'[q].asOf[mux[q].queue[j].doc] <= mux[q].queue[j].time
               \/ mux[q].queue[j].time < mux'[q].snapshotTime
    <3>1. mux[q].queue[j].doc \in Docs /\ j > 1 /\ mux[q].queue[j].time \in Nat /\ event.time \in Nat
      BY <1>1, <2>1, <2>4, MuxTimes
    <3>2. mux[q].queue[j].time > event.time
      BY <1>3, <2>1, <2>4, <3>1 DEF Rises
    <3>3. CASE mux'[q].asOf[mux[q].queue[j].doc] = event.time
      BY <3>1, <3>2, <3>3
    <3>4. CASE mux'[q].asOf[mux[q].queue[j].doc] = mux[q].asOf[mux[q].queue[j].doc]
      BY <1>3, <2>1, <2>4, <3>4 DEF Rises
    <3> QED BY <2>2, <3>1, <3>3, <3>4
  <2> QED BY <1>1, <1>2, <1>3, <2>1, <2>3, <2>4, RisesDropped
<1>10. CASE Delivered(q) /\ SameView(mux[q], mux'[q])
  <2>1. PICK e \in DOMAIN mux'[q].queue :
          /\ mux'[q].queue[e] = EventOf(stream + 1)
          /\ DOMAIN mux'[q].queue = DOMAIN mux[q].queue \cup {e}
          /\ \A i \in DOMAIN mux[q].queue : i < e
    BY <1>1, <1>10, AddedPositions DEF Delivered
  <2>2. /\ \A i \in DOMAIN mux[q].queue : mux'[q].queue[i] = mux[q].queue[i]
        /\ DOMAIN mux[q].queue \subseteq Nat /\ DOMAIN mux'[q].queue \subseteq Nat
    BY <1>1, <1>10, AddedPositions DEF Delivered
  <2>3. /\ stream \in Nat /\ Latest = stream /\ LatestNext = stream + 1
        /\ EventOf(stream + 1).time = stream + 1 /\ EventOf(stream + 1).doc \in Docs
    <3>1. DeliverChange /\ stream' = stream + 1 /\ stream # None /\ stream < Now
      BY <1>10 DEF Delivered, DeliverChange
    <3>2. stream \in 0..Now /\ Now <= MaxWrites /\ None = MaxWrites + 1 /\ MaxWrites \in Nat /\ Now \in Nat
      BY <3>1, BasicTypes DEF TypeOK
    <3>3. EventOf(stream + 1).doc \in Docs
      BY <3>1, EventIsTask DEF EventOf, Write
    <3> QED BY <3>1, <3>2, <3>3 DEF Latest, LatestNext, EventOf
  <2>4. ASSUME NEW i \in DOMAIN mux'[q].queue, IsEvent(mux'[q], i)
        PROVE  /\ mux'[q].queue[i].time <= stream + 1
               /\ mux'[q].asOf[mux'[q].queue[i].doc] # None =>
                    \/ mux'[q].asOf[mux'[q].queue[i].doc] <= mux'[q].queue[i].time
                    \/ mux'[q].queue[i].time < mux'[q].snapshotTime
               /\ \A j \in DOMAIN mux'[q].queue :
                    j > i /\ IsEvent(mux'[q], j) => mux'[q].queue[j].time > mux'[q].queue[i].time
    <3>1. CASE i = e
      <4>1. \A j \in DOMAIN mux'[q].queue : ~(j > e)
        BY <2>1, <2>2
      <4>2. \A d \in Docs : mux'[q].asOf[d] # None =>
              mux'[q].asOf[d] <= stream + 1 \/ stream + 1 < mux'[q].snapshotTime
        <5>1. ASSUME NEW d \in Docs, mux[q].asOf[d] # None
              PROVE  mux[q].asOf[d] <= stream + 1 \/ stream + 1 < mux[q].snapshotTime
          <6>1. mux[q].asOf[d] <= stream \/ mux[q].asOf[d] <= mux[q].snapshotTime
            BY <1>1, <2>3, <5>1 DEF Rises
          <6>2. mux[q].asOf[d] \in Nat /\ mux[q].snapshotTime \in Nat
            BY MuxTimes
          <6> QED BY <2>3, <6>1, <6>2
        <5> QED BY <1>10, <5>1 DEF SameView
      <4> QED BY <2>1, <2>3, <3>1, <4>1, <4>2
    <3>2. CASE i # e
      <4>1. i \in DOMAIN mux[q].queue /\ mux'[q].queue[i] = mux[q].queue[i] /\ IsEvent(mux[q], i)
        BY <2>1, <2>2, <2>4, <3>2 DEF IsEvent
      <4>2. /\ mux[q].queue[i].time \in Nat /\ mux[q].queue[i].time <= stream
            /\ mux[q].asOf[mux[q].queue[i].doc] # None =>
                 \/ mux[q].asOf[mux[q].queue[i].doc] <= mux[q].queue[i].time
                 \/ mux[q].queue[i].time < mux[q].snapshotTime
            /\ \A j \in DOMAIN mux[q].queue :
                 j > i /\ IsEvent(mux[q], j) => mux[q].queue[j].time > mux[q].queue[i].time
        BY <1>1, <2>3, <4>1 DEF Rises
      <4>3. ASSUME NEW j \in DOMAIN mux'[q].queue, j > i, IsEvent(mux'[q], j)
            PROVE  mux'[q].queue[j].time > mux[q].queue[i].time
        <5>1. CASE j = e
          BY <2>1, <2>3, <4>2, <5>1
        <5>2. CASE j # e
          BY <2>1, <2>2, <4>2, <4>3, <5>2 DEF IsEvent
        <5> QED BY <5>1, <5>2
      <4>4. mux'[q].queue[i].time <= stream + 1
        BY <2>3, <4>1, <4>2
      <4> QED BY <1>10, <4>1, <4>2, <4>3, <4>4 DEF SameView
    <3> QED BY <3>1, <3>2
  <2>5. \A d \in Docs : mux'[q].asOf[d] # None =>
          mux'[q].asOf[d] <= LatestNext \/ mux'[q].asOf[d] <= mux'[q].snapshotTime
    BY <1>3, <1>10 DEF Rises, SameView
  <2>6. Rises(mux'[q], LatestNext)
    BY <2>3, <2>4, <2>5 DEF Rises
  <2> QED BY <1>2, <2>6
<1> QED BY <1>4, <1>5, <1>6, <1>7, <1>8, <1>9, <1>10 DEF MuxCases

(* What is published was stored when the document was read, or its write   *)
(* delivered, or later.                                                    *)
LEMMA NeverBackStep ==
  ASSUME TypeOK, [Next]_vars, NEW q \in Queries, MuxCases(q), EventsTrue(mux[q]),
         Ascends(mux[q]), NEW d \in Docs,
         mux[q].asOf[d] # None =>
           \E time \in mux[q].asOf[d]..Now : mux[q].view[d] = Matched(q, d, time)
  PROVE  mux'[q].asOf[d] # None =>
           \E time \in mux'[q].asOf[d]..Now' : mux'[q].view[d] = Matched(q, d, time)'
<1>1. /\ mux[q] \in Multiplexer /\ Now \in Nat /\ Now' \in Nat /\ Now' >= Now
      /\ mux[q].asOf[d] \in Nat
  BY MuxTimes, TimeStep
<1>2. \A time \in 0..Now : Matched(q, d, time)' = Matched(q, d, time)
  BY MatchedKept
<1>3. ASSUME NEW time \in mux'[q].asOf[d]..Now, mux'[q].asOf[d] \in Nat,
             mux'[q].view[d] = Matched(q, d, time)
      PROVE  \E t \in mux'[q].asOf[d]..Now' : mux'[q].view[d] = Matched(q, d, t)'
  <2>1. time \in 0..Now /\ time \in mux'[q].asOf[d]..Now'
    BY <1>1, <1>3
  <2> QED BY <1>2, <1>3, <2>1
<1>4. ASSUME mux'[q].view[d] = mux[q].view[d], mux'[q].asOf[d] = mux[q].asOf[d]
      PROVE  mux'[q].asOf[d] # None =>
               \E time \in mux'[q].asOf[d]..Now' : mux'[q].view[d] = Matched(q, d, time)'
  <2> SUFFICES ASSUME mux'[q].asOf[d] # None
               PROVE  \E t \in mux'[q].asOf[d]..Now' : mux'[q].view[d] = Matched(q, d, t)'
    OBVIOUS
  <2>1. PICK time \in mux[q].asOf[d]..Now : mux[q].view[d] = Matched(q, d, time)
    BY <1>4
  <2> QED BY <1>1, <1>3, <1>4, <2>1
<1>5. CASE mux'[q] = NoMultiplexer \/ \E o \in Observers : Started(q, o)
  BY <1>5, NothingRead DEF Started, SameView
<1>6. CASE SnapshotApplied(q)
  <2>1. mux[q].reading[d] \in 0..Now /\ mux[q].reading[d] \in Nat
    BY <1>1, <1>6 DEF SnapshotApplied
  <2>2. mux'[q].view[d] = Matched(q, d, mux[q].reading[d]) /\ mux'[q].asOf[d] = mux[q].reading[d]
    BY <1>6 DEF SnapshotApplied
  <2>3. mux[q].reading[d] \in mux'[q].asOf[d]..Now
    BY <1>1, <2>1, <2>2
  <2> QED BY <1>3, <2>1, <2>2, <2>3
<1>7. CASE EventProcessed(q)
  <2> DEFINE event == mux[q].queue[1]
  <2>1. /\ 1 \in DOMAIN mux[q].queue /\ IsEvent(mux[q], 1) /\ event.doc \in Docs
        /\ mux[q].snapshotTime \in Nat
    BY <1>7, FirstTask, MuxTimes
  <2>2. IsTrue(event)
    BY <2>1 DEF EventsTrue
  <2>3. mux[q].asOf[event.doc] # None =>
          mux[q].asOf[event.doc] <= event.time \/ event.time < mux[q].snapshotTime
    BY <2>1 DEF Ascends
  <2>4. event.time \in 1..Now
    BY <2>2 DEF IsTrue
  <2>5. CASE Used(q, d)
    <3>1. d = event.doc /\ event.time >= mux[q].snapshotTime
      BY <2>5 DEF Used
    <3>6. /\ mux'[q].view[d] = IF event.value \in Matching[q] THEN event.value ELSE Absent
          /\ mux'[q].asOf[d] = IF mux[q].asOf[d] = None \/ mux[q].asOf[d] < event.time
                               THEN event.time ELSE mux[q].asOf[d]
      BY <1>7, <2>5 DEF EventProcessed
    <3> HIDE DEF event
    <3>2. PICK time \in event.time..Now : event.value = ValueAt(event.doc, time)
      BY <2>2 DEF IsTrue
    <3>3. mux'[q].view[d] = Matched(q, d, time)
      BY <3>1, <3>2, <3>6 DEF Matched
    <3>4. mux'[q].asOf[d] = event.time
      BY <1>1, <2>1, <2>3, <2>4, <3>1, <3>6
    <3>5. time \in mux'[q].asOf[d]..Now /\ mux'[q].asOf[d] \in Nat
      BY <1>1, <2>4, <3>4
    <3> QED BY <1>3, <3>3, <3>5
  <2>6. CASE ~Used(q, d)
    BY <1>4, <1>7, <2>6 DEF EventProcessed
  <2> QED BY <2>5, <2>6
<1> QED BY <1>4, <1>5, <1>6, <1>7
        DEF MuxCases, Stays, Left, SameView, JoinDropped, SnapshotRead, SnapshotFailed

(* Who is live has been told of everything in the view.                    *)
LEMMA SeenStep ==
  ASSUME TypeOK, TypeOK', Counted, \A q \in Queries : Registered(q) /\ ReadsStored(mux[q]),
         SeenIsView, [Next]_vars
  PROVE  SeenIsView'
<1>1. /\ mux \in [Queries -> Multiplexer] /\ \A q \in Queries : mux[q] \in Multiplexer
      /\ phase \in [Observers -> Phases]
      /\ seen \in [Observers -> Contents]
      /\ \A o \in Observers : QueryOf[o] \in Queries
      /\ \A q \in Queries : mux'[q].view \in Contents
  BY BasicTypes, ChangeFeedAssumption DEF TypeOK, Multiplexer
<1> USE DEF Present
<1>2. ASSUME \A o \in Observers :
               phase'[o] = "live" =>
                 /\ phase[o] = "live" /\ seen'[o] = seen[o]
                 /\ mux'[QueryOf[o]].view = mux[QueryOf[o]].view
      PROVE  SeenIsView'
  BY <1>2 DEF SeenIsView
<1>3. ASSUME UNCHANGED <<mux, phase, seen>>
      PROVE  SeenIsView'
  BY <1>3 DEF SeenIsView
<1>4. ASSUME NEW task \in Tasks, mux' = EnqueueAll(task), UNCHANGED <<phase, seen>>
      PROVE  SeenIsView'
  <2>1. ASSUME NEW q \in Queries
        PROVE  mux'[q].view = mux[q].view
    <3>1. mux'[q] = IF q \in Observed THEN Enqueue(mux[q], task) ELSE mux[q]
      BY <1>4 DEF EnqueueAll
    <3>2. SameView(mux[q], Enqueue(mux[q], task))
      BY <1>1, AddedByEnqueue
    <3> QED BY <3>1, <3>2 DEF SameView
  <2> QED BY <1>1, <1>2, <1>4, <2>1
<1>5. ASSUME NEW o \in Observers, AddSubscriber(o)
      PROVE  SeenIsView'
  <2>1. phase' = [phase EXCEPT ![o] = "joining"] /\ seen' = seen
    BY <1>5 DEF AddSubscriber
  <2>2. ASSUME NEW x \in Observers, phase'[x] = "live"
        PROVE  phase[x] = "live" /\ mux'[QueryOf[x]].view = mux[QueryOf[x]].view
    <3>1. phase[x] = "live" /\ x \in mux[QueryOf[x]].subscribers
      BY <1>1, <2>1, <2>2 DEF Counted
    <3>2. QueryOf[x] \in Observed
      BY <1>1, <3>1 DEF Observed
    <3>3. CASE QueryOf[x] = QueryOf[o]
      <4>1. SameView(mux[QueryOf[x]], mux'[QueryOf[x]])
        BY <1>1, <1>5, <3>2, <3>3, AddEffect DEF Started
      <4> QED BY <3>1, <4>1 DEF SameView
    <3>4. CASE QueryOf[x] # QueryOf[o]
      BY <1>1, <1>5, <3>1, <3>4, AddEffect
    <3> QED BY <3>3, <3>4
  <2> QED BY <1>2, <2>1, <2>2
<1>6. ASSUME NEW o \in Observers,
             \/ Abort(o)
             \/ /\ JoinLive(QueryOf[o]) /\ Task(QueryOf[o]).observer = o
                /\ mux[QueryOf[o]].startupError
      PROVE  SeenIsView'
  <2>1. phase' = [phase EXCEPT ![o] = "left"] /\ seen' = [seen EXCEPT ![o] = NoDocs]
    BY <1>6 DEF Abort, JoinLive, RemoveSubscriber
  <2>2. ASSUME NEW x \in Observers, phase'[x] = "live"
        PROVE  /\ phase[x] = "live" /\ seen'[x] = seen[x]
               /\ mux'[QueryOf[x]].view = mux[QueryOf[x]].view
    <3>1. phase[x] = "live" /\ x \in mux[QueryOf[x]].subscribers /\ x # o /\ seen'[x] = seen[x]
      BY <1>1, <2>1, <2>2 DEF Counted
    <3>2. \/ QueryOf[x] # QueryOf[o] /\ mux'[QueryOf[x]] = mux[QueryOf[x]]
          \/ SameView(mux[QueryOf[x]], mux'[QueryOf[x]])
      <4>1. QueryOf[x] \in Queries /\ ~(mux[QueryOf[x]].subscribers \subseteq {o})
        BY <1>1, <3>1
      <4>2. \A q \in Queries : Registered(q)
        OBVIOUS
      <4>3. ASSUME NEW q \in Queries, q = QueryOf[x]
            PROVE  \/ QueryOf[x] # QueryOf[o] /\ mux'[q] = mux[q]
                   \/ SameView(mux[q], mux'[q])
        BY <1>6, <4>1, <4>2, <4>3, LeaveEffect DEF SameView
      <4> QED BY <4>1, <4>3
    <3> QED BY <3>1, <3>2 DEF SameView
  <2> QED BY <1>2, <2>2
<1>7. ASSUME NEW p \in Queries, OnlyAt(p), Told(p)
      PROVE  SeenIsView'
  <2> SUFFICES ASSUME NEW o \in Observers, phase'[o] = "live"
               PROVE  seen'[o] = mux'[QueryOf[o]].view
    BY DEF SeenIsView
  <2>1. phase[o] = "live" /\ seen[o] = mux[QueryOf[o]].view
    BY <1>7 DEF Told, SeenIsView
  <2>2. CASE QueryOf[o] = p
    <3>1. seen'[o] = [d \in Docs |-> IF mux'[p].view[d] # mux[p].view[d] THEN mux'[p].view[d]
                                     ELSE seen[o][d]]
      BY <1>7, <2>1, <2>2 DEF Told
    <3>2. mux'[p].view = [d \in Docs |-> mux'[p].view[d]]
      BY <1>1 DEF Contents
    <3> QED BY <2>1, <2>2, <3>1, <3>2
  <2>3. CASE QueryOf[o] # p
    BY <1>1, <1>7, <2>1, <2>3 DEF Told, OnlyAt
  <2> QED BY <2>2, <2>3
<1>8. ASSUME NEW p \in Queries, RunTask(p)
      PROVE  SeenIsView'
  <2>1. ASSUME NEW batch \in SUBSET Docs, ReadBatch(p, batch)
        PROVE  SeenIsView'
    BY <1>7, <2>1, ReadEffect
  <2>2. ASSUME (\E time \in 0..Now : ApplySnapshot(p, time)) \/ ProcessEvent(p)
        PROVE  SeenIsView'
    BY <1>7, <2>2, ApplyEffect, ProcessEffect
  <2>3. CASE SnapshotFails(p)
    <3>1. \A q \in Queries : mux'[q].view = mux[q].view
      BY <2>3, FailEffect DEF SnapshotFailed, OnlyAt
    <3> QED BY <1>1, <1>2, <2>3, <3>1 DEF SnapshotFails
  <2>4. CASE JoinLive(p)
    <3>1. /\ mux[p].queue # <<>> /\ Task(p).observer \in Observers /\ QueryOf[Task(p).observer] = p
      <4>1. mux[p].queue # <<>> /\ Task(p).kind = "join" /\ Task(p) = Head(mux[p].queue)
        BY <2>4 DEF JoinLive, NextTask, Task
      <4>2. 1 \in DOMAIN mux[p].queue /\ Task(p) = mux[p].queue[1]
        BY <1>1, <4>1, DoneTask
      <4> QED BY <1>1, <4>1, <4>2, QueueObservers DEF Registered, JoinsOnce
    <3>2. CASE mux[p].startupError
      BY <1>6, <2>4, <3>1, <3>2
    <3>3. CASE ~mux[p].startupError
      <4>1. /\ mux' = [mux EXCEPT ![p] = Done(mux[p])]
            /\ phase' = [phase EXCEPT ![Task(p).observer] = "live"]
            /\ seen' = [seen EXCEPT ![Task(p).observer] = mux[p].view]
        BY <2>4, <3>3 DEF JoinLive
      <4>2. \A q \in Queries : mux'[q].view = mux[q].view
        <5>1. SameView(mux[p], mux'[p]) /\ \A q \in Queries \ {p} : mux'[q] = mux[q]
          BY <1>1, <3>1, <4>1, DoneEffect
        <5> QED BY <5>1 DEF SameView
      <4> QED BY <1>1, <3>1, <4>1, <4>2 DEF SeenIsView
    <3> QED BY <3>2, <3>3
  <2> QED BY <1>8, <2>1, <2>2, <2>3, <2>4 DEF RunTask, TaskProceeds
<1>9. CASE Feed
  <2>1. CASE \E time \in 0..Now : AttachStream(time)
    <3>1. [kind |-> "sync", startup |-> FALSE] \in Tasks
      BY SyncIsTask
    <3> QED BY <1>4, <2>1, <3>1 DEF AttachStream
  <2>2. CASE DeliverChange
    <3>1. EventOf(stream + 1) \in Tasks
      BY <2>2, EventIsTask
    <3>2. mux' = EnqueueAll(EventOf(stream + 1)) /\ UNCHANGED <<phase, seen>>
      BY <2>2 DEF DeliverChange, EventOf
    <3> QED BY <1>4, <3>1, <3>2
  <2>3. CASE StreamBreaks \/ OpeningFails \/ RestartFeed \/ OthersSubscribe \/ OthersStop
    BY <1>3, <2>3 DEF StreamBreaks, OpeningFails, RestartFeed, OthersSubscribe, OthersStop, observerVars
  <2> QED BY <1>9, <2>1, <2>2, <2>3 DEF Feed
<1> QED BY <1>3, <1>5, <1>6, <1>8, <1>9 DEF Next, WriteDoc, observerVars, vars

(* All of it together.                                                     *)
LEMMA FeedInit ==
  ASSUME Init
  PROVE  TypeOK /\ FeedInv
<1>1. TypeOK /\ \A q \in Queries : mux[q] = NoMultiplexer
  BY TypeInit DEF Init
<1>2. Now = 0 /\ \A o \in Observers : phase[o] = "away" /\ QueryOf[o] \in Queries
  BY ChangeFeedAssumption DEF Init, Now
<1>3. \A q \in Queries :
        /\ Registered(q) /\ ReadsStored(mux[q]) /\ ReadsFirst(mux[q]) /\ EventsTrue(mux[q])
        /\ Ascends(mux[q])
  BY <1>1, <1>2, NothingRead DEF Registered, JoinsOnce, ReadsStored, ReadsFirst, EventsTrue, Ascends
<1>4. SeenIsView /\ NeverBack /\ Counted /\ OneStream
  BY <1>1, <1>2, NothingRead DEF SeenIsView, NeverBack, Counted, Present, OneStream, Init
<1> QED BY <1>1, <1>3, <1>4 DEF FeedInv

(* Every step keeps all of it.                                             *)
LEMMA FeedInvStep ==
  ASSUME TypeOK, FeedInv, [Next]_vars
  PROVE  TypeOK' /\ FeedInv'
<1>1. /\ Counted /\ SeenIsView /\ NeverBack /\ OneStream
      /\ \A q \in Queries :
           /\ Registered(q) /\ ReadsStored(mux[q]) /\ ReadsFirst(mux[q]) /\ EventsTrue(mux[q])
           /\ Ascends(mux[q])
  BY DEF FeedInv
<1>2. TypeOK' /\ (\A q \in Queries : ReadsStored(mux[q]))'
  BY <1>1, TypeStep, ReadingStep
<1>3. Counted' /\ (\A q \in Queries : Registered(q))'
  BY <1>1, RegisteredStep
<1>4. SeenIsView'
  BY <1>1, <1>2, SeenStep
<1>5. \A q \in Queries : MuxCases(q)
  BY <1>1, MuxStep
<1>6. ASSUME NEW q \in Queries
      PROVE  ReadsFirst(mux[q])' /\ EventsTrue(mux[q])' /\ Ascends(mux[q])'
  BY <1>1, <1>5, ReadsFirstStep, EventsStep, AscendsStep
<1>7. NeverBack'
  <2> SUFFICES ASSUME NEW q \in Queries, NEW d \in Docs
               PROVE  mux'[q].asOf[d] # None =>
                        \E time \in mux'[q].asOf[d]..Now' :
                          mux'[q].view[d] = Matched(q, d, time)'
    BY DEF NeverBack, None
  <2>1. mux[q].asOf[d] # None =>
          \E time \in mux[q].asOf[d]..Now : mux[q].view[d] = Matched(q, d, time)
    BY <1>1 DEF NeverBack
  <2> QED BY <1>1, <1>5, <2>1, NeverBackStep
<1>8. OneStream'
  BY <1>1, LatestStep
<1> QED BY <1>2, <1>3, <1>4, <1>6, <1>7, <1>8 DEF FeedInv

(* Whatever fails, and whenever snapshots, events and joins are worked     *)
(* through: what is published is not older than the last snapshot, and who *)
(* is live sees what is published.                                         *)
THEOREM ViewsKeepUp == Spec => [](NeverBack /\ SeenIsView)
<1>1. Init => TypeOK /\ FeedInv
  BY FeedInit
<1>2. TypeOK /\ FeedInv /\ [Next]_vars => (TypeOK /\ FeedInv)'
  BY FeedInvStep
<1>3. FeedInv => NeverBack /\ SeenIsView
  BY DEF FeedInv
<1> QED BY <1>1, <1>2, <1>3, PTL DEF Spec
-----------------------------------------------------------------------------
(* Who follows a stream.  The order of the tasks stays the same when one   *)
(* is dropped that is done or a join, and when a join is added.            *)
LEMMA DroppedOrder ==
  ASSUME NEW m \in Multiplexer, NEW n, NEW p, Dropped(m, n, p),
         p = 1 \/ m.queue[p].kind = "join"
  PROVE  /\ StartFollowed(m) => StartFollowed(n)
         /\ InTurn(m) => InTurn(n)
<1>1. /\ p \in DOMAIN m.queue /\ DOMAIN m.queue \subseteq Nat /\ DOMAIN n.queue \subseteq Nat
      /\ \A i \in DOMAIN n.queue :
           /\ From(p, i) \in DOMAIN m.queue \ {p}
           /\ n.queue[i] = m.queue[From(p, i)]
      /\ \A j \in DOMAIN m.queue \ {p} : \E i \in DOMAIN n.queue : From(p, i) = j
      /\ \A i, k \in DOMAIN n.queue : i < k <=> From(p, i) < From(p, k)
  BY DroppedPositions
<1>2. DOMAIN m.queue = 1..Len(m.queue)
  BY LenProperties DEF Multiplexer
(* What comes after another task, and is no join, is not dropped.          *)
<1>3. ASSUME NEW i \in DOMAIN n.queue, NEW j \in DOMAIN m.queue, j > From(p, i),
             m.queue[j].kind # "join"
      PROVE  \E k \in DOMAIN n.queue : k > i /\ From(p, k) = j /\ n.queue[k] = m.queue[j]
  <2>1. j # p
    <3>1. From(p, i) \in DOMAIN m.queue /\ From(p, i) >= 1
      BY <1>1, <1>2
    <3> QED BY <1>1, <1>2, <1>3, <3>1
  <2>2. PICK k \in DOMAIN n.queue : From(p, k) = j
    BY <1>1, <2>1
  <2> QED BY <1>1, <1>3, <2>2
<1>4. ASSUME StartFollowed(m)
      PROVE  StartFollowed(n)
  <2> SUFFICES ASSUME NEW i \in DOMAIN n.queue, n.queue[i].kind = "sync", n.queue[i].startup
               PROVE  \E j \in DOMAIN n.queue : j > i /\ IsResync(n, j)
    BY DEF StartFollowed
  <2>1. PICK j \in DOMAIN m.queue : j > From(p, i) /\ IsResync(m, j)
    BY <1>1, <1>4 DEF StartFollowed
  <2>2. m.queue[j].kind # "join"
    BY <2>1 DEF IsResync
  <2> QED BY <1>3, <2>1, <2>2 DEF IsResync
<1>5. ASSUME InTurn(m)
      PROVE  InTurn(n)
  <2> SUFFICES ASSUME NEW i \in DOMAIN n.queue, IsEvent(n, i),
                      \A j \in DOMAIN n.queue : IsResync(n, j) => j < i
               PROVE  \A t \in (n.queue[i].time + 1)..stream :
                        \E j \in DOMAIN n.queue : j > i /\ IsEvent(n, j) /\ n.queue[j].time = t
    BY DEF InTurn
  <2> DEFINE f == From(p, i)
  <2>1. f \in DOMAIN m.queue \ {p} /\ n.queue[i] = m.queue[f] /\ IsEvent(m, f)
    BY <1>1 DEF IsEvent
  <2>2. ASSUME NEW j \in DOMAIN m.queue, IsResync(m, j)
        PROVE  j < f
    <3>1. CASE j = p
      BY <1>1, <1>2, <2>1, <2>2, <3>1 DEF IsResync
    <3>2. CASE j # p
      <4>1. PICK k \in DOMAIN n.queue : From(p, k) = j
        BY <1>1, <3>2
      <4>2. n.queue[k] = m.queue[j]
        BY <1>1, <4>1
      <4>3. k < i
        BY <2>2, <4>2 DEF IsResync
      <4> QED BY <1>1, <4>1, <4>3
    <3> QED BY <3>1, <3>2
  <2>3. \A t \in (m.queue[f].time + 1)..stream :
          \E j \in DOMAIN m.queue : j > f /\ IsEvent(m, j) /\ m.queue[j].time = t
    BY <1>5, <2>1, <2>2 DEF InTurn
  <2>4. ASSUME NEW t \in (n.queue[i].time + 1)..stream
        PROVE  \E j \in DOMAIN n.queue : j > i /\ IsEvent(n, j) /\ n.queue[j].time = t
    <3>1. PICK j \in DOMAIN m.queue : j > f /\ IsEvent(m, j) /\ m.queue[j].time = t
      BY <2>1, <2>3
    <3>2. m.queue[j].kind # "join"
      BY <3>1 DEF IsEvent
    <3>3. PICK k \in DOMAIN n.queue : k > i /\ n.queue[k] = m.queue[j]
      BY <1>3, <3>1, <3>2
    <3> QED BY <3>1, <3>3 DEF IsEvent
  <2> QED BY <2>4
<1> QED BY <1>4, <1>5

(* A task that is added comes last.                                        *)
LEMMA AddedOrder ==
  ASSUME NEW m \in Multiplexer, NEW n, NEW task, Added(m, n, task),
         task.kind # "sync"
  PROVE  /\ StartFollowed(m) => StartFollowed(n)
         /\ InTurn(m) /\ task.kind = "join" => InTurn(n)
         /\ \A d \in Docs : WillRead(m, d) /\ n.reading = m.reading => WillRead(n, d)
<1>1. PICK e \in DOMAIN n.queue :
        /\ n.queue[e] = task /\ DOMAIN n.queue = DOMAIN m.queue \cup {e}
        /\ \A i \in DOMAIN m.queue : i < e
  BY AddedPositions
<1>2. /\ DOMAIN m.queue \subseteq Nat /\ DOMAIN n.queue \subseteq Nat
      /\ \A i \in DOMAIN m.queue : i \in DOMAIN n.queue /\ n.queue[i] = m.queue[i]
  BY AddedPositions
<1>3. ASSUME StartFollowed(m)
      PROVE  StartFollowed(n)
  BY <1>1, <1>2, <1>3 DEF StartFollowed, IsResync
<1>4. ASSUME InTurn(m), task.kind = "join"
      PROVE  InTurn(n)
  BY <1>1, <1>2, <1>4 DEF InTurn, IsResync, IsEvent
<1>5. ASSUME NEW d \in Docs, WillRead(m, d), n.reading = m.reading
      PROVE  WillRead(n, d)
  BY <1>1, <1>2, <1>5 DEF WillRead, IsResync
<1> QED BY <1>3, <1>4, <1>5

(* What a snapshot will read it still will, whatever task is done, unless  *)
(* it is the snapshot and has not read the document.                       *)
LEMMA ReadKept ==
  ASSUME NEW m \in Multiplexer, NEW n, NEW p, Dropped(m, n, p), NEW d \in Docs,
         n.reading[d] \in {m.reading[d], None},
         \/ p = 1 /\ n.reading[d] = None /\ (~IsResync(m, 1) \/ m.reading[d] # None)
         \/ p # 1 /\ ~IsResync(m, p),
         WillRead(m, d)
  PROVE  WillRead(n, d)
<1>1. /\ p \in DOMAIN m.queue /\ DOMAIN m.queue \subseteq Nat /\ DOMAIN n.queue \subseteq Nat
      /\ \A i \in DOMAIN n.queue : n.queue[i] = m.queue[From(p, i)]
      /\ \A j \in DOMAIN m.queue \ {p} : \E i \in DOMAIN n.queue : From(p, i) = j
  BY DroppedPositions
<1>2. DOMAIN m.queue = 1..Len(m.queue) /\ DOMAIN n.queue = 1..(Len(m.queue) - 1)
      /\ Len(m.queue) \in Nat
  BY LenProperties DEF Multiplexer, Dropped
<1>3. PICK j \in DOMAIN m.queue : IsResync(m, j) /\ (j > 1 \/ m.reading[d] = None)
  BY DEF WillRead
<1>4. j # p
  BY <1>2, <1>3
<1>5. PICK k \in DOMAIN n.queue : From(p, k) = j
  BY <1>1, <1>4
<1>6. IsResync(n, k)
  BY <1>1, <1>3, <1>5 DEF IsResync
<1>7. k > 1 \/ n.reading[d] = None
  <2>1. CASE p # 1 /\ n.reading[d] # None
    <3>1. j > 1
      BY <1>3, <2>1
    <3>2. p > 1
      BY <1>1, <1>2, <2>1
    <3> QED BY <1>1, <1>2, <1>5, <3>1, <3>2 DEF From
  <2> QED BY <2>1
<1> QED BY <1>6, <1>7 DEF WillRead

(* What the view shows of a document, or will when the snapshot is applied,*)
(* in the next state.                                                      *)
LEMMA BaseNext ==
  ASSUME NEW q \in Queries, NEW d \in Docs
  PROVE  Base(q, d)' =
           IF mux'[q].reading[d] = None THEN mux'[q].view[d]
           ELSE IF ValueNext(d, mux'[q].reading[d]) \in Matching[q]
                THEN ValueNext(d, mux'[q].reading[d]) ELSE Absent
BY DEF Base, Matched, ValueAt, ValueNext, None

(* It stays the same if neither the view nor the reading changes.          *)
LEMMA BaseKept ==
  ASSUME TypeOK, [Next]_vars, NEW q \in Queries, ReadsStored(mux[q]), NEW d \in Docs,
         mux'[q].reading[d] = mux[q].reading[d], mux'[q].view[d] = mux[q].view[d]
  PROVE  Base(q, d)' = Base(q, d)
<1>2. CASE mux[q].reading[d] = None
  BY <1>2, BaseNext DEF Base
<1>3. CASE mux[q].reading[d] # None
  <2>1. mux[q].reading[d] \in 0..Now
    BY <1>3, MuxTimes DEF ReadsStored
  <2>2. ValueNext(d, mux[q].reading[d]) = ValueAt(d, mux[q].reading[d])
    BY <2>1, ValueKept
  <2> QED BY <1>3, <2>2, BaseNext DEF Base, Matched
<1> QED BY <1>2, <1>3

(* What Covered says, in the next state: the event is queued, or it shows. *)
CoveredNext(q, d, t) ==
  \/ \E i \in DOMAIN mux'[q].queue :
       /\ mux'[q].queue[i].kind = "event" /\ mux'[q].queue[i].doc = d
       /\ mux'[q].queue[i].time >= t
  \/ \E time \in t..Now' : Base(q, d)' = Matched(q, d, time)'

LEMMA CoveredIsNext ==
  ASSUME NEW q \in Queries, NEW d \in Docs,
         \A t \in 0..stream' : t = 0 \/ log'[t].doc = d => CoveredNext(q, d, t)
  PROVE  Covered(q, d)'
BY DEF Covered, CoveredNext, IsEvent

(* What was delivered stays covered as long as its event is in the queue,  *)
(* or it is in the view.                                                   *)
LEMMA CoveredKept ==
  ASSUME TypeOK, [Next]_vars, NEW q \in Queries, NEW d \in Docs,
         stream \in 0..Now, stream' = stream, Covered(q, d), Base(q, d)' = Base(q, d),
         \A j \in DOMAIN mux[q].queue :
           IsEvent(mux[q], j) => \E i \in DOMAIN mux'[q].queue : mux'[q].queue[i] = mux[q].queue[j]
  PROVE  Covered(q, d)'
<1>1. /\ Now \in Nat /\ Now' \in Nat /\ Now' >= Now
      /\ \A t \in 1..Now : log'[t] = log[t]
  BY TimeStep, BasicTypes
<1> SUFFICES ASSUME NEW t \in 0..stream, t = 0 \/ log'[t].doc = d
             PROVE  CoveredNext(q, d, t)
  BY CoveredIsNext
<1>2. t = 0 \/ log[t].doc = d
  BY <1>1
<1>3. CASE \E i \in DOMAIN mux[q].queue :
             IsEvent(mux[q], i) /\ mux[q].queue[i].doc = d /\ mux[q].queue[i].time >= t
  BY <1>3 DEF IsEvent, CoveredNext
<1>4. CASE \E time \in t..Now : Base(q, d) = Matched(q, d, time)
  <2>1. PICK time \in t..Now : Base(q, d) = Matched(q, d, time)
    BY <1>4
  <2>2. time \in 0..Now /\ time \in t..Now'
    BY <1>1
  <2>3. Matched(q, d, time)' = Matched(q, d, time)
    BY <2>2, MatchedKept
  <2> QED BY <2>1, <2>2, <2>3 DEF CoveredNext
<1> QED BY <1>2, <1>3, <1>4 DEF Covered

(* A change that is delivered is in the queue.                             *)
LEMMA DeliveredCovered ==
  ASSUME TypeOK, [Next]_vars, NEW q \in Queries, ReadsStored(mux[q]), Delivered(q),
         SameView(mux[q], mux'[q]), log' = log, NEW d \in Docs, Covered(q, d)
  PROVE  Covered(q, d)'
<1>1. /\ mux[q] \in Multiplexer /\ Now \in Nat /\ Now' = Now /\ stream \in Nat
      /\ stream + 1 <= Now /\ stream' = stream + 1
  BY BasicTypes, EventIsTask DEF Delivered, DeliverChange, Now, TypeOK
<1>2. PICK e \in DOMAIN mux'[q].queue : mux'[q].queue[e] = EventOf(stream + 1)
  BY <1>1, AddedPositions DEF Delivered
<1>3. \A i \in DOMAIN mux[q].queue : i \in DOMAIN mux'[q].queue /\ mux'[q].queue[i] = mux[q].queue[i]
  BY <1>1, AddedPositions DEF Delivered
<1>4. Base(q, d)' = Base(q, d)
  BY BaseKept DEF SameView
<1> SUFFICES ASSUME NEW t \in 0..(stream + 1), t = 0 \/ log[t].doc = d
             PROVE  CoveredNext(q, d, t)
  BY <1>1, CoveredIsNext
<1>5. CASE t = stream + 1
  <2>1. /\ EventOf(stream + 1).kind = "event" /\ EventOf(stream + 1).doc = log[t].doc
        /\ EventOf(stream + 1).time = t
    BY <1>5 DEF EventOf
  <2>2. log[t].doc = d /\ t >= t
    BY <1>1, <1>5
  <2> QED BY <1>2, <2>1, <2>2 DEF CoveredNext
<1>6. CASE t \in 0..stream
  <2>1. CASE \E i \in DOMAIN mux[q].queue :
               IsEvent(mux[q], i) /\ mux[q].queue[i].doc = d /\ mux[q].queue[i].time >= t
    BY <1>3, <2>1 DEF IsEvent, CoveredNext
  <2>2. CASE \E time \in t..Now : Base(q, d) = Matched(q, d, time)
    <3>1. PICK time \in t..Now : Base(q, d) = Matched(q, d, time)
      BY <2>2
    <3>2. time \in 0..Now /\ time \in t..Now'
      BY <1>1, <1>6
    <3>3. Matched(q, d, time)' = Matched(q, d, time)
      BY <3>2, MatchedKept
    <3> QED BY <1>4, <3>1, <3>2, <3>3 DEF CoveredNext
  <2> QED BY <1>6, <2>1, <2>2 DEF Covered
<1> QED BY <1>1, <1>5, <1>6

(* A document that was written between its batch and the snapshot's time   *)
(* stays behind, until an event or a snapshot tells of it.                 *)
LEMMA BehindKept ==
  ASSUME TypeOK, [Next]_vars, NEW q \in Queries, NEW d \in Docs, mux[q].snapshotTime <= Now,
         mux'[q].asOf[d] = mux[q].asOf[d], mux'[q].snapshotTime = mux[q].snapshotTime,
         d \in mux[q].unsynced => d \in mux'[q].unsynced, Behind(q, d)
  PROVE  Behind(q, d)'
<1>1. CASE d \in mux[q].unsynced
  BY <1>1 DEF Behind
<1>2. CASE WrittenBetween(q, d)
  <2>1. PICK t \in (mux[q].asOf[d] + 1)..(mux[q].snapshotTime - 1) : log[t].doc = d
    BY <1>2 DEF WrittenBetween
  <2>2. t \in 1..Now
    BY <2>1, MuxTimes
  <2>3. log'[t] = log[t]
    BY <2>2, TimeStep
  <2>4. WrittenBetween(q, d)'
    BY <2>1, <2>3 DEF WrittenBetween
  <2> QED BY <2>4 DEF Behind
<1> QED BY <1>1, <1>2 DEF Behind

(* An event that is used takes the document to where it was, or later; the *)
(* events of what was written since then are still to come.                *)
LEMMA UsedCovers ==
  ASSUME TypeOK, [Next]_vars, NEW q \in Queries, ReadsFirst(mux[q]), EventsTrue(mux[q]),
         EventProcessed(q), log' = log, stream' = stream, stream \in 0..Now,
         InTurn(mux[q]), NEW d \in Docs, ~WillRead(mux[q], d), Used(q, d)
  PROVE  Covered(q, d)'
<1> DEFINE event == mux[q].queue[1]
<1>1. /\ mux[q] \in Multiplexer /\ Now \in Nat /\ Now' = Now
      /\ DOMAIN mux[q].queue \subseteq Nat
      /\ 1 \in DOMAIN mux[q].queue /\ IsEvent(mux[q], 1)
  BY MuxTimes, FirstTask DEF Now
<1>2. mux[q].reading[d] = None /\ mux'[q].reading[d] = None
  BY <1>1, NothingRead DEF ReadsFirst, EventProcessed, IsEvent
<1>3. Base(q, d)' = mux'[q].view[d]
  BY <1>2, BaseNext
<1>4. IsTrue(event) /\ event.doc = d /\ event.time \in 1..Now
  BY <1>1 DEF EventsTrue, Used, IsTrue
<1>5. \A j \in DOMAIN mux[q].queue \ {1} :
        \E i \in DOMAIN mux'[q].queue : mux'[q].queue[i] = mux[q].queue[j]
  BY <1>1, DroppedPositions DEF EventProcessed
<1>6. \A t \in (event.time + 1)..stream :
        \E j \in DOMAIN mux[q].queue : j > 1 /\ IsEvent(mux[q], j) /\ mux[q].queue[j].time = t
  <2>1. \A j \in DOMAIN mux[q].queue : ~IsResync(mux[q], j)
    BY <1>2 DEF WillRead
  <2> QED BY <1>1, <2>1 DEF InTurn
<1>7. mux'[q].view[d] = IF event.value \in Matching[q] THEN event.value ELSE Absent
  BY DEF EventProcessed
<1> HIDE DEF event
<1> SUFFICES ASSUME NEW t \in 0..stream, t = 0 \/ log[t].doc = d
             PROVE  CoveredNext(q, d, t)
  BY CoveredIsNext
<1>8. CASE t <= event.time
  <2>1. PICK time \in event.time..Now : event.value = ValueAt(event.doc, time)
    BY <1>4 DEF IsTrue
  <2>2. time \in t..Now' /\ time \in 0..Now
    BY <1>1, <1>4, <1>8, <2>1
  <2>3. mux'[q].view[d] = Matched(q, d, time)
    BY <1>4, <1>7, <2>1 DEF Matched
  <2>4. Matched(q, d, time)' = Matched(q, d, time)
    BY <2>2, MatchedKept
  <2> QED BY <1>3, <2>2, <2>3, <2>4 DEF CoveredNext
<1>9. CASE t > event.time
  <2>1. t \in (event.time + 1)..stream
    BY <1>1, <1>4, <1>9
  <2>2. PICK j \in DOMAIN mux[q].queue : j > 1 /\ IsEvent(mux[q], j) /\ mux[q].queue[j].time = t
    BY <1>6, <2>1
  <2>3. mux[q].queue[j].doc = d
    <3>1. IsTrue(mux[q].queue[j])
      BY <2>2 DEF EventsTrue
    <3>2. log[t].doc = mux[q].queue[j].doc /\ t # 0
      BY <1>1, <2>2, <3>1 DEF IsTrue
    <3> QED BY <3>2
  <2>4. PICK i \in DOMAIN mux'[q].queue : mux'[q].queue[i] = mux[q].queue[j]
    BY <1>1, <1>5, <2>2
  <2>5. t >= t
    BY <1>1, <2>1
  <2> QED BY <2>2, <2>3, <2>4, <2>5 DEF CoveredNext, IsEvent
<1> QED BY <1>1, <1>4, <1>8, <1>9

(* An event that is dropped, or of another document: of a document that is *)
(* not behind the view knows more.                                         *)
LEMMA DroppedCovers ==
  ASSUME TypeOK, [Next]_vars, NEW q \in Queries, ReadsFirst(mux[q]), EventsTrue(mux[q]),
         EventProcessed(q), log' = log, stream' = stream, stream \in 0..Now,
         NEW d \in Docs, ~Used(q, d), ~Behind(q, d), Covered(q, d),
         mux[q].asOf[d] # None =>
           \E time \in mux[q].asOf[d]..Now : mux[q].view[d] = Matched(q, d, time)
  PROVE  Covered(q, d)'
<1> DEFINE event == mux[q].queue[1]
<1>1. /\ mux[q] \in Multiplexer /\ Now \in Nat /\ Now' = Now
      /\ DOMAIN mux[q].queue \subseteq Nat
      /\ mux[q].snapshotTime \in Nat /\ mux[q].asOf[d] \in Nat
      /\ 1 \in DOMAIN mux[q].queue /\ IsEvent(mux[q], 1)
  BY MuxTimes, FirstTask DEF Now
<1>2. mux[q].reading[d] = None /\ mux'[q].reading[d] = None
  BY <1>1, NothingRead DEF ReadsFirst, EventProcessed, IsEvent
<1>3. mux'[q].view[d] = mux[q].view[d]
  BY DEF EventProcessed
<1>4. Base(q, d) = mux[q].view[d] /\ Base(q, d)' = mux[q].view[d]
  BY <1>2, <1>3, BaseNext DEF Base
<1>5. IsTrue(event) /\ event.time \in 1..Now
  BY <1>1 DEF EventsTrue, IsTrue
<1>6. \A j \in DOMAIN mux[q].queue \ {1} :
        \E i \in DOMAIN mux'[q].queue : mux'[q].queue[i] = mux[q].queue[j]
  BY <1>1, DroppedPositions DEF EventProcessed
<1>7. ~Used(q, d) => event.doc # d \/ event.time < mux[q].snapshotTime
  BY <1>1, <1>5 DEF Used
<1> SUFFICES ASSUME NEW t \in 0..stream, t = 0 \/ log[t].doc = d
             PROVE  CoveredNext(q, d, t)
  BY CoveredIsNext
<1>8. ASSUME NEW time \in t..Now, mux[q].view[d] = Matched(q, d, time)
      PROVE  CoveredNext(q, d, t)
  <2>1. time \in 0..Now /\ time \in t..Now'
    BY <1>1
  <2>2. Matched(q, d, time)' = Matched(q, d, time)
    BY <2>1, MatchedKept
  <2> QED BY <1>4, <1>8, <2>1, <2>2 DEF CoveredNext
<1>9. ASSUME NEW i \in DOMAIN mux[q].queue, IsEvent(mux[q], i), mux[q].queue[i].doc = d,
             mux[q].queue[i].time >= t
      PROVE  CoveredNext(q, d, t)
  <2>1. CASE i # 1
    BY <1>6, <1>9, <2>1 DEF IsEvent, CoveredNext
  <2>2. CASE i = 1
    <3>1. event.doc = d /\ event.time >= t /\ event.time < mux[q].snapshotTime
          /\ log[event.time].doc = d
      BY <1>5, <1>7, <1>9, <2>2 DEF IsTrue
    <3> HIDE DEF event
    <3>2. mux[q].asOf[d] # None
      BY <1>1, <1>5, <3>1 DEF ReadsFirst
    <3>3. event.time <= mux[q].asOf[d]
      <4> SUFFICES ASSUME event.time > mux[q].asOf[d]
                   PROVE  FALSE
        BY <1>1, <1>5
      <4>1. event.time \in (mux[q].asOf[d] + 1)..(mux[q].snapshotTime - 1)
        BY <1>1, <1>5, <3>1
      <4> QED BY <3>1, <4>1 DEF Behind, WrittenBetween
    <3>4. PICK time \in mux[q].asOf[d]..Now : mux[q].view[d] = Matched(q, d, time)
      BY <3>2
    <3>5. time \in t..Now
      BY <1>1, <1>5, <3>1, <3>3, <3>4
    <3> QED BY <1>8, <3>4, <3>5
  <2> QED BY <2>1, <2>2
<1> QED BY <1>4, <1>8, <1>9 DEF Covered

(* One multiplexer follows the stream, whatever the step.                  *)
LEMMA FollowsKept ==
  ASSUME NEW q \in Queries, stream' = stream, mux'[q].queue = mux[q].queue,
         StartFollowed(mux[q]), InTurn(mux[q])
  PROVE  StartFollowed(mux[q])' /\ InTurn(mux[q])'
BY DEF StartFollowed, InTurn, IsEvent, IsResync

LEMMA InTurnNext ==
  ASSUME NEW q \in Queries, stream' = stream, InTurn(mux'[q]), StartFollowed(mux'[q])
  PROVE  InTurn(mux[q])' /\ StartFollowed(mux[q])'
BY DEF StartFollowed, InTurn, IsEvent, IsResync

(* A document that is followed: it will be read, it is known to be behind, *)
(* or nothing that was delivered of it is missing.                         *)
Followed(q, d) ==
  \/ WillRead(mux[q], d)
  \/ mux[q].reading[d] = None /\ Behind(q, d)
  \/ Covered(q, d)

LEMMA WillReadNext ==
  ASSUME NEW q \in Queries, NEW d \in Docs, WillRead(mux'[q], d)
  PROVE  Followed(q, d)'
BY DEF Followed, WillRead, IsResync, None

(* It goes on to be when the step is not about it.                         *)
LEMMA FollowedKept ==
  ASSUME TypeOK, [Next]_vars, NEW q \in Queries, ReadsStored(mux[q]), NEW d \in Docs,
         stream \in 0..Now, stream' = stream, mux[q].snapshotTime <= Now,
         mux'[q].reading[d] = mux[q].reading[d], mux'[q].view[d] = mux[q].view[d],
         mux'[q].asOf[d] = mux[q].asOf[d], mux'[q].snapshotTime = mux[q].snapshotTime,
         d \in mux[q].unsynced => d \in mux'[q].unsynced,
         \A j \in DOMAIN mux[q].queue :
           IsEvent(mux[q], j) => \E i \in DOMAIN mux'[q].queue : mux'[q].queue[i] = mux[q].queue[j],
         WillRead(mux[q], d) => WillRead(mux'[q], d), Followed(q, d)
  PROVE  Followed(q, d)'
<1>1. CASE WillRead(mux[q], d)
  BY <1>1, WillReadNext
<1>2. CASE mux[q].reading[d] = None /\ Behind(q, d)
  <2>1. Behind(q, d)'
    BY <1>2, BehindKept
  <2>2. (mux[q].reading[d])' = None' /\ None' = None
    BY <1>2 DEF None
  <2> QED BY <2>1, <2>2 DEF Followed
<1>3. CASE Covered(q, d)
  BY <1>3, BaseKept, CoveredKept DEF Followed
<1> QED BY <1>1, <1>2, <1>3 DEF Followed

(* Whatever is queued or done: a multiplexer that follows goes on to.      *)
LEMMA FollowsStep ==
  ASSUME TypeOK, FeedInv, FollowInv, [Next]_vars,
         NEW q \in Queries, mux'[q].subscribers # {}, stream' # None, MuxCases(q)
  PROVE  Follows(q)'
<1>1. /\ mux[q] \in Multiplexer /\ Now \in Nat /\ Now' \in Nat /\ Now' >= Now /\ None' = None
      /\ Registered(q) /\ ReadsStored(mux[q]) /\ ReadsFirst(mux[q]) /\ EventsTrue(mux[q])
      /\ DOMAIN mux[q].queue = 1..Len(mux[q].queue) /\ Len(mux[q].queue) \in Nat
      /\ stream # None => stream \in 0..Now
  BY BasicTypes, TimeStep, LenProperties DEF FeedInv, TypeOK, Multiplexer, None
<1>2. \A d \in Docs : mux[q].asOf[d] # None =>
        \E time \in mux[q].asOf[d]..Now : mux[q].view[d] = Matched(q, d, time)
  BY DEF FeedInv, NeverBack
<1>3. mux[q].snapshotTime <= Now /\ mux[q].reading \in [Docs -> 0..None]
  BY <1>1, MuxTimes DEF ReadsFirst
<1>4. ASSUME stream # None, q \in Observed
      PROVE  /\ StartFollowed(mux[q]) /\ InTurn(mux[q]) /\ stream \in 0..Now
             /\ \A d \in Docs : Followed(q, d)
  BY <1>1, <1>4 DEF FollowInv, Follows, Followed
<1>5. mux[q].queue # <<>> => q \in Observed
  BY <1>1 DEF Registered, NoMultiplexer, Observed
(* A queue that stays as it is.                                            *)
<1>6. ASSUME stream' = stream, q \in Observed, mux'[q].queue = mux[q].queue,
             SameView(mux[q], mux'[q])
      PROVE  Follows(q)'
  <2>1. StartFollowed(mux[q])' /\ InTurn(mux[q])'
    BY <1>1, <1>4, <1>6, FollowsKept
  <2>2. \A d \in Docs : WillRead(mux[q], d) => WillRead(mux'[q], d)
    BY <1>6 DEF WillRead, IsResync, SameView
  <2>3. ASSUME NEW d \in Docs
        PROVE  Followed(q, d)'
    <3>1. \A j \in DOMAIN mux[q].queue : \E i \in DOMAIN mux'[q].queue : mux'[q].queue[i] = mux[q].queue[j]
      BY <1>6
    <3> QED BY <1>1, <1>3, <1>4, <1>6, <2>2, <3>1, FollowedKept DEF SameView
  <2> QED BY <2>1, <2>3 DEF Follows, Followed
<1>7. CASE Stays(q)
  <2>1. q \in Observed
    BY <1>7 DEF Stays, Observed
  <2>2. stream' = stream
    BY <1>1, <1>7, <2>1 DEF Stays
  <2> QED BY <1>6, <1>7, <2>1, <2>2 DEF Stays, SameView
(* All that is needed is in the snapshot that will be read.                *)
<1>8. CASE Resynced(q) /\ SameView(mux[q], mux'[q])
  <2>1. PICK e \in DOMAIN mux'[q].queue :
          /\ mux'[q].queue[e] = Resync /\ DOMAIN mux'[q].queue = DOMAIN mux[q].queue \cup {e}
          /\ \A i \in DOMAIN mux[q].queue : i < e
    BY <1>1, <1>8, AddedPositions DEF Resynced
  <2>2. \A i \in DOMAIN mux[q].queue : mux'[q].queue[i] = mux[q].queue[i]
    BY <1>1, <1>8, AddedPositions DEF Resynced
  <2>3. IsResync(mux'[q], e) /\ ~IsEvent(mux'[q], e) /\ DOMAIN mux'[q].queue \subseteq Nat
    BY <1>1, <1>8, <2>1, AddedPositions DEF IsResync, IsEvent, Resync, Resynced
  <2>4. StartFollowed(mux[q])'
    <3>1. ~mux'[q].queue[e].startup
      BY <2>1 DEF Resync
    <3> QED BY <2>1, <2>3, <3>1 DEF StartFollowed, IsResync
  <2>5. InTurn(mux[q])'
    <3>1. \A i \in DOMAIN mux'[q].queue :
            ~(IsEvent(mux'[q], i) /\ \A j \in DOMAIN mux'[q].queue : IsResync(mux'[q], j) => j < i)
      <4>1. ASSUME NEW i \in DOMAIN mux'[q].queue, IsEvent(mux'[q], i), e < i
            PROVE  FALSE
        <5>1. i \in Nat /\ e \in Nat /\ (i = e \/ i < e)
          BY <2>1, <2>3
        <5> QED BY <4>1, <2>3, <5>1
      <4> QED BY <2>1, <2>3, <4>1, Zenon
    <3> QED BY <3>1 DEF InTurn, IsEvent, IsResync
  <2>6. ASSUME NEW d \in Docs
        PROVE  Followed(q, d)'
    <3>1. e > 1 \/ mux'[q].reading[d] = None
      <4>1. CASE mux[q].queue # <<>>
        <5>1. 1 \in DOMAIN mux[q].queue
          BY <4>1, MuxTimes
        <5> QED BY <2>1, <2>3, <5>1
      <4>2. CASE mux[q].queue = <<>>
        BY <1>1, <1>8, <4>2, NothingRead DEF SameView, ReadsFirst
      <4> QED BY <4>1, <4>2
    <3>2. WillRead(mux'[q], d)
      BY <2>3, <3>1 DEF WillRead
    <3> QED BY <3>2, WillReadNext
  <2> QED BY <2>4, <2>5, <2>6 DEF Follows, Followed
<1>9. CASE Delivered(q) /\ SameView(mux[q], mux'[q]) /\ log' = log
  <2>1. /\ stream # None /\ stream' = stream + 1 /\ stream \in Nat /\ q \in Observed
        /\ EventOf(stream + 1).kind = "event" /\ EventOf(stream + 1).time = stream + 1
    <3>1. stream # None /\ stream' = stream + 1
      BY <1>9 DEF Delivered, DeliverChange
    <3>2. EventOf(stream + 1).kind = "event" /\ EventOf(stream + 1).time = stream + 1
      BY DEF EventOf
    <3>3. stream \in Nat /\ q \in Observed
      BY <1>1, <1>9, <3>1 DEF Delivered
    <3> QED BY <3>1, <3>2, <3>3
  <2>2. PICK e \in DOMAIN mux'[q].queue :
          /\ mux'[q].queue[e] = EventOf(stream + 1)
          /\ DOMAIN mux'[q].queue = DOMAIN mux[q].queue \cup {e}
          /\ \A i \in DOMAIN mux[q].queue : i < e
    <3>1. Added(mux[q], mux'[q], EventOf(stream + 1))
      BY <1>9 DEF Delivered
    <3>2. mux[q] \in Multiplexer
      BY <1>1
    <3> DEFINE task == EventOf(stream + 1)
    <3> HIDE DEF task
    <3>3. Added(mux[q], mux'[q], task)
      BY <3>1 DEF task
    <3>4. \E e \in DOMAIN mux'[q].queue :
            /\ mux'[q].queue[e] = task
            /\ DOMAIN mux'[q].queue = DOMAIN mux[q].queue \cup {e}
            /\ \A i \in DOMAIN mux[q].queue : i < e
      BY <3>2, <3>3, AddedPositions
    <3> QED BY <3>4 DEF task
  <2>3. \A i \in DOMAIN mux[q].queue : mux'[q].queue[i] = mux[q].queue[i]
    BY <1>1, <1>9, AddedPositions DEF Delivered
  <2>4. /\ StartFollowed(mux[q])'
        /\ \A d \in Docs : WillRead(mux[q], d) => WillRead(mux'[q], d)
    <3>1. /\ StartFollowed(mux'[q])
          /\ \A d \in Docs : WillRead(mux[q], d) => WillRead(mux'[q], d)
      <4>1. Added(mux[q], mux'[q], EventOf(stream + 1)) /\ mux'[q].reading = mux[q].reading
        BY <1>9 DEF Delivered, SameView
      <4>2. StartFollowed(mux[q]) /\ EventOf(stream + 1).kind # "sync"
        BY <1>4, <2>1
      <4> QED BY <1>1, <4>1, <4>2, AddedOrder
    <3> QED BY <3>1 DEF StartFollowed, IsResync
  <2>5. InTurn(mux[q])'
    <3> SUFFICES ASSUME NEW i \in DOMAIN mux'[q].queue, IsEvent(mux'[q], i),
                        \A j \in DOMAIN mux'[q].queue : IsResync(mux'[q], j) => j < i,
                        NEW t \in (mux'[q].queue[i].time + 1)..(stream + 1)
                 PROVE  \E j \in DOMAIN mux'[q].queue :
                          j > i /\ IsEvent(mux'[q], j) /\ mux'[q].queue[j].time = t
      BY <2>1 DEF InTurn, IsEvent, IsResync
    <3>1. DOMAIN mux'[q].queue \subseteq Nat /\ e \in DOMAIN mux'[q].queue
      BY <1>1, <1>9, AddedPositions DEF Delivered
    <3>2. IsEvent(mux'[q], e) /\ mux'[q].queue[e].time = stream + 1
      BY <2>1, <2>2 DEF IsEvent
    <3>3. i # e
      BY <2>1, <3>2
    <3>4. i \in DOMAIN mux[q].queue /\ IsEvent(mux[q], i) /\ mux'[q].queue[i] = mux[q].queue[i]
      BY <2>2, <2>3, <3>3 DEF IsEvent
    <3>5. \A j \in DOMAIN mux[q].queue : IsResync(mux[q], j) => j < i
      BY <2>2, <2>3 DEF IsResync
    <3>6. mux[q].queue[i].time \in Nat
      BY <1>1, <3>4 DEF EventsTrue, IsTrue
    <3>7. CASE t = stream + 1
      <4>1. e > i
        BY <2>2, <3>1, <3>4
      <4> QED BY <3>1, <3>2, <3>7, <4>1
    <3>8. CASE t \in (mux[q].queue[i].time + 1)..stream
      <4>1. InTurn(mux[q])
        BY <1>4, <2>1
      <4>2. PICK j \in DOMAIN mux[q].queue : j > i /\ IsEvent(mux[q], j) /\ mux[q].queue[j].time = t
        BY <3>4, <3>5, <3>8, <4>1 DEF InTurn
      <4> QED BY <2>2, <2>3, <4>2 DEF IsEvent
    <3> QED BY <2>1, <3>4, <3>6, <3>7, <3>8
  <2>6. ASSUME NEW d \in Docs
        PROVE  Followed(q, d)'
    <3>1. CASE WillRead(mux[q], d)
      BY <2>4, <3>1, WillReadNext
    <3>2. CASE mux[q].reading[d] = None /\ Behind(q, d)
      <4>1. Behind(q, d)'
        BY <1>3, <1>9, <3>2, BehindKept DEF SameView
      <4>2. (mux[q].reading[d])' = None' /\ None' = None
        BY <1>9, <3>2 DEF None, SameView
      <4> QED BY <4>1, <4>2 DEF Followed
    <3>3. CASE Covered(q, d)
      BY <1>1, <1>9, <3>3, DeliveredCovered DEF Followed
    <3> QED BY <1>4, <2>1, <3>1, <3>2, <3>3 DEF Followed
  <2> QED BY <2>4, <2>5, <2>6 DEF Follows, Followed
(* The snapshot of the start, and the one that follows it.                 *)
<1>10. CASE stream' = stream /\ \E o \in Observers : Started(q, o)
  <2>1. PICK o \in Observers : mux'[q].queue = <<Startup, Resync, JoinOf(o)>>
    BY <1>10 DEF Started
  <2>2. /\ DOMAIN mux'[q].queue = 1..3
        /\ mux'[q].queue[1] = Startup /\ mux'[q].queue[2] = Resync /\ mux'[q].queue[3] = JoinOf(o)
    BY <2>1
  <2>3. /\ Startup.kind = "sync" /\ Resync.kind = "sync" /\ ~Resync.startup /\ JoinOf(o).kind = "join"
    BY DEF Startup, Resync, JoinOf
  <2>4. \A i \in DOMAIN mux'[q].queue : i = 1 \/ i = 2 \/ i = 3
    BY <2>2
  <2>5. StartFollowed(mux[q])' /\ InTurn(mux[q])'
    BY <2>2, <2>3, <2>4 DEF StartFollowed, InTurn, IsResync, IsEvent
  <2>6. \A d \in Docs : WillRead(mux'[q], d)
    BY <2>2, <2>3 DEF WillRead, IsResync
  <2> QED BY <2>5, <2>6, WillReadNext DEF Follows, Followed
<1>11. ASSUME stream' = stream, q \in Observed, NEW task, task.kind = "join",
              Added(mux[q], mux'[q], task), SameView(mux[q], mux'[q])
       PROVE  Follows(q)'
  <2>1. \A i \in DOMAIN mux[q].queue : i \in DOMAIN mux'[q].queue /\ mux'[q].queue[i] = mux[q].queue[i]
    BY <1>1, <1>11, AddedPositions
  <2>2. /\ StartFollowed(mux'[q]) /\ InTurn(mux'[q])
        /\ \A d \in Docs : WillRead(mux[q], d) => WillRead(mux'[q], d)
    BY <1>1, <1>4, <1>11, AddedOrder DEF SameView
  <2>3. StartFollowed(mux[q])' /\ InTurn(mux[q])'
    BY <1>11, <2>2, InTurnNext
  <2>4. ASSUME NEW d \in Docs
        PROVE  Followed(q, d)'
    BY <1>1, <1>3, <1>4, <1>11, <2>1, <2>2, FollowedKept DEF SameView
  <2> QED BY <2>3, <2>4 DEF Follows, Followed
(* A queue that one task less is in.                                       *)
<1>12. ASSUME stream' = stream, q \in Observed, NEW p, Dropped(mux[q], mux'[q], p),
              p = 1 \/ mux[q].queue[p].kind = "join"
       PROVE  /\ StartFollowed(mux[q])' /\ InTurn(mux[q])'
              /\ \A j \in DOMAIN mux[q].queue \ {p} :
                   \E i \in DOMAIN mux'[q].queue : mux'[q].queue[i] = mux[q].queue[j]
  <2>1. StartFollowed(mux'[q]) /\ InTurn(mux'[q])
    BY <1>1, <1>4, <1>12, DroppedOrder
  <2>3. StartFollowed(mux[q])' /\ InTurn(mux[q])'
    BY <1>12, <2>1, InTurnNext
  <2>4. /\ \A i \in DOMAIN mux'[q].queue : mux'[q].queue[i] = mux[q].queue[From(p, i)]
        /\ \A j \in DOMAIN mux[q].queue \ {p} : \E i \in DOMAIN mux'[q].queue : From(p, i) = j
    <3>1. mux[q] \in Multiplexer /\ Dropped(mux[q], mux'[q], p)
      BY <1>1, <1>12
    <3> HIDE <1>12
    <3> QED BY <3>1, DroppedPositions
  <2>5. \A j \in DOMAIN mux[q].queue \ {p} :
          \E i \in DOMAIN mux'[q].queue : mux'[q].queue[i] = mux[q].queue[j]
    BY <2>4
  <2> QED BY <2>3, <2>5
<1>13. CASE stream' = stream /\ JoinDropped(q)
  <2>1. PICK p \in 1..Len(mux[q].queue) :
          mux[q].queue[p].kind = "join" /\ Dropped(mux[q], mux'[q], p) /\ SameView(mux[q], mux'[q])
    BY <1>13 DEF JoinDropped
  <2>2. q \in Observed
    BY <1>1, <1>5, <2>1
  <2>3. StartFollowed(mux[q])' /\ InTurn(mux[q])'
    BY <1>12, <1>13, <2>1, <2>2
  <2>4. ASSUME NEW d \in Docs
        PROVE  Followed(q, d)'
    <3>1. ~IsResync(mux[q], p) /\ (p = 1 => mux[q].reading[d] = None)
      <4>1. CASE p = 1
        BY <1>1, <2>1, <4>1, NothingRead DEF ReadsFirst, IsResync
      <4>2. CASE p # 1
        BY <2>1, <4>2 DEF IsResync
      <4> QED BY <4>1, <4>2
    <3>2. WillRead(mux[q], d) => WillRead(mux'[q], d)
      <4>1. /\ mux[q] \in Multiplexer /\ Dropped(mux[q], mux'[q], p)
            /\ mux'[q].reading[d] = mux[q].reading[d]
        BY <1>1, <2>1 DEF SameView
      <4> QED BY <3>1, <4>1, ReadKept
    <3>3. \A j \in DOMAIN mux[q].queue :
            IsEvent(mux[q], j) => \E i \in DOMAIN mux'[q].queue : mux'[q].queue[i] = mux[q].queue[j]
      BY <1>12, <1>13, <2>1, <2>2 DEF IsEvent
    <3> QED BY <1>1, <1>3, <1>4, <1>13, <2>1, <2>2, <3>2, <3>3, FollowedKept DEF SameView
  <2> QED BY <2>3, <2>4 DEF Follows, Followed
(* What is read is what is stored now.                                     *)
<1>14. CASE stream' = stream /\ log' = log /\ SnapshotRead(q)
  <2>1. PICK batch \in SUBSET Docs :
          /\ mux'[q].queue = mux[q].queue
          /\ mux'[q].view = mux[q].view /\ mux'[q].snapshotTime = mux[q].snapshotTime
          /\ mux'[q].asOf = mux[q].asOf /\ mux'[q].unsynced = mux[q].unsynced
          /\ \A d \in Docs : mux'[q].reading[d] = IF d \in batch THEN Now ELSE mux[q].reading[d]
    BY <1>14 DEF SnapshotRead
  <2>2. q \in Observed /\ Now # None
    BY <1>1, <1>5, <1>14, FirstTask, MuxTimes
  <2>3. StartFollowed(mux[q])' /\ InTurn(mux[q])'
    BY <1>1, <1>4, <1>14, <2>1, <2>2, FollowsKept
  <2>4. ASSUME NEW d \in Docs, d \in batch
        PROVE  Followed(q, d)'
    <3>1. mux'[q].reading[d] = Now /\ Now' = Now
      BY <1>14, <2>1, <2>4 DEF Now
    <3>2. Base(q, d)' = Matched(q, d, Now)
      <4>1. Base(q, d)' = IF ValueNext(d, Now) \in Matching[q] THEN ValueNext(d, Now) ELSE Absent
        BY <2>2, <3>1, BaseNext
      <4>2. ValueNext(d, Now) = ValueAt(d, Now)
        BY <1>1, ValueKept
      <4> QED BY <4>1, <4>2 DEF Matched
    <3>3. stream \in 0..Now /\ Now \in 0..Now
      BY <1>1, <1>14
    <3>4. \A t \in 0..stream : \E time \in t..Now' : Base(q, d)' = Matched(q, d, time)'
      BY <1>1, <3>1, <3>2, <3>3, MatchedKept
    <3>5. Covered(q, d)'
      BY <1>14, <3>4 DEF Covered
    <3> QED BY <3>5 DEF Followed
  <2>5. ASSUME NEW d \in Docs, d \notin batch
        PROVE  Followed(q, d)'
    <3>1. mux'[q].reading[d] = mux[q].reading[d]
      BY <2>1, <2>5
    <3>2. WillRead(mux[q], d) => WillRead(mux'[q], d)
      BY <2>1, <3>1 DEF WillRead, IsResync
    <3>3. \A j \in DOMAIN mux[q].queue : \E i \in DOMAIN mux'[q].queue : mux'[q].queue[i] = mux[q].queue[j]
      BY <2>1
    <3> QED BY <1>1, <1>3, <1>4, <1>14, <2>1, <2>2, <3>1, <3>2, <3>3, FollowedKept
  <2> QED BY <2>3, <2>4, <2>5 DEF Follows, Followed
(* What was read becomes the view.                                         *)
<1>15. CASE stream' = stream /\ SnapshotApplied(q)
  <2>1. /\ Dropped(mux[q], mux'[q], 1) /\ mux'[q].reading = Unread
        /\ mux'[q].view = [d \in Docs |-> Matched(q, d, mux[q].reading[d])]
        /\ \A d \in Docs : mux[q].reading[d] \in 0..Now /\ mux[q].reading[d] # None
    <3>1. PICK time \in 0..Now : \A d \in Docs : mux[q].reading[d] \in 0..time
      BY <1>15 DEF SnapshotApplied
    <3>2. Now <= MaxWrites /\ None = MaxWrites + 1 /\ MaxWrites \in Nat
      BY MuxTimes
    <3>3. \A d \in Docs : mux[q].reading[d] \in 0..Now /\ mux[q].reading[d] # None
      BY <1>1, <3>1, <3>2
    <3> QED BY <1>15, <3>3 DEF SnapshotApplied
  <2>2. /\ q \in Observed /\ 1 \in DOMAIN mux[q].queue /\ mux[q].queue[1].kind = "sync"
    BY <1>5, <1>15, FirstTask
  <2>3. /\ StartFollowed(mux[q])' /\ InTurn(mux[q])'
        /\ \A j \in DOMAIN mux[q].queue \ {1} :
             \E i \in DOMAIN mux'[q].queue : mux'[q].queue[i] = mux[q].queue[j]
    BY <1>12, <1>15, <2>1, <2>2
  <2>4. ASSUME NEW d \in Docs
        PROVE  Followed(q, d)'
    <3>1. mux'[q].reading[d] = None
      BY <2>1, NothingRead
    <3>2. CASE WillRead(mux[q], d)
      <4>1. WillRead(mux'[q], d)
        BY <1>1, <2>1, <3>1, <3>2, ReadKept
      <4> QED BY <4>1, WillReadNext
    <3>3. CASE Covered(q, d)
      <4>1. Base(q, d)' = Base(q, d)
        BY <2>1, <3>1, BaseNext DEF Base
      <4>2. \A j \in DOMAIN mux[q].queue :
              IsEvent(mux[q], j) => \E i \in DOMAIN mux'[q].queue : mux'[q].queue[i] = mux[q].queue[j]
        BY <2>2, <2>3 DEF IsEvent
      <4>3. Covered(q, d)'
        BY <1>4, <1>1, <1>15, <2>2, <3>3, <4>1, <4>2, CoveredKept
      <4> QED BY <4>3 DEF Followed
    <3> QED BY <1>1, <1>4, <1>15, <2>1, <2>2, <3>2, <3>3 DEF Followed
  <2> QED BY <2>3, <2>4 DEF Follows, Followed
(* It is known what was not read.                                          *)
<1>16. CASE stream' = stream /\ SnapshotFailed(q)
  <2>1. /\ Dropped(mux[q], mux'[q], 1) /\ mux'[q].reading = Unread /\ mux'[q].unsynced = Docs
    BY <1>16 DEF SnapshotFailed
  <2>2. /\ q \in Observed /\ 1 \in DOMAIN mux[q].queue /\ mux[q].queue[1].kind = "sync"
    BY <1>5, <1>16, FirstTask
  <2>3. StartFollowed(mux[q])' /\ InTurn(mux[q])'
    BY <1>12, <1>16, <2>1, <2>2
  <2>4. ASSUME NEW d \in Docs
        PROVE  Followed(q, d)'
    <3>1. Behind(q, d)'
      BY <2>1 DEF Behind
    <3>2. (mux[q].reading[d])' = None'
      BY <2>1, NothingRead DEF None
    <3> QED BY <3>1, <3>2 DEF Followed
  <2> QED BY <2>3, <2>4 DEF Follows, Followed
<1>17. CASE stream' = stream /\ log' = log /\ EventProcessed(q)
  <2>1. /\ Dropped(mux[q], mux'[q], 1) /\ mux'[q].reading = mux[q].reading
        /\ mux'[q].snapshotTime = mux[q].snapshotTime
    BY <1>17 DEF EventProcessed
  <2>2. /\ q \in Observed /\ 1 \in DOMAIN mux[q].queue /\ IsEvent(mux[q], 1)
        /\ mux[q].queue[1].doc \in Docs
    BY <1>5, <1>17, FirstTask
  <2>3. StartFollowed(mux[q])' /\ InTurn(mux[q])'
    BY <1>12, <1>17, <2>1, <2>2
  <2>4. mux[q].reading = Unread
    BY <1>1, <2>2 DEF ReadsFirst, IsEvent
  <2>5. ASSUME NEW d \in Docs
        PROVE  Followed(q, d)'
    <3>1. mux[q].reading[d] = None /\ mux'[q].reading[d] = None /\ ~IsResync(mux[q], 1)
      BY <2>1, <2>2, <2>4, NothingRead DEF IsEvent, IsResync
    <3>2. CASE WillRead(mux[q], d)
      <4>1. WillRead(mux'[q], d)
        BY <1>1, <2>1, <3>1, <3>2, ReadKept
      <4> QED BY <4>1, WillReadNext
    <3>3. CASE ~WillRead(mux[q], d) /\ Used(q, d)
      <4>1. Covered(q, d)'
        BY <1>1, <1>4, <1>17, <2>2, <3>3, UsedCovers
      <4> QED BY <4>1 DEF Followed
    <3>4. CASE ~Used(q, d) /\ Behind(q, d)
      <4>1. /\ mux'[q].asOf[d] = mux[q].asOf[d]
            /\ d \in mux[q].unsynced => d \in mux'[q].unsynced
        BY <1>17, <3>4 DEF EventProcessed
      <4>2. Behind(q, d)'
        BY <1>3, <2>1, <3>4, <4>1, BehindKept
      <4>3. (mux[q].reading[d])' = None'
        BY <3>1 DEF None
      <4> QED BY <4>2, <4>3 DEF Followed
    <3>5. CASE ~Used(q, d) /\ ~Behind(q, d) /\ Covered(q, d)
      <4>1. Covered(q, d)'
        BY <1>1, <1>2, <1>4, <1>17, <2>2, <3>5, DroppedCovers
      <4> QED BY <4>1 DEF Followed
    <3> QED BY <1>1, <1>4, <1>17, <2>2, <3>2, <3>3, <3>4, <3>5 DEF Followed
  <2> QED BY <2>3, <2>5 DEF Follows, Followed
<1>18. mux'[q] # NoMultiplexer
  BY DEF NoMultiplexer
<1>19. CASE /\ stream' = stream
            /\ \E o \in Observers : Joined(q, o) /\ SameView(mux[q], mux'[q])
  <2>1. PICK o \in Observers : Joined(q, o) /\ SameView(mux[q], mux'[q])
    BY <1>19
  <2>2. q \in Observed /\ Added(mux[q], mux'[q], JoinOf(o)) /\ JoinOf(o).kind = "join"
    BY <2>1 DEF Joined, JoinOf
  <2> QED BY <1>11, <1>19, <2>1, <2>2
<1>20. CASE stream' = stream /\ Left(q) /\ q \in Observed
  BY <1>6, <1>20 DEF Left
<1> QED BY <1>1, <1>7, <1>8, <1>9, <1>10, <1>13, <1>14, <1>15, <1>16, <1>17, <1>18, <1>19, <1>20
        DEF MuxCases

(* All of them do.                                                         *)
LEMMA FollowInvStep ==
  ASSUME TypeOK, FeedInv, FollowInv, [Next]_vars
  PROVE  FollowInv'
<1> SUFFICES ASSUME stream' # None, NEW q \in Queries, mux'[q].subscribers # {}
             PROVE  Follows(q)'
  BY DEF FollowInv, Observed, None
<1>1. \A p \in Queries : Registered(p) /\ ReadsStored(mux[p])
  BY DEF FeedInv
<1>2. MuxCases(q)
  BY <1>1, MuxStep
<1> QED BY <1>2, FollowsStep

(* A multiplexer that has nothing left to do, when its stream has not      *)
(* either, shows what is stored.                                           *)
LEMMA FollowingCatchesUp ==
  ASSUME TypeOK, FeedInv, FollowInv
  PROVE  CaughtUp
<1> SUFFICES ASSUME NEW q \in Observed, NEW d \in Docs, stream = Now, mux[q].queue = <<>>,
                    ~Behind(q, d)
             PROVE  mux[q].view[d] = Matched(q, d, Now)
  BY DEF CaughtUp
<1>1. /\ q \in Queries /\ Now \in Nat /\ stream # None /\ DOMAIN mux[q].queue = {}
  BY MuxTimes, BasicTypes DEF Observed
<1>2. mux[q].reading[d] = None
  BY <1>1, NothingRead DEF FeedInv, ReadsFirst
<1>3. Base(q, d) = mux[q].view[d] /\ Covered(q, d)
  BY <1>1, <1>2 DEF FollowInv, Follows, WillRead, Base
<1>4. mux[q].view[d] = Matched(q, d, Now)
  <2>1. ASSUME NEW t \in 0..Now, t = 0 \/ log[t].doc = d, \A u \in (t + 1)..Now : log[u].doc # d
        PROVE  mux[q].view[d] = Matched(q, d, Now)
    <3>1. PICK time \in t..Now : mux[q].view[d] = Matched(q, d, time)
      BY <1>1, <1>3, <2>1 DEF Covered
    <3>2. time \in 0..Now /\ Now \in time..Now /\ \A u \in (time + 1)..Now : log[u].doc # d
      BY <1>1, <2>1
    <3>3. ValueAt(d, time) = ValueAt(d, Now)
      BY <3>2, ValueStays
    <3> QED BY <3>1, <3>3 DEF Matched
  <2>2. CASE \A u \in 1..Now : log[u].doc # d
    <3>1. 0 \in 0..Now /\ \A u \in (0 + 1)..Now : log[u].doc # d
      BY <1>1, <2>2
    <3> QED BY <2>1, <3>1
  <2>3. CASE \E t \in 1..Now : log[t].doc = d /\ \A u \in (t + 1)..Now : log[u].doc # d
    BY <1>1, <2>1, <2>3
  <2>4. Now \in 0..Now
    BY <1>1
  <2> QED BY <2>2, <2>3, <2>4, LastWriteExists
<1> QED BY <1>4

(* Observers follow: no view goes back behind what it was told, everybody  *)
(* sees it, and when everything delivered is worked through, it is what is *)
(* stored, except for documents that are behind: written between the       *)
(* batches of a snapshot, or not read by one that failed.                  *)
THEOREM Following == Spec => []ObserversFollow
<1>1. Init => TypeOK /\ FeedInv /\ FollowInv
  <2>1. Init => FollowInv
    BY DEF Init, FollowInv
  <2> QED BY <2>1, FeedInit
<1>2. TypeOK /\ FeedInv /\ FollowInv /\ [Next]_vars => (TypeOK /\ FeedInv /\ FollowInv)'
  BY FeedInvStep, FollowInvStep
<1>3. TypeOK /\ FeedInv /\ FollowInv => ObserversFollow
  BY FollowingCatchesUp DEF FeedInv, ObserversFollow
<1> QED BY <1>1, <1>2, <1>3, PTL DEF Spec
=============================================================================
