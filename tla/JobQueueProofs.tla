--------------------------- MODULE JobQueueProofs ---------------------------
(***************************************************************************)
(* Type correctness of JobQueue, that its long poll loses no wake-up, and   *)
(* that its lists serve every job once and in order.                       *)
(***************************************************************************)
EXTENDS JobQueue, SequenceTheorems, TLAPS

(* What appending, prepending and removing do to the entries of a list.    *)
LEMMA AppendEntries ==
  ASSUME NEW S, NEW s \in Seq(S), NEW e \in S
  PROVE  /\ Append(s, e) \in Seq(S)
         /\ ToSet(Append(s, e)) = ToSet(s) \cup {e}
<1>1. /\ Append(s, e) \in Seq(S)
      /\ Len(Append(s, e)) = Len(s) + 1
      /\ \A i \in 1..Len(s) : Append(s, e)[i] = s[i]
      /\ Append(s, e)[Len(s) + 1] = e
  BY AppendProperties
<1>2. Len(s) \in Nat /\ DOMAIN s = 1..Len(s) /\ DOMAIN Append(s, e) = 1..(Len(s) + 1)
  BY <1>1, LenProperties
<1>3. ToSet(Append(s, e)) \subseteq ToSet(s) \cup {e}
  <2> SUFFICES ASSUME NEW i \in 1..(Len(s) + 1)
               PROVE  Append(s, e)[i] \in ToSet(s) \cup {e}
    BY <1>2 DEF ToSet
  <2>1. CASE i \in 1..Len(s)
    BY <2>1, <1>1, <1>2 DEF ToSet
  <2>2. CASE i = Len(s) + 1
    BY <2>2, <1>1
  <2> QED BY <2>1, <2>2, <1>2
<1>4. ToSet(s) \subseteq ToSet(Append(s, e))
  <2> SUFFICES ASSUME NEW i \in 1..Len(s)
               PROVE  s[i] \in ToSet(Append(s, e))
    BY <1>2 DEF ToSet
  <2> QED BY <1>1, <1>2 DEF ToSet
<1>5. e \in ToSet(Append(s, e))
  <2>1. Len(s) + 1 \in DOMAIN Append(s, e)
    BY <1>2
  <2> QED BY <2>1, <1>1 DEF ToSet
<1> QED BY <1>1, <1>3, <1>4, <1>5

LEMMA PrependEntries ==
  ASSUME NEW S, NEW s \in Seq(S), NEW e \in S
  PROVE  /\ <<e>> \o s \in Seq(S)
         /\ ToSet(<<e>> \o s) \subseteq ToSet(s) \cup {e}
<1>1. <<e>> \in Seq(S) /\ Len(<<e>>) = 1 /\ <<e>>[1] = e
  OBVIOUS
<1>2. /\ <<e>> \o s \in Seq(S)
      /\ Len(<<e>> \o s) = Len(<<e>>) + Len(s)
      /\ \A i \in 1..(Len(<<e>>) + Len(s)) :
            (<<e>> \o s)[i] = IF i <= Len(<<e>>) THEN <<e>>[i] ELSE s[i - Len(<<e>>)]
  BY <1>1, ConcatProperties, Zenon
<1>3. Len(s) \in Nat /\ DOMAIN s = 1..Len(s) /\ DOMAIN (<<e>> \o s) = 1..(1 + Len(s))
  BY <1>1, <1>2, LenProperties
<1>4. ToSet(<<e>> \o s) \subseteq ToSet(s) \cup {e}
  <2> SUFFICES ASSUME NEW i \in 1..(1 + Len(s))
               PROVE  (<<e>> \o s)[i] \in ToSet(s) \cup {e}
    BY <1>3 DEF ToSet
  <2>1. CASE i = 1
    BY <2>1, <1>1, <1>2, <1>3
  <2>2. CASE i # 1
    <3>1. i - 1 \in DOMAIN s /\ (<<e>> \o s)[i] = s[i - 1]
      BY <2>2, <1>1, <1>2, <1>3
    <3> QED BY <3>1 DEF ToSet
  <2> QED BY <2>1, <2>2
<1> QED BY <1>2, <1>4

LEMMA RemoveEntries ==
  ASSUME NEW S, NEW s \in Seq(S), NEW i \in DOMAIN s
  PROVE  /\ RemoveAt(s, i) \in Seq(S)
         /\ ToSet(RemoveAt(s, i)) \subseteq ToSet(s)
         /\ s[i] \in ToSet(s) /\ s[i] \in S
<1> DEFINE T == ToSet(s)
<1>1. Len(s) \in Nat /\ DOMAIN s = 1..Len(s) /\ i \in 1..Len(s) /\ \A k \in 1..Len(s) : s[k] \in S
  BY LenProperties
<1>2. \A k \in 1..Len(s) : s[k] \in S \cap T
  BY <1>1 DEF ToSet
<1>3. SubSeq(s, 1, i - 1) \in Seq(S \cap T)
  <2>1. \A k \in 1..(i - 1) : s[k] \in S \cap T
    BY <1>1, <1>2
  <2>2. 1 \in Int /\ i - 1 \in Int
    BY <1>1
  <2> HIDE DEF T
  <2> QED BY <2>1, <2>2, SubSeqProperties
<1>4. SubSeq(s, i + 1, Len(s)) \in Seq(S \cap T)
  <2>1. \A k \in (i + 1)..Len(s) : s[k] \in S \cap T
    BY <1>1, <1>2
  <2>2. i + 1 \in Int /\ Len(s) \in Int
    BY <1>1
  <2> HIDE DEF T
  <2> QED BY <2>1, <2>2, SubSeqProperties
<1>5. RemoveAt(s, i) \in Seq(S \cap T)
  <2> HIDE DEF T
  <2> QED BY <1>3, <1>4, ConcatProperties DEF RemoveAt
<1>6. RemoveAt(s, i) \in Seq(S)
  BY <1>5, SeqMonotonic
<1>7. ToSet(RemoveAt(s, i)) \subseteq T
  <2>1. \A k \in DOMAIN RemoveAt(s, i) : RemoveAt(s, i)[k] \in S \cap T
    <3> HIDE DEF T
    <3> QED BY <1>5, LenProperties, ElementOfSeq
  <2> QED BY <2>1 DEF ToSet
<1> QED BY <1>2, <1>6, <1>7, <1>1

-----------------------------------------------------------------------------
(* How the submissions change the lists.                                   *)

LEMMA EnqueueEntries ==
  ASSUME TypeOK, NEW lowPriority, next \in Jobs, Enqueue(lowPriority)
  PROVE  /\ high' \in Seq(Jobs \cup {Interrupt}) /\ low' \in Seq(Jobs)
         /\ Entries' = Entries \cup {next}
<1>1. high \in Seq(Jobs \cup {Interrupt}) /\ low \in Seq(Jobs)
  BY DEF TypeOK
<1>2. CASE lowPriority
  <2>1. low' = Append(low, next) /\ high' = high
    BY <1>2 DEF Enqueue
  <2> QED BY <1>1, <2>1, AppendEntries DEF Entries
<1>3. CASE ~lowPriority
  <2>1. high' = Append(high, next) /\ low' = low
    BY <1>3 DEF Enqueue
  <2>2. next \in Jobs \cup {Interrupt}
    OBVIOUS
  <2> HIDE DEF Jobs
  <2> QED BY <1>1, <2>1, <2>2, AppendEntries DEF Entries
<1> QED BY <1>2, <1>3

(* A debounced submission adds at most itself, and postpones an entry that *)
(* is queued afterwards.                                                   *)
LEMMA DebounceEntries ==
  ASSUME TypeOK, NEW n, NEW lowPriority, next \in Jobs,
         DebounceNew(n, lowPriority) \/ DebounceHigh(n) \/ DebounceLow(n, lowPriority)
  PROVE  /\ high' \in Seq(Jobs \cup {Interrupt}) /\ low' \in Seq(Jobs)
         /\ \E j \in Jobs :
              /\ Postpone(j)
              /\ j = next \/ j \in Queued
              /\ Entries' \subseteq Entries \cup {j}
<1>1. high \in Seq(Jobs \cup {Interrupt}) /\ low \in Seq(Jobs)
  BY DEF TypeOK
<1>2. CASE DebounceNew(n, lowPriority)
  BY <1>2, EnqueueEntries DEF DebounceNew
<1>3. CASE DebounceHigh(n)
  <2>1. PICK i \in DOMAIN high : FirstOf(i, Matches(high, n)) /\ Postpone(high[i])
    BY <1>3 DEF DebounceHigh
  <2>2. high[i] # Interrupt
    BY <2>1 DEF FirstOf, Matches, SameJob
  <2>3. high[i] \in Jobs /\ high[i] \in Entries
    BY <1>1, <2>2, RemoveEntries DEF Entries
  <2>4. high' = high /\ low' = low
    BY <1>3 DEF DebounceHigh
  <2> QED BY <1>1, <2>1, <2>2, <2>3, <2>4 DEF Entries, Queued
<1>4. CASE DebounceLow(n, lowPriority)
  <2>1. PICK i \in DOMAIN low :
          /\ Postpone(low[i])
          /\ IF lowPriority THEN UNCHANGED <<high, low>>
                            ELSE low' = RemoveAt(low, i) /\ high' = Append(high, low[i])
    BY <1>4 DEF DebounceLow
  <2>2. /\ RemoveAt(low, i) \in Seq(Jobs) /\ ToSet(RemoveAt(low, i)) \subseteq ToSet(low)
        /\ low[i] \in ToSet(low) /\ low[i] \in Jobs
    BY <1>1, RemoveEntries
  <2>3. low[i] \in Jobs \cup {Interrupt} /\ low[i] # Interrupt
    BY <2>2 DEF Jobs, Interrupt
  <2>4. /\ Append(high, low[i]) \in Seq(Jobs \cup {Interrupt})
        /\ ToSet(Append(high, low[i])) = ToSet(high) \cup {low[i]}
    <3> HIDE DEF Jobs
    <3> QED BY <1>1, <2>3, AppendEntries
  <2>5. /\ high' \in Seq(Jobs \cup {Interrupt}) /\ low' \in Seq(Jobs)
        /\ Entries' \subseteq Entries
    BY <1>1, <2>1, <2>2, <2>4 DEF Entries
  <2>6. low[i] \in Queued
    BY <2>2, <2>3 DEF Entries, Queued
  <2> QED BY <2>1, <2>2, <2>5, <2>6
<1> QED BY <1>2, <1>3, <1>4

(* getNextJob takes entries away, and hands the worker a job it took.      *)
LEMMA PopEntries ==
  ASSUME TypeOK, PopHigh \/ PopLow \/ PopNothing
  PROVE  /\ high' \in Seq(Jobs \cup {Interrupt}) /\ low' \in Seq(Jobs)
         /\ Entries' \subseteq Entries
         /\ worker' \in {"loop", "busy"}
         /\ running' \in SUBSET Jobs
         /\ current' \in Jobs \cup {NoJob}
<1>1. /\ high \in Seq(Jobs \cup {Interrupt}) /\ low \in Seq(Jobs)
      /\ running \in SUBSET Jobs /\ current \in Jobs \cup {NoJob}
  BY DEF TypeOK
<1>2. CASE PopHigh
  <2>1. PICK i \in DOMAIN high :
          /\ high' = RemoveAt(high, i) /\ low' = low
          /\ IF high[i] = Interrupt
             THEN worker' = "loop" /\ UNCHANGED <<running, current>>
             ELSE /\ worker' = "busy"
                  /\ current' = high[i]
                  /\ running' = running \cup {high[i]}
    BY <1>2 DEF PopHigh
  <2>2. /\ RemoveAt(high, i) \in Seq(Jobs \cup {Interrupt})
        /\ ToSet(RemoveAt(high, i)) \subseteq ToSet(high)
        /\ high[i] \in Jobs \cup {Interrupt}
    <3> HIDE DEF Jobs
    <3> QED BY <1>1, RemoveEntries
  <2> QED BY <1>1, <2>1, <2>2 DEF Entries
<1>3. CASE PopLow
  <2>1. PICK i \in DOMAIN low :
          /\ low' = RemoveAt(low, i) /\ high' = high
          /\ worker' = "busy" /\ current' = low[i] /\ running' = running \cup {low[i]}
    BY <1>3 DEF PopLow
  <2>2. /\ RemoveAt(low, i) \in Seq(Jobs) /\ ToSet(RemoveAt(low, i)) \subseteq ToSet(low)
        /\ low[i] \in Jobs
    BY <1>1, RemoveEntries
  <2> QED BY <1>1, <2>1, <2>2 DEF Entries
<1>4. CASE PopNothing
  BY <1>1, <1>4 DEF PopNothing, Entries
<1> QED BY <1>2, <1>3, <1>4

LEMMA InterruptEntries ==
  ASSUME TypeOK
  PROVE  /\ <<Interrupt>> \o high \in Seq(Jobs \cup {Interrupt})
         /\ ToSet(<<Interrupt>> \o high) \subseteq ToSet(high) \cup {Interrupt}
<1>1. high \in Seq(Jobs \cup {Interrupt}) /\ Interrupt \in Jobs \cup {Interrupt}
  BY DEF TypeOK
<1> HIDE DEF Jobs, Interrupt
<1> QED BY <1>1, PrependEntries

LEMMA QueuedJobs == TypeOK => Queued \subseteq Jobs
<1> SUFFICES ASSUME TypeOK, NEW e \in Entries, e # Interrupt PROVE e \in Jobs
  BY DEF Queued
<1>1. high \in Seq(Jobs \cup {Interrupt}) /\ low \in Seq(Jobs)
  BY DEF TypeOK
<1> HIDE DEF Jobs
<1>2. \A i \in DOMAIN high : high[i] \in Jobs \cup {Interrupt}
  BY <1>1
<1>3. \A i \in DOMAIN low : low[i] \in Jobs
  BY <1>1
<1> QED BY <1>2, <1>3 DEF Entries, ToSet

LEMMA SettleType ==
  ASSUME TypeOK, NEW ids, Settle(ids)
  PROVE  /\ running' \in SUBSET Jobs
         /\ calls' \in [Jobs -> Nat]
         /\ handler' \in [Jobs -> HandlerStates]
BY DEF TypeOK, Settle, HandlerStates

LEMMA NotifyType ==
  ASSUME TypeOK, Notify
  PROVE  /\ notifyWorker' = NoWaiter
         /\ notifyWorker' \in 0..(MaxRestarts + 1)
         /\ waking' \in SUBSET (1..(MaxRestarts + 1))
         /\ replacing' \in SUBSET (1..(MaxRestarts + 1))
         /\ waking \subseteq waking'
         /\ notifyWorker # NoWaiter => notifyWorker \in waking'
BY JobQueueAssumption DEF TypeOK, Notify, NoWaiter

LEMMA NewJobType ==
  ASSUME TypeOK, NEW n \in Names, NEW d \in SUBSET Jobs, NewJob(n, d)
  PROVE  /\ next \in Jobs
         /\ next' = next + 1 /\ next' \in 1..(MaxJobs + 1)
         /\ name' \in [Jobs -> Names \cup {NoName}]
         /\ data' \in [Jobs -> SUBSET Jobs]
<1>1. next \in Jobs /\ next' = next + 1
  BY DEF NewJob
<1>2. next' \in 1..(MaxJobs + 1)
  BY <1>1, JobQueueAssumption DEF Jobs
<1>3. name' \in [Jobs -> Names \cup {NoName}]
  BY DEF NewJob, TypeOK
<1>4. data' \in [Jobs -> SUBSET Jobs]
  BY DEF NewJob, TypeOK
<1> QED BY <1>1, <1>2, <1>3, <1>4

-----------------------------------------------------------------------------
(* Every step keeps the types.                                             *)
LEMMA TypeStep == TypeOK /\ [Next]_vars => TypeOK'
<1> SUFFICES ASSUME TypeOK, [Next]_vars PROVE TypeOK'
  OBVIOUS
<1> USE JobQueueAssumption
<1> USE DEF queueVars, jobVars, wakeVars, workerVars
<1>1. ASSUME NEW n \in Names, NEW lowPriority \in BOOLEAN, NEW wrap \in BOOLEAN,
             QueueJob(n, lowPriority, wrap)
      PROVE  TypeOK'
  <2>1. NewJob(n, {}) /\ Enqueue(lowPriority) /\ Notify
    BY <1>1 DEF QueueJob
  <2>2. {} \in SUBSET Jobs
    OBVIOUS
  <2>3. handler' \in [Jobs -> HandlerStates]
    BY <1>1 DEF QueueJob, TypeOK, HandlerStates
  <2>4. UNCHANGED <<clock, notBefore, timer, calls, running, inc, interrupts, worker, current>>
    BY <1>1 DEF QueueJob
  <2>5. next \in Jobs
    BY <2>1 DEF NewJob
  <2> QED BY <2>1, <2>2, <2>3, <2>4, <2>5, NewJobType, EnqueueEntries, NotifyType DEF TypeOK
<1>2. ASSUME NEW n \in Names, NEW lowPriority \in BOOLEAN, NEW wrap \in BOOLEAN,
             QueueDebounced(n, lowPriority, wrap)
      PROVE  TypeOK'
  <2>1. /\ NewJob(n, {}) /\ next \in Jobs
        /\ DebounceNew(n, lowPriority) \/ DebounceHigh(n) \/ DebounceLow(n, lowPriority)
    BY <1>2 DEF QueueDebounced, NewJob
  <2>2. /\ high' \in Seq(Jobs \cup {Interrupt}) /\ low' \in Seq(Jobs)
        /\ \E j \in Jobs : Postpone(j)
    BY <2>1, DebounceEntries
  <2>3. notBefore' \in [Jobs -> 0..MaxTime] /\ timer' \in SUBSET Jobs
    BY <2>2 DEF Postpone, TypeOK
  <2>4. handler' \in [Jobs -> HandlerStates]
    BY <1>2 DEF QueueDebounced, TypeOK, HandlerStates
  <2>5. UNCHANGED <<clock, calls, running, notifyWorker, waking, replacing,
                    inc, interrupts, worker, current>>
    BY <1>2 DEF QueueDebounced
  <2>6. {} \in SUBSET Jobs
    OBVIOUS
  <2> QED BY <2>1, <2>2, <2>3, <2>4, <2>5, <2>6, NewJobType DEF TypeOK
<1>3. ASSUME NEW n \in Names, MergeEvent(n) PROVE TypeOK'
  <2>1. next' \in 1..(MaxJobs + 1)
    BY <1>3 DEF MergeEvent, Jobs
  <2>2. data' \in [Jobs -> SUBSET Jobs]
    BY <1>3 DEF MergeEvent, TypeOK
  <2>3. handler' \in [Jobs -> HandlerStates]
    BY <1>3 DEF MergeEvent, TypeOK, HandlerStates
  <2>4. UNCHANGED <<clock, high, low, name, notBefore, timer, calls, running, notifyWorker,
                    waking, replacing, inc, interrupts, worker, current>>
    BY <1>3 DEF MergeEvent
  <2> QED BY <2>1, <2>2, <2>3, <2>4 DEF TypeOK
<1>4. ASSUME NEW n \in Names, QueueEvent(n) PROVE TypeOK'
  <2>1. NewJob(n, {next}) /\ next \in Jobs /\ Enqueue(FALSE) /\ Notify
    BY <1>4 DEF QueueEvent, NewJob
  <2>2. {next} \in SUBSET Jobs
    BY <2>1
  <2>3. handler' \in [Jobs -> HandlerStates]
    BY <1>4 DEF QueueEvent, TypeOK, HandlerStates
  <2>4. UNCHANGED <<clock, notBefore, timer, calls, running, inc, interrupts, worker, current>>
    BY <1>4 DEF QueueEvent
  <2> QED BY <2>1, <2>2, <2>3, <2>4, NewJobType, EnqueueEntries, NotifyType DEF TypeOK
<1>5. CASE WaitForNextJob
  <2>1. worker' \in WorkerStates
    BY <1>5 DEF WaitForNextJob, WorkerStates
  <2>2. /\ notifyWorker' \in 0..(MaxRestarts + 1)
        /\ replacing' \in SUBSET (1..(MaxRestarts + 1))
        /\ waking' = waking
    <3>1. CASE UNCHANGED wakeVars
      BY <3>1 DEF TypeOK
    <3>2. CASE /\ notifyWorker' = inc /\ waking' = waking
               /\ replacing' = IF notifyWorker = NoWaiter THEN replacing
                                                          ELSE replacing \cup {notifyWorker}
      <4>1. CASE notifyWorker = NoWaiter
        BY <3>2, <4>1 DEF TypeOK
      <4>2. CASE notifyWorker # NoWaiter
        BY <3>2, <4>2 DEF TypeOK, NoWaiter
      <4> QED BY <4>1, <4>2
    <3>3. CASE ReadyIn(high) # {} \/ ReadyIn(low) # {}
      BY <1>5, <3>1, <3>3 DEF WaitForNextJob
    <3>4. CASE ~(ReadyIn(high) # {} \/ ReadyIn(low) # {})
      BY <1>5, <3>2, <3>4 DEF WaitForNextJob
    <3> QED BY <3>3, <3>4
  <2>3. UNCHANGED <<clock, next, high, low, name, data, notBefore, timer, handler, calls,
                    running, inc, interrupts, current>>
    BY <1>5 DEF WaitForNextJob
  <2> QED BY <2>1, <2>2, <2>3 DEF TypeOK
<1>6. CASE GetNextJob
  <2>1. PopHigh \/ PopLow \/ PopNothing
    BY <1>6 DEF GetNextJob
  <2> QED BY <1>6, <2>1, PopEntries DEF GetNextJob, TypeOK, WorkerStates
<1>7. ASSUME NEW again \in BOOLEAN, ReportResult(again) PROVE TypeOK'
  <2>1. Settle({current})
    BY <1>7 DEF ReportResult
  <2> QED BY <1>7, <2>1, SettleType DEF ReportResult, TypeOK, WorkerStates
<1>9. ASSUME NEW i \in 1..(MaxRestarts + 1), ResolveWaiter(i) \/ RejectWaiter(i)
      PROVE  TypeOK'
  BY <1>9 DEF ResolveWaiter, RejectWaiter, TypeOK, WorkerStates
<1>10. ASSUME NEW j \in Jobs, TimerFires(j) PROVE TypeOK'
  BY <1>10, NotifyType DEF TimerFires, TypeOK
<1>11. CASE InterruptJobStream
  <2>1. /\ high' \in Seq(Jobs \cup {Interrupt})
        /\ UNCHANGED wakeVars \/ Notify
    BY <1>11, InterruptEntries DEF InterruptJobStream, TypeOK
  <2>2. interrupts' \in 0..MaxInterrupts
    BY <1>11 DEF InterruptJobStream, TypeOK
  <2> QED BY <1>11, <2>1, <2>2, NotifyType DEF InterruptJobStream, TypeOK
<1>12. CASE ThreadClosed
  <2>1. Settle(running)
    BY <1>12 DEF ThreadClosed
  <2> QED BY <1>12, <2>1, SettleType DEF ThreadClosed, TypeOK, WorkerStates
<1>13. CASE Restarted
  BY <1>13 DEF Restarted, TypeOK, WorkerStates
<1>14. CASE Tick
  BY <1>14 DEF Tick, TypeOK
<1>15. CASE UNCHANGED vars
  BY <1>15 DEF vars, TypeOK
<1> QED
  BY <1>1, <1>2, <1>3, <1>4, <1>5, <1>6, <1>7, <1>9, <1>10, <1>11, <1>12, <1>13, <1>14, <1>15
  DEF Next, Submit, WorkerStep, Callback

LEMMA InitType == Init => TypeOK
<1> SUFFICES ASSUME Init PROVE TypeOK
  OBVIOUS
<1>1. <<>> \in Seq(Jobs \cup {Interrupt}) /\ <<>> \in Seq(Jobs)
  OBVIOUS
<1> QED BY <1>1, JobQueueAssumption
        DEF Init, TypeOK, HandlerStates, WorkerStates, NoWaiter, NoName, NoJob

(* In every behaviour every variable of JobQueue keeps its type.           *)
THEOREM TypeCorrect == Spec => []TypeOK
BY InitType, TypeStep, PTL DEF Spec

-----------------------------------------------------------------------------
(* A notification leaves no parked worker without a wake-up on its way.    *)
LEMMA NotifyWakes ==
  ASSUME TypeOK, NoLostWakeup, Notify, inc' = inc, worker' = worker
  PROVE  NoLostWakeup'
<1> SUFFICES ASSUME worker' = "parked" PROVE inc' \in waking'
  BY DEF NoLostWakeup
<1>1. CASE inc \in waking
  BY <1>1, NotifyType
<1>2. CASE notifyWorker = inc
  <2>1. inc # NoWaiter
    BY DEF TypeOK, NoWaiter
  <2> QED BY <1>2, <2>1, NotifyType
<1> QED BY <1>1, <1>2 DEF NoLostWakeup

(* The lists only shrink, or gain an interruption.                         *)
LEMMA ShrinkingQueue ==
  ASSUME Untouched, DueOrTimed, Entries' \subseteq Entries \cup {Interrupt},
         UNCHANGED <<clock, next, notBefore, timer>>
  PROVE  Untouched' /\ DueOrTimed'
<1>1. Queued' \subseteq Queued
  BY DEF Queued
<1> QED BY <1>1 DEF Untouched, DueOrTimed

(* The list grows by the submission itself.                                *)
LEMMA GrowingQueue ==
  ASSUME TypeOK, Untouched, DueOrTimed, next \in Jobs, next' = next + 1,
         Entries' \subseteq Entries \cup {next}, UNCHANGED <<clock, notBefore, timer>>
  PROVE  Untouched' /\ DueOrTimed'
<1>1. Queued' \subseteq Queued \cup {next}
  BY DEF Queued
<1>2. next \in Nat /\ clock \in Nat /\ notBefore[next] = 0
  BY DEF TypeOK, Untouched
<1>3. Untouched'
  BY <1>1, <1>2 DEF Untouched, Jobs
<1>4. DueOrTimed'
  BY <1>1, <1>2 DEF DueOrTimed
<1> QED BY <1>3, <1>4

(* The park: no entry is ready, so each of them has its timer.             *)
LEMMA NothingReady ==
  ASSUME TypeOK, DueOrTimed, ReadyIn(high) = {}, ReadyIn(low) = {}
  PROVE  Entries \subseteq timer
<1> SUFFICES ASSUME NEW e \in Entries PROVE e \in timer
  OBVIOUS
<1>1. ~Ready(e)
  BY DEF Entries, ToSet, ReadyIn
<1>2. e \in Queued
  BY <1>1 DEF Ready, Queued
<1> QED BY <1>1, <1>2 DEF Ready, DueOrTimed

LEMMA WakeStep ==
  ASSUME EarlyBy = 0, WakeInv, [Next]_vars
  PROVE  WakeInv'
<1> USE JobQueueAssumption
<1> USE DEF queueVars, jobVars, wakeVars, workerVars
<1>0. TypeOK /\ Untouched /\ DueOrTimed /\ NoLostWakeup /\ TypeOK'
  BY TypeStep DEF WakeInv
<1> SUFFICES Untouched' /\ DueOrTimed' /\ NoLostWakeup'
  BY <1>0 DEF WakeInv
<1>1. ASSUME NEW n \in Names, NEW lowPriority \in BOOLEAN, NEW wrap \in BOOLEAN,
             QueueJob(n, lowPriority, wrap)
      PROVE  Untouched' /\ DueOrTimed' /\ NoLostWakeup'
  <2>1. /\ next \in Jobs /\ next' = next + 1 /\ Enqueue(lowPriority) /\ Notify
        /\ UNCHANGED <<clock, notBefore, timer, inc, worker>>
    BY <1>1 DEF QueueJob, NewJob
  <2>2. Entries' = Entries \cup {next}
    BY <1>0, <2>1, EnqueueEntries
  <2> QED BY <1>0, <2>1, <2>2, GrowingQueue, NotifyWakes
<1>2. ASSUME NEW n \in Names, NEW lowPriority \in BOOLEAN, NEW wrap \in BOOLEAN,
             QueueDebounced(n, lowPriority, wrap)
      PROVE  Untouched' /\ DueOrTimed' /\ NoLostWakeup'
  <2>1. /\ next \in Jobs /\ next' = next + 1
        /\ DebounceNew(n, lowPriority) \/ DebounceHigh(n) \/ DebounceLow(n, lowPriority)
        /\ UNCHANGED <<clock, notifyWorker, waking, inc, worker>>
    BY <1>2 DEF QueueDebounced, NewJob
  <2>2. PICK j \in Jobs : /\ Postpone(j)
                          /\ j = next \/ j \in Queued
                          /\ Entries' \subseteq Entries \cup {j}
    BY <1>0, <2>1, DebounceEntries
  <2>3. /\ timer' = timer \cup {j}
        /\ \A k \in Jobs : k # j => notBefore'[k] = notBefore[k]
    BY <1>0, <2>2 DEF Postpone, TypeOK
  <2>4. Queued' \subseteq Queued \cup {j}
    BY <2>2 DEF Queued
  <2>5. j < next' /\ next \in Nat
    BY <1>0, <2>1, <2>2 DEF Untouched, TypeOK, Jobs
  <2>6. Untouched'
    BY <1>0, <2>1, <2>3, <2>4, <2>5 DEF Untouched, Jobs
  <2>7. DueOrTimed'
    <3> SUFFICES ASSUME NEW k \in Queued' PROVE k \in timer' \/ notBefore'[k] <= clock'
      BY DEF DueOrTimed
    <3>1. CASE k = j
      BY <3>1, <2>3
    <3>2. CASE k # j
      <4>1. k \in Queued /\ k \in Jobs
        BY <1>0, <3>2, <2>4, QueuedJobs
      <4> QED BY <1>0, <4>1, <3>2, <2>1, <2>3 DEF DueOrTimed
    <3> QED BY <3>1, <3>2
  <2>8. NoLostWakeup'
    BY <1>0, <2>1, <2>2, <2>3 DEF NoLostWakeup
  <2> QED BY <2>6, <2>7, <2>8
<1>3. ASSUME NEW n \in Names, MergeEvent(n)
      PROVE  Untouched' /\ DueOrTimed' /\ NoLostWakeup'
  <2>1. /\ next \in Jobs /\ next' = next + 1
        /\ UNCHANGED <<clock, high, low, notBefore, timer, notifyWorker, waking, inc, worker>>
    BY <1>3 DEF MergeEvent
  <2>2. Entries' = Entries
    BY <2>1 DEF Entries
  <2> QED BY <1>0, <2>1, <2>2, GrowingQueue DEF NoLostWakeup
<1>4. ASSUME NEW n \in Names, QueueEvent(n)
      PROVE  Untouched' /\ DueOrTimed' /\ NoLostWakeup'
  <2>1. /\ next \in Jobs /\ next' = next + 1 /\ Enqueue(FALSE) /\ Notify
        /\ UNCHANGED <<clock, notBefore, timer, inc, worker>>
    BY <1>4 DEF QueueEvent, NewJob
  <2>2. Entries' = Entries \cup {next}
    BY <1>0, <2>1, EnqueueEntries
  <2> QED BY <1>0, <2>1, <2>2, GrowingQueue, NotifyWakes
<1>5. CASE WaitForNextJob
  <2>1. UNCHANGED <<clock, next, high, low, notBefore, timer, inc>>
    BY <1>5 DEF WaitForNextJob
  <2>2. Entries' = Entries
    BY <2>1 DEF Entries
  <2>3. NoLostWakeup'
    <3> SUFFICES ASSUME worker' = "parked" PROVE notifyWorker' = inc /\ Entries \subseteq timer
      BY <2>1, <2>2 DEF NoLostWakeup
    <3>1. ReadyIn(high) = {} /\ ReadyIn(low) = {} /\ notifyWorker' = inc
      BY <1>5 DEF WaitForNextJob
    <3> QED BY <1>0, <3>1, NothingReady
  <2> QED BY <1>0, <2>1, <2>2, <2>3, ShrinkingQueue
<1>6. CASE GetNextJob
  <2>1. /\ PopHigh \/ PopLow \/ PopNothing
        /\ UNCHANGED <<clock, next, notBefore, timer>>
    BY <1>6 DEF GetNextJob
  <2>2. Entries' \subseteq Entries /\ worker' \in {"loop", "busy"}
    BY <1>0, <2>1, PopEntries
  <2> QED BY <1>0, <2>1, <2>2, ShrinkingQueue DEF NoLostWakeup
<1>7. ASSUME NEW again \in BOOLEAN, ReportResult(again)
      PROVE  Untouched' /\ DueOrTimed' /\ NoLostWakeup'
  <2>1. /\ worker' # "parked"
        /\ UNCHANGED <<clock, next, high, low, notBefore, timer>>
    BY <1>7 DEF ReportResult
  <2>2. Entries' = Entries
    BY <2>1 DEF Entries
  <2> QED BY <1>0, <2>1, <2>2, ShrinkingQueue DEF NoLostWakeup
<1>8. CASE Restarted \/ ThreadClosed
  <2>1. /\ worker' # "parked"
        /\ UNCHANGED <<clock, next, high, low, notBefore, timer>>
    BY <1>8 DEF Restarted, ThreadClosed
  <2>2. Entries' = Entries
    BY <2>1 DEF Entries
  <2> QED BY <1>0, <2>1, <2>2, ShrinkingQueue DEF NoLostWakeup
<1>9. ASSUME NEW i \in 1..(MaxRestarts + 1), ResolveWaiter(i) \/ RejectWaiter(i)
      PROVE  Untouched' /\ DueOrTimed' /\ NoLostWakeup'
  <2>1. UNCHANGED <<clock, next, high, low, notBefore, timer, notifyWorker, inc>>
    BY <1>9 DEF ResolveWaiter, RejectWaiter
  <2>2. Entries' = Entries
    BY <2>1 DEF Entries
  <2>3. worker' = "parked" => worker = "parked" /\ (inc \in waking => inc \in waking')
    BY <1>9 DEF ResolveWaiter, RejectWaiter
  <2> QED BY <1>0, <2>1, <2>2, <2>3, ShrinkingQueue DEF NoLostWakeup
<1>10. ASSUME NEW j \in Jobs, TimerFires(j)
       PROVE  Untouched' /\ DueOrTimed' /\ NoLostWakeup'
  <2>1. /\ notBefore[j] <= clock + EarlyBy /\ timer' = timer \ {j} /\ Notify
        /\ UNCHANGED <<clock, next, high, low, notBefore, inc, worker>>
    BY <1>10 DEF TimerFires
  <2>2. notBefore[j] <= clock
    BY <1>0, <2>1 DEF TypeOK
  <2>3. Queued' = Queued
    BY <2>1 DEF Queued, Entries
  <2>4. Untouched'
    BY <1>0, <2>1, <2>3 DEF Untouched
  <2>5. DueOrTimed'
    BY <1>0, <2>1, <2>2, <2>3 DEF DueOrTimed
  <2> QED BY <1>0, <2>1, <2>4, <2>5, NotifyWakes
<1>11. CASE InterruptJobStream
  <2>1. UNCHANGED <<clock, next, low, notBefore, timer, inc, worker>>
    BY <1>11 DEF InterruptJobStream
  <2>2. CASE notifyWorker # NoWaiter
    <3>1. Notify /\ high' = high
      BY <1>11, <2>2 DEF InterruptJobStream
    <3>2. Entries' = Entries
      BY <2>1, <3>1 DEF Entries
    <3> QED BY <1>0, <2>1, <3>1, <3>2, ShrinkingQueue, NotifyWakes
  <2>3. CASE notifyWorker = NoWaiter
    <3>1. high' = <<Interrupt>> \o high /\ UNCHANGED <<notifyWorker, waking>>
      BY <1>11, <2>3 DEF InterruptJobStream
    <3>2. Entries' \subseteq Entries \cup {Interrupt}
      BY <1>0, <2>1, <3>1, InterruptEntries DEF Entries
    <3>3. inc # NoWaiter
      BY <1>0 DEF TypeOK, NoWaiter
    <3> QED BY <1>0, <2>1, <2>3, <3>1, <3>2, <3>3, ShrinkingQueue DEF NoLostWakeup
  <2> QED BY <2>2, <2>3
<1>12. CASE Tick
  <2>1. /\ clock' = clock + 1
        /\ UNCHANGED <<next, high, low, notBefore, timer, notifyWorker, waking, inc, worker>>
    BY <1>12 DEF Tick
  <2>2. Entries' = Entries /\ Queued' = Queued
    BY <2>1 DEF Entries, Queued
  <2>3. DueOrTimed'
    <3> SUFFICES ASSUME NEW k \in Queued', k \notin timer' PROVE notBefore'[k] <= clock'
      BY DEF DueOrTimed
    <3>1. notBefore[k] <= clock
      BY <1>0, <2>1, <2>2 DEF DueOrTimed
    <3>2. k \in Jobs
      BY <1>0, <2>2, QueuedJobs
    <3>3. notBefore[k] \in Nat /\ clock \in Nat
      BY <1>0, <3>2 DEF TypeOK
    <3> QED BY <2>1, <3>1, <3>3
  <2> QED BY <1>0, <2>1, <2>2, <2>3 DEF Untouched, NoLostWakeup
<1>13. CASE UNCHANGED vars
  <2>1. UNCHANGED <<clock, next, high, low, notBefore, timer, notifyWorker, waking, inc, worker>>
    BY <1>13 DEF vars
  <2>2. Entries' = Entries
    BY <2>1 DEF Entries
  <2> QED BY <1>0, <2>1, <2>2, ShrinkingQueue DEF NoLostWakeup
<1> QED
  BY <1>1, <1>2, <1>3, <1>4, <1>5, <1>6, <1>7, <1>8, <1>9, <1>10, <1>11, <1>12, <1>13
  DEF Next, Submit, WorkerStep, Callback

(* No wake-up is lost, as long as setTimeout never fires before its        *)
(* deadline as Date.now() tells it: for any number of submissions,         *)
(* debounces, interruptions and restarts of the worker (waitForNextJob,    *)
(* #notifyWorker, #scheduleDebounceWakeup, interruptJobStream).            *)
THEOREM NoWakeupIsLost ==
  ASSUME EarlyBy = 0
  PROVE  Spec => []NoLostWakeup
<1>1. Init => WakeInv
  <2> SUFFICES ASSUME Init PROVE WakeInv
    OBVIOUS
  <2>1. TypeOK
    BY InitType
  <2>2. Entries = {}
    BY DEF Init, Entries, ToSet
  <2>3. Queued = {}
    BY <2>2 DEF Queued
  <2> QED BY <2>1, <2>3 DEF Init, WakeInv, Untouched, DueOrTimed, NoLostWakeup
<1>2. WakeInv /\ [Next]_vars => WakeInv'
  BY WakeStep
<1>3. WakeInv => NoLostWakeup
  BY DEF WakeInv
<1> QED BY <1>1, <1>2, <1>3, PTL DEF Spec
-----------------------------------------------------------------------------
(* Lists in which every two entries, the earlier and the later, are in a   *)
(* relation R: what appending, prepending and removing an entry leave of   *)
(* that, and a relation that holds less.                                   *)
Pairwise(q, R) == \A i, k \in DOMAIN q : i < k => <<q[i], q[k]>> \in R

LEMMA PairwiseAppend ==
  ASSUME NEW S, NEW q \in Seq(S), NEW e \in S, NEW R, Pairwise(q, R),
         \A x \in ToSet(q) : <<x, e>> \in R
  PROVE  Pairwise(Append(q, e), R)
<1>1. /\ Append(q, e) \in Seq(S)
      /\ Len(Append(q, e)) = Len(q) + 1
      /\ \A i \in 1..Len(q) : Append(q, e)[i] = q[i]
      /\ Append(q, e)[Len(q) + 1] = e
  BY AppendProperties
<1>2. Len(q) \in Nat /\ DOMAIN q = 1..Len(q) /\ DOMAIN Append(q, e) = 1..(Len(q) + 1)
  BY <1>1, LenProperties
<1> SUFFICES ASSUME NEW i \in 1..(Len(q) + 1), NEW k \in 1..(Len(q) + 1), i < k
             PROVE  <<Append(q, e)[i], Append(q, e)[k]>> \in R
  BY <1>2 DEF Pairwise
<1>3. i \in 1..Len(q) /\ Append(q, e)[i] = q[i]
  BY <1>1, <1>2
<1>4. CASE k \in 1..Len(q)
  <2>1. Append(q, e)[k] = q[k]
    BY <1>1, <1>4
  <2> QED BY <1>2, <1>3, <1>4, <2>1 DEF Pairwise
<1>5. CASE k = Len(q) + 1
  <2>1. q[i] \in ToSet(q)
    BY <1>2, <1>3 DEF ToSet
  <2>2. Append(q, e)[k] = e
    BY <1>1, <1>5
  <2> QED BY <1>3, <2>1, <2>2
<1> QED BY <1>2, <1>4, <1>5

LEMMA PairwisePrepend ==
  ASSUME NEW S, NEW q \in Seq(S), NEW e \in S, NEW R, Pairwise(q, R),
         \A x \in ToSet(q) : <<e, x>> \in R
  PROVE  Pairwise(<<e>> \o q, R)
<1>1. <<e>> \in Seq(S) /\ Len(<<e>>) = 1 /\ <<e>>[1] = e
  OBVIOUS
<1>2. /\ <<e>> \o q \in Seq(S)
      /\ Len(<<e>> \o q) = Len(<<e>>) + Len(q)
      /\ \A i \in 1..(Len(<<e>>) + Len(q)) :
            (<<e>> \o q)[i] = IF i <= Len(<<e>>) THEN <<e>>[i] ELSE q[i - Len(<<e>>)]
  BY <1>1, ConcatProperties, Zenon
<1>3. Len(q) \in Nat /\ DOMAIN q = 1..Len(q) /\ DOMAIN (<<e>> \o q) = 1..(1 + Len(q))
  BY <1>1, <1>2, LenProperties
<1> SUFFICES ASSUME NEW i \in 1..(1 + Len(q)), NEW k \in 1..(1 + Len(q)), i < k
             PROVE  <<(<<e>> \o q)[i], (<<e>> \o q)[k]>> \in R
  BY <1>3 DEF Pairwise
<1>4. k - 1 \in DOMAIN q /\ (<<e>> \o q)[k] = q[k - 1]
  BY <1>1, <1>2, <1>3
<1>5. CASE i = 1
  <2>1. q[k - 1] \in ToSet(q)
    BY <1>4 DEF ToSet
  <2>2. (<<e>> \o q)[i] = e
    BY <1>5, <1>1, <1>2, <1>3
  <2> QED BY <1>4, <2>1, <2>2
<1>6. CASE i # 1
  <2>1. i - 1 \in DOMAIN q /\ i - 1 < k - 1 /\ (<<e>> \o q)[i] = q[i - 1]
    BY <1>6, <1>1, <1>2, <1>3
  <2> QED BY <1>4, <2>1 DEF Pairwise
<1> QED BY <1>5, <1>6

LEMMA RemovePositions ==
  ASSUME NEW S, NEW q \in Seq(S), NEW i \in DOMAIN q
  PROVE  /\ Len(q) \in Nat /\ DOMAIN q = 1..Len(q) /\ i \in 1..Len(q)
         /\ DOMAIN RemoveAt(q, i) = 1..(Len(q) - 1)
         /\ \A k \in 1..(Len(q) - 1) : RemoveAt(q, i)[k] = IF k < i THEN q[k] ELSE q[k + 1]
<1>1. Len(q) \in Nat /\ DOMAIN q = 1..Len(q) /\ i \in 1..Len(q) /\ \A k \in 1..Len(q) : q[k] \in S
  BY LenProperties
<1> DEFINE a == SubSeq(q, 1, i - 1)
           b == SubSeq(q, i + 1, Len(q))
<1>2. /\ a \in Seq(S) /\ Len(a) = i - 1
      /\ \A k \in 1..(i - 1) : a[k] = q[k]
  <2>1. /\ 1 \in Int /\ i - 1 \in Int
        /\ \A k \in 1..(i - 1) : q[k] \in S
    BY <1>1
  <2>2. /\ a \in Seq(S)
        /\ Len(a) = IF 1 <= i - 1 THEN (i - 1) - 1 + 1 ELSE 0
        /\ \A k \in 1..((i - 1) - 1 + 1) : a[k] = q[1 + k - 1]
    BY <2>1, SubSeqProperties
  <2> HIDE DEF a
  <2>3. Len(a) = i - 1
    BY <1>1, <2>2
  <2>4. \A k \in 1..(i - 1) : 1 + k - 1 = k
    OBVIOUS
  <2> QED BY <1>1, <2>2, <2>3, <2>4
<1>3. /\ b \in Seq(S) /\ Len(b) = Len(q) - i
      /\ \A k \in 1..(Len(q) - i) : b[k] = q[i + k]
  <2>1. /\ i + 1 \in Int /\ Len(q) \in Int
        /\ \A k \in (i + 1)..Len(q) : q[k] \in S
    BY <1>1
  <2>2. /\ b \in Seq(S)
        /\ Len(b) = IF i + 1 <= Len(q) THEN Len(q) - (i + 1) + 1 ELSE 0
        /\ \A k \in 1..(Len(q) - (i + 1) + 1) : b[k] = q[(i + 1) + k - 1]
    BY <2>1, SubSeqProperties
  <2> HIDE DEF b
  <2>3. Len(b) = Len(q) - i
    BY <1>1, <2>2
  <2>4. \A k \in 1..(Len(q) - i) : (i + 1) + k - 1 = i + k
    BY <1>1
  <2> QED BY <1>1, <2>2, <2>3, <2>4
<1>4. RemoveAt(q, i) = a \o b
  BY DEF RemoveAt
<1> HIDE DEF a, b
<1>5. /\ a \o b \in Seq(S)
      /\ Len(a \o b) = Len(q) - 1
      /\ \A k \in 1..(Len(q) - 1) : (a \o b)[k] = IF k <= i - 1 THEN a[k] ELSE b[k - (i - 1)]
  <2>1. /\ a \o b \in Seq(S) /\ Len(a \o b) = Len(a) + Len(b)
        /\ \A k \in 1..(Len(a) + Len(b)) : (a \o b)[k] = IF k <= Len(a) THEN a[k] ELSE b[k - Len(a)]
    BY <1>2, <1>3, ConcatProperties, Zenon
  <2> QED BY <2>1, <1>1, <1>2, <1>3
<1>6. ASSUME NEW k \in 1..(Len(q) - 1)
      PROVE  (a \o b)[k] = IF k < i THEN q[k] ELSE q[k + 1]
  <2>1. CASE k < i
    BY <1>1, <1>2, <1>5, <2>1
  <2>2. CASE ~(k < i)
    <3>1. k - (i - 1) \in 1..(Len(q) - i) /\ i + (k - (i - 1)) = k + 1 /\ ~(k <= i - 1)
      BY <1>1, <2>2
    <3>2. b[k - (i - 1)] = q[k + 1]
      BY <1>3, <3>1
    <3> QED BY <1>5, <2>2, <3>1, <3>2
  <2> QED BY <2>1, <2>2
<1>7. DOMAIN (a \o b) = 1..(Len(q) - 1)
  BY <1>5, LenProperties
<1> QED BY <1>1, <1>4, <1>6, <1>7

LEMMA PairwiseRemove ==
  ASSUME NEW S, NEW q \in Seq(S), NEW i \in DOMAIN q, NEW R, Pairwise(q, R)
  PROVE  Pairwise(RemoveAt(q, i), R)
<1>1. /\ Len(q) \in Nat /\ DOMAIN q = 1..Len(q) /\ i \in 1..Len(q)
      /\ DOMAIN RemoveAt(q, i) = 1..(Len(q) - 1)
      /\ \A k \in 1..(Len(q) - 1) : RemoveAt(q, i)[k] = IF k < i THEN q[k] ELSE q[k + 1]
  BY RemovePositions
<1> DEFINE at(k) == IF k < i THEN k ELSE k + 1
<1>2. \A k \in 1..(Len(q) - 1) : at(k) \in DOMAIN q /\ RemoveAt(q, i)[k] = q[at(k)]
  BY <1>1
<1>3. \A j, k \in 1..(Len(q) - 1) : j < k => at(j) < at(k)
  BY <1>1
<1> HIDE DEF at
<1> QED BY <1>1, <1>2, <1>3 DEF Pairwise

(* An entry that stands only once is gone once removed.                    *)
LEMMA RemovedIsGone ==
  ASSUME NEW S, NEW q \in Seq(S), NEW i \in DOMAIN q,
         \A k \in DOMAIN q : q[k] = q[i] => k = i
  PROVE  q[i] \notin ToSet(RemoveAt(q, i))
<1>1. /\ Len(q) \in Nat /\ DOMAIN q = 1..Len(q) /\ i \in 1..Len(q)
      /\ DOMAIN RemoveAt(q, i) = 1..(Len(q) - 1)
      /\ \A k \in 1..(Len(q) - 1) : RemoveAt(q, i)[k] = IF k < i THEN q[k] ELSE q[k + 1]
  BY RemovePositions
<1> SUFFICES ASSUME NEW k \in 1..(Len(q) - 1), RemoveAt(q, i)[k] = q[i] PROVE FALSE
  BY <1>1 DEF ToSet
<1> QED BY <1>1

(* The others stay.                                                        *)
LEMMA RestStays ==
  ASSUME NEW S, NEW q \in Seq(S), NEW i \in DOMAIN q, NEW e \in ToSet(q), e # q[i]
  PROVE  e \in ToSet(RemoveAt(q, i))
<1>1. /\ Len(q) \in Nat /\ DOMAIN q = 1..Len(q) /\ i \in 1..Len(q)
      /\ DOMAIN RemoveAt(q, i) = 1..(Len(q) - 1)
      /\ \A k \in 1..(Len(q) - 1) : RemoveAt(q, i)[k] = IF k < i THEN q[k] ELSE q[k + 1]
  BY RemovePositions
<1>2. PICK k \in 1..Len(q) : e = q[k]
  BY <1>1 DEF ToSet
<1>3. CASE k < i
  <2>1. k \in 1..(Len(q) - 1) /\ RemoveAt(q, i)[k] = e
    BY <1>1, <1>2, <1>3
  <2> QED BY <1>1, <2>1 DEF ToSet
<1>4. CASE ~(k < i)
  <2>1. k # i
    BY <1>2
  <2>2. k - 1 \in 1..(Len(q) - 1) /\ ~(k - 1 < i) /\ (k - 1) + 1 = k
    BY <1>1, <1>4, <2>1
  <2>3. RemoveAt(q, i)[k - 1] = e
    BY <1>1, <1>2, <2>2
  <2> QED BY <1>1, <2>2, <2>3 DEF ToSet
<1> QED BY <1>3, <1>4

LEMMA PairwiseWeaker ==
  ASSUME NEW q, NEW R, NEW T, Pairwise(q, R),
         \A x, y \in ToSet(q) : <<x, y>> \in R => <<x, y>> \in T
  PROVE  Pairwise(q, T)
BY DEF Pairwise, ToSet
-----------------------------------------------------------------------------
(* What QueueInv says, in the form its proof uses: the pairs of entries    *)
(* that may follow each other, the places of a job, what became of it.     *)
Later == {p \in (Jobs \cup {Interrupt}) \X (Jobs \cup {Interrupt}) : Behind(p[1], p[2])}

Apart == ToSet(high) \cap ToSet(low) = {} /\ Queued \cap running = {}

Handled ==
  \A j \in Jobs :
    /\ handler[j] = "pending" => calls[j] = 0 /\ j \in Queued \cup running
    /\ handler[j] = "settled" => calls[j] = 1 /\ j \notin Queued \cup running

LEMMA ListTypes ==
  ASSUME TypeOK
  PROVE  /\ high \in Seq(Jobs \cup {Interrupt}) /\ low \in Seq(Jobs \cup {Interrupt})
         /\ low \in Seq(Jobs)
         /\ \A x \in ToSet(high) : x \in Jobs \cup {Interrupt}
         /\ \A x \in ToSet(low) : x \in Jobs
         /\ Interrupt \notin Jobs
<1>1. high \in Seq(Jobs \cup {Interrupt}) /\ low \in Seq(Jobs)
  BY DEF TypeOK
<1>2. Interrupt \notin Jobs
  BY DEF Interrupt, Jobs
<1> HIDE DEF Jobs
<1>3. \A i \in DOMAIN high : high[i] \in Jobs \cup {Interrupt}
  BY <1>1
<1>4. \A i \in DOMAIN low : low[i] \in Jobs
  BY <1>1
<1>5. low \in Seq(Jobs \cup {Interrupt})
  BY <1>1, SeqMonotonic
<1> QED BY <1>1, <1>2, <1>3, <1>4, <1>5 DEF ToSet

LEMMA OrderedPairs ==
  TypeOK => /\ InOrder(high) <=> Pairwise(high, Later)
            /\ InOrder(low) <=> Pairwise(low, Later)
<1> SUFFICES ASSUME TypeOK PROVE /\ InOrder(high) <=> Pairwise(high, Later)
                                 /\ InOrder(low) <=> Pairwise(low, Later)
  OBVIOUS
<1>1. /\ \A i \in DOMAIN high : high[i] \in Jobs \cup {Interrupt}
      /\ \A i \in DOMAIN low : low[i] \in Jobs \cup {Interrupt}
  BY ListTypes DEF ToSet
<1> QED BY <1>1 DEF InOrder, Pairwise, Later

LEMMA Distinct ==
  TypeOK /\ InOrder(high) /\ InOrder(low) /\ Apart => OnePlace
<1> SUFFICES ASSUME TypeOK, InOrder(high), InOrder(low), Apart PROVE OnePlace
  OBVIOUS
<1>1. high \in Seq(Jobs \cup {Interrupt}) /\ low \in Seq(Jobs)
  BY DEF TypeOK
<1>2. DOMAIN high = 1..Len(high) /\ Len(high) \in Nat /\ DOMAIN low = 1..Len(low) /\ Len(low) \in Nat
  BY <1>1, LenProperties
<1>3. ASSUME NEW i \in DOMAIN high, NEW k \in DOMAIN high, high[i] = high[k], high[i] # Interrupt
      PROVE  i = k
  <2>1. ~(i < k) /\ ~(k < i)
    BY <1>3 DEF InOrder, Behind
  <2> QED BY <1>2, <2>1
<1>4. ASSUME NEW i \in DOMAIN low, NEW k \in DOMAIN low, low[i] = low[k]
      PROVE  i = k
  <2>1. low[i] # Interrupt
    BY ListTypes DEF ToSet
  <2>2. ~(i < k) /\ ~(k < i)
    BY <1>4, <2>1 DEF InOrder, Behind
  <2> QED BY <1>2, <2>2
<1> QED BY <1>3, <1>4 DEF OnePlace, Apart

LEMMA QueueInvParts ==
  QueueInv <=> TypeOK /\ Unserved /\ InOrder(high) /\ InOrder(low) /\ Apart /\ Handled
<1>1. ExactlyOnce <=> OnePlace /\ Handled
  BY DEF ExactlyOnce, Handled
<1>2. OnePlace => Apart
  BY DEF OnePlace, Apart
<1> QED BY <1>1, <1>2, Distinct DEF QueueInv

LEMMA QueueInvPartsNext ==
  QueueInv' <=> TypeOK' /\ Unserved' /\ InOrder(high)' /\ InOrder(low)' /\ Apart' /\ Handled'
BY QueueInvParts, PTL

LEMMA OrderedPairsNext ==
  TypeOK' => /\ InOrder(high)' <=> Pairwise(high', Later')
             /\ InOrder(low)' <=> Pairwise(low', Later')
<1>1. TypeOK' => /\ InOrder(high)' <=> Pairwise(high, Later)'
                 /\ InOrder(low)' <=> Pairwise(low, Later)'
  BY OrderedPairs, PTL
<1> QED BY <1>1 DEF Pairwise

(* Entries keep their order when what is merged into them stays and no     *)
(* debounce ends.                                                          *)
LEMMA OrderStays ==
  ASSUME QueueInv,
         \A j \in Queued : data'[j] = data[j] /\ (notBefore'[j] = 0 => notBefore[j] = 0)
  PROVE  Pairwise(high, Later') /\ Pairwise(low, Later')
<1>1. Pairwise(high, Later) /\ Pairwise(low, Later) /\ TypeOK
  BY OrderedPairs DEF QueueInv
<1>2. ASSUME NEW x \in Entries, NEW y \in Entries, <<x, y>> \in Later
      PROVE  <<x, y>> \in Later'
  <2>1. /\ x \in Jobs \cup {Interrupt} /\ y \in Jobs \cup {Interrupt}
        /\ Behind(x, y)
    BY <1>2 DEF Later
  <2>2. Behind(x, y)'
    <3> SUFFICES ASSUME x # Interrupt, y # Interrupt
                 PROVE  /\ x # y
                        /\ notBefore'[y] = 0 => x < y /\ \A e \in data'[x] : e < y
      BY DEF Behind
    <3>1. x \in Queued /\ y \in Queued
      BY DEF Queued
    <3>2. data'[x] = data[x] /\ (notBefore'[y] = 0 => notBefore[y] = 0)
      BY <3>1
    <3> QED BY <2>1, <3>2 DEF Behind
  <2> HIDE DEF Jobs
  <2> QED BY <2>1, <2>2 DEF Later
<1>3. ToSet(high) \subseteq Entries /\ ToSet(low) \subseteq Entries
  BY DEF Entries
<1> QED BY <1>1, <1>2, <1>3, PairwiseWeaker

(* A submission at the end of a list stands behind all that is there.      *)
LEMMA EnqueueKeeps ==
  ASSUME QueueInv, TypeOK', NEW lowPriority, next \in Jobs, Enqueue(lowPriority),
         running' = running,
         \A j \in Queued : data'[j] = data[j] /\ (notBefore'[j] = 0 => notBefore[j] = 0)
  PROVE  InOrder(high)' /\ InOrder(low)' /\ Apart' /\ Queued' = Queued \cup {next}
<1>1. TypeOK /\ Unserved /\ InOrder(high) /\ InOrder(low) /\ Apart /\ Handled
  BY QueueInvParts
<1>2. Pairwise(high, Later') /\ Pairwise(low, Later')
  BY OrderStays
<1>3. ASSUME NEW x \in Entries PROVE <<x, next>> \in Later'
  <2>1. x \in Jobs \cup {Interrupt}
    BY <1>1, ListTypes DEF Entries
  <2>2. ASSUME x # Interrupt PROVE x < next /\ \A e \in data'[x] : e < next
    <3>1. x \in Queued /\ x \in Jobs
      BY <2>1, <2>2 DEF Queued
    <3>2. x < next
      BY <1>1, <3>1 DEF Unserved, TypeOK, Jobs
    <3>3. data'[x] = data[x]
      BY <3>1
    <3> QED BY <1>1, <3>1, <3>2, <3>3 DEF Unserved
  <2>3. x # Interrupt => x # next
    BY <2>2, <2>1, <1>1 DEF Jobs, TypeOK
  <2> HIDE DEF Jobs
  <2> QED BY <2>1, <2>2, <2>3 DEF Later, Behind
<1>4. ToSet(high) \subseteq Entries /\ ToSet(low) \subseteq Entries
  BY DEF Entries
<1>5. next \notin Queued \cup running /\ next \notin Entries
  BY <1>1, ListTypes DEF Unserved, TypeOK, Queued, Jobs, Interrupt
<1>6. next \in Jobs \cup {Interrupt} /\ next # Interrupt
  BY <1>1, ListTypes
<1>7. /\ high \in Seq(Jobs \cup {Interrupt}) /\ low \in Seq(Jobs \cup {Interrupt})
  BY <1>1, ListTypes
<1> HIDE DEF Jobs
<1>8. CASE lowPriority
  <2>1. low' = Append(low, next) /\ high' = high
    BY <1>8 DEF Enqueue
  <2>2. Pairwise(low', Later') /\ Pairwise(high', Later')
    BY <1>2, <1>3, <1>4, <1>6, <1>7, <2>1, PairwiseAppend
  <2>3. ToSet(low') = ToSet(low) \cup {next}
    BY <1>6, <1>7, <2>1, AppendEntries
  <2>4. Apart' /\ Queued' = Queued \cup {next}
    BY <1>1, <1>5, <1>6, <2>1, <2>3 DEF Apart, Queued, Entries
  <2> QED BY <2>2, <2>4, OrderedPairsNext
<1>9. CASE ~lowPriority
  <2>1. high' = Append(high, next) /\ low' = low
    BY <1>9 DEF Enqueue
  <2>2. Pairwise(low', Later') /\ Pairwise(high', Later')
    BY <1>2, <1>3, <1>4, <1>6, <1>7, <2>1, PairwiseAppend
  <2>3. ToSet(high') = ToSet(high) \cup {next}
    BY <1>6, <1>7, <2>1, AppendEntries
  <2>4. Apart' /\ Queued' = Queued \cup {next}
    BY <1>1, <1>5, <1>6, <2>1, <2>3 DEF Apart, Queued, Entries
  <2> QED BY <2>2, <2>4, OrderedPairsNext
<1> QED BY <1>8, <1>9

(* A debounced submission joins a list, or postpones an entry that it may  *)
(* move to the end of the other list, where a postponed entry may stand.   *)
LEMMA DebounceKeeps ==
  ASSUME QueueInv, TypeOK', NEW n, NEW lowPriority, next \in Jobs,
         DebounceNew(n, lowPriority) \/ DebounceHigh(n) \/ DebounceLow(n, lowPriority),
         running' = running,
         \A j \in Queued : data'[j] = data[j]
  PROVE  /\ InOrder(high)' /\ InOrder(low)' /\ Apart'
         /\ \/ Queued' = Queued \cup {next}
            \/ Queued' = Queued /\ Matches(high, n) \cup Matches(low, n) # {}
<1>1. TypeOK /\ Unserved /\ InOrder(high) /\ InOrder(low) /\ Apart /\ Handled
  BY QueueInvParts
<1>2. OnePlace
  BY <1>1, Distinct
<1>3. ASSUME NEW k \in Jobs, Postpone(k)
      PROVE  /\ \A j \in Jobs : notBefore'[j] = 0 => notBefore[j] = 0
             /\ notBefore'[k] # 0
  <2>1. clock + DebounceTime # 0
    BY <1>1, JobQueueAssumption DEF TypeOK
  <2> QED BY <1>1, <1>3, <2>1 DEF Postpone, TypeOK
<1>4. Queued \subseteq Jobs
  BY <1>1, QueuedJobs
<1>5. CASE DebounceNew(n, lowPriority)
  <2>1. Enqueue(lowPriority) /\ Postpone(next)
    BY <1>5 DEF DebounceNew
  <2>2. \A j \in Queued : data'[j] = data[j] /\ (notBefore'[j] = 0 => notBefore[j] = 0)
    BY <1>3, <1>4, <2>1
  <2> QED BY <2>1, <2>2, EnqueueKeeps
<1>6. CASE DebounceHigh(n) \/ (DebounceLow(n, lowPriority) /\ lowPriority)
  <2>1. \E k \in Jobs : Postpone(k)
    <3>1. CASE DebounceHigh(n)
      <4>1. PICK i \in DOMAIN high : high[i] # Interrupt /\ Postpone(high[i])
        BY <3>1 DEF DebounceHigh, FirstOf, Matches, SameJob
      <4>2. high[i] \in Jobs
        BY <1>1, <4>1, ListTypes DEF ToSet
      <4> QED BY <4>1, <4>2
    <3>2. CASE DebounceLow(n, lowPriority)
      <4>1. PICK i \in DOMAIN low : Postpone(low[i])
        BY <3>2 DEF DebounceLow
      <4>2. low[i] \in Jobs
        BY <1>1, <4>1, ListTypes DEF ToSet
      <4> QED BY <4>1, <4>2
    <3> QED BY <1>6, <3>1, <3>2
  <2>2. UNCHANGED <<high, low>> /\ Matches(high, n) \cup Matches(low, n) # {}
    BY <1>6 DEF DebounceHigh, DebounceLow, FirstOf
  <2>3. \A j \in Queued : data'[j] = data[j] /\ (notBefore'[j] = 0 => notBefore[j] = 0)
    BY <1>3, <1>4, <2>1
  <2>4. Pairwise(high, Later') /\ Pairwise(low, Later')
    BY <2>3, OrderStays
  <2>5. InOrder(high)' /\ InOrder(low)'
    BY <2>2, <2>4, OrderedPairsNext
  <2>6. Apart' /\ Queued' = Queued
    BY <1>1, <2>2 DEF Apart, Queued, Entries
  <2> QED BY <2>2, <2>5, <2>6
<1>7. CASE DebounceLow(n, lowPriority) /\ ~lowPriority
  <2>1. PICK i \in DOMAIN low :
          /\ FirstOf(i, Matches(low, n)) /\ Postpone(low[i])
          /\ low' = RemoveAt(low, i) /\ high' = Append(high, low[i])
    BY <1>7 DEF DebounceLow
  <2>2. /\ high \in Seq(Jobs \cup {Interrupt}) /\ low \in Seq(Jobs \cup {Interrupt})
        /\ low[i] \in Jobs /\ low[i] \in ToSet(low) /\ low[i] # Interrupt
        /\ low[i] \in Jobs \cup {Interrupt}
    BY <1>1, ListTypes DEF ToSet
  <2>3. \A j \in Queued : data'[j] = data[j] /\ (notBefore'[j] = 0 => notBefore[j] = 0)
    BY <1>3, <1>4, <2>1, <2>2
  <2>4. Pairwise(high, Later') /\ Pairwise(low, Later')
    BY <2>3, OrderStays
  <2>5. \A x \in ToSet(high) : <<x, low[i]>> \in Later'
    <3> SUFFICES ASSUME NEW x \in ToSet(high) PROVE <<x, low[i]>> \in Later'
      OBVIOUS
    <3>1. x \in Jobs \cup {Interrupt}
      BY <1>1, ListTypes
    <3>2. x # low[i]
      BY <1>1, <2>2 DEF Apart
    <3>3. notBefore'[low[i]] # 0
      BY <1>3, <2>1, <2>2
    <3> HIDE DEF Jobs
    <3> QED BY <3>1, <3>2, <3>3, <2>2 DEF Later, Behind
  <2>6. Pairwise(low', Later') /\ Pairwise(high', Later')
    <3> HIDE DEF Jobs
    <3> QED BY <2>1, <2>2, <2>4, <2>5, PairwiseAppend, PairwiseRemove
  <2>7. ToSet(high') = ToSet(high) \cup {low[i]}
    <3> HIDE DEF Jobs
    <3> QED BY <2>1, <2>2, AppendEntries
  <2>8. ToSet(low') = ToSet(low) \ {low[i]}
    <3>1. \A k \in DOMAIN low : low[k] = low[i] => k = i
      BY <1>2 DEF OnePlace
    <3>2. low[i] \notin ToSet(low')
      BY <2>1, <2>2, <3>1, RemovedIsGone
    <3>3. ToSet(low') \subseteq ToSet(low)
      BY <2>1, <2>2, RemoveEntries
    <3>4. \A e \in ToSet(low) : e # low[i] => e \in ToSet(low')
      BY <2>1, <2>2, RestStays
    <3> QED BY <3>2, <3>3, <3>4
  <2>9. Apart' /\ Queued' = Queued
    BY <1>1, <2>2, <2>7, <2>8 DEF Apart, Queued, Entries
  <2>10. Matches(low, n) # {}
    BY <2>1 DEF FirstOf
  <2> QED BY <2>6, <2>9, <2>10, OrderedPairsNext
<1> QED BY <1>5, <1>6, <1>7

(* getNextJob moves a job from its list to #runningJobs.                   *)
LEMMA PopKeeps ==
  ASSUME QueueInv, TypeOK', PopHigh \/ PopLow \/ PopNothing, UNCHANGED <<data, notBefore>>
  PROVE  /\ InOrder(high)' /\ InOrder(low)' /\ Apart'
         /\ Queued' \cup running' = Queued \cup running
<1>1. TypeOK /\ Unserved /\ InOrder(high) /\ InOrder(low) /\ Apart /\ Handled
  BY QueueInvParts
<1>2. OnePlace
  BY <1>1, Distinct
<1>3. Pairwise(high, Later') /\ Pairwise(low, Later')
  BY OrderStays
<1>4. high \in Seq(Jobs \cup {Interrupt}) /\ low \in Seq(Jobs \cup {Interrupt})
  BY <1>1, ListTypes
<1>5. ASSUME NEW q \in Seq(Jobs \cup {Interrupt}), NEW i \in DOMAIN q, Pairwise(q, Later'),
             \A k \in DOMAIN q : q[i] = q[k] => i = k \/ q[i] = Interrupt
      PROVE  /\ Pairwise(RemoveAt(q, i), Later')
             /\ ToSet(RemoveAt(q, i)) \ {Interrupt} = ToSet(q) \ {Interrupt, q[i]}
             /\ ToSet(RemoveAt(q, i)) \subseteq ToSet(q)
  <2> HIDE DEF Jobs
  <2>1. Pairwise(RemoveAt(q, i), Later')
    BY <1>5, PairwiseRemove
  <2>2. ToSet(RemoveAt(q, i)) \subseteq ToSet(q)
    BY RemoveEntries
  <2>3. \A e \in ToSet(q) : e # q[i] => e \in ToSet(RemoveAt(q, i))
    BY RestStays
  <2>4. q[i] # Interrupt => q[i] \notin ToSet(RemoveAt(q, i))
    BY <1>5, RemovedIsGone
  <2> QED BY <2>1, <2>2, <2>3, <2>4
<1>6. CASE PopHigh
  <2>1. PICK i \in DOMAIN high :
          /\ high' = RemoveAt(high, i) /\ low' = low
          /\ IF high[i] = Interrupt THEN running' = running
                                    ELSE running' = running \cup {high[i]}
    BY <1>6 DEF PopHigh
  <2>2. /\ Pairwise(high', Later')
        /\ ToSet(high') \ {Interrupt} = ToSet(high) \ {Interrupt, high[i]}
        /\ ToSet(high') \subseteq ToSet(high)
    <3>1. \A k \in DOMAIN high : high[i] = high[k] => i = k \/ high[i] = Interrupt
      BY <1>2 DEF OnePlace
    <3> QED BY <1>3, <1>4, <1>5, <2>1, <3>1
  <2>3. high[i] \in ToSet(high)
    BY DEF ToSet
  <2>4. Apart' /\ Queued' \cup running' = Queued \cup running
    BY <1>1, <2>1, <2>2, <2>3 DEF Apart, Queued, Entries
  <2> QED BY <1>3, <2>1, <2>2, <2>4, OrderedPairsNext
<1>7. CASE PopLow
  <2>1. PICK i \in DOMAIN low :
          low' = RemoveAt(low, i) /\ high' = high /\ running' = running \cup {low[i]}
    BY <1>7 DEF PopLow
  <2>2. /\ Pairwise(low', Later')
        /\ ToSet(low') \ {Interrupt} = ToSet(low) \ {Interrupt, low[i]}
        /\ ToSet(low') \subseteq ToSet(low)
    <3>1. \A k \in DOMAIN low : low[i] = low[k] => i = k \/ low[i] = Interrupt
      BY <1>2 DEF OnePlace
    <3> QED BY <1>3, <1>4, <1>5, <2>1, <3>1
  <2>3. low[i] \in ToSet(low) /\ low[i] # Interrupt
    BY <1>1, ListTypes DEF ToSet
  <2>4. Apart' /\ Queued' \cup running' = Queued \cup running
    BY <1>1, <2>1, <2>2, <2>3 DEF Apart, Queued, Entries
  <2> QED BY <1>3, <2>1, <2>2, <2>4, OrderedPairsNext
<1>8. CASE PopNothing
  <2>1. UNCHANGED <<high, low, running>>
    BY <1>8 DEF PopNothing
  <2> QED BY <1>1, <1>3, <2>1, OrderedPairsNext DEF Apart, Queued, Entries
<1> QED BY <1>6, <1>7, <1>8

(* A result settles a pending handler, and only once.                      *)
LEMMA SettleKeeps ==
  ASSUME QueueInv, NEW ids, Settle(ids), Queued' = Queued
  PROVE  /\ Handled' /\ running' \subseteq running
         /\ \A j \in Jobs : j \notin running => handler'[j] = handler[j] /\ calls'[j] = calls[j]
<1>1. TypeOK /\ Handled /\ Apart
  BY QueueInvParts
<1>2. running' = running \ ids
  BY DEF Settle
<1>3. ASSUME NEW j \in Jobs
      PROVE  /\ calls'[j] = IF j \in ids \cap running /\ handler[j] \in {"pending", "settled"}
                            THEN calls[j] + 1 ELSE calls[j]
             /\ handler'[j] = IF j \in ids \cap running /\ handler[j] = "pending"
                              THEN "settled" ELSE handler[j]
  BY DEF Settle
<1>4. Handled'
  <2> SUFFICES ASSUME NEW j \in Jobs
               PROVE  /\ handler'[j] = "pending" => calls'[j] = 0 /\ j \in Queued \cup running'
                      /\ handler'[j] = "settled" => calls'[j] = 1 /\ j \notin Queued \cup running'
    BY DEF Handled
  <2>1. CASE j \in ids \cap running
    BY <1>1, <1>2, <1>3, <2>1 DEF Handled, Apart
  <2>2. CASE j \notin ids \cap running
    BY <1>1, <1>2, <1>3, <2>2 DEF Handled, Apart
  <2> QED BY <2>1, <2>2
<1> QED BY <1>2, <1>3, <1>4

(* Lists, data and postponements are as they were.                         *)
LEMMA ListsKept ==
  ASSUME QueueInv, TypeOK', UNCHANGED <<next, high, low, data, notBefore>>,
         running' \subseteq running
  PROVE  InOrder(high)' /\ InOrder(low)' /\ Apart' /\ Queued' = Queued
<1>1. TypeOK /\ Unserved /\ InOrder(high) /\ InOrder(low) /\ Apart /\ Handled
  BY QueueInvParts
<1>2. Pairwise(high, Later') /\ Pairwise(low, Later')
  BY OrderStays
<1>3. InOrder(high)' /\ InOrder(low)'
  BY <1>2, OrderedPairsNext
<1> QED BY <1>1, <1>3 DEF Apart, Queued, Entries

(* A submission that leaves no trace but its number and its handler, and   *)
(* at most its entry.                                                      *)
LEMMA SubmissionKeeps ==
  ASSUME QueueInv, TypeOK', InOrder(high)', InOrder(low)', Apart',
         next \in Jobs, next' = next + 1, NEW h \in {"none", "pending", "dropped"},
         handler' = [handler EXCEPT ![next] = h], UNCHANGED <<calls, running>>,
         \/ Queued' = Queued \cup {next}
         \/ Queued' = Queued /\ h # "pending",
         \A j \in Jobs : \A e \in data'[j] : e \in data[j] \/ e = next
  PROVE  QueueInv'
<1>1. TypeOK /\ Unserved /\ Handled
  BY QueueInvParts
<1>2. next \in Nat /\ next \notin Queued \cup running /\ calls[next] = 0
  BY <1>1 DEF TypeOK, Unserved
<1>3. \A j \in Jobs : handler'[j] = IF j = next THEN h ELSE handler[j]
  BY <1>1 DEF TypeOK
<1>4. Handled'
  <2> SUFFICES ASSUME NEW j \in Jobs
               PROVE  /\ handler'[j] = "pending" => calls[j] = 0 /\ j \in Queued' \cup running
                      /\ handler'[j] = "settled" => calls[j] = 1 /\ j \notin Queued' \cup running
    BY DEF Handled
  <2>1. CASE j = next
    BY <1>2, <1>3, <2>1
  <2>2. CASE j # next
    BY <1>1, <1>3, <2>2 DEF Handled
  <2> QED BY <2>1, <2>2
<1>5. Unserved'
  <2> SUFFICES ASSUME NEW j \in Jobs
               PROVE  /\ next' <= j => /\ j \notin Queued' \cup running
                                       /\ handler'[j] = "unused" /\ calls[j] = 0
                      /\ \A e \in data'[j] : e < next'
    BY DEF Unserved
  <2>1. next' <= j => next <= j /\ j # next
    BY <1>2 DEF Jobs
  <2>2. \A e \in data[j] : e \in Nat /\ e < next
    <3>1. data[j] \subseteq Jobs
      BY <1>1 DEF TypeOK
    <3>2. \A e \in data[j] : e < next
      BY <1>1 DEF Unserved
    <3> QED BY <3>1, <3>2 DEF Jobs
  <2>3. \A e \in data'[j] : e < next'
    BY <1>2, <2>2
  <2> QED BY <1>1, <1>3, <2>1, <2>3 DEF Unserved
<1> QED BY <1>4, <1>5, QueueInvPartsNext

LEMMA QueueStep ==
  ASSUME QueueInv, [Next]_vars
  PROVE  QueueInv'
<1> USE DEF queueVars, jobVars, wakeVars, workerVars
<1>0. /\ TypeOK /\ Unserved /\ InOrder(high) /\ InOrder(low) /\ Apart /\ Handled
      /\ TypeOK'
  BY QueueInvParts, TypeStep
<1>a. ASSUME NEW n, NEW d, NewJob(n, d), d \subseteq {next}
      PROVE  /\ next \in Jobs /\ next' = next + 1
             /\ \A j \in Queued : data'[j] = data[j]
             /\ \A j \in Jobs : \A e \in data'[j] : e \in data[j] \/ e = next
  <2>1. next \in Jobs /\ next' = next + 1 /\ data' = [data EXCEPT ![next] = d]
    BY <1>a DEF NewJob
  <2>2. next \notin Queued
    BY <1>0, <2>1 DEF Unserved, TypeOK
  <2> QED BY <1>0, <1>a, <2>1, <2>2, QueuedJobs DEF TypeOK
<1>b. ASSUME UNCHANGED <<next, high, low, data, notBefore>>, handler' = handler, calls' = calls,
             running' = running
      PROVE  QueueInv'
  <2>1. InOrder(high)' /\ InOrder(low)' /\ Apart' /\ Queued' = Queued
    BY <1>0, <1>b, ListsKept
  <2>2. Unserved' /\ Handled'
    BY <1>0, <1>b, <2>1 DEF Unserved, Handled
  <2> QED BY <1>0, <2>1, <2>2, QueueInvPartsNext
<1>1. ASSUME NEW n \in Names, NEW lowPriority \in BOOLEAN, NEW wrap \in BOOLEAN,
             QueueJob(n, lowPriority, wrap)
      PROVE  QueueInv'
  <2>1. /\ NewJob(n, {}) /\ Enqueue(lowPriority)
        /\ handler' = [handler EXCEPT ![next] = IF wrap THEN "pending" ELSE "none"]
        /\ UNCHANGED <<notBefore, calls, running>>
    BY <1>1 DEF QueueJob
  <2>2. /\ next \in Jobs /\ next' = next + 1
        /\ \A j \in Queued : data'[j] = data[j]
        /\ \A j \in Jobs : \A e \in data'[j] : e \in data[j] \/ e = next
    BY <1>a, <2>1
  <2>3. InOrder(high)' /\ InOrder(low)' /\ Apart' /\ Queued' = Queued \cup {next}
    BY <1>0, <2>1, <2>2, EnqueueKeeps
  <2>4. (IF wrap THEN "pending" ELSE "none") \in {"none", "pending", "dropped"}
    OBVIOUS
  <2> QED BY <1>0, <2>1, <2>2, <2>3, <2>4, SubmissionKeeps
<1>2. ASSUME NEW n \in Names, NEW lowPriority \in BOOLEAN, NEW wrap \in BOOLEAN,
             QueueDebounced(n, lowPriority, wrap)
      PROVE  QueueInv'
  <2> DEFINE absorbed == Matches(high, n) \cup Matches(low, n) # {}
             h == IF ~wrap THEN "none" ELSE IF absorbed THEN "dropped" ELSE "pending"
  <2>1. /\ NewJob(n, {})
        /\ DebounceNew(n, lowPriority) \/ DebounceHigh(n) \/ DebounceLow(n, lowPriority)
        /\ handler' = [handler EXCEPT ![next] = h]
        /\ UNCHANGED <<calls, running>>
    BY <1>2 DEF QueueDebounced
  <2>2. /\ next \in Jobs /\ next' = next + 1
        /\ \A j \in Queued : data'[j] = data[j]
        /\ \A j \in Jobs : \A e \in data'[j] : e \in data[j] \/ e = next
    BY <1>a, <2>1
  <2>3. /\ InOrder(high)' /\ InOrder(low)' /\ Apart'
        /\ Queued' = Queued \cup {next} \/ (Queued' = Queued /\ absorbed)
    BY <1>0, <2>1, <2>2, DebounceKeeps
  <2>4. h \in {"none", "pending", "dropped"} /\ (absorbed => h # "pending")
    OBVIOUS
  <2> HIDE DEF absorbed, h
  <2> QED BY <1>0, <2>1, <2>2, <2>3, <2>4, SubmissionKeeps
<1>3. ASSUME NEW n \in Names, MergeEvent(n) PROVE QueueInv'
  <2> DEFINE t == MergeTarget(n)
  <2>1. /\ t # NoJob /\ next \in Jobs /\ next' = next + 1
        /\ data' = [data EXCEPT ![t] = @ \cup {next}]
        /\ handler' = [handler EXCEPT ![next] = "none"]
        /\ UNCHANGED <<high, low, notBefore, calls, running>>
    BY <1>3 DEF MergeEvent
  <2>2. high # <<>> /\ Last(high) # Interrupt /\ t = Last(high)
    BY <2>1 DEF MergeTarget
  <2>3. Len(high) \in Nat /\ DOMAIN high = 1..Len(high) /\ Len(high) \in DOMAIN high /\ t = high[Len(high)]
    <3>1. high \in Seq(Jobs \cup {Interrupt})
      BY <1>0, ListTypes
    <3> HIDE DEF Jobs
    <3> QED BY <2>2, <3>1, EmptySeq, LenProperties DEF Last
  <2>4. t \in ToSet(high) /\ t \in Jobs /\ t # Interrupt
    BY <1>0, <2>2, <2>3, ListTypes DEF ToSet
  <2>5. \A j \in Jobs : data'[j] = IF j = t THEN data[j] \cup {next} ELSE data[j]
    BY <1>0, <2>1, <2>4 DEF TypeOK
  <2>6. InOrder(high)'
    <3> SUFFICES ASSUME NEW i \in DOMAIN high, NEW k \in DOMAIN high, i < k,
                        high[i] # Interrupt, high[k] # Interrupt
                 PROVE  /\ high[i] # high[k]
                        /\ notBefore[high[k]] = 0 => /\ high[i] < high[k]
                                                     /\ \A e \in data'[high[i]] : e < high[k]
      BY <2>1 DEF InOrder, Behind
    <3>1. /\ high[i] # high[k]
          /\ notBefore[high[k]] = 0 => high[i] < high[k] /\ \A e \in data[high[i]] : e < high[k]
      BY <1>0 DEF InOrder, Behind
    <3>2. high[i] # t
      <4>1. i < Len(high)
        BY <2>3
      <4> QED BY <1>0, <2>3, <2>4, <4>1 DEF InOrder, Behind
    <3>3. high[i] \in Jobs
      BY <1>0, ListTypes DEF ToSet
    <3> QED BY <2>5, <3>1, <3>2, <3>3
  <2>7. InOrder(low)'
    <3> SUFFICES ASSUME NEW i \in DOMAIN low, NEW k \in DOMAIN low, i < k, low[i] # Interrupt,
                        low[k] # Interrupt
                 PROVE  /\ low[i] # low[k]
                        /\ notBefore[low[k]] = 0 => /\ low[i] < low[k]
                                                    /\ \A e \in data'[low[i]] : e < low[k]
      BY <2>1 DEF InOrder, Behind
    <3>1. /\ low[i] # low[k]
          /\ notBefore[low[k]] = 0 => low[i] < low[k] /\ \A e \in data[low[i]] : e < low[k]
      BY <1>0 DEF InOrder, Behind
    <3>2. low[i] \in ToSet(low) /\ low[i] \in Jobs
      BY <1>0, ListTypes DEF ToSet
    <3>3. low[i] # t
      BY <1>0, <2>4, <3>2 DEF Apart
    <3> QED BY <2>5, <3>1, <3>2, <3>3
  <2>8. Apart' /\ Queued' = Queued
    BY <1>0, <2>1 DEF Apart, Queued, Entries
  <2>9. \A j \in Jobs : \A e \in data'[j] : e \in data[j] \/ e = next
    BY <2>5
  <2> HIDE DEF t
  <2> QED BY <1>0, <2>1, <2>6, <2>7, <2>8, <2>9, SubmissionKeeps
<1>4. ASSUME NEW n \in Names, QueueEvent(n) PROVE QueueInv'
  <2>1. /\ NewJob(n, {next}) /\ Enqueue(FALSE)
        /\ handler' = [handler EXCEPT ![next] = "none"]
        /\ UNCHANGED <<notBefore, calls, running>>
    BY <1>4 DEF QueueEvent
  <2>2. /\ next \in Jobs /\ next' = next + 1
        /\ \A j \in Queued : data'[j] = data[j]
        /\ \A j \in Jobs : \A e \in data'[j] : e \in data[j] \/ e = next
    BY <1>a, <2>1
  <2>3. InOrder(high)' /\ InOrder(low)' /\ Apart' /\ Queued' = Queued \cup {next}
    BY <1>0, <2>1, <2>2, EnqueueKeeps
  <2> QED BY <1>0, <2>1, <2>2, <2>3, SubmissionKeeps
<1>5. CASE GetNextJob
  <2>1. /\ PopHigh \/ PopLow \/ PopNothing
        /\ UNCHANGED <<next, data, notBefore, handler, calls>>
    BY <1>5 DEF GetNextJob
  <2>2. /\ InOrder(high)' /\ InOrder(low)' /\ Apart'
        /\ Queued' \cup running' = Queued \cup running
    BY <1>0, <2>1, PopKeeps
  <2>3. Unserved' /\ Handled'
    <3> DEFINE placed == Queued \cup running
    <3>1. Unserved <=> \A j \in Jobs :
                         /\ next <= j => j \notin placed /\ handler[j] = "unused" /\ calls[j] = 0
                         /\ \A e \in data[j] : e < next
      BY DEF Unserved
    <3>2. Unserved' <=> \A j \in Jobs :
                          /\ next <= j => j \notin placed' /\ handler[j] = "unused" /\ calls[j] = 0
                          /\ \A e \in data[j] : e < next
      BY <2>1 DEF Unserved
    <3>3. placed' = placed
      BY <2>2
    <3>4. Handled <=> \A j \in Jobs :
                        /\ handler[j] = "pending" => calls[j] = 0 /\ j \in placed
                        /\ handler[j] = "settled" => calls[j] = 1 /\ j \notin placed
      BY DEF Handled
    <3>5. Handled' <=> \A j \in Jobs :
                         /\ handler[j] = "pending" => calls[j] = 0 /\ j \in placed'
                         /\ handler[j] = "settled" => calls[j] = 1 /\ j \notin placed'
      BY <2>1 DEF Handled
    <3> HIDE DEF placed
    <3> QED BY <1>0, <3>1, <3>2, <3>3, <3>4, <3>5
  <2> QED BY <1>0, <2>2, <2>3, QueueInvPartsNext
<1>6. ASSUME NEW ids, Settle(ids), UNCHANGED <<next, high, low, data, notBefore>>
      PROVE  QueueInv'
  <2>1. running' \subseteq running
    BY <1>6 DEF Settle
  <2>2. InOrder(high)' /\ InOrder(low)' /\ Apart' /\ Queued' = Queued
    BY <1>0, <1>6, <2>1, ListsKept
  <2>3. /\ Handled'
        /\ \A j \in Jobs : j \notin running => handler'[j] = handler[j] /\ calls'[j] = calls[j]
    BY <1>6, <2>2, SettleKeeps
  <2>4. Unserved'
    BY <1>0, <1>6, <2>1, <2>2, <2>3 DEF Unserved
  <2> QED BY <1>0, <2>2, <2>3, <2>4, QueueInvPartsNext
<1>7. CASE InterruptJobStream /\ notifyWorker = NoWaiter
  <2>1. /\ high' = <<Interrupt>> \o high
        /\ UNCHANGED <<next, low, data, notBefore, handler, calls, running>>
    BY <1>7 DEF InterruptJobStream
  <2>2. Pairwise(high, Later') /\ Pairwise(low, Later')
    BY <2>1, OrderStays
  <2>3. high \in Seq(Jobs \cup {Interrupt}) /\ \A x \in ToSet(high) : x \in Jobs \cup {Interrupt}
    BY <1>0, ListTypes
  <2>4. \A x \in ToSet(high) : <<Interrupt, x>> \in Later'
    <3> HIDE DEF Jobs
    <3> QED BY <2>3 DEF Later, Behind
  <2>5. Pairwise(high', Later') /\ Pairwise(low', Later')
    <3>1. Interrupt \in Jobs \cup {Interrupt}
      OBVIOUS
    <3> HIDE DEF Jobs, Interrupt
    <3> QED BY <2>1, <2>2, <2>3, <2>4, <3>1, PairwisePrepend
  <2>6. ToSet(high') \ {Interrupt} = ToSet(high) \ {Interrupt}
    <3>1. ToSet(high') \subseteq ToSet(high) \cup {Interrupt}
      BY <1>0, <2>1, InterruptEntries
    <3>2. ASSUME NEW i \in DOMAIN high PROVE high[i] \in ToSet(high')
      <4>1. <<Interrupt>> \in Seq(Jobs \cup {Interrupt}) /\ Len(<<Interrupt>>) = 1
        OBVIOUS
      <4>2. /\ high' \in Seq(Jobs \cup {Interrupt})
            /\ Len(high') = 1 + Len(high)
            /\ \A k \in 1..(1 + Len(high)) :
                 high'[k] = IF k <= 1 THEN <<Interrupt>>[k] ELSE high[k - 1]
        <5> HIDE DEF Jobs, Interrupt
        <5> QED BY <2>1, <2>3, <4>1, ConcatProperties, Zenon
      <4>3. Len(high) \in Nat /\ DOMAIN high = 1..Len(high) /\ DOMAIN high' = 1..(1 + Len(high))
        BY <2>3, <4>2, LenProperties
      <4>4. i + 1 \in DOMAIN high' /\ high'[i + 1] = high[i]
        BY <4>2, <4>3
      <4> QED BY <4>4 DEF ToSet
    <3> QED BY <3>1, <3>2 DEF ToSet
  <2>7. Queued' = Queued /\ Apart'
    <3>1. Interrupt \notin ToSet(low)
      BY <1>0, ListTypes
    <3> QED BY <1>0, <2>1, <2>6, <3>1 DEF Queued, Entries, Apart
  <2>8. Unserved' /\ Handled'
    BY <1>0, <2>1, <2>7 DEF Unserved, Handled
  <2> QED BY <1>0, <2>5, <2>7, <2>8, OrderedPairsNext, QueueInvPartsNext
<1>8. CASE InterruptJobStream /\ notifyWorker # NoWaiter
  BY <1>b, <1>8 DEF InterruptJobStream
<1>9. CASE WaitForNextJob \/ Restarted \/ Tick \/ UNCHANGED vars
  BY <1>b, <1>9 DEF WaitForNextJob, Restarted, Tick, vars
<1>10. ASSUME NEW i, ResolveWaiter(i) \/ RejectWaiter(i) PROVE QueueInv'
  BY <1>b, <1>10 DEF ResolveWaiter, RejectWaiter
<1>11. ASSUME NEW j \in Jobs, TimerFires(j) PROVE QueueInv'
  BY <1>b, <1>11 DEF TimerFires
<1>12. ASSUME NEW again \in BOOLEAN, ReportResult(again) PROVE QueueInv'
  BY <1>6, <1>12 DEF ReportResult
<1>13. CASE ThreadClosed
  BY <1>6, <1>13 DEF ThreadClosed
<1> QED
  BY <1>1, <1>2, <1>3, <1>4, <1>5, <1>7, <1>8, <1>9, <1>10, <1>11, <1>12, <1>13
  DEF Next, Submit, WorkerStep, Callback

LEMMA QueueInit == Init => QueueInv
<1> SUFFICES ASSUME Init PROVE QueueInv
  OBVIOUS
<1>1. TypeOK
  BY InitType
<1>2. Entries = {} /\ ToSet(high) = {} /\ ToSet(low) = {}
  BY DEF Init, Entries, ToSet
<1>3. InOrder(high) /\ InOrder(low)
  BY DEF Init, InOrder
<1>4. Queued = {} /\ running = {} /\ Apart
  BY <1>2 DEF Init, Queued, Apart
<1>5. Unserved /\ Handled
  BY <1>4 DEF Init, Unserved, Handled
<1> QED BY <1>1, <1>3, <1>4, <1>5, QueueInvParts

LEMMA QueueServes == Spec => []QueueInv
BY QueueInit, QueueStep, PTL DEF Spec

(* Every job stands in one place, and its completionHandler is owed an     *)
(* answer exactly as long as it is there: for any number of submissions,   *)
(* debounces, merges, crashes of the worker and repeated reports           *)
(* (queueJobAndWrapResult, getNextJob, jobFinished, rejectAllRunning).     *)
THEOREM ServedExactlyOnce == Spec => []ExactlyOnce
<1>1. QueueInv => ExactlyOnce
  BY DEF QueueInv
<1> QED BY <1>1, QueueServes, PTL

(* However many events are merged, none gets ahead of an undebounced job   *)
(* that was queued before it (mergeOrQueueJob).                            *)
THEOREM MergesKeepOrder == Spec => []MergeKeepsOrder
<1>1. QueueInv => MergeKeepsOrder
  BY DEF QueueInv, InOrder, Behind, MergeKeepsOrder
<1> QED BY <1>1, QueueServes, PTL

(* A job that starts has every earlier undebounced job of its priority and *)
(* above behind it: started already (getNextJob).                          *)
THEOREM ServedInTurn == Spec => FirstComeFirstServed
<1> DEFINE Turn ==
      \A j \in Jobs \ running : j \in running' =>
        \A k \in 1..(j - 1) : notBefore[k] = 0 =>
          /\ k \notin ToSet(high)
          /\ k \in ToSet(low) => j \in ToSet(high)
<1>1. QueueInv /\ [Next]_vars => [Turn]_vars
  <2> SUFFICES ASSUME QueueInv, Next, NEW j \in Jobs \ running, j \in running',
                      NEW k \in 1..(j - 1), notBefore[k] = 0
               PROVE  /\ k \notin ToSet(high)
                      /\ k \in ToSet(low) => j \in ToSet(high)
    OBVIOUS
  <2> USE DEF queueVars, jobVars, wakeVars, workerVars
  <2>1. TypeOK /\ InOrder(high) /\ InOrder(low)
    BY DEF QueueInv
  <2>2. \A ids : Settle(ids) => running' \subseteq running
    BY DEF Settle
  <2>3. GetNextJob
    BY <2>2 DEF Next, Submit, WorkerStep, Callback, QueueJob, QueueDebounced, MergeEvent, QueueEvent,
                WaitForNextJob, ReportResult, ResolveWaiter, RejectWaiter, TimerFires,
                InterruptJobStream, ThreadClosed, Restarted, Tick
  <2>4. k # Interrupt /\ k < j /\ Ready(k)
    BY <2>1 DEF Jobs, Interrupt, Ready, TypeOK
  <2>5. high \in Seq(Jobs \cup {Interrupt}) /\ low \in Seq(Jobs) /\ Interrupt \notin Jobs
    BY <2>1, ListTypes
  <2>6. ASSUME NEW q, NEW T, q \in Seq(T), InOrder(q), NEW i \in DOMAIN q, FirstOf(i, ReadyIn(q)),
               q[i] = j, k \in ToSet(q)
        PROVE  FALSE
    <3>1. PICK p \in DOMAIN q : q[p] = k
      BY <2>6 DEF ToSet
    <3>2. p \in ReadyIn(q)
      BY <2>4, <3>1 DEF ReadyIn
    <3>3. i <= p /\ i # p
      BY <2>4, <2>6, <3>1, <3>2 DEF FirstOf
    <3>4. i < p
      BY <3>3, <2>6, LenProperties
    <3>5. j # Interrupt
      BY <2>5
    <3>6. q[i] < q[p]
      BY <2>4, <2>6, <3>1, <3>4, <3>5 DEF InOrder, Behind
    <3> QED BY <2>4, <2>6, <3>1, <3>6 DEF Jobs
  <2>7. CASE PopHigh
    <3>1. PICK i \in DOMAIN high : FirstOf(i, ReadyIn(high)) /\ high[i] = j
      BY <2>7 DEF PopHigh
    <3>2. k \notin ToSet(high)
      BY <2>1, <2>5, <2>6, <3>1
    <3> QED BY <3>1, <3>2 DEF ToSet
  <2>8. CASE PopLow
    <3>1. PICK i \in DOMAIN low : FirstOf(i, ReadyIn(low)) /\ low[i] = j
      BY <2>8 DEF PopLow
    <3>2. k \notin ToSet(low)
      BY <2>1, <2>5, <2>6, <3>1
    <3>3. k \notin ToSet(high)
      BY <2>4, <2>8 DEF PopLow, ReadyIn, ToSet
    <3> QED BY <3>2, <3>3
  <2>9. ~PopNothing
    BY DEF PopNothing
  <2> QED BY <2>3, <2>7, <2>8, <2>9 DEF GetNextJob
<1>2. FirstComeFirstServed <=> [][Turn]_vars
  BY DEF FirstComeFirstServed
<1> QED BY <1>1, <1>2, QueueServes, PTL DEF Spec
=============================================================================
