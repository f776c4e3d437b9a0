---------------------------- MODULE ExternalMessages ----------------------------
(***************************************************************************)
(* ExternalMessageQueueRunner: the messages of a studio to Slack and       *)
(* RabbitMQ, stored in a collection and sent in batches                    *)
(* (packages/job-worker/src/events/ExternalMessageQueue.ts; users hold,    *)
(* retry and remove them in packages/sofie-core/src/api/                   *)
(* ExternalMessageQueue.ts).                                               *)
(*                                                                         *)
(* A batch waits ten seconds for each of its messages; a send that takes   *)
(* longer goes on by itself.  Of the time only two facts are kept: whether *)
(* the last try of a message was within the last minute, and whether its   *)
(* retryUntil has passed.  The post to the receiver is external.           *)
(***************************************************************************)
EXTENDS Naturals, Sequences, FiniteSets

CONSTANTS
  Messages,
  Limit,       \* how many messages a batch takes
  MaxSends,    \* how many sends there are in a behaviour (bound)
  MaxFaults,   \* failed posts and updates, time-outs, broken streams (bound)
  MaxEdits     \* what users do to messages, and retryUntils that pass (bound)

MessagesAssumption ==
  IsFiniteSet(Messages) /\ Limit \in Nat \ {0} /\ {MaxSends, MaxFaults, MaxEdits} \subseteq Nat

VARIABLES
  message,        \* the collection: where each message stands, and its flags
  changesStream,  \* whether there is a change stream
  changed,        \* whether a change is on its way through it
  triggerTimeout, running,
  probablyHasMoreToSend,
  sends,          \* the sends so far, and which of them the batch waits for
  posted,         \* how often each message reached its receiver
  trouble,        \* how often a send of it timed out or was not recorded
  missed,         \* whether a change came while there was no stream
  faults, edits

bounds == <<faults, edits>>
vars == <<message, changesStream, changed, triggerTimeout, running, probablyHasMoreToSend, sends,
          posted, trouble, missed, bounds>>

States == {"absent", "unsent", "sent", "removed"}
Flags == {"tried", "recent", "retryOver", "hold", "errorFatal", "manualRetry"}
SendStates == {"starting", "posting", "recording", "failing", "failingFatally", "ended"}

TypeOK ==
  /\ \A m \in Messages : message[m].state \in States /\ message[m].flags \subseteq Flags
  /\ {changesStream, changed, triggerTimeout, running, missed,
      probablyHasMoreToSend} \subseteq BOOLEAN
  /\ sends \in Seq([of : Messages, state : SendStates, awaited : BOOLEAN])
  /\ Len(sends) <= MaxSends
  /\ posted \in [Messages -> 0..MaxSends] /\ trouble \in [Messages -> 0..MaxFaults]
  /\ faults \in 0..MaxFaults /\ edits \in 0..MaxEdits

(* The first trigger is set by the constructor.                            *)
Init ==
  /\ message = [m \in Messages |-> [state |-> "absent", flags |-> {}]]
  /\ changesStream = TRUE /\ changed = FALSE /\ missed = FALSE
  /\ triggerTimeout = TRUE /\ running = FALSE /\ probablyHasMoreToSend = FALSE
  /\ sends = <<>>
  /\ posted = [m \in Messages |-> 0] /\ trouble = [m \in Messages |-> 0]
  /\ faults = 0 /\ edits = 0

Fault == faults < MaxFaults /\ faults' = faults + 1

-----------------------------------------------------------------------------
(* Every write of the collection is a change; without a stream it is not   *)
(* heard of, and nothing looks for it when the stream is back.             *)
Written ==
  /\ changed' = (changed \/ changesStream)
  /\ missed' = (missed \/ ~changesStream)

Write(m, record) == message' = [message EXCEPT ![m] = record] /\ Written

(* An update of a message that was removed finds nothing.                  *)
Update(m, on, off) ==
  IF message[m].state = "removed"
    THEN UNCHANGED <<message, changed, missed>>
    ELSE Write(m, [message[m] EXCEPT !.flags = (@ \ off) \cup on])

Queued(m) ==
  /\ message[m].state = "absent"
  /\ Write(m, [state |-> "unsent", flags |-> {}])
  /\ UNCHANGED <<changesStream, triggerTimeout, running, probablyHasMoreToSend, sends, posted, trouble, bounds>>

Edit ==
  /\ edits < MaxEdits /\ edits' = edits + 1
  /\ UNCHANGED <<changesStream, triggerTimeout, running, probablyHasMoreToSend, sends, posted, trouble, faults>>

ToggleHold(m) ==
  /\ Edit
  /\ message[m].state \in {"unsent", "sent"}
  /\ IF "hold" \in message[m].flags THEN Update(m, {}, {"hold"}) ELSE Update(m, {"hold"}, {})

Retry(m) ==
  /\ Edit
  /\ message[m].state \in {"unsent", "sent"}
  /\ Update(m, {"manualRetry"}, {"hold", "errorFatal", "recent"})

RemoveExternalMessage(m) ==
  /\ Edit
  /\ message[m].state \in {"unsent", "sent"}
  /\ message' = [message EXCEPT ![m].state = "removed"]
  /\ UNCHANGED <<changed, missed>>

MinutePasses(m) ==
  /\ "recent" \in message[m].flags
  /\ ~\E i \in DOMAIN sends : sends[i].of = m /\ sends[i].awaited
  /\ message' = [message EXCEPT ![m].flags = @ \ {"recent"}]
  /\ UNCHANGED <<changesStream, changed, triggerTimeout, running, probablyHasMoreToSend, sends, posted, trouble,
                 missed, bounds>>

RetryUntilPasses(m) ==
  /\ Edit
  /\ message[m].state # "absent" /\ "retryOver" \notin message[m].flags
  /\ message' = [message EXCEPT ![m].flags = @ \cup {"retryOver"}]
  /\ UNCHANGED <<changed, missed>>

-----------------------------------------------------------------------------
ChangeArrives ==
  /\ changed /\ changed' = FALSE
  /\ triggerTimeout' = TRUE
  /\ UNCHANGED <<message, changesStream, running, probablyHasMoreToSend, sends, posted, trouble, missed, bounds>>

StreamEnds ==
  /\ Fault
  /\ changesStream /\ changesStream' = FALSE
  /\ changed' = FALSE /\ missed' = (missed \/ changed)
  /\ UNCHANGED <<message, triggerTimeout, running, probablyHasMoreToSend, sends, posted, trouble, edits>>

StartListeningForEvents ==
  /\ ~changesStream /\ changesStream' = TRUE
  /\ UNCHANGED <<message, changed, triggerTimeout, running, probablyHasMoreToSend, sends, posted, trouble, missed, bounds>>

-----------------------------------------------------------------------------
(* doMessageQueue: the query, and a send for each message it found.        *)
ToSend ==
  {m \in Messages : message[m].state = "unsent" /\
                    message[m].flags \cap {"recent", "hold", "errorFatal"} = {}}

(* The query sorts by lastTry; messages that were never tried come first.  *)
Batches ==
  {b \in SUBSET ToSend :
     /\ Cardinality(b) <= Limit
     /\ Cardinality(b) < Limit => b = ToSend
     /\ \A m \in b, k \in ToSend \ b : "tried" \in message[m].flags => "tried" \in message[k].flags}

Skipped(m) == "retryOver" \in message[m].flags /\ "manualRetry" \notin message[m].flags

Awaited == {i \in DOMAIN sends : sends[i].awaited}

(* The sends of a batch, in some order.                                    *)
SendsOf(b) ==
  {s \in [1..Cardinality(b) -> [of : b, state : {"starting"}, awaited : {TRUE}]] :
     \A i, k \in DOMAIN s : i # k => s[i].of # s[k].of}

StartBatch ==
  \E b \in Batches :
    LET started == {m \in b : ~Skipped(m)} IN
    /\ Len(sends) + Cardinality(started) <= MaxSends
    /\ \E s \in SendsOf(started) : sends' = sends \o s
    /\ running' = TRUE
    /\ probablyHasMoreToSend' = (Cardinality(b) = Limit)

DoMessageQueue_Deaf ==
  /\ triggerTimeout /\ triggerTimeout' = FALSE
  /\ IF running THEN UNCHANGED <<running, sends, probablyHasMoreToSend>> ELSE StartBatch
  /\ UNCHANGED <<message, changesStream, changed, posted, trouble, missed, bounds>>

DoMessageQueue_Twice ==
  /\ triggerTimeout /\ triggerTimeout' = FALSE
  /\ StartBatch
  /\ UNCHANGED <<message, changesStream, changed, posted, trouble, missed, bounds>>

(* While a batch is under way the trigger is only set again.               *)
DoMessageQueue ==
  /\ triggerTimeout /\ triggerTimeout' = running
  /\ IF running THEN UNCHANGED <<running, sends, probablyHasMoreToSend>> ELSE StartBatch
  /\ UNCHANGED <<message, changesStream, changed, posted, trouble, missed, bounds>>

(* All results are there; a full batch triggers another one.               *)
BatchEnds ==
  /\ running /\ Awaited = {}
  /\ running' = FALSE
  /\ triggerTimeout' = (triggerTimeout \/ probablyHasMoreToSend)
  /\ probablyHasMoreToSend' = FALSE
  /\ UNCHANGED <<message, changesStream, changed, sends, posted, trouble, missed, bounds>>

-----------------------------------------------------------------------------
(* sendMessage.                                                            *)
To(i, state) ==
  sends' = [sends EXCEPT ![i].state = state, ![i].awaited = @ /\ state # "ended"]

SendFrame == UNCHANGED <<changesStream, triggerTimeout, running, probablyHasMoreToSend, edits>>

StartsSend(i) ==
  /\ sends[i].state = "starting" /\ To(i, "posting")
  /\ Update(sends[i].of, {"tried", "recent"}, {"manualRetry"})
  /\ SendFrame /\ UNCHANGED <<posted, trouble, faults>>

Posts(i) ==
  /\ sends[i].state = "posting" /\ To(i, "recording")
  /\ posted' = [posted EXCEPT ![sends[i].of] = @ + 1]
  /\ SendFrame /\ UNCHANGED <<message, changed, missed, trouble, faults>>

RecordsSent(i) ==
  /\ sends[i].state = "recording" /\ To(i, "ended")
  /\ IF message[sends[i].of].state = "removed"
       THEN UNCHANGED <<message, changed, missed>>
       ELSE Write(sends[i].of, [message[sends[i].of] EXCEPT !.state = "sent"])
  /\ SendFrame /\ UNCHANGED <<posted, trouble, faults>>

(* A failed update or post goes to logMessageError.                        *)
SendFails(i) ==
  /\ Fault
  /\ \/ sends[i].state \in {"starting", "recording"} /\ To(i, "failing")
     \/ \E state \in {"failing", "failingFatally"} : sends[i].state = "posting" /\ To(i, state)
  /\ trouble' = IF sends[i].state = "recording"
                  THEN [trouble EXCEPT ![sends[i].of] = @ + 1] ELSE trouble
  /\ SendFrame /\ UNCHANGED <<message, changed, missed, posted>>

LogMessageError(i) ==
  /\ sends[i].state \in {"failing", "failingFatally"} /\ To(i, "ended")
  /\ IF sends[i].state = "failing"
       THEN Update(sends[i].of, {}, {"errorFatal"})
       ELSE Update(sends[i].of, {"errorFatal"}, {})
  /\ SendFrame /\ UNCHANGED <<posted, trouble, faults>>

(* pTimeout: the batch logs an error and waits no longer; the send goes on. *)
SendTimesOut(i) ==
  /\ Fault
  /\ sends[i].awaited /\ sends' = [sends EXCEPT ![i].awaited = FALSE]
  /\ trouble' = [trouble EXCEPT ![sends[i].of] = @ + 1]
  /\ Update(sends[i].of, {}, {"errorFatal"})
  /\ SendFrame /\ UNCHANGED posted

SendStep(i) == StartsSend(i) \/ Posts(i) \/ RecordsSent(i) \/ LogMessageError(i)

Next ==
  \/ \E m \in Messages :
       \/ Queued(m) \/ ToggleHold(m) \/ Retry(m) \/ RemoveExternalMessage(m)
       \/ MinutePasses(m) \/ RetryUntilPasses(m)
  \/ ChangeArrives \/ StreamEnds \/ StartListeningForEvents \/ DoMessageQueue \/ BatchEnds
  \/ \E i \in DOMAIN sends : SendStep(i) \/ SendFails(i) \/ SendTimesOut(i)

Spec == Init /\ [][Next]_vars

(* The event loop of the thread runs, changes arrive while there is a      *)
(* stream, and a send the batch waits for comes back; of a send that was   *)
(* given up nothing is assumed.                                            *)
Fairness ==
  /\ WF_vars(ChangeArrives) /\ WF_vars(StartListeningForEvents)
  /\ WF_vars(DoMessageQueue) /\ WF_vars(BatchEnds)
  /\ \A m \in Messages : WF_vars(MinutePasses(m))
  /\ \A i \in 1..MaxSends : WF_vars(i \in Awaited /\ SendStep(i))
FairSpec == Spec /\ Fairness

-----------------------------------------------------------------------------
(* A receiver gets a message more than once only when a send of it timed   *)
(* out and went on, or succeeded and could not be recorded: never because  *)
(* of two batches, of the trigger that stays set, or of what users do.     *)
PostedOnce == \A m \in Messages : posted[m] <= 1 + trouble[m]

Blocked(m) == message[m].flags \cap {"hold", "errorFatal", "retryOver"} # {}

(* The messages that are skipped stay in the query, and fill a batch.      *)
Crowded == Cardinality({m \in ToSend : Skipped(m)}) >= Limit

(* A message that was queued is tried, even when it is queued while a      *)
(* batch is under way or does not fit in it; unless it is held, or too     *)
(* old, or its change was missed for want of a stream, or skipped messages *)
(* fill every batch.                                                       *)
EveryMessageTried ==
  <>[](\A m \in Messages :
         message[m].state = "unsent" =>
           "tried" \in message[m].flags \/ Blocked(m) \/ missed \/ Crowded)
=============================================================================
