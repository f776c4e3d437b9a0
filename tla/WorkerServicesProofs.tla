--------------------------- MODULE WorkerServicesProofs ---------------------------
(***************************************************************************)
(* Proofs about the components of WorkerServices: the external messages,   *)
(* for every set of messages, every size of batch and every number of      *)
(* sends, failures and edits; and the life of a thread, for every          *)
(* configuration and every number of jobs, changes and faults.             *)
(***************************************************************************)
EXTENDS WorkerServices, NaturalLemmas

Message == [state : External!States, flags : SUBSET External!Flags]
Send == [of : Messages, state : External!SendStates, awaited : BOOLEAN]

Bit(b) == IF b THEN 1 ELSE 0

LEMMA BitOrder ==
  ASSUME NEW a, NEW b, a => b
  PROVE  Bit(a) <= Bit(b)
BY DEF Bit

LEMMA BitType == \A b : Bit(b) \in 0..1
BY DEF Bit

Open == {"absent", "unsent"}
BeforePost == {"starting", "posting"}

(* The sends of a message that have posted it, or never will.              *)
Past(s, m) == {i \in DOMAIN s : s[i].of = m /\ s[i].state \notin BeforePost}

(* The sends that were given up and may post all the same.                 *)
Loose(s, m) ==
  {i \in DOMAIN s : s[i].of = m /\ ~s[i].awaited /\ s[i].state \in BeforePost}

(* Whether the message may be posted by a batch: the one that is under     *)
(* way, or the next one, which finds it unsent.                            *)
MayPost(s, where, m) ==
  \/ \E i \in DOMAIN s : s[i].of = m /\ s[i].awaited /\ s[i].state \in BeforePost
  \/ /\ where \in Open
     /\ \A i \in DOMAIN s : s[i].of = m /\ s[i].awaited => s[i].state # "recording"

MessageFlags ==
  /\ changesStream \in BOOLEAN /\ changed \in BOOLEAN /\ triggerTimeout \in BOOLEAN
  /\ batchRunning \in BOOLEAN /\ missed \in BOOLEAN /\ probablyHasMoreToSend \in BOOLEAN

MessageCounts ==
  /\ posted \in [Messages -> Nat] /\ trouble \in [Messages -> Nat]
  /\ messageFaults \in 0..MaxFailures /\ edits \in 0..MaxEdits
  /\ \A m \in Messages : trouble[m] <= messageFaults

MessageSends == sends \in Seq(Send) /\ Len(sends) <= MaxSends

(* A batch has one send for a message, and there is one batch at a time.   *)
OneBatch ==
  /\ \A i, k \in DOMAIN sends :
       sends[i].awaited /\ sends[k].awaited /\ sends[i].of = sends[k].of => i = k
  /\ ~batchRunning => \A i \in DOMAIN sends : ~sends[i].awaited

PostsCounted == \A m \in Messages : posted[m] <= Cardinality(Past(sends, m))

(* What was posted and what may still be posted is one for the message,    *)
(* and one for each trouble.                                               *)
Credit ==
  \A m \in Messages :
    posted[m] + Cardinality(Loose(sends, m)) + Bit(MayPost(sends, message[m].state, m))
      <= 1 + trouble[m]

MessagesInv ==
  /\ message \in [Messages -> Message] /\ MessageFlags /\ MessageCounts /\ MessageSends
  /\ OneBatch /\ PostsCounted /\ Credit

-----------------------------------------------------------------------------
LEMMA SendSets ==
  ASSUME NEW s \in Seq(Send), NEW m
  PROVE  /\ IsFiniteSet(Past(s, m)) /\ Cardinality(Past(s, m)) \in Nat
         /\ Cardinality(Past(s, m)) <= Len(s)
         /\ IsFiniteSet(Loose(s, m)) /\ Cardinality(Loose(s, m)) \in Nat
<1>1. Len(s) \in Nat /\ DOMAIN s = 1..Len(s)
  BY LenProperties
<1>2. IsFiniteSet(1..Len(s)) /\ Cardinality(1..Len(s)) = Len(s)
  BY <1>1, FS_Interval
<1>3. Past(s, m) \in SUBSET (1..Len(s)) /\ Loose(s, m) \in SUBSET (1..Len(s))
  BY <1>1 DEF Past, Loose
<1> QED BY <1>2, <1>3, FS_Subset, FS_CardinalityType

(* With an element and without it.                                         *)
LEMMA OneElement ==
  ASSUME NEW A, IsFiniteSet(A), NEW x
  PROVE  /\ Cardinality(A) \in Nat
         /\ Cardinality(A \cup {x}) + Bit(x \in A) = Cardinality(A) + 1
         /\ Cardinality(A \ {x}) + Bit(x \in A) = Cardinality(A)
<1>1. Cardinality(A) \in Nat
  BY FS_CardinalityType
<1>2. /\ Cardinality(A \cup {x}) = IF x \in A THEN Cardinality(A) ELSE Cardinality(A) + 1
      /\ Cardinality(A \ {x}) = IF x \in A THEN Cardinality(A) - 1 ELSE Cardinality(A)
  BY FS_AddElement, FS_RemoveElement
<1> QED BY <1>1, <1>2 DEF Bit

Changed(s, i, state, awaited) ==
  [s EXCEPT ![i] = [of |-> s[i].of, state |-> state, awaited |-> awaited]]

(* One send changes: nothing else does.                                    *)
LEMMA ChangedSend ==
  ASSUME NEW s \in Seq(Send), NEW i \in DOMAIN s, NEW state \in External!SendStates, NEW awaited \in BOOLEAN
  PROVE  LET t == Changed(s, i, state, awaited)
         IN  /\ t \in Seq(Send) /\ Len(t) = Len(s) /\ DOMAIN t = DOMAIN s
             /\ t[i].of = s[i].of /\ t[i].state = state /\ t[i].awaited = awaited
             /\ \A k \in DOMAIN s : k # i => t[k] = s[k]
<1>1. DOMAIN s = 1..Len(s) /\ Len(s) \in Nat /\ s[i] \in Send
  BY LenProperties, ElementOfSeq
<1>2. [of |-> s[i].of, state |-> state, awaited |-> awaited] \in Send
  BY <1>1 DEF Send
<1>3. Changed(s, i, state, awaited) \in Seq(Send)
        /\ Len(Changed(s, i, state, awaited)) = Len(s)
  BY <1>1, <1>2, ExceptSeq DEF Changed
<1> QED BY <1>1, <1>2, <1>3 DEF Changed

LEMMA ChangedCounts ==
  ASSUME NEW s \in Seq(Send), NEW i \in DOMAIN s, NEW state \in External!SendStates,
         NEW awaited \in BOOLEAN,
         NEW m
  PROVE  LET t == Changed(s, i, state, awaited)
         IN  /\ s[i].of # m => Past(t, m) = Past(s, m) /\ Loose(t, m) = Loose(s, m)
             /\ s[i].of = m =>
                  /\ Cardinality(Loose(t, m)) + Bit(~s[i].awaited /\ s[i].state \in BeforePost)
                       = Cardinality(Loose(s, m)) + Bit(~awaited /\ state \in BeforePost)
                  /\ Cardinality(Past(t, m)) + Bit(s[i].state \notin BeforePost)
                       = Cardinality(Past(s, m)) + Bit(state \notin BeforePost)
<1> DEFINE t == Changed(s, i, state, awaited)
<1>1. /\ t \in Seq(Send) /\ DOMAIN t = DOMAIN s
      /\ t[i].of = s[i].of /\ t[i].state = state /\ t[i].awaited = awaited
      /\ \A k \in DOMAIN s : k # i => t[k] = s[k]
  BY ChangedSend
<1> HIDE DEF t
<1>2. s[i].of # m => Past(t, m) = Past(s, m) /\ Loose(t, m) = Loose(s, m)
  BY <1>1 DEF Past, Loose
<1>3. ASSUME s[i].of = m
      PROVE  /\ Cardinality(Loose(t, m)) + Bit(~s[i].awaited /\ s[i].state \in BeforePost)
                  = Cardinality(Loose(s, m)) + Bit(~awaited /\ state \in BeforePost)
             /\ Cardinality(Past(t, m)) + Bit(s[i].state \notin BeforePost)
                  = Cardinality(Past(s, m)) + Bit(state \notin BeforePost)
  <2>1. /\ i \in Loose(s, m) <=> ~s[i].awaited /\ s[i].state \in BeforePost
        /\ i \in Loose(t, m) <=> ~awaited /\ state \in BeforePost
        /\ i \in Past(s, m) <=> s[i].state \notin BeforePost
        /\ i \in Past(t, m) <=> state \notin BeforePost
    BY <1>1, <1>3 DEF Loose, Past
  <2>2. /\ \/ i \in Loose(t, m) /\ Loose(t, m) = Loose(s, m) \cup {i}
           \/ i \notin Loose(t, m) /\ Loose(t, m) = Loose(s, m) \ {i}
        /\ \/ i \in Past(t, m) /\ Past(t, m) = Past(s, m) \cup {i}
           \/ i \notin Past(t, m) /\ Past(t, m) = Past(s, m) \ {i}
    BY <1>1, <1>3 DEF Loose, Past
  <2>3. /\ Cardinality(Loose(t, m)) + Bit(i \in Loose(s, m))
             = Cardinality(Loose(s, m)) + Bit(i \in Loose(t, m))
        /\ Cardinality(Past(t, m)) + Bit(i \in Past(s, m))
             = Cardinality(Past(s, m)) + Bit(i \in Past(t, m))
    <3> DEFINE L == Loose(s, m)
               M == Loose(t, m)
               P == Past(s, m)
               Q == Past(t, m)
    <3>1. IsFiniteSet(L) /\ IsFiniteSet(P)
      BY SendSets
    <3>2. /\ \/ i \in M /\ M = L \cup {i}
             \/ i \notin M /\ M = L \ {i}
          /\ \/ i \in Q /\ Q = P \cup {i}
             \/ i \notin Q /\ Q = P \ {i}
      BY <2>2
    <3> HIDE DEF L, M, P, Q
    <3>3. /\ Cardinality(L) \in Nat
          /\ Cardinality(L \cup {i}) + Bit(i \in L) = Cardinality(L) + 1
          /\ Cardinality(L \ {i}) + Bit(i \in L) = Cardinality(L)
      BY <3>1, OneElement
    <3>4. /\ Cardinality(P) \in Nat
          /\ Cardinality(P \cup {i}) + Bit(i \in P) = Cardinality(P) + 1
          /\ Cardinality(P \ {i}) + Bit(i \in P) = Cardinality(P)
      BY <3>1, OneElement
    <3>5. Cardinality(M) + Bit(i \in L) = Cardinality(L) + Bit(i \in M)
      <4>1. \/ i \in M /\ Cardinality(M) = Cardinality(L \cup {i})
            \/ i \notin M /\ Cardinality(M) = Cardinality(L \ {i})
        BY <3>2, Zenon
      <4> QED BY <3>3, <4>1 DEF Bit
    <3>6. Cardinality(Q) + Bit(i \in P) = Cardinality(P) + Bit(i \in Q)
      <4>1. \/ i \in Q /\ Cardinality(Q) = Cardinality(P \cup {i})
            \/ i \notin Q /\ Cardinality(Q) = Cardinality(P \ {i})
        BY <3>2, Zenon
      <4> QED BY <3>4, <4>1 DEF Bit
    <3> QED BY <3>5, <3>6 DEF L, M, P, Q
  <2> QED BY <2>1, <2>3 DEF Bit
<1> QED BY <1>2, <1>3 DEF t
-----------------------------------------------------------------------------
(* Where messages stand: none becomes unsent again.                        *)
MessagesMove ==
  /\ message' \in [Messages -> Message]
  /\ \A m \in Messages : message'[m].state \in Open => message[m].state \in Open

LEMMA UpdateMoves ==
  ASSUME message \in [Messages -> Message], NEW m \in Messages, NEW on \in SUBSET External!Flags, NEW off,
         External!Update(m, on, off)
  PROVE  MessagesMove /\ \A k \in Messages : message'[k].state = message[k].state
BY DEF Message, External!Update, External!Write, MessagesMove

(* To, and the end of waiting, as the change of one send.                  *)
LEMMA ToChanges ==
  ASSUME MessageSends, NEW i \in DOMAIN sends, NEW state \in External!SendStates, External!To(i, state)
  PROVE  sends' = Changed(sends, i, state, sends[i].awaited /\ state # "ended")
<1>1. sends[i] \in Send /\ DOMAIN sends = 1..Len(sends)
  BY LenProperties, ElementOfSeq DEF MessageSends
<1>2. sends[i] = [of |-> sends[i].of, state |-> sends[i].state, awaited |-> sends[i].awaited]
  BY <1>1 DEF Send
<1> DEFINE still == sends[i].awaited /\ state # "ended"
<1>3. still \in BOOLEAN
  BY <1>1 DEF Send
<1>4. sends' = [sends EXCEPT ![i].state = state, ![i].awaited = still]
  BY DEF External!To
<1> HIDE DEF still
<1>5. [[sends[i] EXCEPT !.state = state] EXCEPT !.awaited = still]
        = [of |-> sends[i].of, state |-> state, awaited |-> still]
  <2> DEFINE a == sends[i].of
             b == sends[i].state
             c == sends[i].awaited
  <2>1. sends[i] = [of |-> a, state |-> b, awaited |-> c]
    BY <1>2
  <2> HIDE DEF a, b, c
  <2>2. /\ [[of |-> a, state |-> b, awaited |-> c] EXCEPT !.state = state]
             = [of |-> a, state |-> state, awaited |-> c]
        /\ [[of |-> a, state |-> state, awaited |-> c] EXCEPT !.awaited = still]
             = [of |-> a, state |-> state, awaited |-> still]
    OBVIOUS
  <2>3. [[sends[i] EXCEPT !.state = state] EXCEPT !.awaited = still]
          = [of |-> a, state |-> state, awaited |-> still]
    BY <2>1, <2>2, Zenon
  <2> QED BY <2>3 DEF a
<1>6. sends' = [sends EXCEPT ![i] = [[sends[i] EXCEPT !.state = state] EXCEPT !.awaited = still]]
  BY <1>1, <1>4 DEF MessageSends
<1>7. sends' = Changed(sends, i, state, still)
  BY <1>5, <1>6, Zenon DEF Changed
<1> QED BY <1>7 DEF still

(* One send goes on: what it does to the counts of its message decides.    *)
LEMMA OneSendGoesOn ==
  ASSUME MessagesInv, MessagesMove,
         NEW i \in DOMAIN sends, NEW state \in External!SendStates, NEW awaited \in BOOLEAN,
         sends' = Changed(sends, i, state, awaited),
         awaited => sends[i].awaited, batchRunning' = batchRunning,
         posted' \in [Messages -> Nat], trouble' \in [Messages -> Nat],
         \A m \in Messages : m # sends[i].of => posted'[m] = posted[m] /\ trouble'[m] = trouble[m],
         posted'[sends[i].of] + Bit(sends[i].state \notin BeforePost)
           <= posted[sends[i].of] + Bit(state \notin BeforePost),
         LET m == sends[i].of
         IN  posted'[m] + Bit(~awaited /\ state \in BeforePost)
               + Bit(MayPost(sends', message'[m].state, m)) + trouble[m]
             <= posted[m] + Bit(~sends[i].awaited /\ sends[i].state \in BeforePost)
               + Bit(MayPost(sends, message[m].state, m)) + trouble'[m]
  PROVE  MessageSends' /\ OneBatch' /\ PostsCounted' /\ Credit'
<1> DEFINE of == sends[i].of
<1>1. sends \in Seq(Send) /\ Len(sends) <= MaxSends /\ DOMAIN sends = 1..Len(sends)
  BY LenProperties DEF MessagesInv, MessageSends
<1>2. /\ sends' \in Seq(Send) /\ Len(sends') = Len(sends) /\ DOMAIN sends' = DOMAIN sends
      /\ sends'[i].of = of /\ sends'[i].state = state /\ sends'[i].awaited = awaited
      /\ \A k \in DOMAIN sends : k # i => sends'[k] = sends[k]
  BY <1>1, ChangedSend
<1>3. of \in Messages
  <2>1. sends[i] \in Send
    BY <1>1, ElementOfSeq
  <2> QED BY <2>1 DEF Send
<1>4. MessageSends'
  BY <1>1, <1>2 DEF MessageSends
<1>5. OneBatch'
  <2>1. \A k \in DOMAIN sends : /\ sends'[k].of = sends[k].of
                                  /\ sends'[k].awaited => sends[k].awaited
    BY <1>2
  <2>2. \A j, k \in DOMAIN sends' :
          sends'[j].awaited /\ sends'[k].awaited /\ sends'[j].of = sends'[k].of => j = k
    BY <1>2, <2>1 DEF MessagesInv, OneBatch
  <2>3. ASSUME ~batchRunning, NEW k \in DOMAIN sends'
        PROVE  ~sends'[k].awaited
    BY <1>2, <2>1, <2>3 DEF MessagesInv, OneBatch
  <2> QED BY <2>2, <2>3 DEF OneBatch
<1>6. ASSUME NEW m \in Messages
      PROVE  /\ Cardinality(Past(sends, m)) \in Nat /\ Cardinality(Past(sends', m)) \in Nat
             /\ Cardinality(Loose(sends, m)) \in Nat /\ Cardinality(Loose(sends', m)) \in Nat
             /\ posted[m] \in Nat /\ posted'[m] \in Nat /\ trouble[m] \in Nat /\ trouble'[m] \in Nat
  BY <1>1, <1>2, SendSets DEF MessagesInv, MessageCounts
<1>7. ASSUME NEW m \in Messages, m # of
      PROVE  /\ Past(sends', m) = Past(sends, m) /\ Loose(sends', m) = Loose(sends, m)
             /\ MayPost(sends', message'[m].state, m) => MayPost(sends, message[m].state, m)
  <2>1. Past(sends', m) = Past(sends, m) /\ Loose(sends', m) = Loose(sends, m)
    BY <1>1, <1>7, ChangedCounts
  <2>2. MayPost(sends', message'[m].state, m) => MayPost(sends, message[m].state, m)
    <3>1. \A k \in DOMAIN sends :
            \/ sends'[k].of # m /\ sends[k].of # m
            \/ sends'[k] = sends[k]
      BY <1>2, <1>7
    <3>2. message'[m].state \in Open => message[m].state \in Open
      BY DEF MessagesMove
    <3> QED BY <1>2, <3>1, <3>2 DEF MayPost
  <2> QED BY <2>1, <2>2
<1>8. /\ Cardinality(Loose(sends', of)) + Bit(~sends[i].awaited /\ sends[i].state \in BeforePost)
           = Cardinality(Loose(sends, of)) + Bit(~awaited /\ state \in BeforePost)
      /\ Cardinality(Past(sends', of)) + Bit(sends[i].state \notin BeforePost)
           = Cardinality(Past(sends, of)) + Bit(state \notin BeforePost)
  BY <1>1, <1>3, ChangedCounts
<1>9. ASSUME NEW m \in Messages
      PROVE  posted'[m] <= Cardinality(Past(sends', m))
  <2>1. posted[m] <= Cardinality(Past(sends, m))
    BY DEF MessagesInv, PostsCounted
  <2>2. CASE m = of
    BY <2>1, <2>2, <1>6, <1>8 DEF Bit
  <2>3. CASE m # of
    BY <2>1, <2>3, <1>7
  <2> QED BY <2>2, <2>3
<1>10. ASSUME NEW m \in Messages
       PROVE  posted'[m] + Cardinality(Loose(sends', m)) + Bit(MayPost(sends', message'[m].state, m))
                <= 1 + trouble'[m]
  <2> DEFINE was == Bit(MayPost(sends, message[m].state, m))
             is == Bit(MayPost(sends', message'[m].state, m))
             wasLoose == Bit(~sends[i].awaited /\ sends[i].state \in BeforePost)
             isLoose == Bit(~awaited /\ state \in BeforePost)
  <2>1. posted[m] + Cardinality(Loose(sends, m)) + was <= 1 + trouble[m]
    BY DEF MessagesInv, Credit
  <2>2. was \in 0..1 /\ is \in 0..1 /\ wasLoose \in 0..1 /\ isLoose \in 0..1
    BY DEF Bit
  <2>3. CASE m = of
    <3>1. posted'[m] + isLoose + is + trouble[m] <= posted[m] + wasLoose + was + trouble'[m]
      BY <2>3
    <3>2. Cardinality(Loose(sends', m)) + wasLoose = Cardinality(Loose(sends, m)) + isLoose
      BY <1>8, <2>3
    <3> HIDE DEF was, is, wasLoose, isLoose
    <3>3. posted'[m] + Cardinality(Loose(sends', m)) + is <= 1 + trouble'[m]
      BY <2>1, <2>2, <3>1, <3>2, <1>6
    <3> QED BY <3>3 DEF is
  <2>4. CASE m # of
    <3>1. Loose(sends', m) = Loose(sends, m) /\ posted'[m] = posted[m] /\ trouble'[m] = trouble[m]
      BY <1>7, <2>4
    <3>2. is <= was
      BY <1>7, <2>4 DEF Bit
    <3>3. Cardinality(Loose(sends', m)) = Cardinality(Loose(sends, m))
      BY <3>1, Zenon
    <3> HIDE DEF was, is
    <3>4. posted'[m] + Cardinality(Loose(sends', m)) + is <= 1 + trouble'[m]
      BY <2>1, <2>2, <3>1, <3>2, <3>3, <1>6
    <3> QED BY <3>4 DEF is
  <2> QED BY <2>3, <2>4
<1> QED BY <1>4, <1>5, <1>9, <1>10 DEF PostsCounted, Credit
(* Of the one send of a message a batch waits for, all depends.            *)
LEMMA MayPostChanges ==
  ASSUME MessagesInv, MessagesMove,
         NEW i \in DOMAIN sends, NEW state \in External!SendStates, NEW awaited \in BOOLEAN,
         sends' = Changed(sends, i, state, awaited), awaited => sends[i].awaited
  PROVE  LET m == sends[i].of
             was == MayPost(sends, message[m].state, m)
             is == MayPost(sends', message'[m].state, m)
         IN  /\ ~sends[i].awaited => (is => was)
             /\ sends[i].awaited =>
                  /\ was <=> \/ sends[i].state \in BeforePost
                             \/ message[m].state \in Open /\ sends[i].state # "recording"
                  /\ is <=> \/ awaited /\ state \in BeforePost
                            \/ message'[m].state \in Open /\ (awaited => state # "recording")
<1> DEFINE m == sends[i].of
           was == MayPost(sends, message[m].state, m)
           is == MayPost(sends', message'[m].state, m)
<1>1. sends \in Seq(Send) /\ DOMAIN sends = 1..Len(sends)
  BY LenProperties DEF MessagesInv, MessageSends
<1>2. /\ DOMAIN sends' = DOMAIN sends
      /\ sends'[i].of = m /\ sends'[i].state = state /\ sends'[i].awaited = awaited
      /\ \A k \in DOMAIN sends : k # i => sends'[k] = sends[k]
  BY <1>1, ChangedSend
<1>3. m \in Messages
  <2>1. sends[i] \in Send
    BY <1>1, ElementOfSeq
  <2> QED BY <2>1 DEF Send
<1>4. message'[m].state \in Open => message[m].state \in Open
  BY <1>3 DEF MessagesMove
<1>5. ASSUME ~sends[i].awaited
      PROVE  is => was
  BY <1>2, <1>4, <1>5 DEF MayPost
<1>6. ASSUME sends[i].awaited
      PROVE  /\ was <=> \/ sends[i].state \in BeforePost
                        \/ message[m].state \in Open /\ sends[i].state # "recording"
             /\ is <=> \/ awaited /\ state \in BeforePost
                       \/ message'[m].state \in Open /\ (awaited => state # "recording")
  <2>1. \A k \in DOMAIN sends : sends[k].awaited /\ sends[k].of = m => k = i
    BY <1>6 DEF MessagesInv, OneBatch
  <2>2. was <=> \/ sends[i].state \in BeforePost
                \/ message[m].state \in Open /\ sends[i].state # "recording"
    BY <2>1, <1>6 DEF MayPost
  <2>3. \A k \in DOMAIN sends' : sends'[k].awaited /\ sends'[k].of = m => k = i
    BY <2>1, <1>2
  <2>4. is <=> \/ awaited /\ state \in BeforePost
               \/ message'[m].state \in Open /\ (awaited => state # "recording")
    BY <2>3, <1>2 DEF MayPost
  <2> QED BY <2>2, <2>4
<1> QED BY <1>5, <1>6

SendsKept == MessageSends' /\ OneBatch' /\ PostsCounted' /\ Credit'

LEMMA SendOf ==
  ASSUME MessageSends, NEW i \in DOMAIN sends
  PROVE  sends[i].of \in Messages /\ sends[i].state \in External!SendStates /\ sends[i].awaited \in BOOLEAN
<1>1. sends[i] \in Send
  BY ElementOfSeq, LenProperties DEF MessageSends
<1> QED BY <1>1 DEF Send

(* The steps of a send that change neither what was posted nor what was    *)
(* counted as trouble, and do not pass the post.                           *)
LEMMA QuietSendStep ==
  ASSUME MessagesInv, MessagesMove, NEW i \in DOMAIN sends, NEW state \in External!SendStates,
         External!To(i, state),
         UNCHANGED <<batchRunning, posted, trouble>>,
         \/ sends[i].state \in BeforePost /\ sends[i].state # "recording" /\ state # "recording"
         \/ sends[i].state \in {"failing", "failingFatally"} /\ state = "ended"
         \/ sends[i].state = "recording" /\ state = "ended" /\ message'[sends[i].of].state \notin Open
  PROVE  SendsKept
<1> DEFINE m == sends[i].of
           awaited == sends[i].awaited /\ state # "ended"
           was == MayPost(sends, message[m].state, m)
           is == MayPost(sends', message'[m].state, m)
<1>1. m \in Messages /\ sends[i].state \in External!SendStates /\ sends[i].awaited \in BOOLEAN
        /\ awaited \in BOOLEAN
  BY SendOf DEF MessagesInv
<1>2. sends' = Changed(sends, i, state, awaited) /\ (awaited => sends[i].awaited)
  BY ToChanges DEF MessagesInv
<1>3. /\ ~sends[i].awaited => (is => was)
      /\ sends[i].awaited =>
           /\ was <=> \/ sends[i].state \in BeforePost
                      \/ message[m].state \in Open /\ sends[i].state # "recording"
           /\ is <=> \/ awaited /\ state \in BeforePost
                     \/ message'[m].state \in Open /\ (awaited => state # "recording")
  BY <1>1, <1>2, MayPostChanges
<1>4. message'[m].state \in Open => message[m].state \in Open
  BY <1>1 DEF MessagesMove
<1>5. is => was
  BY <1>1, <1>3, <1>4 DEF BeforePost, External!SendStates
<1>6. /\ state \in BeforePost => sends[i].state \in BeforePost
      /\ ~awaited /\ state \in BeforePost => ~sends[i].awaited /\ sends[i].state \in BeforePost
      /\ posted[m] \in Nat /\ trouble[m] \in Nat
  BY <1>1 DEF BeforePost, External!SendStates, MessagesInv, MessageCounts
<1>7. Bit(is) <= Bit(was)
  BY <1>5, BitOrder
<1>8. /\ Bit(sends[i].state \notin BeforePost) <= Bit(state \notin BeforePost)
      /\ Bit(~awaited /\ state \in BeforePost)
           <= Bit(~sends[i].awaited /\ sends[i].state \in BeforePost)
  BY <1>6, BitOrder
<1>9. posted' \in [Messages -> Nat] /\ trouble' \in [Messages -> Nat]
  BY DEF MessagesInv, MessageCounts
<1> DEFINE past == Bit(sends[i].state \notin BeforePost)
           willPast == Bit(state \notin BeforePost)
           loose == Bit(~sends[i].awaited /\ sends[i].state \in BeforePost)
           willLoose == Bit(~awaited /\ state \in BeforePost)
           may == Bit(was)
           willMay == Bit(is)
<1>10. /\ past \in Nat /\ willPast \in Nat /\ loose \in Nat /\ willLoose \in Nat
       /\ may \in Nat /\ willMay \in Nat
       /\ willMay <= may /\ past <= willPast /\ willLoose <= loose
       /\ posted'[m] = posted[m] /\ trouble'[m] = trouble[m]
  BY <1>7, <1>8, BitType
<1>11. /\ posted'[m] + past <= posted[m] + willPast
       /\ posted'[m] + willLoose + willMay + trouble[m]
            <= posted[m] + loose + may + trouble'[m]
  <2> HIDE DEF m, past, willPast, loose, willLoose, may, willMay
  <2> QED BY <1>6, <1>10
<1> QED BY <1>1, <1>2, <1>9, <1>11, OneSendGoesOn DEF SendsKept
(* The post itself: it was counted before, as one that may be.             *)
LEMMA PostStep ==
  ASSUME MessagesInv, MessagesMove, NEW i \in DOMAIN sends,
         External!Posts(i)
  PROVE  SendsKept
<1> DEFINE m == sends[i].of
           awaited == sends[i].awaited
           was == MayPost(sends, message[m].state, m)
           is == MayPost(sends', message'[m].state, m)
<1>1. m \in Messages /\ sends[i].awaited \in BOOLEAN /\ sends[i].state = "posting"
        /\ "recording" \in External!SendStates
  BY SendOf DEF MessagesInv, External!Posts, External!SendStates
<1>2. sends' = Changed(sends, i, "recording", awaited)
  <2>1. External!To(i, "recording") /\ (awaited /\ "recording" # "ended") = awaited
    BY <1>1 DEF External!Posts
  <2> QED BY <1>1, <2>1, ToChanges DEF MessagesInv
<1>3. /\ ~awaited => (is => was)
      /\ awaited => was /\ ~is
  BY <1>1, <1>2, MayPostChanges DEF BeforePost
<1>4. /\ posted' \in [Messages -> Nat] /\ trouble' \in [Messages -> Nat]
      /\ posted[m] \in Nat /\ trouble[m] \in Nat
      /\ posted'[m] = posted[m] + 1 /\ trouble'[m] = trouble[m]
      /\ \A k \in Messages : k # m => posted'[k] = posted[k] /\ trouble'[k] = trouble[k]
      /\ batchRunning' = batchRunning
  BY <1>1 DEF External!Posts, External!SendFrame, MessagesInv, MessageCounts
<1>5. "posting" \in BeforePost /\ "recording" \notin BeforePost
  BY DEF BeforePost
<1>6. Bit(was) \in Nat /\ Bit(is) \in Nat /\ (~awaited => Bit(is) <= Bit(was))
        /\ (awaited => Bit(was) = 1 /\ Bit(is) = 0)
  BY <1>3, BitType, BitOrder DEF Bit
<1>7. posted'[m] + Bit(sends[i].state \notin BeforePost)
        <= posted[m] + Bit("recording" \notin BeforePost)
  BY <1>1, <1>4, <1>5 DEF Bit
<1>8. posted'[m] + Bit(~awaited /\ "recording" \in BeforePost) + Bit(is) + trouble[m]
        <= posted[m] + Bit(~sends[i].awaited /\ sends[i].state \in BeforePost)
             + Bit(was) + trouble'[m]
  <2> DEFINE may == Bit(was)
             willMay == Bit(is)
  <2>1. Bit(~awaited /\ "recording" \in BeforePost) = 0
    BY <1>5 DEF Bit
  <2>2. Bit(~sends[i].awaited /\ sends[i].state \in BeforePost) = IF awaited THEN 0 ELSE 1
    BY <1>1, <1>5 DEF Bit
  <2> HIDE DEF may, willMay
  <2>3. posted'[m] + 0 + willMay + trouble[m]
          <= posted[m] + (IF awaited THEN 0 ELSE 1) + may + trouble'[m]
    BY <1>4, <1>6 DEF may, willMay
  <2> QED BY <2>1, <2>2, <2>3 DEF may, willMay
<1> QED BY <1>1, <1>2, <1>4, <1>7, <1>8, OneSendGoesOn DEF SendsKept

(* What counts as trouble allows for one post more.                        *)
LEMMA TroubledStep ==
  ASSUME MessagesInv, MessagesMove, NEW i \in DOMAIN sends,
         NEW state \in External!SendStates, NEW awaited \in BOOLEAN,
         sends' = Changed(sends, i, state, awaited), awaited => sends[i].awaited,
         batchRunning' = batchRunning, posted' = posted,
         trouble' = [trouble EXCEPT ![sends[i].of] = @ + 1],
         \/ sends[i].awaited /\ state = sends[i].state
         \/ sends[i].state \notin BeforePost /\ state \notin BeforePost
  PROVE  SendsKept
<1> DEFINE m == sends[i].of
           was == MayPost(sends, message[m].state, m)
           is == MayPost(sends', message'[m].state, m)
<1>1. m \in Messages /\ sends[i].awaited \in BOOLEAN
  BY SendOf DEF MessagesInv
<1>2. /\ ~sends[i].awaited => (is => was)
      /\ sends[i].awaited => (sends[i].state \in BeforePost => was)
  BY <1>1, MayPostChanges
<1>3. /\ posted' \in [Messages -> Nat] /\ trouble' \in [Messages -> Nat]
      /\ posted[m] \in Nat /\ trouble[m] \in Nat
      /\ posted'[m] = posted[m] /\ trouble'[m] = trouble[m] + 1
      /\ \A k \in Messages : k # m => posted'[k] = posted[k] /\ trouble'[k] = trouble[k]
  BY <1>1 DEF MessagesInv, MessageCounts
<1> DEFINE past == Bit(sends[i].state \notin BeforePost)
           willPast == Bit(state \notin BeforePost)
           loose == Bit(~sends[i].awaited /\ sends[i].state \in BeforePost)
           willLoose == Bit(~awaited /\ state \in BeforePost)
           may == Bit(was)
           willMay == Bit(is)
<1>4. /\ past \in 0..1 /\ willPast \in 0..1 /\ loose \in 0..1 /\ willLoose \in 0..1
      /\ may \in 0..1 /\ willMay \in 0..1
  BY BitType
<1>5. past <= willPast
  BY BitOrder
<1>6. willLoose = 0 \/ may = 1
  <2>1. CASE state \notin BeforePost
    BY <2>1 DEF Bit
  <2>2. CASE state \in BeforePost
    BY <1>2, <2>2 DEF Bit
  <2> QED BY <2>1, <2>2
<1>7. /\ posted'[m] + past <= posted[m] + willPast
      /\ posted'[m] + willLoose + willMay + trouble[m]
           <= posted[m] + loose + may + trouble'[m]
  <2> HIDE DEF m, past, willPast, loose, willLoose, may, willMay
  <2> QED BY <1>3, <1>4, <1>5, <1>6
<1> QED BY <1>1, <1>3, <1>7, OneSendGoesOn DEF SendsKept
-----------------------------------------------------------------------------
(* A batch starts when no other is under way, with unsent messages.        *)
(* The module's cardinality is the one that the theorems are about.        *)
LEMMA SameCardinality == \A S : External!Cardinality(S) = Cardinality(S)
BY DEF External!Cardinality, Cardinality

LEMMA SameFiniteness == \A S : External!IsFiniteSet(S) = IsFiniteSet(S)
BY DEF External!IsFiniteSet, IsFiniteSet

LEMMA BatchStep ==
  ASSUME External!MessagesAssumption, MessagesInv, ~batchRunning, External!StartBatch, message' = message,
         posted' = posted, trouble' = trouble
  PROVE  SendsKept
<1>1. PICK b \in External!Batches :
        LET started == {m \in b : ~External!Skipped(m)} IN
        /\ Len(sends) + Cardinality(started) <= MaxSends
        /\ \E s \in External!SendsOf(started) : sends' = sends \o s
        /\ batchRunning' = TRUE
  BY SameCardinality DEF External!StartBatch
<1> DEFINE started == {m \in b : ~External!Skipped(m)}
           n == Cardinality(started)
<1>2. /\ \A m \in started : m \in Messages /\ message[m].state = "unsent"
      /\ IsFiniteSet(started) /\ n \in Nat
  <2>1. started \in SUBSET Messages /\ \A m \in started : message[m].state = "unsent"
    BY DEF External!Batches, External!ToSend
  <2> QED BY <2>1, FS_Subset, FS_CardinalityType, SameFiniteness DEF External!MessagesAssumption
<1>3. PICK s \in External!SendsOf(started) : sends' = sends \o s
  BY <1>1
<1>4. /\ s \in [1..n -> [of : started, state : {"starting"}, awaited : {TRUE}]]
      /\ \A i, k \in 1..n : i # k => s[i].of # s[k].of
  <2>1. n = External!Cardinality(started)
    BY SameCardinality
  <2> HIDE DEF n, started
  <2> QED BY <1>3, <2>1 DEF External!SendsOf
<1> HIDE DEF n, started
<1>5. /\ s \in Seq(Send) /\ Len(s) = n
      /\ \A i \in 1..n : s[i].of \in started /\ s[i].state = "starting" /\ s[i].awaited
  <2>1. \A i \in 1..n : s[i] \in [of : started, state : {"starting"}, awaited : {TRUE}]
    BY <1>4
  <2>2. \A i \in 1..n : s[i].of \in started /\ s[i].state = "starting" /\ s[i].awaited
    BY <2>1
  <2>3. \A i \in 1..n : s[i] \in Send
    BY <1>2, <2>1 DEF Send, External!SendStates
  <2>4. s \in [1..n -> Send]
    BY <1>4, <2>3
  <2>5. s \in Seq(Send) /\ Len(s) = n
    BY <1>2, <2>4
  <2> QED BY <2>2, <2>5
<1>6. sends \in Seq(Send) /\ DOMAIN sends = 1..Len(sends) /\ Len(sends) \in Nat
  BY LenProperties DEF MessagesInv, MessageSends
<1>7. /\ sends' \in Seq(Send) /\ Len(sends') = Len(sends) + n
      /\ DOMAIN sends' = 1..(Len(sends) + n)
      /\ \A i \in 1..Len(sends) : sends'[i] = sends[i]
      /\ \A i \in DOMAIN sends' \ DOMAIN sends : i - Len(sends) \in 1..n
                                                   /\ sends'[i] = s[i - Len(sends)]
  <2>1. /\ sends' \in Seq(Send) /\ Len(sends') = Len(sends) + Len(s)
        /\ \A i \in 1..(Len(sends) + Len(s)) :
             sends'[i] = IF i <= Len(sends) THEN sends[i] ELSE s[i - Len(sends)]
    BY <1>3, <1>5, <1>6, ConcatProperties
  <2>2. DOMAIN sends' = 1..(Len(sends) + n)
    BY <1>5, <2>1, LenProperties
  <2> QED BY <1>2, <1>5, <1>6, <2>1, <2>2
<1>8. \A i \in DOMAIN sends' \ DOMAIN sends :
        /\ sends'[i].of \in started /\ sends'[i].state = "starting" /\ sends'[i].awaited
        /\ \A k \in DOMAIN sends' \ DOMAIN sends : sends'[k].of = sends'[i].of => i = k
  BY <1>4, <1>5, <1>6, <1>7
<1>9. \A i \in DOMAIN sends : ~sends[i].awaited
  BY DEF MessagesInv, OneBatch
<1>10. DOMAIN sends \subseteq DOMAIN sends' /\ \A i \in DOMAIN sends : sends'[i] = sends[i]
  BY <1>2, <1>6, <1>7
<1>11. MessageSends'
  BY <1>1, <1>7 DEF MessageSends, started, n
<1>12. OneBatch'
  <2>1. \A i, k \in DOMAIN sends' :
          sends'[i].awaited /\ sends'[k].awaited /\ sends'[i].of = sends'[k].of => i = k
    BY <1>8, <1>9, <1>10
  <2> QED BY <1>1, <2>1 DEF OneBatch
<1>13. ASSUME NEW m \in Messages
       PROVE  Past(sends', m) = Past(sends, m) /\ Loose(sends', m) = Loose(sends, m)
  <2>1. "starting" \in BeforePost
    BY DEF BeforePost
  <2> QED BY <1>8, <1>10, <2>1 DEF Past, Loose
<1>14. ASSUME NEW m \in Messages
       PROVE  MayPost(sends', message'[m].state, m) => MayPost(sends, message[m].state, m)
  <2>1. CASE m \in started
    BY <1>2, <1>9, <2>1 DEF MayPost, Open
  <2>2. CASE m \notin started
    BY <1>8, <1>9, <1>10, <2>2 DEF MayPost
  <2> QED BY <2>1, <2>2
<1>15. PostsCounted'
  BY <1>13 DEF MessagesInv, PostsCounted
<1>16. ASSUME NEW m \in Messages
       PROVE  posted'[m] + Cardinality(Loose(sends', m)) + Bit(MayPost(sends', message'[m].state, m))
                <= 1 + trouble'[m]
  <2> DEFINE may == Bit(MayPost(sends, message[m].state, m))
             willMay == Bit(MayPost(sends', message'[m].state, m))
  <2>1. willMay <= may /\ may \in Nat /\ willMay \in Nat
    BY <1>14, BitOrder, BitType
  <2>2. posted[m] + Cardinality(Loose(sends, m)) + may <= 1 + trouble[m]
    BY DEF MessagesInv, Credit
  <2>3. Cardinality(Loose(sends, m)) \in Nat /\ posted[m] \in Nat /\ trouble[m] \in Nat
    BY <1>6, SendSets DEF MessagesInv, MessageCounts
  <2>4. Cardinality(Loose(sends', m)) = Cardinality(Loose(sends, m))
    BY <1>13, Zenon
  <2> HIDE DEF may, willMay
  <2>5. posted'[m] + Cardinality(Loose(sends', m)) + willMay <= 1 + trouble'[m]
    BY <2>1, <2>2, <2>3, <2>4
  <2> QED BY <2>5 DEF willMay
<1> QED BY <1>11, <1>12, <1>15, <1>16 DEF SendsKept, Credit

(* What leaves the sends alone.                                            *)
LEMMA QuietStep ==
  ASSUME MessagesInv, MessagesMove, sends' = sends, posted' = posted, trouble' = trouble,
         batchRunning' = batchRunning \/ External!Awaited = {}
  PROVE  SendsKept
<1>1. MessageSends' /\ PostsCounted'
  BY DEF MessagesInv, MessageSends, PostsCounted
<1>2. OneBatch'
  BY DEF MessagesInv, OneBatch, External!Awaited
<1>3. ASSUME NEW m \in Messages
      PROVE  posted[m] + Cardinality(Loose(sends, m)) + Bit(MayPost(sends, message'[m].state, m))
               <= 1 + trouble[m]
  <2> DEFINE may == Bit(MayPost(sends, message[m].state, m))
             willMay == Bit(MayPost(sends, message'[m].state, m))
  <2>1. MayPost(sends, message'[m].state, m) => MayPost(sends, message[m].state, m)
    BY DEF MessagesMove, MayPost
  <2>2. willMay <= may /\ may \in Nat /\ willMay \in Nat
    BY <2>1, BitOrder, BitType
  <2>3. posted[m] + Cardinality(Loose(sends, m)) + may <= 1 + trouble[m]
    BY DEF MessagesInv, Credit
  <2>4. Cardinality(Loose(sends, m)) \in Nat /\ posted[m] \in Nat /\ trouble[m] \in Nat
    BY SendSets DEF MessagesInv, MessageCounts, MessageSends
  <2> HIDE DEF may, willMay
  <2>5. posted[m] + Cardinality(Loose(sends, m)) + willMay <= 1 + trouble[m]
    BY <2>2, <2>3, <2>4
  <2> QED BY <2>5 DEF willMay
<1>4. Credit'
  BY <1>3 DEF Credit
<1> QED BY <1>1, <1>2, <1>4 DEF SendsKept
-----------------------------------------------------------------------------
LEMMA FlagsKept ==
  ASSUME MessagesInv, External!Next
  PROVE  MessageFlags'
<1> USE DEF MessagesInv, MessageFlags, External!SendFrame, External!bounds
<1>1. ASSUME NEW m \in Messages, External!Queued(m) PROVE MessageFlags'
  BY <1>1 DEF External!Queued, External!Write, External!Written
<1>2. ASSUME NEW m \in Messages, External!ToggleHold(m) PROVE MessageFlags'
  BY <1>2 DEF External!ToggleHold, External!Edit, External!Update, External!Write, External!Written
<1>3. ASSUME NEW m \in Messages, External!Retry(m) PROVE MessageFlags'
  BY <1>3 DEF External!Retry, External!Edit, External!Update, External!Write, External!Written
<1>4. ASSUME NEW m \in Messages, External!RemoveExternalMessage(m) PROVE MessageFlags'
  BY <1>4 DEF External!RemoveExternalMessage, External!Edit
<1>5. ASSUME NEW m \in Messages, External!MinutePasses(m) PROVE MessageFlags'
  BY <1>5 DEF External!MinutePasses
<1>6. ASSUME NEW m \in Messages, External!RetryUntilPasses(m) PROVE MessageFlags'
  BY <1>6 DEF External!RetryUntilPasses, External!Edit
<1>7. CASE External!ChangeArrives
  BY <1>7 DEF External!ChangeArrives
<1>8. CASE External!StreamEnds
  BY <1>8 DEF External!StreamEnds
<1>9. CASE External!StartListeningForEvents
  BY <1>9 DEF External!StartListeningForEvents
<1>10. CASE External!DoMessageQueue
  BY <1>10 DEF External!DoMessageQueue, External!StartBatch
<1>11. CASE External!BatchEnds
  BY <1>11 DEF External!BatchEnds
<1>12. ASSUME NEW i \in DOMAIN sends, External!StartsSend(i) PROVE MessageFlags'
  BY <1>12 DEF External!StartsSend, External!Update, External!Write, External!Written
<1>13. ASSUME NEW i \in DOMAIN sends, External!Posts(i) PROVE MessageFlags'
  BY <1>13 DEF External!Posts
<1>14. ASSUME NEW i \in DOMAIN sends, External!RecordsSent(i) PROVE MessageFlags'
  BY <1>14 DEF External!RecordsSent, External!Write, External!Written
<1>15. ASSUME NEW i \in DOMAIN sends, External!LogMessageError(i) PROVE MessageFlags'
  BY <1>15 DEF External!LogMessageError, External!Update, External!Write, External!Written
<1>16. ASSUME NEW i \in DOMAIN sends, External!SendFails(i) PROVE MessageFlags'
  BY <1>16 DEF External!SendFails
<1>17. ASSUME NEW i \in DOMAIN sends, External!SendTimesOut(i) PROVE MessageFlags'
  BY <1>17 DEF External!SendTimesOut, External!Update, External!Write, External!Written
<1> QED BY <1>1, <1>2, <1>3, <1>4, <1>5, <1>6, <1>7, <1>8, <1>9, <1>10, <1>11, <1>12, <1>13,
       <1>14, <1>15, <1>16, <1>17 DEF External!Next, External!SendStep

(* What a send counts as trouble is a fault.                               *)
LEMMA CountsKept ==
  ASSUME External!MessagesAssumption, MessagesInv, External!Next
  PROVE  MessageCounts'
<1> USE DEF External!MessagesAssumption, MessagesInv, MessageCounts, External!SendFrame, External!bounds,
      External!Fault, External!Edit
<1>1. ASSUME NEW m \in Messages, External!Queued(m) PROVE MessageCounts'
  BY <1>1 DEF External!Queued, External!Write, External!Written
<1>2. ASSUME NEW m \in Messages, External!ToggleHold(m) PROVE MessageCounts'
  BY <1>2 DEF External!ToggleHold, External!Edit, External!Update, External!Write, External!Written
<1>3. ASSUME NEW m \in Messages, External!Retry(m) PROVE MessageCounts'
  BY <1>3 DEF External!Retry, External!Edit, External!Update, External!Write, External!Written
<1>4. ASSUME NEW m \in Messages, External!RemoveExternalMessage(m) PROVE MessageCounts'
  BY <1>4 DEF External!RemoveExternalMessage, External!Edit
<1>5. ASSUME NEW m \in Messages, External!MinutePasses(m) PROVE MessageCounts'
  BY <1>5 DEF External!MinutePasses
<1>6. ASSUME NEW m \in Messages, External!RetryUntilPasses(m) PROVE MessageCounts'
  BY <1>6 DEF External!RetryUntilPasses, External!Edit
<1>7. CASE External!ChangeArrives
  BY <1>7 DEF External!ChangeArrives
<1>8. CASE External!StreamEnds
  BY <1>8 DEF External!StreamEnds
<1>9. CASE External!StartListeningForEvents
  BY <1>9 DEF External!StartListeningForEvents
<1>10. CASE External!DoMessageQueue
  BY <1>10 DEF External!DoMessageQueue, External!StartBatch
<1>11. CASE External!BatchEnds
  BY <1>11 DEF External!BatchEnds
<1>12. ASSUME NEW i \in DOMAIN sends, External!StartsSend(i) PROVE MessageCounts'
  BY <1>12, SendOf DEF External!StartsSend, External!Update, External!Write, External!Written
<1>13. ASSUME NEW i \in DOMAIN sends, External!Posts(i) PROVE MessageCounts'
  BY <1>13, SendOf DEF External!Posts
<1>14. ASSUME NEW i \in DOMAIN sends, External!RecordsSent(i) PROVE MessageCounts'
  BY <1>14, SendOf DEF External!RecordsSent, External!Write, External!Written
<1>15. ASSUME NEW i \in DOMAIN sends, External!LogMessageError(i) PROVE MessageCounts'
  BY <1>15, SendOf DEF External!LogMessageError, External!Update, External!Write, External!Written
<1>16. ASSUME NEW i \in DOMAIN sends, External!SendFails(i) PROVE MessageCounts'
  BY <1>16, SendOf DEF External!SendFails
<1>17. ASSUME NEW i \in DOMAIN sends, External!SendTimesOut(i) PROVE MessageCounts'
  BY <1>17, SendOf DEF External!SendTimesOut, External!Update, External!Write, External!Written
<1> QED BY <1>1, <1>2, <1>3, <1>4, <1>5, <1>6, <1>7, <1>8, <1>9, <1>10, <1>11, <1>12, <1>13,
       <1>14, <1>15, <1>16, <1>17 DEF External!Next, External!SendStep

LEMMA MessagesKept ==
  ASSUME MessagesInv, External!Next
  PROVE  MessagesMove
<1> USE DEF MessagesInv, MessagesMove, Open, Message, External!States, External!Flags
<1>1. ASSUME NEW m \in Messages, External!Queued(m) PROVE MessagesMove
  BY <1>1 DEF External!Queued, External!Write, External!Written
<1>2. ASSUME NEW m \in Messages, External!ToggleHold(m) PROVE MessagesMove
  BY <1>2 DEF External!ToggleHold, External!Edit, External!Update, External!Write, External!Written
<1>3. ASSUME NEW m \in Messages, External!Retry(m) PROVE MessagesMove
  BY <1>3 DEF External!Retry, External!Edit, External!Update, External!Write, External!Written
<1>4. ASSUME NEW m \in Messages, External!RemoveExternalMessage(m) PROVE MessagesMove
  BY <1>4 DEF External!RemoveExternalMessage, External!Edit
<1>5. ASSUME NEW m \in Messages, External!MinutePasses(m) PROVE MessagesMove
  BY <1>5 DEF External!MinutePasses
<1>6. ASSUME NEW m \in Messages, External!RetryUntilPasses(m) PROVE MessagesMove
  BY <1>6 DEF External!RetryUntilPasses, External!Edit
<1>7. CASE External!ChangeArrives
  BY <1>7 DEF External!ChangeArrives
<1>8. CASE External!StreamEnds
  BY <1>8 DEF External!StreamEnds
<1>9. CASE External!StartListeningForEvents
  BY <1>9 DEF External!StartListeningForEvents
<1>10. CASE External!DoMessageQueue
  BY <1>10 DEF External!DoMessageQueue, External!StartBatch
<1>11. CASE External!BatchEnds
  BY <1>11 DEF External!BatchEnds
<1>12. ASSUME NEW i \in DOMAIN sends, External!StartsSend(i) PROVE MessagesMove
  BY <1>12, SendOf DEF External!StartsSend, External!Update, External!Write, External!Written
<1>13. ASSUME NEW i \in DOMAIN sends, External!Posts(i) PROVE MessagesMove
  BY <1>13, SendOf DEF External!Posts
<1>14. ASSUME NEW i \in DOMAIN sends, External!RecordsSent(i) PROVE MessagesMove
  BY <1>14, SendOf DEF External!RecordsSent, External!Write, External!Written
<1>15. ASSUME NEW i \in DOMAIN sends, External!LogMessageError(i) PROVE MessagesMove
  BY <1>15, SendOf DEF External!LogMessageError, External!Update, External!Write, External!Written
<1>16. ASSUME NEW i \in DOMAIN sends, External!SendFails(i) PROVE MessagesMove
  BY <1>16, SendOf DEF External!SendFails
<1>17. ASSUME NEW i \in DOMAIN sends, External!SendTimesOut(i) PROVE MessagesMove
  BY <1>17, SendOf DEF External!SendTimesOut, External!Update, External!Write, External!Written
<1> QED BY <1>1, <1>2, <1>3, <1>4, <1>5, <1>6, <1>7, <1>8, <1>9, <1>10, <1>11, <1>12, <1>13,
       <1>14, <1>15, <1>16, <1>17 DEF External!Next, External!SendStep
LEMMA SendStepsKeep ==
  ASSUME MessagesInv, MessagesMove, NEW i \in DOMAIN sends, External!SendStep(i) \/ External!SendFails(i)
  PROVE  SendsKept
<1> USE DEF External!SendFrame
<1>1. /\ sends[i].of \in Messages /\ sends[i].state \in External!SendStates /\ sends[i].awaited \in BOOLEAN
      /\ "posting" \in External!SendStates /\ "ended" \in External!SendStates
      /\ "failing" \in External!SendStates
      /\ "failingFatally" \in External!SendStates
  BY SendOf DEF MessagesInv, External!SendStates
<1>2. CASE External!StartsSend(i)
  BY <1>1, <1>2, QuietSendStep DEF External!StartsSend, BeforePost
<1>3. CASE External!Posts(i)
  BY <1>3, PostStep
<1>4. CASE External!RecordsSent(i)
  <2>1. message'[sends[i].of].state \notin Open
    BY <1>1, <1>4 DEF External!RecordsSent, External!Write, Open, MessagesInv, Message
  <2> QED BY <1>1, <1>4, <2>1, QuietSendStep DEF External!RecordsSent
<1>5. CASE External!LogMessageError(i)
  BY <1>1, <1>5, QuietSendStep DEF External!LogMessageError
<1>6. CASE External!SendFails(i) /\ sends[i].state = "recording"
  <2>1. /\ External!To(i, "failing") /\ posted' = posted /\ batchRunning' = batchRunning
        /\ trouble' = [trouble EXCEPT ![sends[i].of] = @ + 1]
    BY <1>6 DEF External!SendFails
  <2>2. sends' = Changed(sends, i, "failing", sends[i].awaited /\ "failing" # "ended")
    BY <1>1, <2>1, ToChanges DEF MessagesInv
  <2>3. (sends[i].awaited /\ "failing" # "ended") = sends[i].awaited
    BY <1>1
  <2>4. sends' = Changed(sends, i, "failing", sends[i].awaited)
    BY <2>2, <2>3
  <2> QED BY <1>1, <1>6, <2>1, <2>4, TroubledStep DEF BeforePost
<1>7. CASE External!SendFails(i) /\ sends[i].state # "recording"
  <2>1. PICK state \in {"failing", "failingFatally"} :
             sends[i].state \in BeforePost /\ External!To(i, state)
    BY <1>7 DEF External!SendFails, BeforePost
  <2>2. UNCHANGED <<batchRunning, posted, trouble>>
    BY <1>7 DEF External!SendFails
  <2> QED BY <1>1, <1>7, <2>1, <2>2, QuietSendStep
<1> QED BY <1>2, <1>3, <1>4, <1>5, <1>6, <1>7 DEF External!SendStep

LEMMA TimeOutKeeps ==
  ASSUME MessagesInv, MessagesMove, NEW i \in DOMAIN sends, External!SendTimesOut(i)
  PROVE  SendsKept
<1>1. /\ sends[i].of \in Messages /\ sends[i].state \in External!SendStates /\ sends[i].awaited
      /\ sends[i] \in Send /\ sends \in Seq(Send) /\ DOMAIN sends = 1..Len(sends)
  BY SendOf, ElementOfSeq, LenProperties DEF MessagesInv, MessageSends, External!SendTimesOut
<1>2. [sends[i] EXCEPT !.awaited = FALSE]
        = [of |-> sends[i].of, state |-> sends[i].state, awaited |-> FALSE]
  <2>1. PICK a \in Messages, b \in External!SendStates, c \in BOOLEAN :
          sends[i] = [of |-> a, state |-> b, awaited |-> c]
    BY <1>1 DEF Send
  <2>2. sends[i].of = a /\ sends[i].state = b
    BY <2>1
  <2> DEFINE no == FALSE
  <2> HIDE DEF no
  <2>3. [[of |-> a, state |-> b, awaited |-> c] EXCEPT !.awaited = no]
          = [of |-> a, state |-> b, awaited |-> no]
    OBVIOUS
  <2>4. [sends[i] EXCEPT !.awaited = no]
          = [of |-> sends[i].of, state |-> sends[i].state, awaited |-> no]
    BY <2>1, <2>2, <2>3, Zenon
  <2> QED BY <2>4 DEF no
<1>3. sends' = [sends EXCEPT ![i] = [sends[i] EXCEPT !.awaited = FALSE]]
  BY <1>1 DEF External!SendTimesOut
<1>4. sends' = Changed(sends, i, sends[i].state, FALSE)
  BY <1>2, <1>3, Zenon DEF Changed
<1>5. /\ batchRunning' = batchRunning /\ posted' = posted
      /\ trouble' = [trouble EXCEPT ![sends[i].of] = @ + 1]
  BY DEF External!SendTimesOut, External!SendFrame
<1> QED BY <1>1, <1>4, <1>5, TroubledStep

LEMMA NextKeepsSends ==
  ASSUME External!MessagesAssumption, MessagesInv, MessagesMove, External!Next
  PROVE  SendsKept
<1>1. ASSUME NEW m \in Messages,
             \/ External!Queued(m) \/ External!ToggleHold(m)
             \/ External!Retry(m) \/ External!RemoveExternalMessage(m)
             \/ External!MinutePasses(m) \/ External!RetryUntilPasses(m)
      PROVE  SendsKept
  <2>1. sends' = sends /\ posted' = posted /\ trouble' = trouble /\ batchRunning' = batchRunning
    BY <1>1 DEF External!Queued, External!ToggleHold, External!Retry, External!RemoveExternalMessage,
       External!MinutePasses, External!RetryUntilPasses,
                External!Edit
  <2> QED BY <2>1, QuietStep
<1>2. ASSUME External!ChangeArrives \/ External!StreamEnds \/ External!StartListeningForEvents
      PROVE  SendsKept
  <2>1. sends' = sends /\ posted' = posted /\ trouble' = trouble /\ batchRunning' = batchRunning
    BY <1>2 DEF External!ChangeArrives, External!StreamEnds, External!StartListeningForEvents
  <2> QED BY <2>1, QuietStep
<1>3. CASE External!DoMessageQueue /\ batchRunning
  <2>1. sends' = sends /\ posted' = posted /\ trouble' = trouble /\ batchRunning' = batchRunning
    BY <1>3 DEF External!DoMessageQueue
  <2> QED BY <2>1, QuietStep
<1>4. CASE External!DoMessageQueue /\ ~batchRunning
  BY <1>4, BatchStep DEF External!DoMessageQueue
<1>5. CASE External!BatchEnds
  <2>1. sends' = sends /\ posted' = posted /\ trouble' = trouble /\ External!Awaited = {}
    BY <1>5 DEF External!BatchEnds
  <2> QED BY <2>1, QuietStep
<1>6. ASSUME NEW i \in DOMAIN sends,
             External!SendStep(i) \/ External!SendFails(i) \/ External!SendTimesOut(i)
      PROVE  SendsKept
  BY <1>6, SendStepsKeep, TimeOutKeeps
<1> QED BY <1>1, <1>2, <1>3, <1>4, <1>5, <1>6 DEF External!Next

LEMMA MessagesInit ==
  ASSUME External!MessagesAssumption, External!Init
  PROVE  MessagesInv
<1>1. message \in [Messages -> Message] /\ MessageFlags /\ MessageCounts
  <2>1. message \in [Messages -> Message]
    BY DEF External!Init, Message, External!States
  <2>2. MessageFlags
    BY DEF External!Init, MessageFlags
  <2>3. MessageCounts
    BY DEF External!Init, External!MessagesAssumption, MessageCounts
  <2> QED BY <2>1, <2>2, <2>3
<1>2. MessageSends /\ OneBatch /\ DOMAIN sends = {}
  BY DEF External!Init, External!MessagesAssumption, MessageSends, OneBatch
<1>3. PostsCounted
  BY <1>2, FS_EmptySet DEF External!Init, PostsCounted, Past
<1>4. ASSUME NEW m \in Messages
      PROVE  posted[m] + Cardinality(Loose(sends, m)) + Bit(MayPost(sends, message[m].state, m))
               <= 1 + trouble[m]
  <2>1. Cardinality(Loose(sends, m)) = 0 /\ posted[m] = 0 /\ trouble[m] = 0
    <3>1. Loose(sends, m) = {}
      BY <1>2 DEF Loose
    <3> QED BY <3>1, FS_EmptySet DEF External!Init
  <2> DEFINE may == Bit(MayPost(sends, message[m].state, m))
  <2>2. may \in 0..1
    BY BitType
  <2> HIDE DEF may
  <2>3. posted[m] + Cardinality(Loose(sends, m)) + may <= 1 + trouble[m]
    BY <2>1, <2>2
  <2> QED BY <2>3 DEF may
<1> QED BY <1>1, <1>2, <1>3, <1>4 DEF MessagesInv, Credit

LEMMA MessagesInvariant == Spec => []MessagesInv
<1>1. Init => MessagesInv
  BY ServicesAssumption, MessagesInit DEF Init, ServicesAssumption
<1>2. MessagesInv /\ [Next]_vars => MessagesInv'
  <2>1. ASSUME MessagesInv, External!Next
        PROVE  MessagesInv'
    <3>1. External!MessagesAssumption
      BY ServicesAssumption DEF ServicesAssumption
    <3>2. MessagesMove
      BY <2>1, <3>1, MessagesKept
    <3> QED BY <2>1, <3>1, <3>2, FlagsKept, CountsKept, NextKeepsSends
            DEF MessagesInv, MessagesMove, SendsKept
  <2>2. ASSUME MessagesInv, UNCHANGED externalVars
        PROVE  MessagesInv'
    BY <2>2 DEF externalVars, MessagesInv, MessageFlags, MessageCounts, MessageSends, OneBatch,
                PostsCounted, Credit
  <2>3. [Next]_vars => External!Next \/ UNCHANGED externalVars
    BY DEF Next, vars
  <2> QED BY <2>1, <2>2, <2>3
<1> QED BY <1>1, <1>2, PTL DEF Spec

(* A receiver gets a message once, and once more for each send of it that  *)
(* timed out and went on or could not be recorded: for every set of        *)
(* messages, batch size and number of sends, failures and edits.           *)
THEOREM MessagesArePostedOnce == Spec => []PostedOnce
<1>1. MessagesInv => External!TypeOK
  <2>1. ASSUME MessagesInv
        PROVE  /\ \A m \in Messages : message[m].state \in External!States
                                       /\ message[m].flags \subseteq External!Flags
               /\ sends \in Seq([of : Messages, state : External!SendStates, awaited : BOOLEAN])
               /\ Len(sends) <= MaxSends
               /\ messageFaults \in 0..MaxFailures /\ edits \in 0..MaxEdits
    BY <2>1 DEF MessagesInv, Message, MessageSends, Send, MessageCounts
  <2>2. ASSUME MessagesInv
        PROVE  {changesStream, changed, triggerTimeout, batchRunning, missed,
                probablyHasMoreToSend} \subseteq BOOLEAN
    BY <2>2 DEF MessagesInv, MessageFlags
  <2>3. ASSUME MessagesInv
        PROVE  posted \in [Messages -> 0..MaxSends] /\ trouble \in [Messages -> 0..MaxFailures]
    <3>1. ASSUME NEW m \in Messages
          PROVE  posted[m] \in 0..MaxSends /\ trouble[m] \in 0..MaxFailures
      <4>1. posted[m] <= Cardinality(Past(sends, m)) /\ Cardinality(Past(sends, m)) <= Len(sends)
              /\ Cardinality(Past(sends, m)) \in Nat /\ Len(sends) \in Nat
        BY <2>3, SendSets, LenProperties DEF MessagesInv, PostsCounted, MessageSends
      <4> QED BY <2>3, <4>1, ServicesAssumption
              DEF MessagesInv, MessageSends, MessageCounts, ServicesAssumption, External!MessagesAssumption
    <3> QED BY <2>3, <3>1 DEF MessagesInv, MessageCounts
  <2> QED BY <2>1, <2>2, <2>3 DEF External!TypeOK
<1>2. MessagesInv => External!PostedOnce
  <2>1. ASSUME MessagesInv, NEW m \in Messages
        PROVE  posted[m] <= 1 + trouble[m]
    <3> DEFINE may == Bit(MayPost(sends, message[m].state, m))
    <3>1. may \in 0..1 /\ posted[m] + Cardinality(Loose(sends, m)) + may <= 1 + trouble[m]
      BY <2>1, BitType DEF MessagesInv, Credit
    <3>2. Cardinality(Loose(sends, m)) \in Nat /\ posted[m] \in Nat /\ trouble[m] \in Nat
      BY <2>1, SendSets DEF MessagesInv, MessageSends, MessageCounts
    <3> HIDE DEF may
    <3> QED BY <3>1, <3>2
  <2> QED BY <2>1 DEF External!PostedOnce
<1> QED BY <1>1, <1>2, MessagesInvariant, PTL DEF PostedOnce

-----------------------------------------------------------------------------
(* The thread.                                                             *)
ThreadStates ==
  /\ threadStatus \in Thread!Statuses /\ terminate \in {"no", "asked", "set", "done"}
  /\ watchdogJobStarted \in BOOLEAN /\ autoRestart \in BOOLEAN /\ slow \in BOOLEAN
  /\ restarting \in SUBSET {"loop", "watchdog"}
  /\ loop \in Thread!LoopStates /\ call \in {"none", "open", "answered", "rejected"}
  /\ child \in {"down", "fresh", "ready"}

(* There is an interruption for each crash and for each restart after one. *)
JobsCounted ==
  /\ queue \in Nat /\ jobs \in 0..MaxJobs /\ queue <= jobs
  /\ interrupts \in Nat /\ threadFaults \in 0..MaxFaults
  /\ interrupts + Bit(autoRestart) <= 2 * threadFaults

(* The parent and the child know nothing that is newer than the database.  *)
ConfigKnown ==
  /\ changes \in 0..MaxChanges
  /\ cached \in [Parts -> Nat] /\ config \in [Parts -> Nat] /\ told \in [Parts -> Nat]
  /\ \A p \in Parts : cached[p] <= config[p] /\ told[p] <= config[p] /\ config[p] <= changes

(* The loop awaits one thing: a call is open only where it awaits the call,*)
(* and has an answer only from the child that is still there.              *)
CallStands ==
  /\ call # "none" => loop \in {"initialising", "invalidating", "running", "clearing"}
  /\ call = "answered" => child = "ready"
  /\ "loop" \in restarting => loop = "restarting"

(* Invalidations are carried by the call that was made for them; once it   *)
(* is answered, what is stale is pending again.                            *)
InvalidationsKept ==
  /\ pendingInvalidations \in SUBSET Parts /\ taken \in SUBSET Parts /\ lost \in SUBSET Parts
  /\ taken # {} => loop \in {"invalidating", "clearing"}
  /\ child = "ready" =>
       \A p \in Parts : cached[p] < told[p] =>
         p \in pendingInvalidations \cup lost \cup (IF call = "answered" THEN {} ELSE taken)

ThreadInv ==
  /\ ThreadStates /\ JobsCounted /\ ConfigKnown /\ CallStands /\ InvalidationsKept
  /\ Thread!ReadyThread

LEMMA ThreadStatesKept ==
  ASSUME ThreadStates, Thread!Next
  PROVE  ThreadStates'
<1> USE DEF ThreadStates, Thread!Statuses, Thread!LoopStates,
           Thread!parentVars, Thread!childVars, Thread!dbVars, Thread!queueVars
<1>1. ASSUME NEW p \in Parts, Thread!ConfigChanges(p)
      PROVE  ThreadStates'
  BY <1>1 DEF Thread!ConfigChanges
<1>2. ASSUME NEW p \in Parts, Thread!QueueCacheInvalidation(p)
      PROVE  ThreadStates'
  BY <1>2 DEF Thread!QueueCacheInvalidation
<1>3. CASE Thread!JobQueued
  BY <1>3 DEF Thread!JobQueued
<1>4. CASE Thread!JobIsSlow
  BY <1>4 DEF Thread!JobIsSlow, Thread!Fault
<1>5. CASE Thread!SlowJobReturns
  BY <1>5 DEF Thread!SlowJobReturns, Thread!JobDone
<1>6. CASE Thread!ChildCrashes
  BY <1>6 DEF Thread!ChildCrashes, Thread!Fault, Thread!Replace
<1>7. CASE Thread!ChildRestarted
  BY <1>7 DEF Thread!ChildRestarted, Thread!Replace
<1>8. CASE Thread!Watchdog
  BY <1>8 DEF Thread!Watchdog, Thread!TryRestartThread, Thread!Replace
<1>9. CASE Thread!Terminate
  BY <1>9 DEF Thread!Terminate
<1>10. ASSUME NEW who \in {"loop", "watchdog"}, Thread!ThreadIsRestarted(who)
      PROVE  ThreadStates'
  BY <1>10 DEF Thread!ThreadIsRestarted, Thread!RestartThread, Thread!AfterRestart, Thread!Replace
<1>11. ASSUME NEW who \in {"loop", "watchdog"}, Thread!RestartFails(who)
      PROVE  ThreadStates'
  BY <1>11 DEF Thread!RestartFails, Thread!Fault, Thread!AfterRestart
<1>12. CASE Thread!LoopEnds
  BY <1>12 DEF Thread!LoopEnds
<1>13. CASE Thread!Rests
  BY <1>13 DEF Thread!Rests
<1>14. CASE Thread!RestartsThread
  BY <1>14 DEF Thread!RestartsThread, Thread!TryRestartThread, Thread!Replace
<1>15. CASE Thread!InitialisesWorker
  BY <1>15 DEF Thread!InitialisesWorker, Thread!Calls
<1>16. CASE Thread!Waits
  BY <1>16 DEF Thread!Waits
<1>17. CASE Thread!WaitEnds
  BY <1>17 DEF Thread!WaitEnds, Thread!Calls
<1>18. CASE Thread!PopInterrupt
  BY <1>18 DEF Thread!PopInterrupt
<1>19. CASE Thread!PopJob
  BY <1>19 DEF Thread!PopJob, Thread!Calls
<1>20. CASE Thread!PopForceClear
  BY <1>20 DEF Thread!PopForceClear, Thread!Calls
<1>21. CASE Thread!Reported
  BY <1>21 DEF Thread!Reported
<1>22. CASE Thread!Loads
  BY <1>22 DEF Thread!Loads
<1>23. CASE Thread!WorkerInitialised
  BY <1>23 DEF Thread!WorkerInitialised
<1>24. CASE Thread!InitFails
  BY <1>24 DEF Thread!InitFails, Thread!CallFails, Thread!Fault
<1>25. CASE Thread!Invalidated
  BY <1>25 DEF Thread!Invalidated
<1>26. CASE Thread!InvalidationFails
  BY <1>26 DEF Thread!InvalidationFails, Thread!CallFails, Thread!Fault, Thread!Forgets
<1>27. CASE Thread!JobReturns
  BY <1>27 DEF Thread!JobReturns, Thread!JobDone
<1>28. CASE Thread!ClearReturns
  BY <1>28 DEF Thread!ClearReturns, Thread!CallFails, Thread!Fault, Thread!Forgets, Thread!JobDone
<1> QED BY <1>1, <1>2, <1>3, <1>4, <1>5, <1>6, <1>7, <1>8, <1>9, <1>10, <1>11, <1>12, <1>13, <1>14, <1>15,
      <1>16, <1>17, <1>18, <1>19, <1>20, <1>21, <1>22, <1>23, <1>24, <1>25, <1>26, <1>27, <1>28
       DEF Thread!Next, Thread!Restart, Thread!LoopStep, Thread!ChildStep

LEMMA JobsStayCounted ==
  ASSUME ServicesAssumption, ThreadStates, JobsCounted, Thread!Next
  PROVE  JobsCounted'
<1> USE DEF ThreadStates, JobsCounted, Bit, ServicesAssumption, Thread!ThreadAssumption,
           Thread!parentVars, Thread!childVars, Thread!dbVars, Thread!queueVars
<1>1. ASSUME NEW p \in Parts, Thread!ConfigChanges(p)
      PROVE  JobsCounted'
  BY <1>1 DEF Thread!ConfigChanges
<1>2. ASSUME NEW p \in Parts, Thread!QueueCacheInvalidation(p)
      PROVE  JobsCounted'
  BY <1>2 DEF Thread!QueueCacheInvalidation
<1>3. CASE Thread!JobQueued
  BY <1>3 DEF Thread!JobQueued
<1>4. CASE Thread!JobIsSlow
  BY <1>4 DEF Thread!JobIsSlow, Thread!Fault
<1>5. CASE Thread!SlowJobReturns
  BY <1>5 DEF Thread!SlowJobReturns, Thread!JobDone
<1>6. CASE Thread!ChildCrashes
  BY <1>6 DEF Thread!ChildCrashes, Thread!Fault, Thread!Replace
<1>7. CASE Thread!ChildRestarted
  BY <1>7 DEF Thread!ChildRestarted, Thread!Replace
<1>8. CASE Thread!Watchdog
  BY <1>8 DEF Thread!Watchdog, Thread!TryRestartThread, Thread!Replace
<1>9. CASE Thread!Terminate
  BY <1>9 DEF Thread!Terminate
<1>10. ASSUME NEW who \in {"loop", "watchdog"}, Thread!ThreadIsRestarted(who)
      PROVE  JobsCounted'
  BY <1>10 DEF Thread!ThreadIsRestarted, Thread!RestartThread, Thread!AfterRestart, Thread!Replace
<1>11. ASSUME NEW who \in {"loop", "watchdog"}, Thread!RestartFails(who)
      PROVE  JobsCounted'
  BY <1>11 DEF Thread!RestartFails, Thread!Fault, Thread!AfterRestart
<1>12. CASE Thread!LoopEnds
  BY <1>12 DEF Thread!LoopEnds
<1>13. CASE Thread!Rests
  BY <1>13 DEF Thread!Rests
<1>14. CASE Thread!RestartsThread
  BY <1>14 DEF Thread!RestartsThread, Thread!TryRestartThread, Thread!Replace
<1>15. CASE Thread!InitialisesWorker
  BY <1>15 DEF Thread!InitialisesWorker, Thread!Calls
<1>16. CASE Thread!Waits
  BY <1>16 DEF Thread!Waits
<1>17. CASE Thread!WaitEnds
  BY <1>17 DEF Thread!WaitEnds, Thread!Calls
<1>18. CASE Thread!PopInterrupt
  BY <1>18 DEF Thread!PopInterrupt
<1>19. CASE Thread!PopJob
  BY <1>19 DEF Thread!PopJob, Thread!Calls
<1>20. CASE Thread!PopForceClear
  BY <1>20 DEF Thread!PopForceClear, Thread!Calls
<1>21. CASE Thread!Reported
  BY <1>21 DEF Thread!Reported
<1>22. CASE Thread!Loads
  BY <1>22 DEF Thread!Loads
<1>23. CASE Thread!WorkerInitialised
  BY <1>23 DEF Thread!WorkerInitialised
<1>24. CASE Thread!InitFails
  BY <1>24 DEF Thread!InitFails, Thread!CallFails, Thread!Fault
<1>25. CASE Thread!Invalidated
  BY <1>25 DEF Thread!Invalidated
<1>26. CASE Thread!InvalidationFails
  BY <1>26 DEF Thread!InvalidationFails, Thread!CallFails, Thread!Fault, Thread!Forgets
<1>27. CASE Thread!JobReturns
  BY <1>27 DEF Thread!JobReturns, Thread!JobDone
<1>28. CASE Thread!ClearReturns
  BY <1>28 DEF Thread!ClearReturns, Thread!CallFails, Thread!Fault, Thread!Forgets, Thread!JobDone
<1> QED BY <1>1, <1>2, <1>3, <1>4, <1>5, <1>6, <1>7, <1>8, <1>9, <1>10, <1>11, <1>12, <1>13, <1>14, <1>15,
      <1>16, <1>17, <1>18, <1>19, <1>20, <1>21, <1>22, <1>23, <1>24, <1>25, <1>26, <1>27, <1>28
       DEF Thread!Next, Thread!Restart, Thread!LoopStep, Thread!ChildStep

LEMMA InvalidationsStay ==
  ASSUME ServicesAssumption, ThreadInv, Thread!Next
  PROVE  ConfigKnown' /\ CallStands' /\ InvalidationsKept' /\ Thread!ReadyThread'
<1> USE DEF ThreadInv, ThreadStates, ConfigKnown, CallStands, InvalidationsKept, Thread!ReadyThread,
           ServicesAssumption, Thread!ThreadAssumption,
           Thread!parentVars, Thread!childVars, Thread!dbVars, Thread!queueVars
<1>1. ASSUME NEW p \in Parts, Thread!ConfigChanges(p)
      PROVE  ConfigKnown' /\ CallStands' /\ InvalidationsKept' /\ Thread!ReadyThread'
  BY <1>1 DEF Thread!ConfigChanges
<1>2. ASSUME NEW p \in Parts, Thread!QueueCacheInvalidation(p)
      PROVE  ConfigKnown' /\ CallStands' /\ InvalidationsKept' /\ Thread!ReadyThread'
  BY <1>2 DEF Thread!QueueCacheInvalidation
<1>3. CASE Thread!JobQueued
  BY <1>3 DEF Thread!JobQueued
<1>4. CASE Thread!JobIsSlow
  BY <1>4 DEF Thread!JobIsSlow, Thread!Fault
<1>5. CASE Thread!SlowJobReturns
  BY <1>5 DEF Thread!SlowJobReturns, Thread!JobDone
<1>6. CASE Thread!ChildCrashes
  BY <1>6 DEF Thread!ChildCrashes, Thread!Fault, Thread!Replace
<1>7. CASE Thread!ChildRestarted
  BY <1>7 DEF Thread!ChildRestarted, Thread!Replace
<1>8. CASE Thread!Watchdog
  BY <1>8 DEF Thread!Watchdog, Thread!TryRestartThread, Thread!Replace
<1>9. CASE Thread!Terminate
  BY <1>9 DEF Thread!Terminate
<1>10. ASSUME NEW who \in {"loop", "watchdog"}, Thread!ThreadIsRestarted(who)
      PROVE  ConfigKnown' /\ CallStands' /\ InvalidationsKept' /\ Thread!ReadyThread'
  BY <1>10 DEF Thread!ThreadIsRestarted, Thread!RestartThread, Thread!AfterRestart, Thread!Replace
<1>11. ASSUME NEW who \in {"loop", "watchdog"}, Thread!RestartFails(who)
      PROVE  ConfigKnown' /\ CallStands' /\ InvalidationsKept' /\ Thread!ReadyThread'
  BY <1>11 DEF Thread!RestartFails, Thread!Fault, Thread!AfterRestart
<1>12. CASE Thread!LoopEnds
  BY <1>12 DEF Thread!LoopEnds
<1>13. CASE Thread!Rests
  BY <1>13 DEF Thread!Rests
<1>14. CASE Thread!RestartsThread
  BY <1>14 DEF Thread!RestartsThread, Thread!TryRestartThread, Thread!Replace
<1>15. CASE Thread!InitialisesWorker
  BY <1>15 DEF Thread!InitialisesWorker, Thread!Calls
<1>16. CASE Thread!Waits
  BY <1>16 DEF Thread!Waits
<1>17. CASE Thread!WaitEnds
  BY <1>17 DEF Thread!WaitEnds, Thread!Calls
<1>18. CASE Thread!PopInterrupt
  BY <1>18 DEF Thread!PopInterrupt
<1>19. CASE Thread!PopJob
  BY <1>19 DEF Thread!PopJob, Thread!Calls
<1>20. CASE Thread!PopForceClear
  BY <1>20 DEF Thread!PopForceClear, Thread!Calls
<1>21. CASE Thread!Reported
  BY <1>21 DEF Thread!Reported
<1>22. CASE Thread!Loads
  BY <1>22 DEF Thread!Loads
<1>23. CASE Thread!WorkerInitialised
  BY <1>23 DEF Thread!WorkerInitialised
<1>24. CASE Thread!InitFails
  BY <1>24 DEF Thread!InitFails, Thread!CallFails, Thread!Fault
<1>25. CASE Thread!Invalidated
  BY <1>25 DEF Thread!Invalidated
<1>26. CASE Thread!InvalidationFails
  BY <1>26 DEF Thread!InvalidationFails, Thread!CallFails, Thread!Fault, Thread!Forgets
<1>27. CASE Thread!JobReturns
  BY <1>27 DEF Thread!JobReturns, Thread!JobDone
<1>28. CASE Thread!ClearReturns
  BY <1>28 DEF Thread!ClearReturns, Thread!CallFails, Thread!Fault, Thread!Forgets, Thread!JobDone
<1> QED BY <1>1, <1>2, <1>3, <1>4, <1>5, <1>6, <1>7, <1>8, <1>9, <1>10, <1>11, <1>12, <1>13, <1>14, <1>15,
      <1>16, <1>17, <1>18, <1>19, <1>20, <1>21, <1>22, <1>23, <1>24, <1>25, <1>26, <1>27, <1>28
       DEF Thread!Next, Thread!Restart, Thread!LoopStep, Thread!ChildStep

LEMMA ThreadInvariant == Spec => []ThreadInv
<1>1. Init => ThreadInv
  <2>1. ASSUME Thread!Init
        PROVE  ThreadInv
    <3> USE DEF Thread!Init
    <3>1. ThreadStates
      BY <2>1 DEF ThreadStates, Thread!Statuses, Thread!LoopStates
    <3>2. JobsCounted /\ ConfigKnown
      BY <2>1, ServicesAssumption
         DEF JobsCounted, ConfigKnown, Bit, ServicesAssumption, Thread!ThreadAssumption
    <3>3. CallStands /\ InvalidationsKept /\ Thread!ReadyThread
      BY <2>1 DEF CallStands, InvalidationsKept, Thread!ReadyThread
    <3> QED BY <3>1, <3>2, <3>3 DEF ThreadInv
  <2> QED BY <2>1 DEF Init
<1>2. ThreadInv /\ [Next]_vars => ThreadInv'
  <2>1. ASSUME ThreadInv, Thread!Next
        PROVE  ThreadInv'
    BY <2>1, ServicesAssumption, ThreadStatesKept, JobsStayCounted, InvalidationsStay DEF ThreadInv
  <2>2. ASSUME ThreadInv, UNCHANGED threadVars
        PROVE  ThreadInv'
    BY <2>2 DEF threadVars, ThreadInv, ThreadStates, JobsCounted, ConfigKnown, CallStands,
                InvalidationsKept, Thread!ReadyThread
  <2>3. [Next]_vars => Thread!Next \/ UNCHANGED threadVars
    BY DEF Next, vars
  <2> QED BY <2>1, <2>2, <2>3
<1> QED BY <1>1, <1>2, PTL DEF Spec

(* Through every crash, hang and restart, by the watchdog, by the loop and *)
(* by the library, in whatever order: what the child has loaded and the    *)
(* parent knows to be stale is pending or being carried, unless the call   *)
(* that carried it failed in a child that lived on; and a thread that      *)
(* counts as ready has a child with its data.                              *)
THEOREM DataReachTheThread == Spec => []ThreadHasItsData
<1>1. ThreadInv => Thread!TypeOK
  <2>1. ASSUME ThreadInv
        PROVE  /\ {pendingInvalidations, taken, lost} \subseteq SUBSET Parts
               /\ {watchdogJobStarted, autoRestart, slow} \subseteq BOOLEAN
    BY <2>1 DEF ThreadInv, ThreadStates, InvalidationsKept
  <2>2. ASSUME ThreadInv
        PROVE  {cached, config, told} \subseteq [Parts -> 0..MaxChanges]
    <3>1. ASSUME NEW p \in Parts
          PROVE  /\ cached[p] \in 0..MaxChanges /\ config[p] \in 0..MaxChanges
                 /\ told[p] \in 0..MaxChanges
      BY <2>2, ServicesAssumption DEF ThreadInv, ConfigKnown, ServicesAssumption, Thread!ThreadAssumption
    <3> QED BY <2>2, <3>1 DEF ThreadInv, ConfigKnown
  <2>3. ASSUME ThreadInv
        PROVE  /\ queue \in 0..MaxJobs /\ interrupts \in 0..(2 * MaxFaults)
               /\ jobs \in 0..MaxJobs /\ changes \in 0..MaxChanges /\ threadFaults \in 0..MaxFaults
    BY <2>3, ServicesAssumption DEF ThreadInv, ThreadStates, JobsCounted, ConfigKnown, Bit,
       ServicesAssumption, Thread!ThreadAssumption
  <2> QED BY <2>1, <2>2, <2>3 DEF ThreadInv, ThreadStates, Thread!TypeOK
<1>2. ThreadInv => Thread!StaleIsPending
  BY DEF ThreadInv, InvalidationsKept, Thread!StaleIsPending
<1> QED BY <1>1, <1>2, ThreadInvariant, PTL DEF ThreadHasItsData, ThreadInv
=============================================================================
