------------------------- MODULE WorkerLocksProofs -------------------------
(***************************************************************************)
(* Type correctness of WorkerLocks, that two jobs own one resource only    *)
(* when a thread was told to terminate or left a branch behind, that       *)
(* resources come back, and that what the jobs see is LockService.         *)
(***************************************************************************)
EXTENDS WorkerLocks, TLAPS

(* The effect of lockNextWorker on holders H, waiting locks W and failed    *)
(* grants F.                                                               *)
Served(H, W, F) ==
  /\ holder' \in [Resources -> Locks \cup {NoLock}]
  /\ waiting' \in [Resources -> SUBSET Locks]
  /\ granting' \in SUBSET Locks /\ failing' \in SUBSET Locks
  /\ \A r \in Resources : waiting'[r] \subseteq W[r]
  /\ \A r \in Resources : H[r] # NoLock => holder'[r] = H[r]
  /\ \A l \in granting' \ granting : \E r \in Resources : l \in W[r] /\ holder'[r] = l
  /\ \A l \in failing' \ F : \E r \in Resources : l \in W[r] /\ ~up[thread[l]]

(* What lockNextWorker does: it keeps the holders there are, takes the new *)
(* ones out of the waiting locks, and tells exactly those.                 *)
LEMMA ServeFacts ==
  ASSUME NEW R \in SUBSET Resources,
         NEW H \in [Resources -> Locks \cup {NoLock}],
         NEW W \in [Resources -> SUBSET Locks],
         NEW F \in SUBSET Locks,
         granting \in SUBSET Locks,
         Serve(R, H, W, F)
  PROVE  Served(H, W, F)
<1> DEFINE S == {r \in R : H[r] = NoLock /\ W[r] # {}}
<1>1. PICK first \in [S -> Locks] :
        LET G == {first[r] : r \in S} IN
        /\ \A r \in S : first[r] \in W[r] /\ ahead'[first[r]] \cap W[r] = {}
        /\ holder' = [r \in Resources |-> IF r \in S THEN first[r] ELSE H[r]]
        /\ waiting' = [r \in Resources |-> IF r \in S THEN W[r] \ {first[r]} ELSE W[r]]
        /\ granting' = granting \cup {l \in G : up[thread[l]]}
        /\ failing' = F \cup {l \in G : ~up[thread[l]]}
  BY DEF Serve
<1>2. \A r \in S : r \in Resources /\ first[r] \in Locks /\ first[r] \in W[r] /\ H[r] = NoLock
  BY <1>1
<1>3. /\ granting' \subseteq granting \cup {first[r] : r \in S}
      /\ failing' \subseteq F \cup {first[r] : r \in S}
      /\ granting \subseteq granting'
      /\ \A l \in failing' \ F : ~up[thread[l]]
  BY <1>1, Zenon
<1>4. \A r \in Resources : /\ holder'[r] = IF r \in S THEN first[r] ELSE H[r]
                           /\ waiting'[r] = IF r \in S THEN W[r] \ {first[r]} ELSE W[r]
  BY <1>1, Zenon
<1> HIDE DEF S
<1>5. holder' \in [Resources -> Locks \cup {NoLock}] /\ waiting' \in [Resources -> SUBSET Locks]
  BY <1>1, <1>2
<1>6. granting' \in SUBSET Locks /\ failing' \in SUBSET Locks
  BY <1>2, <1>3
<1>7. \A r \in Resources : waiting'[r] \subseteq W[r] /\ (H[r] # NoLock => holder'[r] = H[r])
  BY <1>2, <1>4
<1>8. \A l \in granting' \ granting : \E r \in Resources : l \in W[r] /\ holder'[r] = l
  BY <1>2, <1>3, <1>4
<1>9. \A l \in failing' \ F : \E r \in Resources : l \in W[r] /\ ~up[thread[l]]
  BY <1>2, <1>3
<1> QED BY <1>3, <1>5, <1>6, <1>7, <1>8, <1>9 DEF Served

-----------------------------------------------------------------------------
(* The parent: a step that serves R after it gave up only holders that no  *)
(* safe job claims keeps the invariant.                                    *)
LEMMA ParentKeeps ==
  ASSUME OwnInv,
         NEW R \in SUBSET Resources,
         NEW H \in [Resources -> Locks \cup {NoLock}],
         NEW W \in [Resources -> SUBSET Locks],
         NEW F \in SUBSET Locks,
         Serve(R, H, W, F),
         F \subseteq failing,
         ahead' \in [Locks -> SUBSET Locks],
         locking' \subseteq locking, unlocking' \subseteq unlocking, freeing' \in SUBSET Locks,
         loop' \in [Threads -> LoopStates],
         terminating' \in SUBSET Threads, unreported' \in SUBSET Threads,
         terminating \subseteq terminating',
         UNCHANGED <<phase, thread, resource, inside, up, strayed>>,
         \A l \in Locks : Claims(l) /\ thread[l] \notin terminating' \cup strayed => H[resource[l]] = l,
         \A r \in Resources : \A l \in W[r] : l \in InUse /\ resource[l] = r,
         \A t \in Threads : loop'[t] = "ended" => loop[t] = "ended"
  PROVE  OwnInv'
<1>0. LocksTypeOK /\ ClaimStands /\ GivenUp /\ DoneWhenEnded /\ DoneWhenDead /\ KnownLocks
  BY DEF OwnInv
<1>1. granting \in SUBSET Locks
  BY <1>0 DEF LocksTypeOK
<1>2. Served(H, W, F)
  BY <1>1, ServeFacts
<1>3. LocksTypeOK'
  <2>1. UNCHANGED <<phase, thread, resource, inside, up, strayed>>
    OBVIOUS
  <2>2. locking' \in SUBSET Locks /\ unlocking' \in SUBSET Locks
    BY <1>0 DEF LocksTypeOK
  <2>3. /\ holder' \in [Resources -> Locks \cup {NoLock}]
        /\ waiting' \in [Resources -> SUBSET Locks]
        /\ granting' \in SUBSET Locks /\ failing' \in SUBSET Locks
    BY <1>2 DEF Served
  <2> QED BY <1>0, <2>1, <2>2, <2>3 DEF LocksTypeOK
<1>4. InUse' = InUse /\ \A t \in Threads : LiveLocks(t)' = LiveLocks(t)
  BY DEF InUse, LiveLocks, LocksOf
<1>5. ClaimStands'
  <2> SUFFICES ASSUME NEW l \in Locks, Claims(l)', thread[l] \notin terminating' \cup strayed
               PROVE  holder'[resource[l]] = l
    BY DEF ClaimStands, Safe
  <2>1. CASE Claims(l)
    <3>1. l \in InUse
      BY <2>1 DEF Claims, InUse
    <3>2. resource[l] \in Resources /\ l # NoLock
      BY <1>0, <3>1 DEF KnownLocks, Locks, NoLock
    <3> QED BY <1>2, <2>1, <3>2 DEF Served
  <2>2. CASE ~Claims(l)
    <3>1. l \in granting' \ granting
      BY <2>2 DEF Claims
    <3>2. PICK r \in Resources : l \in W[r] /\ holder'[r] = l
      BY <1>2, <3>1 DEF Served
    <3> QED BY <3>2
  <2> QED BY <2>1, <2>2
<1>6. GivenUp'
  <2> SUFFICES ASSUME NEW l \in unlocking' \cup failing'
               PROVE  phase[l] \notin {"acquiring", "held"}
    BY DEF GivenUp
  <2>1. CASE l \in unlocking \cup failing
    BY <1>0, <2>1 DEF GivenUp
  <2>2. CASE l \notin unlocking \cup failing
    <3>1. PICK r \in Resources : l \in W[r] /\ ~up[thread[l]]
      BY <1>2, <2>2 DEF Served
    <3>2. l \in InUse /\ thread[l] \in Threads
      BY <1>0, <3>1 DEF KnownLocks
    <3>3. l \notin LiveLocks(thread[l])
      BY <1>0, <3>1, <3>2 DEF DoneWhenDead
    <3> QED BY <3>2, <3>3 DEF LiveLocks, LocksOf, Live, InUse
  <2> QED BY <2>1, <2>2
<1>7. DoneWhenEnded' /\ DoneWhenDead'
  <2>1. ASSUME NEW t \in Threads, loop'[t] = "ended", t \notin terminating' \cup strayed
        PROVE  LiveLocks(t) = {}
    BY <1>0, <2>1 DEF DoneWhenEnded, Safe
  <2>2. ASSUME NEW t \in Threads, ~up[t] PROVE LiveLocks(t) = {}
    BY <1>0, <2>2 DEF DoneWhenDead
  <2> QED BY <1>4, <2>1, <2>2 DEF DoneWhenEnded, DoneWhenDead, Safe
<1>8. KnownLocks'
  <2>1. granting' \cup failing' \subseteq InUse
    <3> SUFFICES ASSUME NEW l \in granting' \cup failing', l \notin granting \cup failing
                 PROVE  l \in InUse
      BY <1>0 DEF KnownLocks
    <3>1. PICK r \in Resources : l \in W[r]
      BY <1>2 DEF Served
    <3> QED BY <3>1
  <2>2. \A r \in Resources : \A l \in waiting'[r] : l \in InUse /\ resource[l] = r
    BY <1>2 DEF Served
  <2> QED BY <1>0, <1>4, <2>1, <2>2 DEF KnownLocks
<1> QED BY <1>3, <1>5, <1>6, <1>7, <1>8 DEF OwnInv

(* releaseAllForThread, for a thread that owns nothing, or is no longer    *)
(* safe.                                                                   *)
LEMMA ReleaseAllKeeps ==
  ASSUME OwnInv, NEW t \in Threads, ReleaseAllForThread(t),
         locking' = locking, unlocking' = unlocking, freeing' = freeing,
         loop' \in [Threads -> LoopStates],
         terminating' \in SUBSET Threads, unreported' \in SUBSET Threads,
         terminating \subseteq terminating',
         UNCHANGED <<phase, thread, resource, inside, up, strayed>>,
         t \notin terminating' \cup strayed => LiveLocks(t) = {},
         \A u \in Threads : loop'[u] = "ended" => loop[u] = "ended"
  PROVE  OwnInv'
<1> DEFINE mine == {r \in Resources : holder[r] \in LocksOf(t)}
           H == [r \in Resources |-> IF r \in mine THEN NoLock ELSE holder[r]]
           W == [r \in Resources |-> waiting[r] \ LocksOf(t)]
<1>0. LocksTypeOK /\ ClaimStands /\ KnownLocks
  BY DEF OwnInv
<1>1. /\ Serve(mine, H, W, failing)
      /\ ahead' = ahead
  BY DEF ReleaseAllForThread
<1>2. /\ mine \in SUBSET Resources
      /\ H \in [Resources -> Locks \cup {NoLock}]
      /\ W \in [Resources -> SUBSET Locks]
      /\ failing \in SUBSET Locks
  BY <1>0 DEF LocksTypeOK
<1>3. \A l \in Locks : Claims(l) /\ thread[l] \notin terminating' \cup strayed => H[resource[l]] = l
  <2> SUFFICES ASSUME NEW l \in Locks, Claims(l), thread[l] \notin terminating' \cup strayed
               PROVE  H[resource[l]] = l
    OBVIOUS
  <2>1. resource[l] \in Resources /\ l \in InUse
    BY <1>0 DEF Claims, InUse, KnownLocks
  <2>2. holder[resource[l]] = l
    BY <1>0 DEF ClaimStands, Safe
  <2>3. thread[l] # t
    BY DEF Claims, LiveLocks, LocksOf, Live
  <2>4. resource[l] \notin mine
    BY <2>2, <2>3 DEF LocksOf
  <2> QED BY <2>1, <2>2, <2>4
<1>4. \A r \in Resources : \A l \in W[r] : l \in InUse /\ resource[l] = r
  BY <1>0 DEF KnownLocks
<1>5. ahead' \in [Locks -> SUBSET Locks] /\ freeing' \in SUBSET Locks
  BY <1>0, <1>1 DEF LocksTypeOK
<1> HIDE DEF mine, H, W
<1> QED BY <1>1, <1>2, <1>3, <1>4, <1>5, ParentKeeps

-----------------------------------------------------------------------------
(* The messages to the parent.                                             *)
LEMMA ParentStepKeeps ==
  ASSUME OwnInv, ParentStep
  PROVE  OwnInv'
<1> SUFFICES ASSUME NEW l \in Locks, HandleLock(l) \/ HandleUnlock(l) \/ GrantFailed(l)
             PROVE  OwnInv'
  BY DEF ParentStep
<1>0. LocksTypeOK /\ ClaimStands /\ GivenUp /\ KnownLocks
  BY DEF OwnInv
<1> DEFINE r == resource[l]
           Freeing == [holder EXCEPT ![r] = NoLock]
           Joining == [waiting EXCEPT ![r] = @ \cup {l}]
<1>1. l \in locking \cup unlocking \cup failing => r \in Resources /\ l \in InUse
  BY <1>0 DEF KnownLocks
<1>2. /\ holder \in [Resources -> Locks \cup {NoLock}] /\ waiting \in [Resources -> SUBSET Locks]
      /\ Freeing \in [Resources -> Locks \cup {NoLock}] /\ Joining \in [Resources -> SUBSET Locks]
      /\ ahead \in [Locks -> SUBSET Locks] /\ freeing \in SUBSET Locks /\ failing \in SUBSET Locks
  BY <1>0 DEF LocksTypeOK, NoLock
<1>3. /\ loop \in [Threads -> LoopStates]
      /\ terminating \in SUBSET Threads /\ unreported \in SUBSET Threads
  BY <1>0 DEF LocksTypeOK
<1>4. \A k \in Locks : Claims(k) /\ thread[k] \notin terminating \cup strayed => holder[resource[k]] = k
  BY <1>0 DEF ClaimStands, Safe
<1>5. \A q \in Resources : \A k \in waiting[q] : k \in InUse /\ resource[k] = q
  BY <1>0 DEF KnownLocks
<1>6. ASSUME holder[r] = l, l \in unlocking \cup failing
      PROVE  \A k \in Locks : Claims(k) /\ thread[k] \notin terminating \cup strayed
                                => Freeing[resource[k]] = k
  <2> SUFFICES ASSUME NEW k \in Locks, Claims(k), thread[k] \notin terminating \cup strayed
               PROVE  Freeing[resource[k]] = k
    OBVIOUS
  <2>1. k # l
    BY <1>0, <1>6 DEF GivenUp, Claims
  <2>2. resource[k] \in Resources /\ holder[resource[k]] = k
    BY <1>0, <1>4 DEF Claims, InUse, KnownLocks
  <2> QED BY <1>2, <1>6, <2>1, <2>2
<1>7. CASE HandleLock(l)
  <2>1. /\ l \in locking /\ locking' = locking \ {l}
        /\ ahead' = [ahead EXCEPT ![l] = waiting[r] \cup ({holder[r]} \ {NoLock})]
        /\ Serve({r}, holder, Joining, failing)
        /\ UNCHANGED <<lockVars, unlocking, freeing, loopVars>>
    BY <1>7 DEF HandleLock
  <2>2. ahead' \in [Locks -> SUBSET Locks]
    BY <1>1, <1>2, <2>1
  <2>3. \A q \in Resources : \A k \in Joining[q] : k \in InUse /\ resource[k] = q
    BY <1>1, <1>2, <1>5, <2>1
  <2>4. {r} \in SUBSET Resources /\ locking' \subseteq locking
    BY <1>1, <2>1
  <2>5. UNCHANGED <<phase, thread, resource, inside, up, strayed, unlocking, freeing, loop, terminating, unreported>>
    BY <2>1 DEF lockVars, loopVars
  <2> HIDE DEF r, Joining, Freeing
  <2> QED BY <1>2, <1>3, <1>4, <2>1, <2>2, <2>3, <2>4, <2>5, ParentKeeps
<1>8. CASE HandleUnlock(l)
  <2>1. /\ l \in unlocking /\ unlocking' = unlocking \ {l}
        /\ freeing' = IF holder[r] = l THEN freeing \cup {l} ELSE freeing
        /\ UNCHANGED ahead
        /\ Serve({r}, IF holder[r] = l THEN Freeing ELSE holder, waiting, failing)
        /\ UNCHANGED <<lockVars, locking, loopVars>>
    BY <1>8 DEF HandleUnlock
  <2>2. {r} \in SUBSET Resources /\ unlocking' \subseteq unlocking /\ freeing' \in SUBSET Locks
    BY <1>1, <1>2, <2>1
  <2>3. UNCHANGED <<phase, thread, resource, inside, up, strayed, locking, loop, terminating, unreported>>
    BY <2>1 DEF lockVars, loopVars
  <2>4. CASE holder[r] = l
    <3>1. Serve({r}, Freeing, waiting, failing)
      BY <2>1, <2>4
    <3>2. \A k \in Locks : Claims(k) /\ thread[k] \notin terminating \cup strayed
                              => Freeing[resource[k]] = k
      BY <1>6, <2>1, <2>4
    <3> HIDE DEF r, Joining, Freeing
    <3> QED BY <1>2, <1>3, <1>5, <2>1, <2>2, <2>3, <3>1, <3>2, ParentKeeps
  <2>5. CASE holder[r] # l
    <3>1. Serve({r}, holder, waiting, failing)
      BY <2>1, <2>5
    <3> HIDE DEF r, Joining, Freeing
    <3> QED BY <1>2, <1>3, <1>4, <1>5, <2>1, <2>2, <2>3, <3>1, ParentKeeps
  <2> QED BY <2>4, <2>5
<1>9. CASE GrantFailed(l)
  <2>1. /\ l \in failing /\ ahead' = ahead
        /\ UNCHANGED <<phase, thread, resource, inside, up, strayed, locking, unlocking, freeing,
                       loop, terminating, unreported>>
    BY <1>9 DEF GrantFailed, lockVars, loopVars
  <2>2. {r} \in SUBSET Resources
    BY <1>1, <2>1
  <2>3. CASE holder[r] = l
    <3>1. Serve({r}, Freeing, waiting, failing \ {l})
      BY <1>9, <2>3 DEF GrantFailed
    <3>2. \A k \in Locks : Claims(k) /\ thread[k] \notin terminating \cup strayed
                              => Freeing[resource[k]] = k
      BY <1>6, <2>1, <2>3
    <3>3. failing \ {l} \in SUBSET Locks /\ failing \ {l} \subseteq failing
      BY <1>2
    <3> HIDE DEF r, Joining, Freeing
    <3> QED BY <1>2, <1>3, <1>5, <2>1, <2>2, <3>1, <3>2, <3>3, ParentKeeps
  <2>4. CASE holder[r] # l
    <3>1. failing' = failing \ {l} /\ UNCHANGED <<holder, waiting, granting>>
      BY <1>9, <2>4 DEF GrantFailed
    <3>2. LocksTypeOK'
      BY <1>0, <2>1, <3>1 DEF LocksTypeOK
    <3>3. ClaimStands' /\ GivenUp'
      BY <1>0, <2>1, <3>1 DEF ClaimStands, GivenUp, Claims, Safe
    <3>4. DoneWhenEnded' /\ DoneWhenDead'
      BY <2>1 DEF OwnInv, DoneWhenEnded, DoneWhenDead, LiveLocks, LocksOf, Safe
    <3>5. KnownLocks'
      BY <1>0, <2>1, <3>1 DEF KnownLocks, InUse
    <3> QED BY <3>2, <3>3, <3>4, <3>5 DEF OwnInv
  <2> QED BY <2>3, <2>4
<1> QED BY <1>7, <1>8, <1>9

(* The steps of the branches of a job.                                     *)
LEMMA ChildStepKeeps ==
  ASSUME OwnInv, ChildStep
  PROVE  OwnInv'
<1>0. LocksTypeOK /\ ClaimStands /\ GivenUp /\ DoneWhenEnded /\ DoneWhenDead /\ KnownLocks
  BY DEF OwnInv
<1>t. /\ phase \in [Locks -> Phases] /\ thread \in [Locks -> Threads \cup {NoOwner}]
      /\ resource \in [Locks -> Resources \cup {NoOwner}]
  BY <1>0 DEF LocksTypeOK
<1>1. ASSUME NEW t \in Threads, NEW r \in Resources, NEW l \in Locks, NEW outer \in Locks \cup {NoLock},
             Aquire(t, r, l, outer)
      PROVE  OwnInv'
  <2>1. /\ phase[l] = "unused" /\ up[t]
        /\ phase' = [phase EXCEPT ![l] = "acquiring"]
        /\ thread' = [thread EXCEPT ![l] = t]
        /\ resource' = [resource EXCEPT ![l] = r]
        /\ inside' = [inside EXCEPT ![l] = outer]
        /\ locking' = locking \cup {l}
        /\ UNCHANGED <<holder, waiting, ahead, unlocking, granting, freeing, failing,
                       loop, up, terminating, strayed, unreported>>
    BY <1>1 DEF Aquire, parentVars, loopVars
  <2>2. l \notin InUse /\ InUse' = InUse \cup {l}
    BY <1>t, <2>1 DEF InUse
  <2>3. \A k \in InUse : phase'[k] = phase[k] /\ thread'[k] = thread[k] /\ resource'[k] = resource[k]
    BY <1>t, <2>1, <2>2 DEF InUse
  <2>4. l \notin unlocking \cup failing \cup granting
    BY <1>0, <2>2 DEF KnownLocks
  <2>5. thread'[l] = t /\ resource'[l] = r /\ phase'[l] = "acquiring"
    BY <1>t, <2>1
  <2>6. \A u \in Threads : u # t => LiveLocks(u)' = LiveLocks(u)
    BY <1>t, <2>1, <2>2 DEF LiveLocks, LocksOf, Live, InUse
  <2>7. loop[t] = "ended" /\ Safe(t) => FALSE
    <3>1. CASE outer = NoLock
      <4>1. loop[t] = "running"
        BY <1>1, <3>1 DEF Aquire, Nests, LocksOf, Locks, NoLock
      <4> QED BY <4>1
    <3>2. CASE outer # NoLock
      <4>1. outer \in LiveLocks(t)
        BY <1>1, <3>2 DEF Aquire, Nests, LiveLocks, Live
      <4> QED BY <1>0, <4>1 DEF DoneWhenEnded
    <3> QED BY <3>1, <3>2
  <2>8. LocksTypeOK'
    <3>1. phase' \in [Locks -> Phases]
      BY <1>t, <2>1 DEF Phases
    <3>2. thread' \in [Locks -> Threads \cup {NoOwner}] /\ resource' \in [Locks -> Resources \cup {NoOwner}]
      BY <1>t, <2>1
    <3>3. inside' \in [Locks -> Locks \cup {NoLock}] /\ locking' \in SUBSET Locks
      BY <1>0, <2>1 DEF LocksTypeOK
    <3> QED BY <1>0, <2>1, <3>1, <3>2, <3>3 DEF LocksTypeOK
  <2>9. ClaimStands'
    <3> SUFFICES ASSUME NEW k \in Locks, Claims(k)', Safe(thread[k])' PROVE holder'[resource'[k]] = k
      BY DEF ClaimStands
    <3>1. k \in InUse
      BY <1>t, <2>1, <2>2, <2>4, <2>5 DEF Claims, InUse
    <3>2. Claims(k) /\ Safe(thread[k])
      BY <2>1, <2>3, <3>1 DEF Claims, Safe
    <3> QED BY <1>0, <2>1, <2>3, <3>1, <3>2 DEF ClaimStands
  <2>10. GivenUp'
    BY <1>0, <2>1, <2>3 DEF GivenUp, KnownLocks
  <2>11. DoneWhenEnded' /\ DoneWhenDead'
    BY <1>0, <2>1, <2>6, <2>7 DEF DoneWhenEnded, DoneWhenDead, Safe
  <2>12. KnownLocks'
    <3>1. \A k \in InUse' : thread'[k] \in Threads /\ resource'[k] \in Resources
      BY <1>0, <2>2, <2>3, <2>5 DEF KnownLocks
    <3>2. (locking \cup unlocking \cup granting \cup failing)' \subseteq InUse'
      BY <1>0, <2>1, <2>2 DEF KnownLocks
    <3>3. \A q \in Resources : \A k \in waiting'[q] : k \in InUse' /\ resource'[k] = q
      BY <1>0, <2>1, <2>2, <2>3 DEF KnownLocks
    <3> QED BY <3>1, <3>2, <3>3 DEF KnownLocks
  <2> QED BY <2>8, <2>9, <2>10, <2>11, <2>12 DEF OwnInv
<1>2. ASSUME NEW l \in Locks, Granted(l) \/ AquireTimeout(l) \/ Release(l) \/ Freed(l) \/ ReleaseTimeout(l)
      PROVE  OwnInv'
  <2> DEFINE next == phase'[l]
  <2>1. /\ UNCHANGED <<thread, resource, inside, holder, waiting, ahead, locking, failing,
                       loop, up, terminating, strayed, unreported>>
        /\ unlocking' \subseteq unlocking \cup {l} /\ granting' \subseteq granting
        /\ freeing' \subseteq freeing
    BY <1>2 DEF Granted, AquireTimeout, Release, Freed, ReleaseTimeout, parentVars, ipcVars, loopVars
  <2>2. \/ phase' = phase /\ unlocking' = unlocking
        \/ /\ phase' = [phase EXCEPT ![l] = "held"] /\ unlocking' = unlocking
           /\ phase[l] = "acquiring" /\ l \in granting
        \/ /\ phase' = [phase EXCEPT ![l] = "timedOut"] /\ unlocking' = unlocking
           /\ phase[l] = "acquiring"
        \/ phase' = [phase EXCEPT ![l] = "releasing"] /\ phase[l] = "held"
        \/ /\ phase' = [phase EXCEPT ![l] = "gone"] /\ unlocking' = unlocking
           /\ phase[l] = "releasing"
    BY <1>2 DEF Granted, AquireTimeout, Release, Freed, ReleaseTimeout, ipcVars
  <2>3. phase' \in [Locks -> Phases] /\ \A k \in Locks : k # l => phase'[k] = phase[k]
    BY <1>t, <2>2 DEF Phases
  <2>4. \/ next = phase[l] /\ unlocking' = unlocking
        \/ next = "held" /\ unlocking' = unlocking /\ phase[l] = "acquiring" /\ l \in granting
        \/ next = "timedOut" /\ unlocking' = unlocking /\ phase[l] = "acquiring"
        \/ next = "releasing" /\ phase[l] = "held"
        \/ next = "gone" /\ unlocking' = unlocking /\ phase[l] = "releasing"
    <3>1. ASSUME NEW p \in Phases, phase' = [phase EXCEPT ![l] = p] PROVE phase'[l] = p
      BY <1>t, <3>1
    <3>2. {"held", "timedOut", "releasing", "gone"} \subseteq Phases
      BY DEF Phases
    <3> QED BY <2>2, <3>1, <3>2
  <2>5. InUse' = InUse
    BY <2>3, <2>4 DEF InUse
  <2>6. \A t \in Threads : LiveLocks(t)' \subseteq LiveLocks(t)
    BY <2>1, <2>3, <2>4 DEF LiveLocks, LocksOf, Live
  <2>7. LocksTypeOK'
    <3>1. unlocking' \in SUBSET Locks /\ granting' \in SUBSET Locks /\ freeing' \in SUBSET Locks
      BY <1>0, <2>1 DEF LocksTypeOK
    <3> QED BY <1>0, <2>1, <2>3, <3>1 DEF LocksTypeOK
  <2>8. ClaimStands'
    <3> SUFFICES ASSUME NEW k \in Locks, Claims(k)', Safe(thread[k])' PROVE holder'[resource'[k]] = k
      BY DEF ClaimStands
    <3>1. Claims(k)
      BY <2>1, <2>3, <2>4 DEF Claims
    <3> QED BY <1>0, <2>1, <3>1 DEF ClaimStands, Safe
  <2>9. GivenUp'
    <3> SUFFICES ASSUME NEW k \in unlocking' \cup failing' PROVE phase'[k] \notin {"acquiring", "held"}
      BY DEF GivenUp
    <3>1. k \in Locks
      BY <1>0, <2>1 DEF LocksTypeOK
    <3>2. CASE k # l
      BY <1>0, <2>1, <2>3, <3>1, <3>2 DEF GivenUp
    <3>3. CASE k = l
      BY <1>0, <2>1, <2>4, <3>3 DEF GivenUp
    <3> QED BY <3>2, <3>3
  <2>10. DoneWhenEnded' /\ DoneWhenDead'
    BY <1>0, <2>1, <2>6 DEF DoneWhenEnded, DoneWhenDead, Safe
  <2>11. KnownLocks'
    <3>1. unlocking' \subseteq InUse
      <4>1. l \in unlocking' \ unlocking => l \in InUse
        BY <2>4 DEF InUse
      <4> QED BY <1>0, <2>1, <4>1 DEF KnownLocks
    <3> QED BY <1>0, <2>1, <2>5, <3>1 DEF KnownLocks
  <2> QED BY <2>7, <2>8, <2>9, <2>10, <2>11 DEF OwnInv
<1> QED BY <1>1, <1>2 DEF ChildStep

(* The steps of the loops and of the threads.                              *)
LEMMA LoopStepKeeps ==
  ASSUME OwnInv, LoopStep
  PROVE  OwnInv'
<1>0. LocksTypeOK /\ ClaimStands /\ GivenUp /\ DoneWhenEnded /\ DoneWhenDead /\ KnownLocks
  BY DEF OwnInv
<1>t. /\ phase \in [Locks -> Phases]
      /\ loop \in [Threads -> LoopStates] /\ up \in [Threads -> BOOLEAN]
      /\ terminating \in SUBSET Threads /\ strayed \in SUBSET Threads /\ unreported \in SUBSET Threads
  BY <1>0 DEF LocksTypeOK
<1> SUFFICES ASSUME NEW t \in Threads,
                    \/ StartJob(t) \/ FinishJob(t) \/ ReportJob(t) \/ ReportFails(t)
                    \/ ThreadDies(t) \/ InitWorker(t) \/ Terminate(t) \/ StopIdle(t)
             PROVE  OwnInv'
  BY DEF LoopStep
<1>1. AfterJob(t) \in [Threads -> LoopStates] /\ \A u \in Threads : AfterJob(t)[u] = "ended" => loop[u] = "ended"
  <2>1. AfterJob(t) = [loop EXCEPT ![t] = "stopped"] \/ AfterJob(t) = [loop EXCEPT ![t] = "idle"]
    BY DEF AfterJob
  <2> QED BY <1>t, <2>1 DEF LoopStates
<1>2. ASSUME UNCHANGED <<lockVars, parentVars, ipcVars, terminating, strayed>>,
             loop' \in [Threads -> LoopStates], unreported' \in SUBSET Threads,
             \A u \in Threads : loop'[u] = "ended" => loop[u] = "ended",
             up' = up \/ up' = [up EXCEPT ![t] = TRUE]
      PROVE  OwnInv'
  <2>1. UNCHANGED <<phase, thread, resource, inside, holder, waiting, ahead,
                    locking, unlocking, granting, freeing, failing, terminating, strayed>>
    BY <1>2 DEF lockVars, parentVars, ipcVars
  <2>2. up' \in [Threads -> BOOLEAN] /\ \A u \in Threads : up[u] => up'[u]
    BY <1>t, <1>2
  <2>3. LocksTypeOK'
    BY <1>0, <1>2, <2>1, <2>2 DEF LocksTypeOK
  <2>4. ClaimStands' /\ GivenUp' /\ KnownLocks'
    BY <1>0, <2>1 DEF ClaimStands, GivenUp, KnownLocks, Claims, Safe, InUse
  <2>5. \A u \in Threads : LiveLocks(u)' = LiveLocks(u)
    BY <2>1 DEF LiveLocks, LocksOf
  <2>6. DoneWhenEnded' /\ DoneWhenDead'
    BY <1>0, <1>2, <2>1, <2>2, <2>5 DEF DoneWhenEnded, DoneWhenDead, Safe
  <2> QED BY <2>3, <2>4, <2>6 DEF OwnInv
<1>3. CASE StartJob(t)
  <2>1. loop' = [loop EXCEPT ![t] = "running"]
        /\ UNCHANGED <<lockVars, parentVars, ipcVars, up, terminating, strayed, unreported>>
    BY <1>3 DEF StartJob
  <2>2. loop' \in [Threads -> LoopStates] /\ \A u \in Threads : loop'[u] = "ended" => loop[u] = "ended"
    BY <1>t, <2>1 DEF LoopStates
  <2> QED BY <1>2, <1>t, <2>1, <2>2
<1>4. CASE StopIdle(t)
  <2>1. loop' = [loop EXCEPT ![t] = "stopped"]
        /\ UNCHANGED <<lockVars, parentVars, ipcVars, up, terminating, strayed, unreported>>
    BY <1>4 DEF StopIdle
  <2>2. loop' \in [Threads -> LoopStates] /\ \A u \in Threads : loop'[u] = "ended" => loop[u] = "ended"
    BY <1>t, <2>1 DEF LoopStates
  <2> QED BY <1>2, <1>t, <2>1, <2>2
<1>5. CASE ReportFails(t)
  <2>1. loop' = AfterJob(t) /\ unreported' = unreported \cup {t}
        /\ UNCHANGED <<lockVars, parentVars, ipcVars, up, terminating, strayed>>
    BY <1>5 DEF ReportFails
  <2> QED BY <1>1, <1>2, <1>t, <2>1
<1>6. CASE InitWorker(t)
  <2>1. up' = [up EXCEPT ![t] = TRUE]
        /\ UNCHANGED <<lockVars, parentVars, ipcVars, loop, terminating, strayed, unreported>>
    BY <1>6 DEF InitWorker
  <2> QED BY <1>2, <1>t, <2>1
<1>7. CASE ReportJob(t)
  <2>1. /\ loop[t] = "ended" /\ loop' = AfterJob(t) /\ ReleaseAllForThread(t)
        /\ unreported' = unreported \ {t}
        /\ UNCHANGED <<phase, thread, resource, inside, locking, unlocking, freeing, up, terminating, strayed>>
    BY <1>7 DEF ReportJob, lockVars
  <2>2. t \notin terminating' \cup strayed => LiveLocks(t) = {}
    BY <1>0, <2>1 DEF DoneWhenEnded, Safe
  <2>3. unreported' \in SUBSET Threads /\ terminating \subseteq terminating' /\ terminating' \in SUBSET Threads
    BY <1>t, <2>1
  <2>4. loop' \in [Threads -> LoopStates] /\ \A u \in Threads : loop'[u] = "ended" => loop[u] = "ended"
    BY <1>1, <2>1
  <2> QED BY <2>1, <2>2, <2>3, <2>4, ReleaseAllKeeps
<1>8. CASE Terminate(t)
  <2>1. /\ ReleaseAllForThread(t) /\ terminating' = terminating \cup {t}
        /\ UNCHANGED <<phase, thread, resource, inside, locking, unlocking, freeing, loop, up, strayed, unreported>>
    BY <1>8 DEF Terminate, lockVars
  <2>2. t \in terminating' /\ terminating' \in SUBSET Threads /\ terminating \subseteq terminating'
    BY <1>t, <2>1
  <2> QED BY <1>t, <2>1, <2>2, ReleaseAllKeeps
<1>9. CASE FinishJob(t)
  <2>1. /\ loop' = [loop EXCEPT ![t] = "ended"]
        /\ strayed' = IF LiveLocks(t) = {} THEN strayed ELSE strayed \cup {t}
        /\ phase' = [l \in Locks |-> IF l \in TimedOut(t) THEN "gone" ELSE phase[l]]
        /\ UNCHANGED <<thread, resource, inside, holder, waiting, ahead,
                       locking, unlocking, granting, freeing, failing, up, terminating, unreported>>
    BY <1>9 DEF FinishJob, parentVars, ipcVars
  <2>2. \A l \in Locks : phase'[l] = phase[l] \/ (phase[l] = "timedOut" /\ phase'[l] = "gone")
    BY <2>1 DEF TimedOut
  <2>3. phase' \in [Locks -> Phases]
    BY <1>t, <2>1 DEF Phases
  <2>4. strayed' \in SUBSET Threads /\ strayed \subseteq strayed' /\ (LiveLocks(t) # {} => t \in strayed')
    BY <1>t, <2>1
  <2>5. InUse' = InUse /\ \A u \in Threads : LiveLocks(u)' = LiveLocks(u)
    BY <2>1, <2>2 DEF InUse, LiveLocks, LocksOf, Live
  <2>6. loop' \in [Threads -> LoopStates] /\ \A u \in Threads : u # t => loop'[u] = loop[u]
    BY <1>t, <2>1 DEF LoopStates
  <2>7. LocksTypeOK'
    BY <1>0, <2>1, <2>3, <2>4, <2>6 DEF LocksTypeOK
  <2>8. ClaimStands'
    <3> SUFFICES ASSUME NEW k \in Locks, Claims(k)', Safe(thread[k])' PROVE holder'[resource'[k]] = k
      BY DEF ClaimStands
    <3>1. Claims(k) /\ Safe(thread[k])
      BY <2>1, <2>2, <2>4 DEF Claims, Safe
    <3> QED BY <1>0, <2>1, <3>1 DEF ClaimStands
  <2>9. GivenUp'
    <3>1. unlocking \cup failing \subseteq Locks
      BY <1>0 DEF LocksTypeOK
    <3> QED BY <1>0, <2>1, <2>2, <3>1 DEF GivenUp
  <2>10. DoneWhenEnded'
    BY <1>0, <2>1, <2>4, <2>5, <2>6 DEF DoneWhenEnded, Safe
  <2>11. DoneWhenDead'
    BY <1>0, <2>1, <2>5 DEF DoneWhenDead
  <2>12. KnownLocks'
    BY <1>0, <2>1, <2>5 DEF KnownLocks
  <2> QED BY <2>7, <2>8, <2>9, <2>10, <2>11, <2>12 DEF OwnInv
<1>10. CASE ThreadDies(t)
  <2> DEFINE dead == LiveLocks(t) \cup TimedOut(t)
  <2>1. /\ up' = [up EXCEPT ![t] = FALSE]
        /\ loop' = IF loop[t] = "running" THEN [loop EXCEPT ![t] = "ended"] ELSE loop
        /\ phase' = [l \in Locks |-> IF l \in dead THEN "gone" ELSE phase[l]]
        /\ locking' = locking \ LocksOf(t)
        /\ unlocking' = unlocking \ LocksOf(t)
        /\ failing' = failing \cup (granting \cap LocksOf(t))
        /\ granting' = granting \ LocksOf(t)
        /\ freeing' = freeing \ LocksOf(t)
        /\ UNCHANGED <<thread, resource, inside, holder, waiting, ahead, terminating, strayed, unreported>>
    BY <1>10 DEF ThreadDies, parentVars
  <2>2. \A l \in Locks : phase'[l] = phase[l] \/ (phase[l] # "unused" /\ phase'[l] = "gone")
    BY <2>1 DEF TimedOut, LiveLocks, Live
  <2>3. phase' \in [Locks -> Phases]
    BY <1>t, <2>1 DEF Phases
  <2>4. InUse' = InUse /\ \A u \in Threads : LiveLocks(u)' \subseteq LiveLocks(u)
    BY <2>1, <2>2 DEF InUse, LiveLocks, LocksOf, Live
  <2>5. LiveLocks(t)' = {}
    BY <2>1 DEF LiveLocks, LocksOf, Live
  <2>6. /\ loop' \in [Threads -> LoopStates] /\ \A u \in Threads : u # t => loop'[u] = loop[u]
        /\ up' \in [Threads -> BOOLEAN] /\ \A u \in Threads : u # t => up'[u] = up[u]
    BY <1>t, <2>1 DEF LoopStates
  <2>7. LocksTypeOK'
    <3>1. /\ locking' \in SUBSET Locks /\ unlocking' \in SUBSET Locks /\ granting' \in SUBSET Locks
          /\ freeing' \in SUBSET Locks /\ failing' \in SUBSET Locks
      BY <1>0, <2>1 DEF LocksTypeOK
    <3> QED BY <1>0, <2>1, <2>3, <2>6, <3>1 DEF LocksTypeOK
  <2>8. ClaimStands'
    <3> SUFFICES ASSUME NEW k \in Locks, Claims(k)', Safe(thread[k])' PROVE holder'[resource'[k]] = k
      BY DEF ClaimStands
    <3>1. Claims(k) /\ Safe(thread[k])
      BY <2>1, <2>2 DEF Claims, Safe
    <3> QED BY <1>0, <2>1, <3>1 DEF ClaimStands
  <2>9. GivenUp'
    <3> SUFFICES ASSUME NEW k \in unlocking' \cup failing' PROVE phase'[k] \notin {"acquiring", "held"}
      BY DEF GivenUp
    <3>1. k \in Locks
      BY <1>0, <2>1 DEF LocksTypeOK
    <3>2. CASE k \in unlocking \cup failing
      BY <1>0, <2>2, <3>1, <3>2 DEF GivenUp
    <3>3. CASE k \in LocksOf(t)
      BY <2>5, <3>1, <3>3, <2>1 DEF LiveLocks, LocksOf, Live
    <3> QED BY <2>1, <3>2, <3>3
  <2>10. DoneWhenEnded' /\ DoneWhenDead'
    BY <1>0, <2>1, <2>4, <2>5, <2>6 DEF DoneWhenEnded, DoneWhenDead, Safe
  <2>11. KnownLocks'
    BY <1>0, <2>1, <2>4 DEF KnownLocks
  <2> QED BY <2>7, <2>8, <2>9, <2>10, <2>11 DEF OwnInv
<1> QED BY <1>3, <1>4, <1>5, <1>6, <1>7, <1>8, <1>9, <1>10

-----------------------------------------------------------------------------
LEMMA OwnStart == LocksInit => OwnInv
<1> SUFFICES ASSUME LocksInit PROVE OwnInv
  OBVIOUS
<1>1. LocksTypeOK
  BY DEF LocksInit, LocksTypeOK, Phases, LoopStates
<1>2. InUse = {} /\ \A l \in Locks : ~Claims(l)
  BY DEF LocksInit, InUse, Claims
<1>3. \A t \in Threads : LiveLocks(t) = {}
  BY DEF LocksInit, LiveLocks, LocksOf, Live
<1>4. KnownLocks
  BY <1>2 DEF LocksInit, KnownLocks
<1> QED BY <1>1, <1>2, <1>3, <1>4
        DEF OwnInv, ClaimStands, GivenUp, DoneWhenEnded, DoneWhenDead, LocksInit

LEMMA OwnStep == OwnInv /\ [LocksNext]_locksVars => OwnInv'
<1> SUFFICES ASSUME OwnInv, [LocksNext]_locksVars PROVE OwnInv'
  OBVIOUS
<1>1. CASE LocksNext
  BY <1>1, ParentStepKeeps, ChildStepKeeps, LoopStepKeeps DEF LocksNext
<1>2. CASE UNCHANGED locksVars
  BY <1>2 DEF locksVars, lockVars, parentVars, ipcVars, loopVars, OwnInv, LocksTypeOK, ClaimStands, GivenUp,
              DoneWhenEnded, DoneWhenDead, KnownLocks, InUse, Claims, Safe, LiveLocks, LocksOf
<1> QED BY <1>1, <1>2

LEMMA Owned == LocksSpec => []OwnInv
BY OwnStart, OwnStep, PTL DEF LocksSpec

(* The state of locks.ts, workers/locks.ts and of the loops always has its *)
(* type.                                                                   *)
THEOREM TypeCorrect == LocksSpec => []LocksTypeOK
<1>1. OwnInv => LocksTypeOK
  BY DEF OwnInv
<1> QED BY <1>1, Owned, PTL

(* Two jobs own one playlist or rundown only if a thread of theirs was told *)
(* to terminate or left a branch behind, for any number of threads, locks  *)
(* and resources, with time-outs, crashes, restarts and failed grants.     *)
THEOREM ExclusiveOwnership == LocksSpec => []Exclusive
<1>1. OwnInv => Exclusive
  <2> SUFFICES ASSUME OwnInv, NEW r \in Resources, NEW k \in Held(r), NEW l \in Held(r),
                      Safe(thread[k]), Safe(thread[l])
               PROVE  k = l
    BY DEF Exclusive, Safe
  <2> QED BY DEF Held, OwnInv, ClaimStands, Claims
<1> QED BY <1>1, Owned, PTL

(* Where no thread is told to terminate and no job locks rundowns in       *)
(* parallel, none ever frees locks that a job still uses.                  *)
NoneUnsafe == terminating = {} /\ strayed = {}

LEMMA NobodyUnsafe ==
  ASSUME Shutdowns = {}, StrayThreads = {}
  PROVE  LocksSpec => []NoneUnsafe
<1>1. LocksInit => NoneUnsafe
  BY DEF LocksInit, NoneUnsafe
<1>2. NoneUnsafe /\ [LocksNext]_locksVars => NoneUnsafe'
  <2> SUFFICES ASSUME NoneUnsafe, [LocksNext]_locksVars PROVE NoneUnsafe'
    OBVIOUS
  <2> USE DEF NoneUnsafe
  <2>1. CASE UNCHANGED locksVars
    BY <2>1 DEF locksVars, loopVars
  <2>2. CASE ParentStep
    BY <2>2 DEF ParentStep, HandleLock, HandleUnlock, GrantFailed, loopVars
  <2>3. CASE ChildStep
    BY <2>3 DEF ChildStep, Aquire, Granted, AquireTimeout, Release, Freed, ReleaseTimeout, loopVars
  <2>4. CASE LoopStep
    BY <2>4 DEF LoopStep, StartJob, FinishJob, ReportJob, ReportFails, ThreadDies, InitWorker,
                Terminate, StopIdle
  <2> QED BY <2>1, <2>2, <2>3, <2>4 DEF LocksNext
<1> QED BY <1>1, <1>2, PTL DEF LocksSpec

(* There, a lock means ownership of its playlist or rundown.               *)
THEOREM OneOwner ==
  ASSUME Shutdowns = {}, StrayThreads = {}
  PROVE  LocksSpec => []MutualExclusion
<1>1. NoneUnsafe /\ Exclusive => MutualExclusion
  BY DEF NoneUnsafe, Exclusive, MutualExclusion
<1> QED BY <1>1, NobodyUnsafe, ExclusiveOwnership, PTL
-----------------------------------------------------------------------------
(* What lockNextWorker leaves of holders H and waiting locks W: a holder   *)
(* comes from one of them, and where R has no holder nobody waits.         *)
LEMMA ServeLeaves ==
  ASSUME NEW R \in SUBSET Resources,
         NEW H \in [Resources -> Locks \cup {NoLock}],
         NEW W \in [Resources -> SUBSET Locks],
         NEW F \in SUBSET Locks,
         Serve(R, H, W, F)
  PROVE  \A r \in Resources :
           /\ waiting'[r] \subseteq W[r]
           /\ holder'[r] \in W[r] \cup {H[r]}
           /\ holder'[r] = NoLock => H[r] = NoLock /\ (r \in R => W[r] = {})
<1> DEFINE S == {r \in R : H[r] = NoLock /\ W[r] # {}}
<1>1. PICK first \in [S -> Locks] :
        /\ \A r \in S : first[r] \in W[r]
        /\ holder' = [r \in Resources |-> IF r \in S THEN first[r] ELSE H[r]]
        /\ waiting' = [r \in Resources |-> IF r \in S THEN W[r] \ {first[r]} ELSE W[r]]
  BY DEF Serve
<1>2. \A r \in S : first[r] \in W[r] /\ first[r] # NoLock
  BY <1>1 DEF Locks, NoLock
<1>3. \A r \in Resources : /\ holder'[r] = IF r \in S THEN first[r] ELSE H[r]
                           /\ waiting'[r] = IF r \in S THEN W[r] \ {first[r]} ELSE W[r]
  BY <1>1, Zenon
<1>4. \A r \in Resources : r \notin S /\ r \in R /\ H[r] = NoLock => W[r] = {}
  OBVIOUS
<1> HIDE DEF S
<1> QED BY <1>2, <1>3, <1>4

(* The parent: a step that serves the resources it gave up, and leaves     *)
(* nothing to a thread between its jobs.                                   *)
LEMMA ParentGivesBack ==
  ASSUME BackInv, OwnInv',
         NEW R \in SUBSET Resources,
         NEW H \in [Resources -> Locks \cup {NoLock}],
         NEW W \in [Resources -> SUBSET Locks],
         NEW F \in SUBSET Locks,
         Serve(R, H, W, F),
         UNCHANGED <<phase, thread, strayed>>, locking' \subseteq locking,
         \A r \in Resources \ R : H[r] = holder[r] /\ W[r] \subseteq waiting[r],
         \A t \in Threads \ (strayed \cup unreported') : loop'[t] = "idle" =>
           \A r \in Resources : H[r] \notin LocksOf(t) /\ W[r] \cap LocksOf(t) = {},
         \A t \in Threads : loop[t] = "running" => loop'[t] = "running",
         \A l \in locking' : \A r \in Resources : l \notin W[r]
  PROVE  BackInv'
<1>0. /\ ResourcesComeBack /\ QuietBetweenJobs /\ AskedForIsWanted
      /\ granting \in SUBSET Locks
  BY DEF BackInv, OwnInv, LocksTypeOK
<1>1. \A r \in Resources :
        /\ waiting'[r] \subseteq W[r]
        /\ holder'[r] \in W[r] \cup {H[r]}
        /\ holder'[r] = NoLock => H[r] = NoLock /\ (r \in R => W[r] = {})
  BY ServeLeaves
<1>2. NoIdleResource'
  <2> SUFFICES ASSUME NEW r \in Resources, holder'[r] = NoLock PROVE waiting'[r] = {}
    BY DEF NoIdleResource
  <2>1. CASE r \in R
    BY <1>1, <2>1
  <2>2. CASE r \notin R
    <3>1. holder[r] = NoLock /\ W[r] \subseteq waiting[r]
      BY <1>1, <2>2
    <3>2. waiting[r] = {}
      BY <1>0, <3>1 DEF ResourcesComeBack, NoIdleResource
    <3> QED BY <1>1, <3>1, <3>2
  <2> QED BY <2>1, <2>2
<1>3. FreedBetweenJobs'
  <2> SUFFICES ASSUME NEW t \in Threads \ (strayed \cup unreported'), loop'[t] = "idle",
                      NEW r \in Resources
               PROVE  holder'[r] \notin LocksOf(t) /\ waiting'[r] \cap LocksOf(t) = {}
    BY DEF FreedBetweenJobs, LocksOf
  <2> QED BY <1>1
<1>4. QuietBetweenJobs' /\ AskedForIsWanted'
  <2>1. \A t \in Threads : LiveLocks(t)' = LiveLocks(t)
    BY DEF LiveLocks, LocksOf
  <2>2. QuietBetweenJobs'
    BY <1>0, <2>1 DEF QuietBetweenJobs
  <2>3. \A l \in granting' : l \in granting \/ \E r \in Resources : l \in W[r]
    BY <1>0, ServeFacts DEF Served
  <2> QED BY <1>0, <1>1, <2>2, <2>3 DEF AskedForIsWanted
<1> QED BY <1>2, <1>3, <1>4 DEF BackInv, ResourcesComeBack

LEMMA ReleaseAllGivesBack ==
  ASSUME BackInv, OwnInv', NEW t \in Threads, ReleaseAllForThread(t),
         UNCHANGED <<phase, thread, strayed, locking>>,
         \A u \in Threads : u # t /\ loop'[u] = "idle" => loop[u] = "idle",
         \A u \in Threads : loop[u] = "running" => loop'[u] = "running",
         unreported \ {t} \subseteq unreported'
  PROVE  BackInv'
<1> DEFINE mine == {r \in Resources : holder[r] \in LocksOf(t)}
           H == [r \in Resources |-> IF r \in mine THEN NoLock ELSE holder[r]]
           W == [r \in Resources |-> waiting[r] \ LocksOf(t)]
<1>0. LocksTypeOK /\ ResourcesComeBack /\ AskedForIsWanted
  BY DEF BackInv, OwnInv
<1>1. Serve(mine, H, W, failing)
  BY DEF ReleaseAllForThread
<1>2. /\ mine \in SUBSET Resources
      /\ H \in [Resources -> Locks \cup {NoLock}]
      /\ W \in [Resources -> SUBSET Locks]
      /\ failing \in SUBSET Locks
  BY <1>0 DEF LocksTypeOK
<1>3. \A r \in Resources \ mine : H[r] = holder[r] /\ W[r] \subseteq waiting[r]
  OBVIOUS
<1>4. ASSUME NEW u \in Threads \ (strayed \cup unreported'), loop'[u] = "idle", NEW r \in Resources
      PROVE  H[r] \notin LocksOf(u) /\ W[r] \cap LocksOf(u) = {}
  <2>1. NoLock \notin LocksOf(u)
    BY DEF LocksOf, Locks, NoLock
  <2>2. CASE u = t
    BY <2>1, <2>2
  <2>3. CASE u # t
    <3>1. loop[u] = "idle" /\ u \notin unreported
      BY <1>4, <2>3
    <3>2. holder[r] \notin LocksOf(u) /\ waiting[r] \cap LocksOf(u) = {}
      BY <1>0, <1>4, <3>1 DEF ResourcesComeBack, FreedBetweenJobs
    <3> QED BY <2>1, <3>2
  <2> QED BY <2>2, <2>3
<1>5. \A l \in locking' : \A r \in Resources : l \notin W[r]
  BY <1>0 DEF AskedForIsWanted
<1> HIDE DEF mine, H, W
<1> QED BY <1>1, <1>2, <1>3, <1>4, <1>5, ParentGivesBack

LEMMA ParentStepGivesBack ==
  ASSUME BackInv, OwnInv', ParentStep
  PROVE  BackInv'
<1> SUFFICES ASSUME NEW l \in Locks, HandleLock(l) \/ HandleUnlock(l) \/ GrantFailed(l)
             PROVE  BackInv'
  BY DEF ParentStep
<1>0. LocksTypeOK /\ KnownLocks /\ ResourcesComeBack /\ QuietBetweenJobs /\ AskedForIsWanted
  BY DEF BackInv, OwnInv
<1> DEFINE r == resource[l]
           Freeing == [holder EXCEPT ![r] = NoLock]
           Joining == [waiting EXCEPT ![r] = @ \cup {l}]
<1>1. l \in locking \cup unlocking \cup failing =>
        r \in Resources /\ {r} \in SUBSET Resources /\ thread[l] \in Threads
  BY <1>0 DEF KnownLocks
<1>2. /\ holder \in [Resources -> Locks \cup {NoLock}] /\ waiting \in [Resources -> SUBSET Locks]
      /\ Freeing \in [Resources -> Locks \cup {NoLock}] /\ Joining \in [Resources -> SUBSET Locks]
      /\ failing \in SUBSET Locks
  BY <1>0 DEF LocksTypeOK, NoLock
<1>3. UNCHANGED <<phase, thread, strayed, loop, unreported>> /\ locking' \subseteq locking
  BY DEF HandleLock, HandleUnlock, GrantFailed, lockVars, loopVars
<1>4. ASSUME NEW t \in Threads \ (strayed \cup unreported'), loop'[t] = "idle", NEW q \in Resources
      PROVE  /\ holder[q] \notin LocksOf(t) /\ waiting[q] \cap LocksOf(t) = {}
             /\ Freeing[q] \notin LocksOf(t)
  <2>1. holder[q] \notin LocksOf(t) /\ waiting[q] \cap LocksOf(t) = {}
    BY <1>0, <1>3, <1>4 DEF ResourcesComeBack, FreedBetweenJobs
  <2>2. NoLock \notin LocksOf(t)
    BY DEF LocksOf, Locks, NoLock
  <2> QED BY <1>2, <2>1, <2>2
<1>5. \A q \in Resources \ {r} : Freeing[q] = holder[q] /\ Joining[q] = waiting[q]
  BY <1>2
<1>w. \A k \in locking' : \A q \in Resources : k \notin waiting[q]
  BY <1>0, <1>3 DEF AskedForIsWanted
<1>6. CASE HandleLock(l)
  <2>1. l \in locking /\ Serve({r}, holder, Joining, failing)
    BY <1>6 DEF HandleLock
  <2>2. ASSUME NEW t \in Threads \ (strayed \cup unreported'), loop'[t] = "idle", NEW q \in Resources
        PROVE  holder[q] \notin LocksOf(t) /\ Joining[q] \cap LocksOf(t) = {}
    <3>1. phase[l] = "acquiring"
      BY <1>0, <2>1 DEF AskedForIsWanted
    <3>2. l \notin LocksOf(t)
      BY <1>0, <1>3, <2>2, <3>1 DEF QuietBetweenJobs, LiveLocks, Live
    <3>3. Joining[q] \subseteq waiting[q] \cup {l}
      BY <1>2
    <3> QED BY <1>4, <2>2, <3>2, <3>3
  <2>3. \A k \in locking' : \A q \in Resources : k \notin Joining[q]
    <3>1. l \notin locking'
      BY <1>6 DEF HandleLock
    <3>2. \A q \in Resources : Joining[q] \subseteq waiting[q] \cup {l}
      BY <1>2
    <3> QED BY <1>w, <3>1, <3>2
  <2> HIDE DEF r, Freeing, Joining
  <2> QED BY <1>1, <1>2, <1>3, <1>5, <2>1, <2>2, <2>3, ParentGivesBack
<1>7. CASE HandleUnlock(l)
  <2>1. l \in unlocking /\ Serve({r}, IF holder[r] = l THEN Freeing ELSE holder, waiting, failing)
    BY <1>7 DEF HandleUnlock
  <2> HIDE DEF r, Freeing, Joining
  <2>2. CASE holder[r] = l
    BY <1>1, <1>2, <1>3, <1>4, <1>5, <1>w, <2>1, <2>2, ParentGivesBack
  <2>3. CASE holder[r] # l
    BY <1>1, <1>2, <1>3, <1>4, <1>5, <1>w, <2>1, <2>3, ParentGivesBack
  <2> QED BY <2>2, <2>3
<1>8. CASE GrantFailed(l)
  <2>1. l \in failing /\ failing \ {l} \in SUBSET Locks
    BY <1>2, <1>8 DEF GrantFailed
  <2>2. CASE holder[r] = l
    <3>1. Serve({r}, Freeing, waiting, failing \ {l})
      BY <1>8, <2>2 DEF GrantFailed
    <3> HIDE DEF r, Freeing, Joining
    <3> QED BY <1>1, <1>2, <1>3, <1>4, <1>5, <1>w, <2>1, <3>1, ParentGivesBack
  <2>3. CASE holder[r] # l
    <3>1. UNCHANGED <<holder, waiting>>
      BY <1>8, <2>3 DEF GrantFailed
    <3>2. ResourcesComeBack'
      BY <1>0, <1>3, <3>1 DEF ResourcesComeBack, NoIdleResource, FreedBetweenJobs, LocksOf
    <3>3. granting' = granting
      BY <1>8, <2>3 DEF GrantFailed
    <3>4. QuietBetweenJobs' /\ AskedForIsWanted'
      BY <1>0, <1>3, <3>1, <3>3 DEF QuietBetweenJobs, AskedForIsWanted, LiveLocks, LocksOf
    <3> QED BY <3>2, <3>4 DEF BackInv
  <2> QED BY <2>2, <2>3
<1> QED BY <1>6, <1>7, <1>8

(* A branch of a job only works while its job runs, or it was left behind. *)
LEMMA ChildStepGivesBack ==
  ASSUME BackInv, OwnInv', ChildStep
  PROVE  BackInv'
<1>0. LocksTypeOK /\ KnownLocks /\ ResourcesComeBack /\ QuietBetweenJobs /\ AskedForIsWanted
  BY DEF BackInv, OwnInv
<1>t. phase \in [Locks -> Phases] /\ thread \in [Locks -> Threads \cup {NoOwner}]
  BY <1>0 DEF LocksTypeOK
<1>s. UNCHANGED <<holder, waiting, loop, strayed, unreported>>
  BY DEF ChildStep, Aquire, Granted, AquireTimeout, Release, Freed, ReleaseTimeout, parentVars, loopVars
<1>g. granting' \subseteq granting
  BY DEF ChildStep, Aquire, Granted, AquireTimeout, Release, Freed, ReleaseTimeout, ipcVars
<1>n. NoIdleResource'
  BY <1>0, <1>s DEF ResourcesComeBack, NoIdleResource
<1>1. ASSUME NEW t \in Threads, NEW r \in Resources, NEW l \in Locks, NEW outer \in Locks \cup {NoLock},
             Aquire(t, r, l, outer)
      PROVE  BackInv'
  <2>1. /\ phase[l] = "unused"
        /\ phase' = [phase EXCEPT ![l] = "acquiring"]
        /\ thread' = [thread EXCEPT ![l] = t]
        /\ locking' = locking \cup {l}
    BY <1>1 DEF Aquire
  <2>2. t \in strayed \/ loop[t] = "running"
    <3>1. CASE outer = NoLock /\ loop[t] = "running"
      BY <3>1
    <3>2. CASE Nests(t, r, outer)
      <4>1. outer \in LiveLocks(t)
        BY <3>2 DEF Nests, LiveLocks, Live
      <4> QED BY <1>0, <4>1 DEF QuietBetweenJobs
    <3> QED BY <1>1, <3>1, <3>2 DEF Aquire
  <2>3. \A k \in Locks : k # l => phase'[k] = phase[k] /\ thread'[k] = thread[k]
    BY <1>t, <2>1
  <2>4. phase'[l] = "acquiring" /\ thread'[l] = t
    BY <1>t, <2>1
  <2>5. \A u \in Threads : u # t => /\ LocksOf(u)' \subseteq LocksOf(u)
                                    /\ LiveLocks(u)' \subseteq LiveLocks(u)
    BY <2>3, <2>4 DEF LocksOf, LiveLocks
  <2>6. FreedBetweenJobs'
    <3> SUFFICES ASSUME NEW u \in Threads \ (strayed \cup unreported), loop[u] = "idle",
                        NEW q \in Resources
                 PROVE  holder[q] \notin LocksOf(u)' /\ waiting[q] \cap LocksOf(u)' = {}
      BY <1>s DEF FreedBetweenJobs
    <3>1. u # t
      BY <2>2
    <3>2. holder[q] \notin LocksOf(u) /\ waiting[q] \cap LocksOf(u) = {}
      BY <1>0 DEF ResourcesComeBack, FreedBetweenJobs
    <3> QED BY <2>5, <3>1, <3>2
  <2>7. QuietBetweenJobs'
    <3> SUFFICES ASSUME NEW u \in Threads \ strayed, loop[u] # "running"
                 PROVE  LiveLocks(u)' = {}
      BY <1>s DEF QuietBetweenJobs
    <3>1. u # t /\ LiveLocks(u) = {}
      BY <1>0, <2>2 DEF QuietBetweenJobs
    <3> QED BY <2>5, <3>1
  <2>8. AskedForIsWanted'
    <3>1. locking \subseteq Locks
      BY <1>0 DEF LocksTypeOK
    <3>2. l \notin granting /\ \A q \in Resources : l \notin waiting[q]
      BY <1>0, <2>1 DEF KnownLocks, InUse
    <3> QED BY <1>0, <1>g, <1>s, <2>1, <2>3, <2>4, <3>1, <3>2 DEF AskedForIsWanted
  <2> QED BY <1>n, <2>6, <2>7, <2>8 DEF BackInv, ResourcesComeBack
<1>2. ASSUME NEW l \in Locks,
             Granted(l) \/ AquireTimeout(l) \/ Release(l) \/ Freed(l) \/ ReleaseTimeout(l)
      PROVE  BackInv'
  <2>1. thread' = thread /\ locking' = locking
    BY <1>2 DEF Granted, AquireTimeout, Release, Freed, ReleaseTimeout, ipcVars
  <2>2. \/ phase' = phase
        \/ /\ phase[l] = "acquiring" /\ l \in granting
           /\ phase' = [phase EXCEPT ![l] = "held"]
        \/ /\ phase[l] = "acquiring" /\ l \notin locking
           /\ phase' = [phase EXCEPT ![l] = "timedOut"]
        \/ /\ phase[l] = "held"
           /\ phase' = [phase EXCEPT ![l] = "releasing"]
        \/ /\ phase[l] = "releasing"
           /\ phase' = [phase EXCEPT ![l] = "gone"]
    BY <1>2 DEF Granted, AquireTimeout, Release, Freed, ReleaseTimeout
  <2>3. /\ \A k \in Locks : k # l => phase'[k] = phase[k]
        /\ phase'[l] \in Live => phase[l] \in Live
    BY <1>t, <2>2 DEF Live
  <2>4. \A t \in Threads : LiveLocks(t)' \subseteq LiveLocks(t)
    BY <2>1, <2>3 DEF LiveLocks, LocksOf
  <2>5. FreedBetweenJobs' /\ QuietBetweenJobs'
    BY <1>0, <1>s, <2>1, <2>4 DEF ResourcesComeBack, FreedBetweenJobs, QuietBetweenJobs, LocksOf
  <2>6. l \notin locking \/ phase' = phase
    BY <1>0, <1>2, <2>2 DEF AskedForIsWanted
  <2>7. AskedForIsWanted'
    <3>1. locking \subseteq Locks
      BY <1>0 DEF LocksTypeOK
    <3> QED BY <1>0, <1>g, <1>s, <2>1, <2>3, <2>6, <3>1 DEF AskedForIsWanted
  <2> QED BY <1>n, <2>5, <2>7 DEF BackInv, ResourcesComeBack
<1> QED BY <1>1, <1>2 DEF ChildStep

(* A loop reports a job and frees what it left; a thread that dies asks    *)
(* for nothing any more.                                                   *)
LEMMA LoopStepGivesBack ==
  ASSUME BackInv, OwnInv', LoopStep
  PROVE  BackInv'
<1>0. LocksTypeOK /\ ResourcesComeBack /\ QuietBetweenJobs /\ AskedForIsWanted
  BY DEF BackInv, OwnInv
<1>t. /\ phase \in [Locks -> Phases] /\ loop \in [Threads -> LoopStates]
      /\ locking \in SUBSET Locks
  BY <1>0 DEF LocksTypeOK
<1> SUFFICES ASSUME NEW t \in Threads,
                    \/ StartJob(t) \/ FinishJob(t) \/ ReportJob(t) \/ ReportFails(t)
                    \/ ThreadDies(t) \/ InitWorker(t) \/ Terminate(t) \/ StopIdle(t)
             PROVE  BackInv'
  BY DEF LoopStep
<1>1. ASSUME UNCHANGED <<thread, holder, waiting>>,
             strayed \subseteq strayed', unreported \subseteq unreported',
             locking' \subseteq locking, granting' \subseteq granting,
             \A u \in Threads : LiveLocks(u)' \subseteq LiveLocks(u),
             \A u \in Threads \ (strayed' \cup unreported') : loop'[u] = "idle" => loop[u] = "idle",
             \A u \in Threads \ strayed' : loop'[u] # "running" => loop[u] # "running" \/ LiveLocks(u)' = {},
             \A l \in locking' : phase'[l] = phase[l]
      PROVE  BackInv'
  <2>1. NoIdleResource'
    BY <1>0, <1>1 DEF ResourcesComeBack, NoIdleResource
  <2>2. FreedBetweenJobs'
    BY <1>0, <1>1 DEF ResourcesComeBack, FreedBetweenJobs, LocksOf
  <2>3. QuietBetweenJobs'
    BY <1>0, <1>1 DEF QuietBetweenJobs
  <2>4. AskedForIsWanted'
    BY <1>0, <1>1 DEF AskedForIsWanted
  <2> QED BY <2>1, <2>2, <2>3, <2>4 DEF BackInv, ResourcesComeBack
<1>2. AfterJob(t)[t] # "running" /\ \A u \in Threads : u # t => AfterJob(t)[u] = loop[u]
  BY <1>t DEF AfterJob
<1>3. CASE StartJob(t) \/ StopIdle(t) \/ InitWorker(t)
  <2>1. /\ loop' \in {loop, [loop EXCEPT ![t] = "running"], [loop EXCEPT ![t] = "stopped"]}
        /\ loop' # loop => loop[t] = "idle"
        /\ UNCHANGED <<phase, thread, holder, waiting, locking, granting, strayed, unreported>>
    BY <1>3 DEF StartJob, StopIdle, InitWorker, lockVars, parentVars, ipcVars
  <2>2. \A u \in Threads : LiveLocks(u)' = LiveLocks(u)
    BY <2>1 DEF LiveLocks, LocksOf
  <2>3. \A u \in Threads : /\ loop'[u] = "idle" => loop[u] = "idle"
                           /\ loop'[u] # "running" => loop[u] # "running"
    BY <1>t, <2>1
  <2> QED BY <1>1, <2>1, <2>2, <2>3
<1>4. CASE ReportFails(t)
  <2>1. /\ loop[t] = "ended" /\ loop' = AfterJob(t) /\ unreported' = unreported \cup {t}
        /\ UNCHANGED <<phase, thread, holder, waiting, locking, granting, strayed>>
    BY <1>4 DEF ReportFails, lockVars, parentVars, ipcVars
  <2>2. \A u \in Threads : LiveLocks(u)' = LiveLocks(u)
    BY <2>1 DEF LiveLocks, LocksOf
  <2>3. \A u \in Threads : /\ u # t => loop'[u] = loop[u]
                           /\ loop'[u] # "running" => loop[u] # "running"
    BY <1>2, <2>1
  <2> QED BY <1>1, <2>1, <2>2, <2>3
<1>5. CASE FinishJob(t)
  <2>1. /\ loop[t] = "running" /\ loop' = [loop EXCEPT ![t] = "ended"]
        /\ strayed' = IF LiveLocks(t) = {} THEN strayed ELSE strayed \cup {t}
        /\ phase' = [l \in Locks |-> IF l \in TimedOut(t) THEN "gone" ELSE phase[l]]
        /\ UNCHANGED <<thread, holder, waiting, locking, granting, unreported>>
    BY <1>5 DEF FinishJob, parentVars, ipcVars
  <2>2. \A l \in Locks : phase'[l] = phase[l] \/ (phase[l] = "timedOut" /\ phase'[l] = "gone")
    BY <2>1 DEF TimedOut
  <2>3. \A u \in Threads : LiveLocks(u)' = LiveLocks(u)
    BY <2>1, <2>2 DEF LiveLocks, LocksOf, Live
  <2>4. \A u \in Threads : u # t => loop'[u] = loop[u]
    BY <1>t, <2>1
  <2>5. loop'[t] = "ended" /\ (t \notin strayed' => LiveLocks(t)' = {})
    BY <1>t, <2>1, <2>3
  <2>6. \A l \in locking : phase'[l] = phase[l]
    BY <1>0, <1>t, <2>2 DEF AskedForIsWanted
  <2> QED BY <1>1, <2>1, <2>3, <2>4, <2>5, <2>6
<1>6. CASE ThreadDies(t)
  <2> DEFINE dead == LiveLocks(t) \cup TimedOut(t)
  <2>1. /\ loop' = IF loop[t] = "running" THEN [loop EXCEPT ![t] = "ended"] ELSE loop
        /\ phase' = [l \in Locks |-> IF l \in dead THEN "gone" ELSE phase[l]]
        /\ locking' = locking \ LocksOf(t)
        /\ granting' = granting \ LocksOf(t)
        /\ UNCHANGED <<thread, holder, waiting, strayed, unreported>>
    BY <1>6 DEF ThreadDies, parentVars
  <2>2. \A l \in Locks : phase'[l] = phase[l] \/ (l \in LocksOf(t) /\ phase'[l] = "gone")
    BY <2>1 DEF TimedOut, LiveLocks
  <2>3. \A u \in Threads : LiveLocks(u)' \subseteq LiveLocks(u)
    BY <2>1, <2>2 DEF LiveLocks, LocksOf, Live
  <2>4. LiveLocks(t)' = {}
    BY <2>1 DEF LiveLocks, LocksOf, Live
  <2>5. \A u \in Threads : /\ u # t => loop'[u] = loop[u]
                           /\ loop'[u] = "idle" => loop[u] = "idle"
    BY <1>t, <2>1
  <2>6. \A l \in locking' : phase'[l] = phase[l]
    BY <1>t, <2>1, <2>2
  <2> HIDE DEF dead
  <2> QED BY <1>1, <2>1, <2>3, <2>4, <2>5, <2>6
<1>7. CASE ReportJob(t)
  <2>1. /\ loop[t] = "ended" /\ loop' = AfterJob(t) /\ ReleaseAllForThread(t)
        /\ unreported' = unreported \ {t}
        /\ UNCHANGED <<phase, thread, strayed, locking>>
    BY <1>7 DEF ReportJob, lockVars
  <2>2. \A u \in Threads : /\ u # t /\ loop'[u] = "idle" => loop[u] = "idle"
                           /\ loop[u] = "running" => loop'[u] = "running"
    BY <1>2, <2>1
  <2> QED BY <2>1, <2>2, ReleaseAllGivesBack
<1>8. CASE Terminate(t)
  <2>1. /\ ReleaseAllForThread(t)
        /\ UNCHANGED <<phase, thread, strayed, locking, loop, unreported>>
    BY <1>8 DEF Terminate, lockVars
  <2> QED BY <2>1, ReleaseAllGivesBack
<1> QED BY <1>3, <1>4, <1>5, <1>6, <1>7, <1>8

LEMMA BackStart == LocksInit => BackInv
<1> SUFFICES ASSUME LocksInit PROVE BackInv
  OBVIOUS
<1>1. OwnInv
  BY OwnStart
<1>2. NoIdleResource
  BY DEF LocksInit, NoIdleResource
<1>3. FreedBetweenJobs
  BY DEF LocksInit, FreedBetweenJobs, LocksOf, Locks, NoLock
<1>4. QuietBetweenJobs /\ AskedForIsWanted
  BY DEF LocksInit, QuietBetweenJobs, AskedForIsWanted, LiveLocks, LocksOf, Live
<1> QED BY <1>1, <1>2, <1>3, <1>4 DEF BackInv, ResourcesComeBack

LEMMA BackStep == BackInv /\ [LocksNext]_locksVars => BackInv'
<1> SUFFICES ASSUME BackInv, [LocksNext]_locksVars PROVE BackInv'
  OBVIOUS
<1>0. OwnInv'
  BY OwnStep DEF BackInv
<1>1. CASE LocksNext
  BY <1>0, <1>1, ParentStepGivesBack, ChildStepGivesBack, LoopStepGivesBack DEF LocksNext
<1>2. CASE UNCHANGED locksVars
  <2>1. ResourcesComeBack' /\ QuietBetweenJobs' /\ AskedForIsWanted'
    BY <1>2 DEF locksVars, lockVars, parentVars, ipcVars, loopVars, BackInv, ResourcesComeBack, NoIdleResource,
                FreedBetweenJobs, QuietBetweenJobs, AskedForIsWanted, LiveLocks, LocksOf
  <2> QED BY <1>0, <2>1 DEF BackInv
<1> QED BY <1>1, <1>2

(* No resource is left free while locks wait for it, and between jobs a    *)
(* thread holds nothing and waits for nothing: for any number of threads,  *)
(* locks and resources, through time-outs, late and failed grants, crashes *)
(* and terminations (lockNextWorker, releaseAllForThread, parent-base).    *)
THEOREM NothingKept == LocksSpec => []ResourcesComeBack
<1>1. BackInv => ResourcesComeBack
  BY DEF BackInv
<1> QED BY <1>1, BackStart, BackStep, PTL DEF LocksSpec
-----------------------------------------------------------------------------
(* The refinement.  What the worker process knows of a resource is its     *)
(* holder and the locks that wait.                                         *)
AtParent(H, W, r) == (W[r] \cup {H[r]}) \ {NoLock}

(* A request that has not reached the parent yet is not known there, nor   *)
(* counted among those that came before another one.                       *)
Arrived(l) == l \in InUse /\ l \notin locking

(* Who was given a resource, and does not know it yet, was the first in    *)
(* line.                                                                   *)
LineInv ==
  /\ \A r \in Resources : \A l \in AtParent(holder, waiting, r) : Arrived(l) /\ resource[l] = r
  /\ \A k \in Locks : \A l \in ahead[k] : Arrived(l)
  /\ \A r \in Resources :
       holder[r] # NoLock /\ phase[holder[r]] = "acquiring" =>
         ahead[holder[r]] \cap InLine(r) = {}

(* lockNextWorker keeps the holders there are and all that are in line,    *)
(* and serves the first of them.                                           *)
LEMMA ServeMoves ==
  ASSUME NEW R \in SUBSET Resources,
         NEW H \in [Resources -> Locks \cup {NoLock}],
         NEW W \in [Resources -> SUBSET Locks],
         NEW F \in SUBSET Locks,
         Serve(R, H, W, F)
  PROVE  \A r \in Resources :
           /\ AtParent(holder', waiting', r) = AtParent(H, W, r)
           /\ \/ holder'[r] = H[r]
              \/ /\ H[r] = NoLock /\ holder'[r] \in W[r]
                 /\ ahead'[holder'[r]] \cap W[r] = {}
<1> DEFINE S == {r \in R : H[r] = NoLock /\ W[r] # {}}
<1>1. PICK first \in [S -> Locks] :
        /\ \A r \in S : first[r] \in W[r] /\ ahead'[first[r]] \cap W[r] = {}
        /\ holder' = [r \in Resources |-> IF r \in S THEN first[r] ELSE H[r]]
        /\ waiting' = [r \in Resources |-> IF r \in S THEN W[r] \ {first[r]} ELSE W[r]]
  BY DEF Serve
<1>2. \A r \in S : /\ H[r] = NoLock /\ first[r] \in W[r] /\ first[r] # NoLock
                   /\ ahead'[first[r]] \cap W[r] = {}
  BY <1>1 DEF Locks, NoLock
<1>3. \A r \in Resources : /\ holder'[r] = IF r \in S THEN first[r] ELSE H[r]
                           /\ waiting'[r] = IF r \in S THEN W[r] \ {first[r]} ELSE W[r]
  BY <1>1, Zenon
<1> HIDE DEF S
<1>4. ASSUME NEW r \in Resources
      PROVE  /\ AtParent(holder', waiting', r) = AtParent(H, W, r)
             /\ \/ holder'[r] = H[r]
                \/ /\ H[r] = NoLock /\ holder'[r] \in W[r]
                   /\ ahead'[holder'[r]] \cap W[r] = {}
  <2>1. CASE r \in S
    <3> DEFINE k == first[r]
    <3>1. /\ H[r] = NoLock /\ k \in W[r] /\ k # NoLock /\ ahead'[k] \cap W[r] = {}
          /\ holder'[r] = k /\ waiting'[r] = W[r] \ {k}
      BY <1>2, <1>3, <2>1
    <3> HIDE DEF k
    <3>2. (waiting'[r] \cup {holder'[r]}) \ {NoLock} = (W[r] \cup {H[r]}) \ {NoLock}
      BY <3>1
    <3> QED BY <3>1, <3>2 DEF AtParent
  <2>2. CASE r \notin S
    BY <1>3, <2>2 DEF AtParent
  <2> QED BY <2>1, <2>2
<1> QED BY <1>4

(* The parent, when it serves R after it changed holders to H and waiting  *)
(* locks to W.                                                             *)
LEMMA ParentKeepsLine ==
  ASSUME OwnInv, LineInv,
         NEW R \in SUBSET Resources,
         NEW H \in [Resources -> Locks \cup {NoLock}],
         NEW W \in [Resources -> SUBSET Locks],
         NEW F \in SUBSET Locks,
         Serve(R, H, W, F),
         UNCHANGED <<phase, thread, resource>>, locking' \subseteq locking,
         \A k \in Locks : ahead'[k] = ahead[k] \/ \A l \in ahead'[k] : Arrived(l)',
         \A r \in Resources : \A l \in AtParent(H, W, r) : Arrived(l)' /\ resource[l] = r,
         \A r \in Resources : H[r] # NoLock =>
           /\ H[r] = holder[r] /\ ahead'[H[r]] = ahead[H[r]]
           /\ \A l \in W[r] : l \in waiting[r] \/ l \in locking
  PROVE  LineInv' /\ \A r \in Resources : AtParent(holder', waiting', r) = AtParent(H, W, r)
<1>1. \A r \in Resources :
        /\ AtParent(holder', waiting', r) = AtParent(H, W, r)
        /\ \/ holder'[r] = H[r]
           \/ /\ H[r] = NoLock /\ holder'[r] \in W[r]
              /\ ahead'[holder'[r]] \cap W[r] = {}
  BY ServeMoves
<1>2. \A l : Arrived(l) => Arrived(l)'
  BY DEF Arrived, InUse
<1>3. \A r \in Resources : \A l \in AtParent(holder', waiting', r) : Arrived(l)' /\ resource'[l] = r
  BY <1>1
<1>4. \A k \in Locks : \A l \in ahead'[k] : Arrived(l)'
  BY <1>2 DEF LineInv
<1>5. ASSUME NEW r \in Resources, holder'[r] # NoLock, phase[holder'[r]] = "acquiring",
             NEW l \in ahead'[holder'[r]], l \in InLine(r)'
      PROVE  FALSE
  <2>1. l \in AtParent(H, W, r) /\ phase[l] = "acquiring"
    <3>1. l \in AtParent(holder', waiting', r) /\ phase'[l] = "acquiring"
      BY <1>5 DEF InLine, AtParent
    <3> QED BY <1>1, <3>1
  <2>2. CASE H[r] = NoLock
    BY <1>1, <1>5, <2>1, <2>2 DEF AtParent
  <2>3. CASE H[r] # NoLock
    <3>1. holder'[r] = H[r] /\ H[r] = holder[r] /\ ahead'[H[r]] = ahead[H[r]]
      BY <1>1, <2>3
    <3>2. H[r] \in Locks /\ l \in ahead[H[r]]
      BY <1>5, <2>3, <3>1
    <3>3. Arrived(l) /\ l \notin InLine(r)
      BY <1>5, <2>3, <3>1, <3>2 DEF LineInv
    <3>4. l \in waiting[r] \cup {holder[r]}
      BY <2>1, <2>3, <3>1, <3>3 DEF AtParent, Arrived
    <3>5. l # NoLock
      BY <2>1 DEF AtParent
    <3> QED BY <2>1, <3>3, <3>4, <3>5 DEF InLine
  <2> QED BY <2>2, <2>3
<1>6. \A r \in Resources :
        holder'[r] # NoLock /\ phase'[holder'[r]] = "acquiring" =>
          ahead'[holder'[r]] \cap InLine(r)' = {}
  BY <1>5
<1>7. LineInv'
  BY <1>3, <1>4, <1>6 DEF LineInv
<1> QED BY <1>1, <1>7

(* An action of the child or of the loop: it changes nothing at the parent,*)
(* and no lock becomes one that waits.                                     *)
LEMMA GivingUpKeepsLine ==
  ASSUME OwnInv, LineInv,
         UNCHANGED <<resource, parentVars>>, locking' \subseteq locking,
         \A l \in Locks : /\ phase'[l] = "acquiring" => phase[l] = "acquiring"
                          /\ phase[l] # "unused" => phase'[l] # "unused"
  PROVE  LineInv'
<1>1. UNCHANGED <<resource, holder, waiting, ahead>>
  BY DEF parentVars
<1>2. \A l : Arrived(l) => Arrived(l)'
  BY DEF Arrived, InUse
<1>3. \A r \in Resources : AtParent(holder', waiting', r) = AtParent(holder, waiting, r)
  BY <1>1
<1>4. \A r \in Resources : InLine(r)' \subseteq InLine(r)
  BY <1>1 DEF InLine, LineInv, AtParent, Arrived, InUse
<1>5. \A r \in Resources : \A l \in AtParent(holder', waiting', r) : Arrived(l)' /\ resource'[l] = r
  BY <1>1, <1>2, <1>3 DEF LineInv
<1>6. \A k \in Locks : \A l \in ahead'[k] : Arrived(l)'
  BY <1>1, <1>2 DEF LineInv
<1>7. ASSUME NEW r \in Resources, holder'[r] # NoLock, phase'[holder'[r]] = "acquiring"
      PROVE  ahead'[holder'[r]] \cap InLine(r)' = {}
  <2>1. holder[r] \in Locks
    BY <1>1, <1>7 DEF LineInv, AtParent, Arrived, InUse
  <2>2. phase[holder[r]] = "acquiring"
    BY <1>1, <1>7, <2>1
  <2> QED BY <1>1, <1>4, <1>7, <2>2 DEF LineInv
<1> QED BY <1>5, <1>6, <1>7 DEF LineInv

(* What the abstract service sees of such an action: requests leave.       *)
LEMMA GivingUpLeaves ==
  ASSUME OwnInv, LineInv,
         UNCHANGED <<resource, parentVars>>,
         \A l \in Locks : phase'[l] \in {"acquiring", "held"} => phase'[l] = phase[l]
  PROVE  AbsService!Next
<1> DEFINE L == {l \in Locks : phase'[l] # phase[l]}
<1>1. UNCHANGED <<resource, holder, waiting, ahead>>
  BY DEF parentVars
<1>2. \A r \in Resources : \A l \in waiting[r] \cup {holder[r]} : l # NoLock => l \in Locks
  BY DEF LineInv, AtParent, Arrived, InUse
<1>3. \A r \in Resources : Held(r)' = Held(r) \ L
  BY <1>1 DEF Held
<1>4. \A r \in Resources : InLine(r)' = InLine(r) \ L
  BY <1>1, <1>2 DEF InLine
<1> HIDE DEF L
<1>5. AbsService!Leave(L)
  BY <1>1, <1>3, <1>4 DEF AbsService!Leave
<1>6. L \in SUBSET Locks
  BY DEF L
<1> QED BY <1>5, <1>6 DEF AbsService!Next

(* A step of the parent, when locks that still wait are neither added nor  *)
(* dropped.                                                                *)
LEMMA ServingIsHidden ==
  ASSUME UNCHANGED <<phase, resource, ahead>>,
         \A r \in Resources : \A l \in Locks : phase[l] = "acquiring" =>
           (l \in AtParent(holder', waiting', r) <=> l \in AtParent(holder, waiting, r)),
         \A r \in Resources : /\ AtParent(holder, waiting, r) \subseteq Locks
                              /\ AtParent(holder', waiting', r) \subseteq Locks
  PROVE  AbsService!Next
<1>1. \A r \in Resources : Held(r)' = Held(r)
  BY DEF Held
<1>2. \A r \in Resources : InLine(r)' = InLine(r)
  BY DEF InLine, AtParent
<1>3. AbsService!Leave({})
  BY <1>1, <1>2 DEF AbsService!Leave
<1> QED BY <1>3 DEF AbsService!Next

(* A request that reaches the parent joins the line.                       *)
LEMMA HandleLockJoins ==
  ASSUME BackInv, LineInv, NEW l \in Locks, HandleLock(l)
  PROVE  LineInv' /\ AbsService!Next
<1>r. PICK r : r = resource[l]
  OBVIOUS
<1> DEFINE B == waiting[r] \cup ({holder[r]} \ {NoLock})
           W == [waiting EXCEPT ![r] = @ \cup {l}]
<1>0. OwnInv /\ LocksTypeOK /\ KnownLocks /\ AskedForIsWanted
  BY DEF BackInv, OwnInv
<1>t. /\ holder \in [Resources -> Locks \cup {NoLock}] /\ waiting \in [Resources -> SUBSET Locks]
      /\ ahead \in [Locks -> SUBSET Locks] /\ failing \in SUBSET Locks
  BY <1>0 DEF LocksTypeOK
<1>1. /\ l \in locking /\ locking' = locking \ {l}
      /\ ahead' = [ahead EXCEPT ![l] = B]
      /\ Serve({r}, holder, W, failing)
      /\ UNCHANGED <<phase, thread, resource>>
  BY <1>r DEF HandleLock, lockVars
<1>2. r \in Resources /\ l \in InUse /\ phase[l] = "acquiring" /\ l # NoLock
  BY <1>0, <1>1, <1>r DEF KnownLocks, AskedForIsWanted, Locks, NoLock
<1>3. /\ W \in [Resources -> SUBSET Locks] /\ W[r] = waiting[r] \cup {l}
      /\ \A s \in Resources : s # r => W[s] = waiting[s]
  BY <1>t, <1>2
<1> HIDE DEF W
<1>4. \A s \in Resources : l \notin AtParent(holder, waiting, s)
  BY <1>1 DEF LineInv, Arrived
<1>5. /\ AtParent(holder, W, r) = AtParent(holder, waiting, r) \cup {l}
      /\ \A s \in Resources : s # r => AtParent(holder, W, s) = AtParent(holder, waiting, s)
  BY <1>2, <1>3 DEF AtParent
<1>6. Arrived(l)' /\ \A k : Arrived(k) => Arrived(k)'
  BY <1>1, <1>2 DEF Arrived, InUse
<1>7. /\ B \in SUBSET (Locks \ {l}) /\ \A k \in B : Arrived(k)
      /\ ahead'[l] = B /\ \A k \in Locks : k # l => ahead'[k] = ahead[k]
  <2>1. B = AtParent(holder, waiting, r)
    BY <1>0, <1>2 DEF AtParent, KnownLocks, InUse, Locks, NoLock
  <2>2. \A k \in B : Arrived(k) /\ k \in Locks
    BY <1>2, <2>1 DEF LineInv, Arrived, InUse
  <2>3. l \notin B
    BY <1>2, <1>4, <2>1
  <2> QED BY <1>t, <1>1, <2>2, <2>3
<1>8. \A s \in Resources : holder[s] # NoLock =>
        /\ holder[s] \in Locks /\ holder[s] # l
        /\ ahead'[holder[s]] = ahead[holder[s]]
  BY <1>t, <1>4, <1>7 DEF AtParent
<1> HIDE DEF B
<1>9. /\ LineInv'
      /\ \A s \in Resources : AtParent(holder', waiting', s) = AtParent(holder, W, s)
  <2>1. \A s \in Resources : \A k \in AtParent(holder, W, s) : Arrived(k)' /\ resource[k] = s
    BY <1>5, <1>6, <1>r DEF LineInv
  <2>2. \A k \in Locks : ahead'[k] = ahead[k] \/ \A j \in ahead'[k] : Arrived(j)'
    BY <1>6, <1>7
  <2>3. \A s \in Resources : \A k \in W[s] : k \in waiting[s] \/ k \in locking
    BY <1>1, <1>3
  <2>4. {r} \in SUBSET Resources
    BY <1>2
  <2> QED BY <1>0, <1>t, <1>1, <1>3, <1>8, <2>1, <2>2, <2>3, <2>4, ParentKeepsLine
<1>10. \A s \in Resources : Held(s)' = Held(s)
  BY <1>1 DEF Held
<1>11. /\ InLine(r)' = InLine(r) \cup {l}
       /\ \A s \in Resources : s # r => InLine(s)' = InLine(s)
  BY <1>1, <1>2, <1>5, <1>9 DEF InLine, AtParent
<1>12. l \notin InLine(r) \cup Held(r) /\ InLine(r) \subseteq B
  BY <1>2, <1>4, <1>t DEF InLine, AtParent, Held, B
<1>13. AbsService!Join(r, l)
  <2>1. [s \in Resources |-> InLine(s)]' = [[s \in Resources |-> InLine(s)] EXCEPT ![r] = InLine(r) \cup {l}]
    <3>1. \A s \in Resources : InLine(s)' = IF s = r THEN InLine(r) \cup {l} ELSE InLine(s)
      BY <1>11
    <3>2. [s \in Resources |-> InLine(s)]' = [s \in Resources |-> IF s = r THEN InLine(r) \cup {l} ELSE InLine(s)]
      BY <3>1, Zenon
    <3> QED BY <3>2, Zenon
  <2>2. [s \in Resources |-> Held(s)]' = [s \in Resources |-> Held(s)]
    BY <1>10
  <2> QED BY <1>1, <1>2, <1>7, <1>12, <2>1, <2>2 DEF AbsService!Join
<1> QED BY <1>2, <1>9, <1>13 DEF AbsService!Next

(* A lock that is taken from its holder had been given up.                 *)
LEMMA FreeingIsHidden ==
  ASSUME BackInv, LineInv, NEW l \in Locks, HandleUnlock(l) \/ GrantFailed(l)
  PROVE  LineInv' /\ AbsService!Next
<1> DEFINE r == resource[l]
           H == IF holder[r] = l THEN [holder EXCEPT ![r] = NoLock] ELSE holder
<1>0. OwnInv /\ LocksTypeOK /\ KnownLocks /\ GivenUp
  BY DEF BackInv, OwnInv
<1>t. /\ holder \in [Resources -> Locks \cup {NoLock}] /\ waiting \in [Resources -> SUBSET Locks]
      /\ failing \in SUBSET Locks
  BY <1>0 DEF LocksTypeOK
<1>1. /\ l \in unlocking \cup failing
      /\ UNCHANGED <<phase, thread, resource, ahead, locking>>
      /\ \/ \E F \in SUBSET Locks : Serve({r}, H, waiting, F)
         \/ UNCHANGED <<holder, waiting>>
  <2>1. CASE HandleUnlock(l)
    BY <1>t, <2>1 DEF HandleUnlock, lockVars
  <2>2. CASE GrantFailed(l)
    <3>1. failing \ {l} \in SUBSET Locks
      BY <1>t
    <3> QED BY <2>2, <3>1 DEF GrantFailed, lockVars
  <2> QED BY <2>1, <2>2
<1>2. r \in Resources /\ l # NoLock /\ phase[l] # "acquiring"
  BY <1>0, <1>1 DEF KnownLocks, GivenUp, InUse, Locks, NoLock
<1>3. /\ H \in [Resources -> Locks \cup {NoLock}]
      /\ \A s \in Resources : H[s] = holder[s] \/ (H[s] = NoLock /\ holder[s] = l)
  BY <1>t, <1>2
<1> HIDE DEF H
<1>4. \A s \in Resources : /\ AtParent(H, waiting, s) \subseteq AtParent(holder, waiting, s)
                           /\ AtParent(holder, waiting, s) \subseteq AtParent(H, waiting, s) \cup {l}
                           /\ AtParent(holder, waiting, s) \subseteq Locks
  BY <1>t, <1>3 DEF AtParent
<1>5. \A k : Arrived(k) => Arrived(k)'
  BY <1>1 DEF Arrived, InUse
<1>6. CASE UNCHANGED <<holder, waiting>>
  <2>1. LineInv'
    BY <1>0, <1>1, <1>6, GivingUpKeepsLine DEF parentVars
  <2>2. AbsService!Next
    BY <1>0, <1>1, <1>6, GivingUpLeaves DEF parentVars
  <2> QED BY <2>1, <2>2
<1>7. ASSUME NEW F \in SUBSET Locks, Serve({r}, H, waiting, F)
      PROVE  LineInv' /\ AbsService!Next
  <2>1. {r} \in SUBSET Resources
    BY <1>2
  <2>2. \A s \in Resources : \A k \in AtParent(H, waiting, s) : Arrived(k)' /\ resource[k] = s
    BY <1>4, <1>5 DEF LineInv
  <2> HIDE DEF r
  <2>3. LineInv' /\ \A s \in Resources : AtParent(holder', waiting', s) = AtParent(H, waiting, s)
    BY <1>0, <1>t, <1>1, <1>3, <1>7, <2>1, <2>2, ParentKeepsLine
  <2>4. /\ \A s \in Resources : \A k \in Locks : phase[k] = "acquiring" =>
             (k \in AtParent(holder', waiting', s) <=> k \in AtParent(holder, waiting, s))
        /\ \A s \in Resources : /\ AtParent(holder, waiting, s) \subseteq Locks
                                /\ AtParent(holder', waiting', s) \subseteq Locks
    BY <1>2, <1>4, <2>3
  <2>5. AbsService!Next
    BY <1>1, <2>4, ServingIsHidden
  <2> QED BY <2>3, <2>5
<1> QED BY <1>1, <1>6, <1>7

(* The clean-up after a job: the job has no lock left that waits.          *)
LEMMA CleaningIsHidden ==
  ASSUME OwnInv, LineInv, NoneUnsafe, NEW t \in Threads, ReportJob(t)
  PROVE  LineInv' /\ AbsService!Next
<1> DEFINE mine == {r \in Resources : holder[r] \in LocksOf(t)}
           H == [r \in Resources |-> IF r \in mine THEN NoLock ELSE holder[r]]
           W == [r \in Resources |-> waiting[r] \ LocksOf(t)]
<1>0. LocksTypeOK /\ DoneWhenEnded
  BY DEF OwnInv
<1>t. /\ holder \in [Resources -> Locks \cup {NoLock}] /\ waiting \in [Resources -> SUBSET Locks]
      /\ failing \in SUBSET Locks
  BY <1>0 DEF LocksTypeOK
<1>1. /\ loop[t] = "ended" /\ Serve(mine, H, W, failing)
      /\ UNCHANGED <<phase, thread, resource, ahead, locking>>
  BY DEF ReportJob, ReleaseAllForThread, lockVars
<1>2. \A l \in LocksOf(t) : phase[l] # "acquiring"
  BY <1>0, <1>1 DEF DoneWhenEnded, Safe, NoneUnsafe, LiveLocks, Live
<1>3. /\ H \in [Resources -> Locks \cup {NoLock}] /\ W \in [Resources -> SUBSET Locks]
      /\ \A s \in Resources : /\ H[s] = holder[s] \/ (H[s] = NoLock /\ holder[s] \in LocksOf(t))
                              /\ W[s] = waiting[s] \ LocksOf(t)
  BY <1>t
<1>4. mine \in SUBSET Resources
  OBVIOUS
<1> HIDE DEF H, W, mine
<1>5. \A s \in Resources : /\ AtParent(H, W, s) \subseteq AtParent(holder, waiting, s)
                           /\ AtParent(holder, waiting, s) \subseteq AtParent(H, W, s) \cup LocksOf(t)
                           /\ AtParent(holder, waiting, s) \subseteq Locks
  BY <1>t, <1>3 DEF AtParent
<1>6. \A k : Arrived(k) => Arrived(k)'
  BY <1>1 DEF Arrived, InUse
<1>7. \A s \in Resources : \A k \in AtParent(H, W, s) : Arrived(k)' /\ resource[k] = s
  BY <1>5, <1>6 DEF LineInv
<1>8. LineInv' /\ \A s \in Resources : AtParent(holder', waiting', s) = AtParent(H, W, s)
  BY <1>t, <1>1, <1>3, <1>4, <1>7, ParentKeepsLine
<1>9. /\ \A s \in Resources : \A k \in Locks : phase[k] = "acquiring" =>
           (k \in AtParent(holder', waiting', s) <=> k \in AtParent(holder, waiting, s))
      /\ \A s \in Resources : /\ AtParent(holder, waiting, s) \subseteq Locks
                              /\ AtParent(holder', waiting', s) \subseteq Locks
  BY <1>2, <1>5, <1>8
<1>10. AbsService!Next
  BY <1>1, <1>9, ServingIsHidden
<1> QED BY <1>8, <1>10

(* Steps of the child: a request is made up, granted, or given up.         *)
LEMMA AquireIsHidden ==
  ASSUME OwnInv, LineInv,
         NEW t \in Threads, NEW r \in Resources, NEW l \in Locks, NEW outer \in Locks \cup {NoLock},
         Aquire(t, r, l, outer)
  PROVE  LineInv' /\ AbsService!Next
<1>t. phase \in [Locks -> Phases] /\ resource \in [Locks -> Resources \cup {NoOwner}]
  BY DEF OwnInv, LocksTypeOK
<1>1. /\ phase[l] = "unused" /\ phase' = [phase EXCEPT ![l] = "acquiring"]
      /\ resource' = [resource EXCEPT ![l] = r] /\ locking' = locking \cup {l}
      /\ UNCHANGED <<holder, waiting, ahead>>
  BY DEF Aquire, parentVars
<1>2. \A k \in Locks : k # l => phase'[k] = phase[k] /\ resource'[k] = resource[k]
  BY <1>t, <1>1
<1>3. ~Arrived(l) /\ \A k : Arrived(k) => k \in Locks /\ k # l /\ Arrived(k)'
  BY <1>1, <1>2 DEF Arrived, InUse
<1>4. \A s \in Resources : InLine(s)' = InLine(s)
  <2>1. \A s \in Resources : \A k \in waiting[s] \cup {holder[s]} : k # NoLock => phase'[k] = phase[k]
    BY <1>2, <1>3 DEF LineInv, AtParent
  <2> QED BY <1>1, <2>1 DEF InLine
<1>5. \A s \in Resources : Held(s)' = Held(s)
  BY <1>t, <1>1, <1>2 DEF Held
<1>6. LineInv'
  <2>1. \A s \in Resources : \A k \in AtParent(holder', waiting', s) : Arrived(k)' /\ resource'[k] = s
    BY <1>1, <1>2, <1>3 DEF LineInv
  <2>2. \A k \in Locks : \A j \in ahead'[k] : Arrived(j)'
    BY <1>1, <1>3 DEF LineInv
  <2>3. ASSUME NEW s \in Resources, holder'[s] # NoLock, phase'[holder'[s]] = "acquiring"
        PROVE  ahead'[holder'[s]] \cap InLine(s)' = {}
    <3>1. phase[holder[s]] = "acquiring"
      BY <1>1, <1>2, <1>3, <2>3 DEF LineInv, AtParent
    <3> QED BY <1>1, <1>4, <2>3, <3>1 DEF LineInv
  <2> QED BY <2>1, <2>2, <2>3 DEF LineInv
<1>7. AbsService!Leave({})
  BY <1>1, <1>4, <1>5 DEF AbsService!Leave
<1> QED BY <1>6, <1>7 DEF AbsService!Next

(* A grant that arrives in time: its lock was the first in line, and       *)
(* nobody owned the resource.                                              *)
LEMMA GrantedEnters ==
  ASSUME OwnInv, LineInv, NoneUnsafe, NEW l \in Locks, Granted(l)
  PROVE  LineInv' /\ AbsService!Next
<1>0. LocksTypeOK /\ ClaimStands /\ KnownLocks
  BY DEF OwnInv
<1>t. phase \in [Locks -> Phases] /\ holder \in [Resources -> Locks \cup {NoLock}]
  BY <1>0 DEF LocksTypeOK
<1>1. /\ l \in granting
      /\ phase' = IF phase[l] = "acquiring" THEN [phase EXCEPT ![l] = "held"] ELSE phase
      /\ UNCHANGED <<thread, resource, holder, waiting, ahead, locking>>
  BY DEF Granted, parentVars
<1>2. \A k \in Locks : /\ phase'[k] = "acquiring" => phase[k] = "acquiring"
                       /\ phase[k] # "unused" => phase'[k] # "unused"
  BY <1>t, <1>1
<1>3. LineInv'
  BY <1>1, <1>2, GivingUpKeepsLine DEF parentVars
<1>4. CASE phase[l] # "acquiring"
  <2>1. AbsService!Next
    BY <1>1, <1>4, GivingUpLeaves DEF parentVars
  <2> QED BY <1>3, <2>1
<1>5. CASE phase[l] = "acquiring"
  <2>r. PICK r : r = resource[l]
    OBVIOUS
  <2>1. r \in Resources /\ l # NoLock
    BY <1>0, <1>5, <2>r DEF KnownLocks, InUse, Locks, NoLock
  <2>2. \A k \in Locks : Claims(k) => holder[resource[k]] = k
    BY <1>0 DEF ClaimStands, Safe, NoneUnsafe
  <2>3. holder[r] = l
    BY <1>1, <1>5, <2>2, <2>r DEF Claims
  <2>4. Held(r) = {}
    BY <1>5, <2>2, <2>3 DEF Held, Claims
  <2>5. l \in InLine(r) /\ ahead[l] \cap InLine(r) = {}
    BY <1>5, <2>1, <2>3 DEF InLine, LineInv
  <2>6. \A s \in Resources : l \in AtParent(holder, waiting, s) => s = r
    BY <2>r DEF LineInv
  <2>7. phase'[l] = "held" /\ \A k \in Locks : k # l => phase'[k] = phase[k]
    BY <1>t, <1>1, <1>5
  <2>8. \A s \in Resources : \A k \in waiting[s] \cup {holder[s]} : k # NoLock => k \in Locks
    BY DEF LineInv, AtParent, Arrived, InUse
  <2>9. \A s \in Resources : InLine(s)' = IF s = r THEN InLine(r) \ {l} ELSE InLine(s)
    <3>1. \A s \in Resources : InLine(s)' = InLine(s) \ {l}
      BY <1>1, <1>5, <2>7, <2>8 DEF InLine
    <3>2. \A s \in Resources : s # r => l \notin InLine(s)
      BY <2>6 DEF InLine, AtParent
    <3> QED BY <3>1, <3>2
  <2>10. \A s \in Resources : Held(s)' = IF s = r THEN {l} ELSE Held(s)
    <3>1. ASSUME NEW s \in Resources, s # r PROVE Held(s)' = Held(s)
      BY <1>1, <1>5, <2>7, <2>r, <3>1 DEF Held
    <3>2. Held(r)' = {l}
      BY <1>1, <2>4, <2>7, <2>r DEF Held
    <3> QED BY <3>1, <3>2
  <2>11. [s \in Resources |-> InLine(s)]' = [[s \in Resources |-> InLine(s)] EXCEPT ![r] = InLine(r) \ {l}]
    <3>1. [s \in Resources |-> InLine(s)]' = [s \in Resources |-> IF s = r THEN InLine(r) \ {l} ELSE InLine(s)]
      BY <2>9, Zenon
    <3> QED BY <3>1, Zenon
  <2>12. [s \in Resources |-> Held(s)]' = [[s \in Resources |-> Held(s)] EXCEPT ![r] = {l}]
    <3>1. [s \in Resources |-> Held(s)]' = [s \in Resources |-> IF s = r THEN {l} ELSE Held(s)]
      BY <2>10, Zenon
    <3> QED BY <3>1, Zenon
  <2>13. AbsService!Enter(r, l)
    BY <1>1, <2>1, <2>4, <2>5, <2>11, <2>12 DEF AbsService!Enter
  <2> QED BY <1>3, <2>1, <2>13 DEF AbsService!Next
<1> QED BY <1>4, <1>5

LEMMA ChildStepRefines ==
  ASSUME OwnInv, LineInv, NoneUnsafe, ChildStep
  PROVE  LineInv' /\ AbsService!Next
<1>t. phase \in [Locks -> Phases]
  BY DEF OwnInv, LocksTypeOK
<1>1. ASSUME NEW l \in Locks, AquireTimeout(l) \/ Release(l) \/ Freed(l) \/ ReleaseTimeout(l)
      PROVE  LineInv' /\ AbsService!Next
  <2>1. /\ UNCHANGED <<resource, parentVars>> /\ locking' = locking
        /\ \E next \in {phase[l], "timedOut", "releasing", "gone"} : phase' = [phase EXCEPT ![l] = next]
    BY <1>t, <1>1 DEF AquireTimeout, Release, Freed, ReleaseTimeout, ipcVars
  <2>2. \A k \in Locks : phase'[k] = phase[k] \/ phase'[k] \in {"timedOut", "releasing", "gone"}
    BY <1>t, <2>1
  <2> QED BY <2>1, <2>2, GivingUpKeepsLine, GivingUpLeaves
<1> QED BY <1>1, AquireIsHidden, GrantedEnters DEF ChildStep

LEMMA LoopStepRefines ==
  ASSUME Shutdowns = {}, OwnInv, LineInv, NoneUnsafe, LoopStep
  PROVE  LineInv' /\ AbsService!Next
<1>1. ASSUME NEW t \in Threads,
             \/ StartJob(t) \/ FinishJob(t) \/ ReportFails(t)
             \/ ThreadDies(t) \/ InitWorker(t) \/ StopIdle(t)
      PROVE  LineInv' /\ AbsService!Next
  <2>1. /\ UNCHANGED <<resource, parentVars>> /\ locking' \subseteq locking
        /\ \A k \in Locks : phase'[k] = phase[k] \/ (phase[k] # "unused" /\ phase'[k] = "gone")
    <3>1. CASE FinishJob(t)
      BY <3>1 DEF FinishJob, ipcVars, TimedOut
    <3>2. CASE ThreadDies(t)
      BY <3>2 DEF ThreadDies, TimedOut, LiveLocks, Live
    <3>3. CASE StartJob(t) \/ ReportFails(t) \/ InitWorker(t) \/ StopIdle(t)
      BY <3>3 DEF StartJob, ReportFails, InitWorker, StopIdle, lockVars, ipcVars
    <3> QED BY <1>1, <3>1, <3>2, <3>3
  <2> QED BY <2>1, GivingUpKeepsLine, GivingUpLeaves
<1>2. \A t \in Threads : ~Terminate(t)
  BY DEF Terminate
<1> QED BY <1>1, <1>2, CleaningIsHidden DEF LoopStep

(* Every step of the protocol is a step of the abstract service: a request *)
(* that reaches the parent joins the line, a grant that arrives in time    *)
(* lets the first in line enter, a lock that is released or given up, and  *)
(* all locks of a thread that dies, leave; the rest is hidden.             *)
LEMMA StepRefines ==
  ASSUME Shutdowns = {}, BackInv, LineInv, NoneUnsafe, [LocksNext]_locksVars
  PROVE  LineInv' /\ [AbsService!Next]_(AbsService!absVars)
<1>1. CASE ParentStep
  BY <1>1, HandleLockJoins, FreeingIsHidden DEF ParentStep
<1>2. CASE ChildStep \/ LoopStep
  BY <1>2, ChildStepRefines, LoopStepRefines DEF BackInv
<1>3. CASE UNCHANGED locksVars
  <2>1. UNCHANGED <<phase, resource, holder, waiting, ahead, locking>>
    BY <1>3 DEF locksVars, lockVars, parentVars, ipcVars
  <2>2. LineInv'
    BY <2>1, GivingUpKeepsLine DEF BackInv, parentVars
  <2>3. AbsService!Next
    BY <2>1, GivingUpLeaves DEF BackInv, parentVars
  <2> QED BY <2>2, <2>3
<1> QED BY <1>1, <1>2, <1>3 DEF LocksNext

(* Where no thread is told to terminate and no job locks rundowns in       *)
(* parallel, the protocol of lock, unlock, grant and time-out implements   *)
(* the abstract service: one job at a time owns a playlist or a rundown,   *)
(* and they get it in the order in which the requests that still stand     *)
(* reached the worker; for any number of threads, resources and locks.     *)
THEOREM LocksAreAService ==
  ASSUME Shutdowns = {}, StrayThreads = {}
  PROVE  LocksSpec => ImplementsLockService
<1>1. LocksInit => LineInv /\ AbsService!Init
  <2>1. LocksInit => LineInv
    BY DEF LocksInit, LineInv, AtParent
  <2>2. LocksInit => AbsService!Init
    BY DEF LocksInit, AbsService!Init, Held, InLine
  <2> QED BY <2>1, <2>2
<1>2. BackInv /\ LineInv /\ NoneUnsafe /\ [LocksNext]_locksVars
        => LineInv' /\ [AbsService!Next]_(AbsService!absVars)
  BY StepRefines
<1>3. LocksSpec => []BackInv
  BY BackStart, BackStep, PTL DEF LocksSpec
<1>4. LocksSpec => []NoneUnsafe
  BY NobodyUnsafe
<1> QED BY <1>1, <1>2, <1>3, <1>4, PTL DEF LocksSpec, ImplementsLockService, AbsService!Spec
=============================================================================
