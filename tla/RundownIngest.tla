----------------------------- MODULE RundownIngest -----------------------------
(***************************************************************************)
(* Ingest into a rundown while it is played: the newsroom (nrcs) sends and *)
(* removes Segments, Core regenerates them, and what cannot be taken away  *)
(* because it is on air or next stays as an orphan until a later job       *)
(* cleans it up (packages/job-worker/src/ingest: runOperation, commit,     *)
(* updateNext, ingestSegmentJobs; cleanupOrphanedItems of playout).        *)
(*                                                                         *)
(* An ingest job holds the lock of the rundown, and takes the lock of the  *)
(* playlist for its commit. What it computes before that depends only on   *)
(* what the rundown's lock protects, so a job is one step here. The        *)
(* rundown stays in its playlist, and no show style has a blueprint that   *)
(* syncs changes into instances (syncIngestUpdateToPartInstance): a next   *)
(* instance keeps the copy of the Part it was made from.                   *)
(***************************************************************************)
EXTENDS Playout

Edits == setting.edits  \* what the newsroom may send of each Segment
MaxCleanups == setting.maxCleanups  \* how many different clean-up jobs may wait at once (bound)
MaxInstances == setting.maxInstances  \* how many instances of a Part may be in use at once (bound)

(***************************************************************************)
(* What a Segment's blueprint makes of what was sent: whether it is to be  *)
(* hidden, and its Parts. A Part may be left out only before the others of *)
(* its Segment: behind them, the code places the instances of missing      *)
(* Parts by their ranks, and not always where they were.                   *)
(***************************************************************************)
IsContent(c, S) ==
    /\ c.hidden \in BOOLEAN
    /\ c.parts \in [S -> {"absent", "playable", "unplayable"}]
    /\ \A p, q \in S : p < q /\ c.parts[p] # "absent" => c.parts[q] # "absent"

ASSUME IngestAssumption ==
    \A s \in Settings :
        /\ s.maxCleanups \in Nat \ {0} /\ s.maxInstances \in Nat \ {0}
        /\ \A g \in {s.segmentOf[p] : p \in 1..s.numParts} : \A c \in s.edits[g] :
                IsContent(c, {p \in 1..s.numParts : s.segmentOf[p] = g})

VARIABLES
    nrcs,     \* what the newsroom has, as cached by Core: contents by Segment
    manual,   \* nextPartInfo.manuallySelected
    cleanup   \* the RemoveOrphanedSegments jobs that are queued
ingestVars == <<setting, playlist, instances, rundown, crashes, nrcs, manual, cleanup>>

CleanupJob == [hidden : SUBSET Segments, deleted : SUBSET Segments]

IngestTypeOK ==
    /\ TypeOK
    /\ DOMAIN nrcs \subseteq Segments
    /\ \A s \in DOMAIN nrcs : IsContent(nrcs[s], PartsOfSegment(s))
    /\ manual \in BOOLEAN
    /\ cleanup \subseteq CleanupJob /\ Cardinality(cleanup) <= MaxCleanups

IngestInit ==
    /\ Init
    /\ nrcs = [s \in Segments |->
                [hidden |-> FALSE, parts |-> [p \in PartsOfSegment(s) |-> rundown.part[p]]]]
    /\ manual = FALSE
    /\ cleanup = {}

Stored == {s \in Segments : rundown.segment[s] # "absent"}

-------------------------------------------------------------------------------
(***************************************************************************)
(* Commit. What of the rundown can be removed or hidden depends on what is *)
(* selected: the Segments of the slots' instances, unless those are reset. *)
(***************************************************************************)
LiveSegments ==
    {SegmentOfInstance(i) : i \in {j \in Selected(playlist) \cap DOMAIN instances : ~instances[j].reset}}

RemoveSegments(r, removed) ==
    LET live == LiveSegments
        concealed == {s \in r.concealed : r.segment[s] # "absent"}
        purged == removed \ live
        orphanDeleted ==
            (removed \cap live) \cup {s \in concealed \cap live : r.segment[s] = "deleted"}
        empty == {s \in Segments \ (concealed \cup orphanDeleted) :
                    r.segment[s] # "absent" /\ \A p \in PartsOfSegment(s) : r.part[p] = "absent"}
        orphanHidden == ((concealed \cap live) \cup (empty \cap live)) \ orphanDeleted
        partIn(p, s) ==
            CASE s \in purged \cup orphanDeleted -> "absent"
              [] s \in (concealed \ live) \ purged /\ r.part[p] # "absent" -> "unplayable"
              [] OTHER -> r.part[p]
    IN  [part |-> [p \in Parts |-> partIn(p, SegmentOf[p])],
         segment |-> [s \in Segments |->
            CASE s \in purged -> "absent"
              [] s \in orphanDeleted -> "deleted"
              [] s \in orphanHidden /\ r.segment[s] = "synced" -> "hidden"
              [] s \in (empty \ live) \ purged -> "synced"
              [] OTHER -> r.segment[s]],
         concealed |-> (r.concealed \cup (empty \ live)) \ (orphanHidden \cup purged)]

\* The instances whose Part is gone are orphaned if they are current or next, and
\* else reset. In the changed Segments those whose Part is back are orphans no more.
UpdatePartInstances(r, changed) ==
    LET gone(i) == r.part[PartOf(i)] = "absent"
        updated(i, x) ==
            CASE ~x.reset /\ ~x.orphaned /\ gone(i) /\ i \in {playlist.current, playlist.next.id} ->
                    [x EXCEPT !.orphaned = TRUE]
              [] ~x.reset /\ ~x.orphaned /\ gone(i) /\ i \notin {playlist.current, playlist.next.id} ->
                    [x EXCEPT !.reset = TRUE]
              [] ~x.reset /\ x.orphaned /\ ~gone(i) /\ SegmentOfInstance(i) \in changed ->
                    [x EXCEPT !.orphaned = FALSE]
              [] OTHER -> x
    IN  [i \in DOMAIN instances |-> updated(i, instances[i])]

(* Mutant: another Part is chosen only when that of the next is gone. *)
EnsureNextPartIsValid_OnceGone(m) ==
    IF \/ m.pl.activation = None
       \/ m.pl.next.id \in DOMAIN m.pis /\ ~m.pis[m.pl.next.id].orphaned
    THEN {m} ELSE SetNextPart(m, SelectPartAfterCurrent(m))

(***************************************************************************)
(* ensureNextPartIsValid: what was chosen automatically follows the        *)
(* changes, what a user chose stays while it exists, and close to an       *)
(* autonext (which is a matter of time) nothing is touched. The copy that  *)
(* is next counts as playable as long as its Part is there.                *)
(***************************************************************************)
EnsureNextPartIsValid(m) ==
    LET current == m.pl.current
        next == m.pl.next.id
        hasNext == next \in DOMAIN m.pis
        nextIsDeleted == hasNext /\ m.pis[next].orphaned
        ownCopy == {p \in {PartOf(next)} \ {None} : m.rundown.part[p] # "absent"}
        follows == SelectNextPart(PlayableParts(m) \cup ownCopy, m.pl.queued, PartOf(current))
        choice == IF hasNext /\ ~nextIsDeleted THEN follows ELSE SelectPartAfterCurrent(m)
        keep == IF hasNext /\ ~nextIsDeleted
                THEN current \notin DOMAIN m.pis \/ choice.part = PartOf(next)
                ELSE choice = NoSelection /\ m.pl.next = NoNext
        closeToAutonext == hasNext /\ current \in DOMAIN m.pis /\ PartOf(current) \in AutoNextParts
    IN  CASE \/ m.pl.activation = None
             \/ manual /\ hasNext /\ ~nextIsDeleted
             \/ keep -> {m}
          [] OTHER -> SetNextPart(m, choice) \cup (IF closeToAutonext THEN {m} ELSE {})

\* The orphaned Segments that are in no slot are queued for clean-up by whoever
\* sets what is next (cleanupOrphanedItems).
QueueCleanup(pl, r) ==
    LET idle(state) == {s \in Segments : r.segment[s] = state}
                            \ {SegmentOfInstance(i) : i \in Selected(pl)}
        job == [hidden |-> idle("hidden"), deleted |-> idle("deleted")]
    IN  IF job.hidden \cup job.deleted = {} THEN {} ELSE {job}

(* Mutant: what is no longer selected because of the ingest is not queued. *)
Commit_NoCleanup(r1, changed, removed, pending) ==
    LET r == RemoveSegments(r1, removed)
    IN  \E m \in EnsureNextPartIsValid(Load(playlist, UpdatePartInstances(r, changed), r)) :
            /\ rundown' = r
            /\ Save(m.pl, SavedInstances(m))
            /\ manual' = (manual /\ m.pl.next = playlist.next)
            /\ cleanup' = pending

\* CommitIngestOperation: r1 is the rundown as regenerated by the job.
Commit(r1, changed, removed, pending) ==
    LET r == RemoveSegments(r1, removed)
    IN  \E m \in EnsureNextPartIsValid(Load(playlist, UpdatePartInstances(r, changed), r)) :
            /\ rundown' = r
            /\ Save(m.pl, SavedInstances(m))
            /\ manual' = (manual /\ m.pl.next = playlist.next)
            /\ cleanup' = pending \cup (IF m.pl.next = playlist.next THEN {} ELSE QueueCleanup(m.pl, r))

-------------------------------------------------------------------------------
(***************************************************************************)
(* Ingest jobs.                                                            *)
(***************************************************************************)
\* The blueprint makes Segments anew, from what is told of them (replaceSegment).
Regenerated(S, told) ==
    [part |-> [p \in Parts |-> IF SegmentOf[p] \in S THEN told[SegmentOf[p]].parts[p] ELSE rundown.part[p]],
     segment |-> [s \in Segments |-> IF s \in S THEN "synced" ELSE rundown.segment[s]],
     concealed |-> (rundown.concealed \ S) \cup {s \in S : told[s].hidden}]

OrphanDeleted(r, S) ==
    [r EXCEPT !.part = [p \in Parts |-> IF SegmentOf[p] \in S THEN "absent" ELSE r.part[p]],
              !.segment = [s \in Segments |-> IF s \in S THEN "deleted" ELSE r.segment[s]]]

\* Without a change to the rundown there is no commit.
CommitIfChanged(r1, changed, removed) ==
    IF r1 = rundown THEN UNCHANGED <<playlist, instances, rundown, manual, cleanup>>
    ELSE Commit(r1, changed, removed, cleanup)

HandleUpdatedSegment(s, c) ==
    /\ nrcs' = [t \in DOMAIN nrcs \cup {s} |-> IF t = s THEN c ELSE nrcs[t]]
    /\ CommitIfChanged(Regenerated({s}, nrcs'), {s}, {})

HandleRemovedSegment(s) ==
    /\ s \in DOMAIN nrcs
    /\ nrcs' = [t \in DOMAIN nrcs \ {s} |-> nrcs[t]]
    /\ CommitIfChanged(OrphanDeleted(rundown, {s}), {}, {s})

\* The rundown is written anew, and with it the time of its change: it always commits.
HandleRegenerateRundown ==
    LET removed == Stored \ DOMAIN nrcs
    IN  /\ UNCHANGED nrcs
        /\ Commit(OrphanDeleted(Regenerated(DOMAIN nrcs, nrcs), removed),
                  DOMAIN nrcs \cup removed, removed, cleanup)

(* Mutant: what was orphaned when the job was queued is removed. *)
HandleRemoveOrphanedSegments_AsQueued(job) ==
    /\ UNCHANGED nrcs
    /\ Commit(Regenerated(job.hidden \cap DOMAIN nrcs, nrcs), job.hidden \cap DOMAIN nrcs,
              job.deleted, cleanup \ {job})

\* By the time of the job, a Segment may be back, or be on air again.
HandleRemoveOrphanedSegments(job) ==
    LET stillHidden == {s \in job.hidden : rundown.segment[s] = "hidden"}
        stillDeleted == {s \in job.deleted : rundown.segment[s] = "deleted"}
        changed == stillHidden \cap DOMAIN nrcs
    IN  /\ UNCHANGED nrcs
        /\ IF changed \cup stillDeleted = {}
           THEN cleanup' = cleanup \ {job} /\ UNCHANGED <<playlist, instances, rundown, manual>>
           ELSE Commit(Regenerated(changed, nrcs), changed, stillDeleted, cleanup \ {job})

IngestStep ==
    /\ \/ \E s \in Segments : HandleRemovedSegment(s) \/ \E c \in Edits[s] : HandleUpdatedSegment(s, c)
       \/ HandleRegenerateRundown
       \/ \E job \in cleanup : HandleRemoveOrphanedSegments(job)
    /\ UNCHANGED <<setting, crashes>>

(***************************************************************************)
(* Playout meanwhile: what users choose to be next is marked as chosen by  *)
(* hand, everything else chooses it automatically, and whoever sets what   *)
(* is next cleans up.                                                      *)
(***************************************************************************)
MovesSlots == playlist'.next # playlist.next \/ playlist'.current # playlist.current

\* Without a gateway a take tells itself that a Part stopped, and so may drop more
\* of the earlier instances after the clean-up, which still counted them.
PreviousAtCleanup ==
    LET kept == playlist'.previous
        simulates == /\ ~GatewayAttached /\ kept # <<>>
                     /\ playlist'.current = playlist.next.id /\ playlist.next.id # NoInstance
        more == {SubSeq(playlist.previous, Len(kept), n) :
                    n \in {k \in Len(kept)..Len(playlist.previous) : k < MaxPrevious}}
    IN  {kept} \cup (IF simulates THEN {kept \o dropped : dropped \in more} ELSE {})
CleansUp ==
    \E previous \in PreviousAtCleanup :
        cleanup' = cleanup \cup QueueCleanup([playlist' EXCEPT !.previous = previous], rundown)

PlayoutStep ==
    /\ \/ SetNextStep /\ manual' = TRUE /\ CleansUp
       \/ /\ QueueStep
          /\ IF playlist'.queued = None THEN manual' = TRUE /\ CleansUp
             ELSE UNCHANGED <<manual, cleanup>>
       \/ /\ OtherUserStep \/ GatewayStep
          /\ manual' = (manual /\ playlist'.next = playlist.next)
          /\ IF MovesSlots THEN CleansUp ELSE UNCHANGED cleanup
    /\ UNCHANGED <<setting, rundown, nrcs>>

IngestNext ==
    /\ IngestStep \/ PlayoutStep
    /\ Cardinality(cleanup') <= MaxCleanups
    /\ \A i \in DOMAIN instances' : i[2] <= MaxInstances
IngestSpec == IngestInit /\ [][IngestNext]_ingestVars

-------------------------------------------------------------------------------
SlotSegments == {SegmentOfInstance(i) : i \in {playlist.current, playlist.next.id} \ {NoInstance}}

(* Whatever the newsroom does, what is on air or next stays in a Segment   *)
(* of the rundown that is not hidden; and an instance is orphaned exactly  *)
(* while its Part is gone, also when the Part goes and comes back.         *)
SlotsStayInRundown ==
    /\ \A s \in SlotSegments : rundown.segment[s] # "absent" /\ s \notin rundown.concealed
    /\ \A i \in DOMAIN instances : ~instances[i].reset =>
            (instances[i].orphaned <=> rundown.part[PartOf(i)] = "absent")

(* What was chosen automatically is what follows the current Part in the   *)
(* rundown as it is now, and nothing is next only when nothing follows.    *)
(* A next instance counts as playable as the copy of its Part does.        *)
NextFollows ==
    LET next == playlist.next
        own == {p \in {PartOf(next.id)} \ {None} : rundown.part[p] # "absent"}
        follows == SelectNextPart(PlayableParts(Model) \cup own, None, PartOf(playlist.current))
    IN  playlist.current # NoInstance /\ PartOf(playlist.current) \notin AutoNextParts
        /\ ~manual /\ ~next.consumes /\ playlist.queued = None
            => PartOf(next.id) = follows.part

(* So what is on air or next follows the rundown, through every edit.      *)
SlotsFollowRundown == SlotsStayInRundown /\ NextFollows

(* The rundown is what the newsroom told: its Segments are there with      *)
(* their Parts (not to be played if concealed), and of what it took away   *)
(* no Part is left. A clean-up that was queued earlier removes nothing     *)
(* that has come back since.                                               *)
RundownFollowsNrcs ==
    /\ \A s \in DOMAIN nrcs :
        /\ rundown.segment[s] \in {"synced", "hidden"}
        /\ \A p \in PartsOfSegment(s) :
            rundown.part[p] = IF s \in rundown.concealed /\ nrcs[s].parts[p] # "absent"
                              THEN "unplayable" ELSE nrcs[s].parts[p]
    /\ \A s \in Segments \ DOMAIN nrcs : \A p \in PartsOfSegment(s) : rundown.part[p] = "absent"

(* An orphaned Segment is forgotten when it is in no slot and no clean-up  *)
(* job is queued for it; one that is hidden, and that the newsroom has no  *)
(* more, cannot be made anew, and is left as it is.                        *)
Forgotten ==
    LET hidden == {s \in DOMAIN nrcs : rundown.segment[s] = "hidden"}
        deleted == {s \in Segments : rundown.segment[s] = "deleted"}
    IN  ((hidden \ UNION {job.hidden : job \in cleanup})
            \cup (deleted \ UNION {job.deleted : job \in cleanup}))
        \ {SegmentOfInstance(i) : i \in Selected(playlist)}

Dropped == {SegmentOfInstance(i) : i \in Range(playlist.previous) \ Selected(playlist')}

(* No edit, early clean-up job or move of the playhead forgets an orphaned *)
(* Segment, and a move of current or next finds those forgotten before.    *)
(* Forgotten are only those of earlier instances that are dropped because  *)
(* a Part is reported to have stopped, since nothing is cleaned up then:   *)
(* by the gateway's report or, without a gateway, within the take.         *)
OrphansStayTended ==
    [][Forgotten' \subseteq
            (IF MovesSlots THEN {} ELSE Forgotten) \cup
            (IF StopReported \/ (MovesSlots /\ ~GatewayAttached) THEN Dropped ELSE {})]_ingestVars

(* A Segment that the newsroom took away is there only as an orphan.       *)
DeletedIsMarked == \A s \in Stored \ DOMAIN nrcs : rundown.segment[s] = "deleted"
===============================================================================
