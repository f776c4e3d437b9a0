----------------------------- MODULE PlayoutModel -----------------------------
(***************************************************************************)
(* The playout model of one Rundown Playlist: the document a playout job   *)
(* loads under the playlist lock, changes in memory and saves at the end   *)
(* (packages/job-worker/src/playout/model/implementation), with the        *)
(* helpers every job shares: selectNextPart, setNextPart and               *)
(* resetPartInstancesWithPieceInstances.                                   *)
(*                                                                         *)
(* A job is a function from a loaded model m to the models it may save:    *)
(*   m.pl        the playlist document                                     *)
(*   m.pis       the PartInstances collection, as a function on ids        *)
(*   m.loaded    the instances held in memory by this job                  *)
(*   m.deferred  the instances that are to be reset only after the save    *)
(*   m.purged    the instances that are to be removed only after the save  *)
(*   m.used      the ids that a new instance may not take                  *)
(*   m.rundown   the rundown as of the load; only ingest changes it        *)
(* Parts do not change places: Part p is the p-th one of the ordered parts *)
(* whenever it is there. Time is left out: whether an older part still     *)
(* reaches into the present is a choice (PrunePreviousPartInstances).      *)
(***************************************************************************)
EXTENDS Naturals, Sequences, FiniteSets, SequencesExt

CONSTANT Settings  \* the studios, each with its rundown, that there may be

VARIABLE setting  \* the studio and the rundown that is played; never changes

NumParts == setting.numParts      \* how many Parts the rundown has
SegmentOf == setting.segmentOf    \* the Segment of each Part; a Segment is a number above 0
BlueprintMoves == setting.blueprintMoves  \* the Parts blueprint.onSetAsNext may move the next to
MaxPrevious == setting.maxPrevious        \* MAX_PREVIOUS_PARTS
TrackPlayed == setting.trackPlayed  \* whether instances that were played and are in no slot matter

Parts == 1..NumParts
None == 0
Segments == {SegmentOf[p] : p \in Parts}

ASSUME PlayoutAssumption ==
    \A s \in Settings :
        /\ s.numParts \in Nat \ {0}
        /\ s.segmentOf \in [1..s.numParts -> Nat \ {None}]
        /\ \A p, q \in 1..s.numParts : p <= q => s.segmentOf[p] <= s.segmentOf[q]
        /\ s.playable \subseteq 1..s.numParts
        /\ s.blueprintMoves \subseteq 1..s.numParts
        /\ s.maxPrevious \in Nat \ {0}
        /\ s.trackPlayed \in BOOLEAN

HoldStates == {"none", "pending", "active", "complete"}

(***************************************************************************)
(* The rundown: its Parts, some of which may not be played (they are       *)
(* invalid or floated), and its Segments. A Segment that the newsroom took *)
(* away or hid is kept while it plays, as an orphan (deleted, hidden); one *)
(* with isHidden is concealed.                                             *)
(***************************************************************************)
Rundown ==
    [part : [Parts -> {"absent", "playable", "unplayable"}],
     segment : [Segments -> {"absent", "synced", "deleted", "hidden"}],
     concealed : SUBSET Segments]

\* The id of an instance is the id of its Part and something unique.
InstanceIds == Parts \X (Nat \ {0})
NoInstance == <<None, 0>>

(***************************************************************************)
(* The playlist: its activation id (None when inactive), and the selected  *)
(* instances: current, next and the earlier ones that still reach into the *)
(* present, the most recent first.                                         *)
(***************************************************************************)
NextInfo == [id : InstanceIds \cup {NoInstance}, consumes : BOOLEAN]
NoNext == [id |-> NoInstance, consumes |-> FALSE]

Playlist ==
    [activation : Nat, rehearsal : BOOLEAN, hold : HoldStates,
     current : InstanceIds \cup {NoInstance}, next : NextInfo,
     previous : Seq(InstanceIds), queued : Segments \cup {None}]

PartInstance ==
    [activation : Nat, rehearsal : BOOLEAN, taken : BOOLEAN,
     reset : BOOLEAN, started : BOOLEAN,
     orphaned : BOOLEAN]  \* whether it is orphaned 'deleted': its Part is gone

PartOf(i) == i[1]
SegmentOfInstance(i) == SegmentOf[PartOf(i)]

Selected(pl) ==
    (Range(pl.previous) \cup {pl.current, pl.next.id}) \ {NoInstance}

-------------------------------------------------------------------------------
(***************************************************************************)
(* Loading. Of the instances only the selected ones, and those of their    *)
(* segments that are not reset, are held in memory.                        *)
(***************************************************************************)
Load(pl, pis, rundown) ==
    LET selected == DOMAIN pis \cap Selected(pl)
        segments == {SegmentOfInstance(i) : i \in selected}
    IN  [pl |-> pl, pis |-> pis, rundown |-> rundown, deferred |-> {}, purged |-> {},
         used |-> DOMAIN pis \cup Selected(pl),
         loaded |-> selected \cup
            {i \in DOMAIN pis : ~pis[i].reset /\ SegmentOfInstance(i) \in segments}]

\* Marks instances as reset: those in memory now, the others after the save.
ResetPartInstances(m, S) ==
    [m EXCEPT !.pis = [i \in DOMAIN m.pis |->
                         IF i \in S \cap m.loaded
                         THEN [m.pis[i] EXCEPT !.reset = TRUE] ELSE m.pis[i]],
              !.deferred = @ \cup (S \ m.loaded)]

RemoveInstances(m, S) ==
    [m EXCEPT !.pis = [i \in DOMAIN m.pis \ S |-> m.pis[i]],
              !.loaded = @ \ S, !.deferred = @ \ S]

\* Ids are random, and never used twice: in the model, one that is free.
FreshId(m, p) ==
    <<p, CHOOSE k \in 1..(Cardinality(m.used) + 1) : <<p, k>> \notin m.used>>

CreateInstanceForPart(m, p) ==
    LET id == FreshId(m, p)
        instance == [activation |-> m.pl.activation, rehearsal |-> m.pl.rehearsal,
                     taken |-> FALSE, reset |-> FALSE, started |-> FALSE, orphaned |-> FALSE]
    IN  [id |-> id,
         m |-> [m EXCEPT !.pis = [i \in DOMAIN m.pis \cup {id} |->
                                    IF i = id THEN instance ELSE m.pis[i]],
                         !.loaded = @ \cup {id}, !.used = @ \cup {id}]]

-------------------------------------------------------------------------------
(***************************************************************************)
(* Moving the playhead.                                                    *)
(***************************************************************************)

(* Mutant: there is no cap on how many earlier instances are kept. *)
PrunePreviousPartInstances_NoCap(m) ==
    IF m.pl.previous = <<>> THEN {m}
    ELSE {[m EXCEPT !.pl.previous = SubSeq(m.pl.previous, 1, k)] : k \in 1..Len(m.pl.previous)}

(***************************************************************************)
(* Which earlier instances are still active depends on their timings. A    *)
(* contiguous prefix is kept, of at least one entry and at most            *)
(* MaxPrevious.                                                            *)
(***************************************************************************)
PrunePreviousPartInstances(m) ==
    IF m.pl.previous = <<>> THEN {m}
    ELSE {[m EXCEPT !.pl.previous = SubSeq(m.pl.previous, 1, k)] :
            k \in {n \in 1..Len(m.pl.previous) : n <= MaxPrevious}}

CycleSelectedPartInstances(m) ==
    PrunePreviousPartInstances(
        [m EXCEPT !.pl.previous = IF m.pl.current = NoInstance THEN m.pl.previous
                                  ELSE <<m.pl.current>> \o m.pl.previous,
                  !.pl.current = m.pl.next.id,
                  !.pl.next = NoNext])

\* Instances that were only ever next disappear once they are not selected.
RemoveUntakenPartInstances(m) ==
    RemoveInstances(m, {i \in m.loaded \ Selected(m.pl) : ~m.pis[i].taken})

ClearSelectedPartInstances(m) ==
    [m EXCEPT !.pl.current = NoInstance, !.pl.next = NoNext, !.pl.previous = <<>>,
              !.pl.hold = "none", !.pl.queued = None]

\* Ids of activations are random: a new one is equal to none in use.
NewActivation(m) ==
    LET inUse == {m.pl.activation} \cup {m.pis[i].activation : i \in DOMAIN m.pis}
    IN  CHOOSE a \in 1..(Cardinality(inUse) + 1) : a \notin inUse

ResetPlaylist(m, regenerateActivation) ==
    [ClearSelectedPartInstances(m) EXCEPT
        !.pl.activation = IF regenerateActivation THEN NewActivation(m) ELSE m.pl.activation]

\* Instances made in rehearsals go, those not in memory after the save.
RemoveAllRehearsalPartInstances(m) ==
    LET rehearsed == {i \in DOMAIN m.pis : m.pis[i].rehearsal}
    IN  [RemoveInstances(m, rehearsed \cap m.loaded) EXCEPT
            !.purged = @ \cup (rehearsed \ m.loaded)]

ReportPartInstanceHasStarted(m, i) ==
    [m EXCEPT !.pis[i].started = TRUE]

\* When an instance stopped is a time, too: the model shows that it was pruned for.
ReportPartInstanceHasStopped(m) == PrunePreviousPartInstances(m)

DeactivatePlaylist(m) == ClearSelectedPartInstances([m EXCEPT !.pl.activation = None])

-------------------------------------------------------------------------------
(***************************************************************************)
(* What is chosen as next: nothing, a Part, or an instance that exists.    *)
(***************************************************************************)
NoSelection == [part |-> None, instance |-> NoInstance, consumes |-> FALSE]
PartSelection(p, consumes) == [part |-> p, instance |-> NoInstance, consumes |-> consumes]
InstanceSelection(i) == [part |-> None, instance |-> i, consumes |-> FALSE]

PlayableParts(m) == {p \in Parts : m.rundown.part[p] = "playable"}
PartsOfSegment(s) == {p \in Parts : SegmentOf[p] = s}

FirstOf(S) == IF S = {} THEN None ELSE Min(S)
FirstPlayablePart(m, s) == FirstOf(PlayableParts(m) \cap PartsOfSegment(s))

\* The next of the playable Parts after p, or the first one when p is None. When
\* the segment of p is left, the queued segment is what follows it.
SelectNextPart(playable, queued, p) ==
    LET auto == FirstOf({q \in playable : q > p})
        inQueue == FirstOf(playable \cap PartsOfSegment(queued))
        leavesSegment == p = None \/ auto = None \/ SegmentOf[p] # SegmentOf[auto]
    IN  CASE leavesSegment /\ inQueue # None -> PartSelection(inQueue, TRUE)
          [] ~(leavesSegment /\ inQueue # None) /\ auto # None -> PartSelection(auto, FALSE)
          [] OTHER -> NoSelection

(***************************************************************************)
(* selectNewPartWithOffsets, one Part or one segment forward or back from  *)
(* ref: the closest Part, or the first Part of the closest segment, that   *)
(* is playable and not on air as the Part current.                         *)
(***************************************************************************)
Neighbour(m, p, forward) ==
    LET S == {q \in PlayableParts(m) : IF forward THEN q > p ELSE q < p}
    IN  CASE S = {} -> None [] S # {} /\ forward -> Min(S) [] OTHER -> Max(S)

MoveByPart(m, ref, current, forward) ==
    LET target == Neighbour(m, ref, forward)
    IN  IF target # None /\ target = current THEN Neighbour(m, target, forward) ELSE target

MoveBySegment(m, ref, current, forward) ==
    LET beyond(q) == IF forward THEN SegmentOf[q] > SegmentOf[ref]
                     ELSE SegmentOf[q] < SegmentOf[ref]
        S == {q \in PlayableParts(m) \ {current} : beyond(q)}
        segments == {SegmentOf[q] : q \in S}
        closest == IF forward THEN Min(segments) ELSE Max(segments)
    IN  IF S = {} THEN None ELSE FirstOf({q \in S : SegmentOf[q] = closest})

SelectFirstPart(m) == SelectNextPart(PlayableParts(m), m.pl.queued, None)
SelectPartAfterCurrent(m) == SelectNextPart(PlayableParts(m), m.pl.queued, PartOf(m.pl.current))

(***************************************************************************)
(* setNextPartAndCheckForPendingMoveNextPart: the instance that is next    *)
(* already is used again for its own Part; other instances of that Part    *)
(* that are not on air are reset.                                          *)
(***************************************************************************)
SetAsNext(m, id, consumes) ==
    LET kept == (Range(m.pl.previous) \cup {m.pl.current}) \cup {id}
        others == {i \in DOMAIN m.pis \ kept : PartOf(i) = PartOf(id) /\ ~m.pis[i].reset}
    IN  [ResetPartInstances(m, others) EXCEPT !.pl.next = [id |-> id, consumes |-> consumes]]

(* Mutant: the instance on air is used again when its own Part is chosen. *)
SetNextPartOnce_ReuseCurrent(m, choice) ==
    LET slots == {m.pl.next.id, m.pl.current} \cap DOMAIN m.pis
        reused == {i \in slots : PartOf(i) = choice.part}
        created == CreateInstanceForPart(m, choice.part)
    IN  CASE choice = NoSelection -> [m EXCEPT !.pl.next = NoNext]
          [] choice.instance # NoInstance -> SetAsNext(m, choice.instance, FALSE)
          [] choice.part # None /\ reused # {} ->
                SetAsNext(m, CHOOSE i \in reused : TRUE, choice.consumes)
          [] choice.part # None /\ reused = {} -> SetAsNext(created.m, created.id, choice.consumes)

SetNextPartOnce(m, choice) ==
    LET next == m.pl.next.id
        reuse == next \in DOMAIN m.pis /\ PartOf(next) = choice.part
        created == CreateInstanceForPart(m, choice.part)
    IN  CASE choice = NoSelection -> [m EXCEPT !.pl.next = NoNext]
          [] choice.instance # NoInstance -> SetAsNext(m, choice.instance, FALSE)
          [] choice.part # None /\ reuse -> SetAsNext(m, next, choice.consumes)
          [] choice.part # None /\ ~reuse -> SetAsNext(created.m, created.id, choice.consumes)

\* Entering a segment, or moving backwards in one, resets what was played of it.
ResetWhenChangingSegment(m) ==
    LET current == m.pl.current
        next == m.pl.next.id
        others == {i \in m.loaded \ {current, next} : ~m.pis[i].reset}
        trailing == {i \in others : /\ current \in DOMAIN m.pis
                                    /\ SegmentOfInstance(i) = SegmentOfInstance(current)
                                    /\ PartOf(i) > PartOf(current)}
        enters == \/ current \notin DOMAIN m.pis
                  \/ SegmentOfInstance(next) # SegmentOfInstance(current)
                  \/ PartOf(next) < PartOf(current)
        inNewSegment == {i \in others : enters /\ SegmentOfInstance(i) = SegmentOfInstance(next)}
    IN  IF next \in DOMAIN m.pis THEN ResetPartInstances(m, trailing \cup inNewSegment) ELSE m

\* PRESERVE_UNSYNCED_PLAYING_SEGMENT_CONTENTS, which Sofie is built without.
PreserveUnsynced == FALSE

\* Instances whose Part is gone are done with once they are in no slot. (The
\* orphaned Segments of the same function: QueueCleanup in RundownIngest.)
CleanupOrphanedItems(m) ==
    LET orphanedSegments == {s \in Segments : m.rundown.segment[s] \in {"deleted", "hidden"}}
    IN  ResetPartInstances(m, {i \in m.loaded :
            /\ m.pis[i].orphaned /\ ~m.pis[i].reset /\ i \notin Selected(m.pl)
            /\ ~(PreserveUnsynced /\ SegmentOfInstance(i) \in orphanedSegments)})

(***************************************************************************)
(* setNextPart, with at most one move by blueprint.onSetAsNext, to a Part  *)
(* it was not called for or, past the end of the rundown, to nothing. A    *)
(* PartInstance that is not in memory cannot be set as next: the job then  *)
(* fails, and there is no model to save.                                   *)
(***************************************************************************)
MovedNext(m, choice) ==
    LET once == SetNextPartOnce(m, choice)
        asked == choice.part
        moves == IF choice = NoSelection \/ BlueprintMoves = {} THEN {}
                 ELSE {PartSelection(p, FALSE) : p \in (BlueprintMoves \cap PlayableParts(m)) \ {asked}}
                        \cup {NoSelection}
    IN  {once} \cup {SetNextPartOnce(once, move) : move \in moves}

SetNextPart(m, choice) ==
    IF choice.instance # NoInstance /\ choice.instance \notin m.loaded THEN {}
    ELSE {CleanupOrphanedItems(ResetWhenChangingSegment(RemoveUntakenPartInstances(x))) :
            x \in MovedNext(m, choice)}

(***************************************************************************)
(* Saving. The playlist and the instances are written side by side, and    *)
(* only when both are there the deferred resets and removals are made.     *)
(***************************************************************************)
SavedInstances(m) ==
    [i \in DOMAIN m.pis \ m.purged |-> IF i \in m.deferred
                                        THEN [m.pis[i] EXCEPT !.reset = TRUE] ELSE m.pis[i]]

\* What the next jobs may find of it. An instance that is reset and in no slot
\* can never be loaded again, nor be found by a report: it is forgotten, and its
\* id may be used again. Of the instances of a Part that were played, are in no slot
\* and are the same (the number of a past activation aside), one stands for all. Where
\* nobody asks what was played before (TrackPlayed is FALSE), all are forgotten.
Remembered(pl, pis) ==
    LET kept == {i \in DOMAIN pis : ~pis[i].reset}
        played == {i \in kept : pis[i].taken} \ Selected(pl)
        ofNow(i) == pis[i].activation = pl.activation
        alike(i, j) == /\ PartOf(i) = PartOf(j) /\ (ofNow(i) <=> ofNow(j))
                       /\ [pis[i] EXCEPT !.activation = None] = [pis[j] EXCEPT !.activation = None]
        spare == IF TrackPlayed THEN {i \in played : \E j \in played : alike(i, j) /\ j[2] < i[2]}
                 ELSE played
    IN  [i \in (kept \ spare) \cup (Selected(pl) \cap DOMAIN pis) |-> pis[i]]
===============================================================================
