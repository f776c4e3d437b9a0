-------------------------------- MODULE Playout --------------------------------
(***************************************************************************)
(* Playout of one Rundown Playlist: the studio jobs that activate, reset   *)
(* and deactivate it, choose what is next, take it, hold, and the reports  *)
(* the playout gateway sends back (packages/job-worker/src/playout).       *)
(*                                                                         *)
(* Every job runs under the playlist lock (module WorkerLocks), loads the  *)
(* model, computes, and saves at the end; a job that throws saves nothing. *)
(* So a job is one step, except that the worker may die within the save    *)
(* (CrashDuringSave).                                                      *)
(***************************************************************************)
EXTENDS PlayoutModel

AutoNextParts == setting.autoNextParts  \* the Parts with autoNext: the gateway plays on by itself
HoldFrom == setting.holdFrom            \* the Parts with holdMode FROM
HoldTo == setting.holdTo                \* the Parts with holdMode TO
AllowResetOnAir == setting.allowResetOnAir    \* studio.settings.allowRundownResetOnAir
Modes == setting.modes                  \* how users activate: "active", "rehearsal" or both
PlayFromAnywhere == setting.playFromAnywhere  \* studio.settings.enablePlayFromAnywhere
GatewayAttached == setting.gatewayAttached    \* whether the studio has a playout gateway
MaxCrashes == setting.maxCrashes  \* how often the worker may die while it saves (bound)

ASSUME JobsAssumption ==
    \A s \in Settings :
        /\ s.autoNextParts \cup s.holdFrom \cup s.holdTo \subseteq 1..s.numParts
        /\ s.modes \subseteq {"active", "rehearsal"}
        /\ {s.allowResetOnAir, s.playFromAnywhere, s.gatewayAttached} \subseteq BOOLEAN
        /\ s.maxCrashes \in Nat

VARIABLES
    playlist,   \* the document in RundownPlaylists
    instances,  \* the collection PartInstances
    rundown,    \* the rundown: Segments and Parts (it changes in RundownIngest)
    crashes     \* how often the worker died so far (bounds the model)
vars == <<setting, playlist, instances, rundown, crashes>>

TypeOK ==
    /\ setting \in Settings
    /\ playlist \in Playlist
    /\ Len(playlist.previous) <= MaxPrevious
    /\ DOMAIN instances \subseteq InstanceIds
    /\ \A i \in DOMAIN instances : instances[i] \in PartInstance
    /\ rundown \in Rundown
    /\ crashes \in 0..MaxCrashes

Init ==
    /\ setting \in Settings
    /\ rundown = [part |-> [p \in Parts |-> IF p \in setting.playable THEN "playable" ELSE "unplayable"],
                  segment |-> [s \in Segments |-> "synced"], concealed |-> {}]
    /\ playlist = [activation |-> None, rehearsal |-> FALSE, hold |-> "none",
                   current |-> NoInstance, next |-> NoNext, previous |-> <<>>, queued |-> None]
    /\ instances = [i \in {} |-> {}]
    /\ crashes = 0

Model == Load(playlist, instances, rundown)
Active == playlist.activation # None
MayChangeNext == Active /\ playlist.hold \in {"none", "complete"}

Save(pl, pis) ==
    /\ playlist' = pl
    /\ instances' = Remembered(pl, pis)

\* One of the two collections is written, or both and nothing deferred.
CrashDuringSave(m) ==
    /\ crashes < MaxCrashes
    /\ crashes' = crashes + 1
    /\ \/ Save(m.pl, instances)
       \/ Save(playlist, m.pis)
       \/ Save(m.pl, m.pis)

SaveAllToDatabase(m) ==
    \/ Save(m.pl, SavedInstances(m)) /\ UNCHANGED crashes
    \/ CrashDuringSave(m)

\* The timeline cannot be built, and the job fails, when what is to play is not
\* stored. (Every job but the reports below updates the timeline.)
UpdateTimelineAndSave(m) ==
    /\ {m.pl.current, m.pl.next.id} \ {NoInstance} \subseteq DOMAIN m.pis
    /\ SaveAllToDatabase(m)

-------------------------------------------------------------------------------
(***************************************************************************)
(* Activation. That no other playlist of the studio is active is taken for *)
(* granted: this is the model of one playlist.                             *)
(***************************************************************************)
(* Mutant: only the instances in memory are reset. *)
ResetRundownPlaylist_LoadedOnly(m) ==
    LET active == m.pl.activation # None
        cleared == RemoveAllRehearsalPartInstances(ResetPlaylist(m, active))
        reset == ResetPartInstances(cleared, cleared.loaded)
    IN  SetNextPart(reset, IF active THEN SelectFirstPart(reset) ELSE NoSelection)

ResetRundownPlaylist(m) ==
    LET active == m.pl.activation # None
        cleared == RemoveAllRehearsalPartInstances(ResetPlaylist(m, active))
        all == {i \in DOMAIN cleared.pis : ~cleared.pis[i].reset}
        reset == ResetPartInstances(cleared, all)
    IN  SetNextPart(reset, IF active THEN SelectFirstPart(reset) ELSE NoSelection)

(* Mutant: the instances that are kept stay with the old activation. *)
ActivateInner_KeepActivation(m, rehearsal) ==
    LET activated == [m EXCEPT !.pl.activation = NewActivation(m), !.pl.rehearsal = rehearsal]
        current == m.pl.current
        cleared == ClearSelectedPartInstances(activated)
    IN  IF current \notin DOMAIN m.pis \/ m.pis[current].reset
        THEN SetNextPart(cleared, SelectFirstPart(cleared)) ELSE {activated}

ActivateInner(m, rehearsal) ==
    LET activation == NewActivation(m)
        activated == [m EXCEPT !.pl.activation = activation, !.pl.rehearsal = rehearsal]
        current == m.pl.current
        cleared == ClearSelectedPartInstances(activated)
        preserved == [activated EXCEPT !.pis =
            [i \in DOMAIN m.pis |->
                IF i \in Selected(m.pl) THEN [m.pis[i] EXCEPT !.activation = activation]
                ELSE m.pis[i]]]
    IN  IF current \notin DOMAIN m.pis \/ m.pis[current].reset
        THEN SetNextPart(cleared, SelectFirstPart(cleared)) ELSE {preserved}

ActivateRundownPlaylist(m, rehearsal, forceReset) ==
    LET start == IF m.pl.activation = None \/ forceReset THEN ResetRundownPlaylist(m) ELSE {m}
    IN  UNION {ActivateInner(x, rehearsal) : x \in start}

HandlePrepareForBroadcast ==
    /\ ~Active /\ "rehearsal" \in Modes
    /\ \E m \in ActivateRundownPlaylist(Model, TRUE, TRUE) : UpdateTimelineAndSave(m)

\* forceActivate: the mode to go on in, or to go on as before (AsBefore).
AsBefore == "as before"
ResetOutcomes(activate) ==
    IF Active \/ activate # AsBefore
    THEN ActivateRundownPlaylist(Model,
            IF activate = AsBefore THEN playlist.rehearsal ELSE activate = "rehearsal", TRUE)
    ELSE ResetRundownPlaylist(Model)

HandleResetRundownPlaylist(activate) ==
    /\ ~Active \/ playlist.rehearsal \/ AllowResetOnAir
    /\ \E m \in ResetOutcomes(activate) : UpdateTimelineAndSave(m)

HandleActivateRundownPlaylist(mode) ==
    \E m \in ActivateRundownPlaylist(Model, mode = "rehearsal", FALSE) : UpdateTimelineAndSave(m)

HandleDeactivateRundownPlaylist ==
    \E m \in SetNextPart(DeactivatePlaylist(Model), NoSelection) : UpdateTimelineAndSave(m)

-------------------------------------------------------------------------------
(***************************************************************************)
(* Choosing what is next.                                                  *)
(***************************************************************************)
ConsumesQueuedSegment(m, p) ==
    /\ m.pl.current \in DOMAIN m.pis
    /\ SegmentOfInstance(m.pl.current) # SegmentOf[p]
    /\ m.pl.queued = SegmentOf[p]

SetNextPartFromPart(p) ==
    SetNextPart(Model, PartSelection(p, ConsumesQueuedSegment(Model, p)))

HandleSetNextPart(p) ==
    /\ MayChangeNext
    /\ p \in PlayableParts(Model)
    /\ \E m \in SetNextPartFromPart(p) : UpdateTimelineAndSave(m)

\* The move starts at next or, without one, at current.
HandleMoveNextPart(forward, bySegment) ==
    LET storedPart(i) == IF i \in DOMAIN instances THEN PartOf(i) ELSE None
        current == storedPart(playlist.current)
        next == storedPart(playlist.next.id)
        ref == IF next # None THEN next ELSE current
        target == IF bySegment THEN MoveBySegment(Model, ref, current, forward)
                  ELSE MoveByPart(Model, ref, current, forward)
    IN  /\ MayChangeNext
        /\ ref # None
        /\ target # None
        /\ \E m \in SetNextPartFromPart(target) : UpdateTimelineAndSave(m)

\* "Play from here": any stored instance may be chosen to be next, and the job asks
\* neither whether it is reset nor which activation it is of (what the UI offers is
\* filtered so, but a click may come late). The one that is playing is not used again.
HandleSetNextInstance(i) ==
    LET p == PartOf(i)
        byPart == NoInstance \in {playlist.next.id, playlist.current} \/ i = playlist.current
        choice == IF byPart THEN PartSelection(p, ConsumesQueuedSegment(Model, p))
                  ELSE InstanceSelection(i)
    IN  /\ MayChangeNext
        /\ PlayFromAnywhere
        /\ byPart => p \in PlayableParts(Model)
        /\ \E m \in SetNextPart(Model, choice) : UpdateTimelineAndSave(m)

HandleSetNextSegment(s) ==
    LET first == FirstPlayablePart(Model, s)
    IN  /\ MayChangeNext
        /\ first # None
        /\ \E m \in SetNextPart([Model EXCEPT !.pl.queued = None], PartSelection(first, FALSE)) :
                UpdateTimelineAndSave(m)

\* Queueing is for a segment after the current one: when next has left the
\* current segment already, the segment is made next at once.
HandleQueueNextSegment(s) ==
    LET first == FirstPlayablePart(Model, s)
        current == playlist.current
        next == playlist.next.id
        atOnce == \/ {current, next} \cap DOMAIN instances # {current, next}
                  \/ SegmentOfInstance(current) # SegmentOfInstance(next)
        queued == [Model EXCEPT !.pl.queued = IF atOnce THEN None ELSE s]
    IN  /\ MayChangeNext
        /\ first # None
        /\ \E m \in IF atOnce THEN SetNextPart(queued, PartSelection(first, FALSE)) ELSE {queued} :
                UpdateTimelineAndSave(m)

HandleClearQueuedSegment ==
    /\ MayChangeNext
    /\ UpdateTimelineAndSave([Model EXCEPT !.pl.queued = None])

-------------------------------------------------------------------------------
(***************************************************************************)
(* Hold.                                                                   *)
(***************************************************************************)
HandleActivateHold ==
    LET from == PartOf(playlist.current)
        to == PartOf(playlist.next.id)
    IN  /\ Active /\ playlist.hold = "none"
        /\ {playlist.current, playlist.next.id} \subseteq DOMAIN instances
        /\ from \in HoldFrom /\ to \in HoldTo /\ SegmentOf[from] = SegmentOf[to]
        /\ UpdateTimelineAndSave([Model EXCEPT !.pl.hold = "pending"])

HandleDeactivateHold ==
    /\ Active /\ playlist.hold = "pending"
    /\ UpdateTimelineAndSave([Model EXCEPT !.pl.hold = "none"])

-------------------------------------------------------------------------------
(***************************************************************************)
(* Take.  Refusals for being too soon after another take or too close to   *)
(* an autonext are not modelled: a take comes at any time.                 *)
(***************************************************************************)
\* clearQueuedSegmentId: an instance selected because of the queue consumes it.
ClearQueuedSegmentId(m, taken, info) ==
    IF info.consumes /\ m.pl.queued = SegmentOfInstance(taken)
    THEN [m EXCEPT !.pl.queued = None] ELSE m

\* updatePartInstanceOnTake, setTaken.
MarkTaken(m, i) == [m EXCEPT !.pis[i].taken = TRUE]

\* Without a gateway, Core itself reports what a gateway would have.
SimulatePlayout(m) ==
    LET started == ReportPartInstanceHasStarted(m, m.pl.current)
        previous == m.pl.previous
    IN  IF GatewayAttached THEN {m}
        ELSE IF previous = <<>> \/ Head(previous) \notin DOMAIN m.pis THEN {started}
        ELSE ReportPartInstanceHasStopped(started)

(* Mutant: the hold stays pending when its parts are taken. *)
StartHold_Never(m, from) == {m}

\* activateHold throws when there is nothing to hold from.
StartHold(m, from) ==
    CASE m.pl.hold # "pending" -> {m}
      [] m.pl.hold = "pending" /\ from \in DOMAIN m.pis -> {[m EXCEPT !.pl.hold = "active"]}
      [] OTHER -> {}

\* performTakeToNextedPart, once it is neither refused nor the end of a hold.
TakeNext(m) ==
    LET next == m.pl.next
        marked == MarkTaken(ClearQueuedSegmentId(m, next.id, next), next.id)
        chosen == UNION {SetNextPart(x, SelectPartAfterCurrent(x)) :
                            x \in CycleSelectedPartInstances(marked)}
        held == UNION {StartHold(x, m.pl.current) : x \in chosen}
    IN  IF next.id \in DOMAIN m.pis THEN UNION {SimulatePlayout(x) : x \in held} ELSE {}

\* The take that ends a hold does not move; blueprint.onTake may abort a take.
PerformTakeToNextedPart(m) ==
    LET ready == IF m.pl.hold = "complete" THEN [m EXCEPT !.pl.hold = "none"] ELSE m
    IN  IF m.pl.hold = "active" THEN {[m EXCEPT !.pl.hold = "complete"]}
        ELSE TakeNext(ready) \cup (IF m.pl.next.id \in DOMAIN m.pis THEN {ready} ELSE {})

\* A take names the instance its user saw on air, and is refused when that is no
\* longer the current one.
HandleTakeNextPart ==
    /\ Active
    /\ playlist.next # NoNext \/ playlist.hold = "active"
    /\ \E m \in PerformTakeToNextedPart(Model) : UpdateTimelineAndSave(m)

-------------------------------------------------------------------------------
(***************************************************************************)
(* Reports of the gateway. A report on an instance that is not in memory,  *)
(* that has started before, or that is neither current nor next changes    *)
(* nothing.                                                                *)
(***************************************************************************)
(* Mutant: an autonexted instance is not marked as taken. *)
Autonext_Unmarked(m) ==
    LET next == m.pl.next.id
        cycled == {[x EXCEPT !.pl.hold = "none"] : x \in CycleSelectedPartInstances(m)}
        played == {ClearQueuedSegmentId(ReportPartInstanceHasStarted(x, next), next, x.pl.next) :
                        x \in cycled}
    IN  UNION {SetNextPart(x, SelectPartAfterCurrent(x)) : x \in played}

(* Mutant: a hold survives the autonext. *)
Autonext_KeepHold(m) ==
    LET next == m.pl.next.id
        played == {ClearQueuedSegmentId(MarkTaken(ReportPartInstanceHasStarted(x, next), next),
                                        next, x.pl.next) : x \in CycleSelectedPartInstances(m)}
    IN  UNION {SetNextPart(x, SelectPartAfterCurrent(x)) : x \in played}

\* The playlist that is asked for nextPartInfo has been cycled already.
Autonext(m) ==
    LET next == m.pl.next.id
        cycled == {[x EXCEPT !.pl.hold = "none"] : x \in CycleSelectedPartInstances(m)}
        played == {ClearQueuedSegmentId(MarkTaken(ReportPartInstanceHasStarted(x, next), next),
                                        next, x.pl.next) : x \in cycled}
    IN  UNION {SetNextPart(x, SelectPartAfterCurrent(x)) : x \in played}

\* The gateway reports on what a timeline told it to play, now or earlier:
\* what was taken, and what follows an autonexting Part.
OnTimeline ==
    LET current == playlist.current
        autonexts == current \in DOMAIN instances /\ PartOf(current) \in AutoNextParts
    IN  {i \in DOMAIN instances : \/ instances[i].taken
                                  \/ i = current
                                  \/ i = playlist.next.id /\ autonexts}

StartsCurrent(i) == i = playlist.current /\ ~instances[i].started
StartsNext(i) == i = playlist.next.id /\ i # playlist.current /\ ~instances[i].started

OnPartPlaybackStarted(i) ==
    /\ GatewayAttached
    /\ \/ StartsCurrent(i) /\ SaveAllToDatabase(ReportPartInstanceHasStarted(Model, i))
       \/ StartsNext(i) /\ \E m \in Autonext(Model) : SaveAllToDatabase(m)

OnPartPlaybackStopped(i) ==
    /\ GatewayAttached
    /\ instances[i].started
    /\ i \in Model.loaded
    /\ \E m \in ReportPartInstanceHasStopped(Model) : SaveAllToDatabase(m)

-------------------------------------------------------------------------------
SetNextStep ==
    \/ \E p \in Parts : HandleSetNextPart(p)
    \/ \E forward, bySegment \in BOOLEAN : HandleMoveNextPart(forward, bySegment)
    \/ \E i \in DOMAIN instances : HandleSetNextInstance(i)
    \/ \E s \in Segments : HandleSetNextSegment(s)

QueueStep == \E s \in Segments : HandleQueueNextSegment(s)

OtherUserStep ==
    \/ HandlePrepareForBroadcast
    \/ \E activate \in Modes \cup {AsBefore} : HandleResetRundownPlaylist(activate)
    \/ \E mode \in Modes : HandleActivateRundownPlaylist(mode)
    \/ HandleDeactivateRundownPlaylist
    \/ HandleClearQueuedSegment
    \/ HandleActivateHold
    \/ HandleDeactivateHold
    \/ HandleTakeNextPart

StopReported == \E i \in OnTimeline : OnPartPlaybackStopped(i)
GatewayStep == StopReported \/ \E i \in OnTimeline : OnPartPlaybackStarted(i)

Next == (SetNextStep \/ QueueStep \/ OtherUserStep \/ GatewayStep) /\ UNCHANGED <<setting, rundown>>

Spec == Init /\ [][Next]_vars

-------------------------------------------------------------------------------
(* What follows is promised of the two collections as jobs leave them, not *)
(* of what is left when the worker dies within a save (see ResetRecovers). *)
Whole == crashes = 0

SlotsExist == Selected(playlist) \subseteq DOMAIN instances

PlayedSlots ==
    /\ \A i \in Range(playlist.previous) \cup ({playlist.current} \ {NoInstance}) : instances[i].taken
    /\ ~PlayFromAnywhere =>
            \A i \in {playlist.current, playlist.next.id} \ {NoInstance} : ~instances[i].reset

OnlyNextIsUntaken == \A i \in DOMAIN instances : ~instances[i].taken => i = playlist.next.id

PlaybackIsReported ==
    ~GatewayAttached /\ playlist.current # NoInstance => instances[playlist.current].started

(* The slots of the playlist and the stored instances agree: whatever a    *)
(* job removes, it removes after the slots have moved on; what is or was   *)
(* on air is recorded as played, what is on air or next has not been reset *)
(* (but by "play from here" a reset instance that is still loaded can be   *)
(* made next), and what was only ever next leaves nothing behind.  Where   *)
(* no gateway is there to report, what is on air counts as started.        *)
SlotsMatchInstances ==
    Whole => SlotsExist /\ PlayedSlots /\ OnlyNextIsUntaken /\ PlaybackIsReported

(* The instance on air is never also the next one, whether next was chosen *)
(* by Part or by instance; and without "play from here" no instance is in  *)
(* two slots, the previous ones included.                                  *)
SlotsDistinct ==
    Whole =>
    /\ playlist.current # NoInstance => playlist.current # playlist.next.id
    /\ ~PlayFromAnywhere =>
         /\ Range(playlist.previous) \cap {playlist.current, playlist.next.id} = {}
         /\ IsInjective(playlist.previous)

(* Nothing is selected in a playlist that is not active; and the selected  *)
(* instances belong to the activation that is running, but where "play     *)
(* from here" may make one of an earlier activation next.  PieceInstances  *)
(* are loaded by this id: an instance of another activation plays empty.   *)
SelectedShareActivation ==
    Whole =>
    /\ ~Active => Selected(playlist) = {}
    /\ Active /\ ~PlayFromAnywhere =>
            \A i \in Selected(playlist) : instances[i].activation = playlist.activation

(* A hold is always between a Part to hold from and a Part to hold to, of  *)
(* one segment: while it is pending they are current and next, once it is  *)
(* active they are previous and current.                                   *)
IsHoldPair(i, j) ==
    /\ {i, j} \subseteq DOMAIN instances
    /\ PartOf(i) \in HoldFrom /\ PartOf(j) \in HoldTo
    /\ SegmentOfInstance(i) = SegmentOfInstance(j)
HoldPairs ==
    Whole =>
    /\ playlist.hold = "pending" => IsHoldPair(playlist.current, playlist.next.id)
    /\ playlist.hold \in {"active", "complete"} =>
            playlist.previous # <<>> /\ IsHoldPair(Head(playlist.previous), playlist.current)

HoldEndsBeforeMoving ==
    playlist'.current # playlist.current =>
        /\ playlist'.hold \in {"none", "active"}
        /\ playlist'.hold = "active" => playlist.hold = "pending"

(* The queued segment is cleared when an instance that was selected        *)
(* because of it starts to play.                                           *)
PlaysConsumer ==
    /\ playlist.next.consumes
    /\ playlist'.current = playlist.next.id
    /\ playlist.queued = SegmentOfInstance(playlist.next.id)
ConsumedQueueIsCleared == [][PlaysConsumer => playlist'.queued = None]_vars

TakeStep == HandleTakeNextPart
TakeConsumesQueue == PlaysConsumer /\ TakeStep => playlist'.queued = None

(* When the playhead moves, what was planned for the move is over: a take  *)
(* ends an active hold first and an autonext abandons it, so that a hold   *)
(* goes on only from pending to active; and a take into the queued segment *)
(* clears the queue.                                                       *)
MovesCompletely == [][HoldEndsBeforeMoving /\ TakeConsumesQueue]_vars

(* Whatever a crash within a save leaves behind, a reset of the playlist   *)
(* always works, and leads back to a playlist that selects a stored        *)
(* instance of its own activation, and nothing else counts as played.      *)
ResetRecovers ==
    ~Whole => \A activate \in Modes :
        /\ ResetOutcomes(activate) # {}
        /\ \A m \in ResetOutcomes(activate) :
            LET saved == Remembered(m.pl, SavedInstances(m))
            IN  /\ Selected(m.pl) \subseteq DOMAIN saved
                /\ \A i \in DOMAIN saved : /\ i = m.pl.next.id
                                           /\ saved[i].activation = m.pl.activation
===============================================================================
