-------------------------- MODULE RundownIngestProofs --------------------------
(***************************************************************************)
(* Proofs about RundownIngest, for every studio, every rundown and every   *)
(* edit the newsroom may make.                                             *)
(*                                                                         *)
(* A commit loads the model of the playlist with the instances it has just *)
(* updated and the rundown it has just cleaned, and may then set what is   *)
(* next: so what PlayoutProofs shows of every playout job (types, and      *)
(* where a selected instance comes from) holds of it, too.                 *)
(***************************************************************************)
EXTENDS RundownIngest, PlayoutProofs

(* The types of what the newsroom sends.                                   *)
LEMMA EditTypes ==
  ASSUME setting \in Settings
  PROVE  /\ MaxCleanups \in Nat \ {0}
         /\ \A s \in Segments : \A c \in Edits[s] : IsContent(c, PartsOfSegment(s))
<1>1. /\ setting.maxCleanups \in Nat \ {0}
      /\ \A g \in {setting.segmentOf[p] : p \in 1..setting.numParts} : \A c \in setting.edits[g] :
           IsContent(c, {p \in 1..setting.numParts : setting.segmentOf[p] = g})
  BY IngestAssumption
<1>2. Segments = {setting.segmentOf[p] : p \in 1..setting.numParts}
  BY DEF Segments, Parts, NumParts, SegmentOf
<1>3. \A g : PartsOfSegment(g) = {p \in 1..setting.numParts : setting.segmentOf[p] = g}
  BY DEF PartsOfSegment, Parts, NumParts, SegmentOf
<1> QED BY <1>1, <1>2, <1>3 DEF MaxCleanups, Edits

LEMMA PartTypes ==
  ASSUME setting \in Settings
  PROVE  /\ \A p \in Parts : SegmentOf[p] \in Segments /\ p \in PartsOfSegment(SegmentOf[p])
         /\ \A s \in Segments : PartsOfSegment(s) \subseteq Parts
         /\ \A s \in Segments : \A p \in PartsOfSegment(s) : SegmentOf[p] = s
BY DEF PartsOfSegment, Segments

LEMMA RundownTypes ==
  ASSUME NEW r \in Rundown
  PROVE  /\ r.part \in [Parts -> {"absent", "playable", "unplayable"}]
         /\ r.segment \in [Segments -> {"absent", "synced", "deleted", "hidden"}]
         /\ r.concealed \in SUBSET Segments
BY DEF Rundown

(* Parts and states given by Segment make a rundown.                       *)
LEMMA RundownMade ==
  ASSUME NEW part \in [Parts -> {"absent", "playable", "unplayable"}],
         NEW segment \in [Segments -> {"absent", "synced", "deleted", "hidden"}],
         NEW concealed \in SUBSET Segments
  PROVE  [part |-> part, segment |-> segment, concealed |-> concealed] \in Rundown
BY DEF Rundown

-----------------------------------------------------------------------------
(* What a job makes of the rundown.                                        *)
Contents(N) == DOMAIN N \subseteq Segments /\ \A s \in DOMAIN N : IsContent(N[s], PartsOfSegment(s))

LEMMA RegeneratedEffect ==
  ASSUME setting \in Settings, rundown \in Rundown, NEW N, Contents(N), NEW S \in SUBSET DOMAIN N,
         NEW r, r = Regenerated(S, N)
  PROVE  /\ r \in Rundown
         /\ \A p \in Parts : r.part[p] = IF SegmentOf[p] \in S THEN N[SegmentOf[p]].parts[p] ELSE rundown.part[p]
         /\ \A s \in Segments : r.segment[s] = IF s \in S THEN "synced" ELSE rundown.segment[s]
         /\ r.concealed = (rundown.concealed \ S) \cup {s \in S : N[s].hidden}
<1> DEFINE part == [p \in Parts |-> IF SegmentOf[p] \in S THEN N[SegmentOf[p]].parts[p] ELSE rundown.part[p]]
           segment == [s \in Segments |-> IF s \in S THEN "synced" ELSE rundown.segment[s]]
           concealed == (rundown.concealed \ S) \cup {s \in S : N[s].hidden}
<1>1. r = [part |-> part, segment |-> segment, concealed |-> concealed]
  BY DEF Regenerated
<1>2. ASSUME NEW p \in Parts, SegmentOf[p] \in S
      PROVE  N[SegmentOf[p]].parts[p] \in {"absent", "playable", "unplayable"}
  <2>1. IsContent(N[SegmentOf[p]], PartsOfSegment(SegmentOf[p])) /\ p \in PartsOfSegment(SegmentOf[p])
    BY <1>2, PartTypes DEF Contents
  <2> QED BY <2>1 DEF IsContent
<1>3. part \in [Parts -> {"absent", "playable", "unplayable"}]
  BY <1>2, RundownTypes
<1>4. segment \in [Segments -> {"absent", "synced", "deleted", "hidden"}]
  BY RundownTypes
<1>5. concealed \in SUBSET Segments
  BY RundownTypes DEF Contents
<1>6. /\ \A p \in Parts : part[p] = IF SegmentOf[p] \in S THEN N[SegmentOf[p]].parts[p] ELSE rundown.part[p]
      /\ \A s \in Segments : segment[s] = IF s \in S THEN "synced" ELSE rundown.segment[s]
  OBVIOUS
<1> HIDE DEF part, segment, concealed
<1>7. r.part = part /\ r.segment = segment /\ r.concealed = concealed /\ r \in Rundown
  BY <1>1, <1>3, <1>4, <1>5, RundownMade
<1> QED BY <1>6, <1>7 DEF concealed

LEMMA OrphanDeletedEffect ==
  ASSUME NEW q \in Rundown, NEW S \in SUBSET Segments, NEW r, r = OrphanDeleted(q, S)
  PROVE  /\ r \in Rundown
         /\ \A p \in Parts : r.part[p] = IF SegmentOf[p] \in S THEN "absent" ELSE q.part[p]
         /\ \A s \in Segments : r.segment[s] = IF s \in S THEN "deleted" ELSE q.segment[s]
         /\ r.concealed = q.concealed
<1> DEFINE part == [p \in Parts |-> IF SegmentOf[p] \in S THEN "absent" ELSE q.part[p]]
           segment == [s \in Segments |-> IF s \in S THEN "deleted" ELSE q.segment[s]]
<1>1. r = [q EXCEPT !.part = part, !.segment = segment]
  BY DEF OrphanDeleted
<1>2. part \in [Parts -> {"absent", "playable", "unplayable"}]
  BY RundownTypes
<1>3. segment \in [Segments -> {"absent", "synced", "deleted", "hidden"}]
  BY RundownTypes
<1>4. /\ \A p \in Parts : part[p] = IF SegmentOf[p] \in S THEN "absent" ELSE q.part[p]
      /\ \A s \in Segments : segment[s] = IF s \in S THEN "deleted" ELSE q.segment[s]
  OBVIOUS
<1> HIDE DEF part, segment
<1>5. r.part = part /\ r.segment = segment /\ r.concealed = q.concealed /\ r \in Rundown
  BY <1>1, <1>2, <1>3 DEF Rundown
<1> QED BY <1>4, <1>5

-----------------------------------------------------------------------------
(* What a commit makes of the rundown.                                     *)
LEMMA RemovedTypes ==
  ASSUME NEW q \in Rundown, NEW removed \in SUBSET Segments, NEW r, r = RemoveSegments(q, removed)
  PROVE  /\ r \in Rundown
         /\ LET live == LiveSegments
                concealed == {s \in q.concealed : q.segment[s] # "absent"}
                purged == removed \ live
                orphanDeleted ==
                    (removed \cap live) \cup {s \in concealed \cap live : q.segment[s] = "deleted"}
                empty == {s \in Segments \ (concealed \cup orphanDeleted) :
                            q.segment[s] # "absent" /\ \A p \in PartsOfSegment(s) : q.part[p] = "absent"}
                orphanHidden == ((concealed \cap live) \cup (empty \cap live)) \ orphanDeleted
            IN  /\ \A p \in Parts :
                     r.part[p] =
                       CASE SegmentOf[p] \in purged \cup orphanDeleted -> "absent"
                         [] SegmentOf[p] \in (concealed \ live) \ purged /\ q.part[p] # "absent" -> "unplayable"
                         [] OTHER -> q.part[p]
                /\ \A s \in Segments :
                     r.segment[s] = CASE s \in purged -> "absent"
                                      [] s \in orphanDeleted -> "deleted"
                                      [] s \in orphanHidden /\ q.segment[s] = "synced" -> "hidden"
                                      [] s \in (empty \ live) \ purged -> "synced"
                                      [] OTHER -> q.segment[s]
                /\ r.concealed = (q.concealed \cup (empty \ live)) \ (orphanHidden \cup purged)
<1> DEFINE live == LiveSegments
           concealed == {s \in q.concealed : q.segment[s] # "absent"}
           purged == removed \ live
           orphanDeleted ==
             (removed \cap live) \cup {s \in concealed \cap live : q.segment[s] = "deleted"}
           empty == {s \in Segments \ (concealed \cup orphanDeleted) :
                       q.segment[s] # "absent" /\ \A p \in PartsOfSegment(s) : q.part[p] = "absent"}
           orphanHidden == ((concealed \cap live) \cup (empty \cap live)) \ orphanDeleted
           partIn(p, s) ==
             CASE s \in purged \cup orphanDeleted -> "absent"
               [] s \in (concealed \ live) \ purged /\ q.part[p] # "absent" -> "unplayable"
               [] OTHER -> q.part[p]
           segmentIs(s) ==
             CASE s \in purged -> "absent"
               [] s \in orphanDeleted -> "deleted"
               [] s \in orphanHidden /\ q.segment[s] = "synced" -> "hidden"
               [] s \in (empty \ live) \ purged -> "synced"
               [] OTHER -> q.segment[s]
           part == [p \in Parts |-> partIn(p, SegmentOf[p])]
           segment == [s \in Segments |-> segmentIs(s)]
           shut == (q.concealed \cup (empty \ live)) \ (orphanHidden \cup purged)
<1>1. r = [part |-> part, segment |-> segment, concealed |-> shut]
  BY DEF RemoveSegments
<1>2. shut \in SUBSET Segments
  BY RundownTypes
<1> HIDE DEF concealed, purged, orphanDeleted, empty, orphanHidden, shut
<1>3. part \in [Parts -> {"absent", "playable", "unplayable"}]
  BY RundownTypes
<1>4. segment \in [Segments -> {"absent", "synced", "deleted", "hidden"}]
  BY RundownTypes
<1>5. (\A p \in Parts : part[p] = partIn(p, SegmentOf[p])) /\ (\A s \in Segments : segment[s] = segmentIs(s))
  OBVIOUS
<1> HIDE DEF part, segment
<1>6. r.part = part /\ r.segment = segment /\ r.concealed = shut /\ r \in Rundown
  BY <1>1, <1>2, <1>3, <1>4, RundownMade
<1> QED BY <1>5, <1>6 DEF concealed, purged, orphanDeleted, empty, orphanHidden, shut
-----------------------------------------------------------------------------
(* The rundown is as told, and what is concealed is there, and is not      *)
(* live: no instance that is selected, and not reset, is of it.            *)
AsTold(r, N) ==
  /\ \A s \in DOMAIN N :
        /\ r.segment[s] \in {"synced", "hidden"}
        /\ \A p \in PartsOfSegment(s) :
             r.part[p] = IF s \in r.concealed /\ N[s].parts[p] # "absent"
                         THEN "unplayable" ELSE N[s].parts[p]
  /\ \A s \in Segments \ DOMAIN N : \A p \in PartsOfSegment(s) : r.part[p] = "absent"

Concealed(r) == \A s \in r.concealed : r.segment[s] # "absent" /\ s \notin LiveSegments

(* What the newsroom took away is an orphan, gone, or concealed.  What is  *)
(* live is there.                                                          *)
Away(r, N) ==
  \A s \in Segments \ DOMAIN N :
     r.segment[s] \in {"absent", "deleted"} \/ (r.segment[s] = "synced" /\ s \in r.concealed)

Shown(r) == \A s \in LiveSegments : r.segment[s] # "absent"

(* What a job hands to its commit: a live Segment may be concealed, if it  *)
(* has just been made anew.                                                *)
Handed(r, N, removed) ==
  /\ \A s \in DOMAIN N :
        /\ r.segment[s] \in {"synced", "hidden"} /\ s \notin removed
        /\ \A p \in PartsOfSegment(s) :
             \/ r.part[p] = N[s].parts[p]
             \/ /\ s \in r.concealed \ LiveSegments
                /\ N[s].parts[p] # "absent" /\ r.part[p] = "unplayable"
  /\ \A s \in Segments \ DOMAIN N : \A p \in PartsOfSegment(s) : r.part[p] = "absent"
  /\ \A s \in r.concealed : r.segment[s] # "absent" /\ (s \in LiveSegments => s \in DOMAIN N)
  /\ Away(r, N) /\ Shown(r)

LEMMA LiveIsSegment ==
  ASSUME Typed
  PROVE  LiveSegments \subseteq Segments
<1>1. \A i \in DOMAIN instances : PartOf(i) \in Parts /\ setting \in Settings
  BY InstanceIdTypes DEF Typed, TypeOK
<1> QED BY <1>1, PartTypes DEF LiveSegments, SegmentOfInstance

LEMMA CommitsAsTold ==
  ASSUME setting \in Settings, LiveSegments \subseteq Segments,
         NEW q \in Rundown, NEW N, Contents(N), NEW removed \in SUBSET Segments,
         Handed(q, N, removed), NEW r, r = RemoveSegments(q, removed)
  PROVE  AsTold(r, N) /\ Concealed(r) /\ Away(r, N) /\ Shown(r)
<1> DEFINE live == LiveSegments
           concealed == {s \in q.concealed : q.segment[s] # "absent"}
           purged == removed \ live
           orphanDeleted ==
             (removed \cap live) \cup {s \in concealed \cap live : q.segment[s] = "deleted"}
           empty == {s \in Segments \ (concealed \cup orphanDeleted) :
                       q.segment[s] # "absent" /\ \A p \in PartsOfSegment(s) : q.part[p] = "absent"}
           orphanHidden == ((concealed \cap live) \cup (empty \cap live)) \ orphanDeleted
<1>1. /\ \A p \in Parts :
           r.part[p] = CASE SegmentOf[p] \in purged \cup orphanDeleted -> "absent"
                         [] SegmentOf[p] \in (concealed \ live) \ purged /\ q.part[p] # "absent" -> "unplayable"
                         [] OTHER -> q.part[p]
      /\ \A s \in Segments :
           r.segment[s] = CASE s \in purged -> "absent"
                            [] s \in orphanDeleted -> "deleted"
                            [] s \in orphanHidden /\ q.segment[s] = "synced" -> "hidden"
                            [] s \in (empty \ live) \ purged -> "synced"
                            [] OTHER -> q.segment[s]
      /\ r.concealed = (q.concealed \cup (empty \ live)) \ (orphanHidden \cup purged)
  BY RemovedTypes
<1>2. concealed = q.concealed /\ q.concealed \subseteq Segments
  BY RundownTypes DEF Handed
<1>3. /\ orphanDeleted \cap DOMAIN N = {} /\ purged \cap DOMAIN N = {}
      /\ concealed \cap live \subseteq orphanHidden
  BY DEF Handed
<1>4. /\ empty \cap concealed = {} /\ orphanHidden \subseteq live /\ empty \subseteq Segments
      /\ orphanDeleted \subseteq live /\ purged \cap live = {} /\ empty \cap orphanDeleted = {}
      /\ orphanHidden \cap orphanDeleted = {}
      /\ \A s \in empty : q.segment[s] # "absent" /\ \A p \in PartsOfSegment(s) : q.part[p] = "absent"
  OBVIOUS
<1> HIDE DEF orphanHidden, empty, orphanDeleted, purged, live
<1>5. ASSUME NEW s \in DOMAIN N
      PROVE  /\ r.segment[s] \in {"synced", "hidden"}
             /\ \A p \in PartsOfSegment(s) :
                  r.part[p] = IF s \in r.concealed /\ N[s].parts[p] # "absent"
                              THEN "unplayable" ELSE N[s].parts[p]
  <2>1. s \in Segments /\ s \notin orphanDeleted /\ s \notin purged /\ q.segment[s] \in {"synced", "hidden"}
    BY <1>3 DEF Contents, Handed
  <2>2. r.segment[s] \in {"synced", "hidden"}
    BY <1>1, <2>1
  <2>3. ASSUME NEW p \in PartsOfSegment(s)
        PROVE  r.part[p] = IF s \in r.concealed /\ N[s].parts[p] # "absent"
                           THEN "unplayable" ELSE N[s].parts[p]
    <3>1. p \in Parts /\ SegmentOf[p] = s
      BY <2>1, PartTypes
    <3>2. r.part[p] = IF s \in concealed \ live /\ q.part[p] # "absent" THEN "unplayable" ELSE q.part[p]
      BY <1>1, <2>1, <3>1
    <3>3. \/ q.part[p] = N[s].parts[p]
          \/ s \in q.concealed \ live /\ N[s].parts[p] # "absent" /\ q.part[p] = "unplayable"
      BY <2>3 DEF Handed, live
    <3>4. CASE s \in concealed \ live
      <4>1. s \in r.concealed
        BY <1>1, <1>2, <1>4, <2>1, <3>4
      <4> QED BY <3>2, <3>3, <3>4, <4>1
    <3>5. CASE s \in concealed \cap live
      <4>1. s \notin r.concealed
        BY <1>1, <1>3, <3>5
      <4> QED BY <3>2, <3>3, <3>5, <4>1
    <3>6. CASE s \notin concealed
      <4>1. s \in r.concealed => s \in empty
        BY <1>1, <1>2, <3>6
      <4>2. s \in r.concealed => q.part[p] = "absent"
        BY <1>4, <4>1, <2>3
      <4> QED BY <1>2, <3>2, <3>3, <3>6, <4>2
    <3> QED BY <3>4, <3>5, <3>6
  <2> QED BY <2>2, <2>3
<1>6. ASSUME NEW s \in Segments \ DOMAIN N, NEW p \in PartsOfSegment(s)
      PROVE  r.part[p] = "absent"
  <2>1. q.part[p] = "absent" /\ p \in Parts
    BY PartTypes DEF Handed
  <2> QED BY <1>1, <2>1
<1>7. ASSUME NEW s \in r.concealed
      PROVE  r.segment[s] # "absent" /\ s \notin live
  <2>1. s \in Segments /\ s \notin purged /\ q.segment[s] # "absent"
    BY <1>1, <1>2, <1>4 DEF Handed
  <2>2. r.segment[s] # "absent"
    BY <1>1, <2>1
  <2>3. s \notin live
    BY <1>1, <1>2, <1>3
  <2> QED BY <2>2, <2>3
<1>8. ASSUME NEW s \in Segments \ DOMAIN N
      PROVE  r.segment[s] \in {"absent", "deleted"} \/ (r.segment[s] = "synced" /\ s \in r.concealed)
  <2>0. /\ s \in Segments
        /\ s \in purged => r.segment[s] = "absent"
        /\ s \in orphanDeleted /\ s \notin purged => r.segment[s] = "deleted"
    BY <1>1, <1>4
  <2>1. q.segment[s] \in {"absent", "deleted"} \/ (q.segment[s] = "synced" /\ s \in q.concealed)
    BY DEF Handed, Away
  <2>2. s \in q.concealed => s \notin live
    BY DEF Handed, live
  <2>3. s \in orphanHidden => q.segment[s] # "synced"
    BY <1>4, <2>1, <2>2
  <2>4. CASE s \in purged
    BY <2>0, <2>4
  <2>5. CASE s \in orphanDeleted /\ s \notin purged
    BY <2>0, <2>5
  <2>6. CASE s \in (empty \ live) \ purged /\ s \notin orphanDeleted
    <3>1. s \in r.concealed
      BY <1>1, <1>4, <2>6
    <3> QED BY <1>1, <2>3, <2>6, <3>1
  <2>7. CASE s \notin purged \cup orphanDeleted \cup (empty \ live)
    <3>1. r.segment[s] = q.segment[s]
      BY <1>1, <2>3, <2>7
    <3>2. s \in q.concealed => s \in r.concealed
      BY <1>1, <1>4, <2>2, <2>7
    <3> QED BY <2>1, <3>1, <3>2
  <2> QED BY <2>4, <2>5, <2>6, <2>7
<1>9. ASSUME NEW s \in live
      PROVE  r.segment[s] # "absent"
  <2>1. s \in Segments /\ q.segment[s] # "absent" /\ s \notin purged
    BY DEF Handed, Shown, live, purged
  <2> QED BY <1>1, <2>1
<1> QED BY <1>5, <1>6, <1>7, <1>8, <1>9 DEF AsTold, Concealed, Away, Shown, live

(* What each job hands over.                                               *)
AsToldInv ==
  AsTold(rundown, nrcs) /\ Concealed(rundown) /\ Away(rundown, nrcs) /\ Shown(rundown)

LEMMA UpdateHands ==
  ASSUME setting \in Settings, rundown \in Rundown, Contents(nrcs), AsTold(rundown, nrcs), Concealed(rundown),
         Away(rundown, nrcs), Shown(rundown), LiveSegments \subseteq Segments,
         NEW s \in Segments, NEW N, Contents(N), DOMAIN N = DOMAIN nrcs \cup {s},
         \A t \in DOMAIN nrcs \ {s} : N[t] = nrcs[t],
         NEW r, r = Regenerated({s}, N)
  PROVE  r \in Rundown /\ Handed(r, N, {})
<1>1. /\ r \in Rundown
      /\ \A p \in Parts : r.part[p] = IF SegmentOf[p] \in {s} THEN N[SegmentOf[p]].parts[p] ELSE rundown.part[p]
      /\ \A t \in Segments : r.segment[t] = IF t \in {s} THEN "synced" ELSE rundown.segment[t]
      /\ r.concealed = (rundown.concealed \ {s}) \cup {t \in {s} : N[t].hidden}
  BY RegeneratedEffect
<1>2. ASSUME NEW t \in DOMAIN N
      PROVE  /\ r.segment[t] \in {"synced", "hidden"}
             /\ \A p \in PartsOfSegment(t) :
                  \/ r.part[p] = N[t].parts[p]
                  \/ /\ t \in r.concealed \ LiveSegments
                     /\ N[t].parts[p] # "absent" /\ r.part[p] = "unplayable"
  <2>1. t \in Segments /\ \A p \in PartsOfSegment(t) : p \in Parts /\ SegmentOf[p] = t
    BY PartTypes DEF Contents
  <2>2. CASE t = s
    BY <1>1, <2>1, <2>2
  <2>3. CASE t # s
    <3>1. t \in DOMAIN nrcs /\ N[t] = nrcs[t]
      BY <2>3
    <3>2. r.segment[t] = rundown.segment[t] /\ (t \in r.concealed <=> t \in rundown.concealed)
      BY <1>1, <2>1, <2>3
    <3>3. \A p \in PartsOfSegment(t) : r.part[p] = rundown.part[p]
      BY <1>1, <2>1, <2>3
    <3>4. \A p \in PartsOfSegment(t) :
            rundown.part[p] = IF t \in rundown.concealed /\ N[t].parts[p] # "absent"
                              THEN "unplayable" ELSE N[t].parts[p]
      BY <3>1 DEF AsTold
    <3>5. rundown.segment[t] \in {"synced", "hidden"} /\ (t \in rundown.concealed => t \notin LiveSegments)
      BY <3>1 DEF AsTold, Concealed
    <3> QED BY <3>2, <3>3, <3>4, <3>5
  <2> QED BY <2>2, <2>3
<1>3. ASSUME NEW t \in Segments \ DOMAIN N, NEW p \in PartsOfSegment(t)
      PROVE  r.part[p] = "absent"
  <2>1. p \in Parts /\ SegmentOf[p] = t /\ t # s /\ rundown.part[p] = "absent"
    BY PartTypes DEF AsTold
  <2> QED BY <1>1, <2>1
<1>4. ASSUME NEW t \in r.concealed
      PROVE  r.segment[t] # "absent" /\ (t \in LiveSegments => t \in DOMAIN N)
  BY <1>1, RundownTypes DEF Concealed
<1>7. Away(r, N)
  BY <1>1 DEF Away
<1>8. Shown(r)
  BY <1>1 DEF Shown
<1> QED BY <1>1, <1>2, <1>3, <1>4, <1>7, <1>8 DEF Handed

LEMMA RemovalHands ==
  ASSUME setting \in Settings, rundown \in Rundown, Contents(nrcs), AsTold(rundown, nrcs), Concealed(rundown),
         Away(rundown, nrcs), Shown(rundown), LiveSegments \subseteq Segments,
         NEW s \in DOMAIN nrcs, NEW N, DOMAIN N = DOMAIN nrcs \ {s},
         \A t \in DOMAIN N : N[t] = nrcs[t],
         NEW r, r = OrphanDeleted(rundown, {s})
  PROVE  r \in Rundown /\ Handed(r, N, {s})
<1>0. {s} \in SUBSET Segments /\ DOMAIN nrcs \subseteq Segments
  BY DEF Contents
<1>1. /\ r \in Rundown
      /\ \A p \in Parts : r.part[p] = IF SegmentOf[p] \in {s} THEN "absent" ELSE rundown.part[p]
      /\ \A t \in Segments : r.segment[t] = IF t \in {s} THEN "deleted" ELSE rundown.segment[t]
      /\ r.concealed = rundown.concealed
  BY <1>0, OrphanDeletedEffect
<1>2. ASSUME NEW t \in DOMAIN N
      PROVE  /\ r.segment[t] \in {"synced", "hidden"} /\ t \notin {s}
             /\ \A p \in PartsOfSegment(t) :
                  \/ r.part[p] = N[t].parts[p]
                  \/ /\ t \in r.concealed \ LiveSegments
                     /\ N[t].parts[p] # "absent" /\ r.part[p] = "unplayable"
  <2>1. t \in Segments /\ t # s /\ \A p \in PartsOfSegment(t) : p \in Parts /\ SegmentOf[p] = t
    BY <1>0, PartTypes
  <2>2. /\ rundown.segment[t] \in {"synced", "hidden"}
        /\ \A p \in PartsOfSegment(t) :
             rundown.part[p] = IF t \in rundown.concealed /\ nrcs[t].parts[p] # "absent"
                               THEN "unplayable" ELSE nrcs[t].parts[p]
    BY DEF AsTold
  <2>3. t \in rundown.concealed => t \notin LiveSegments
    BY DEF Concealed
  <2>4. r.segment[t] = rundown.segment[t] /\ r.concealed = rundown.concealed /\ N[t] = nrcs[t]
        /\ \A p \in PartsOfSegment(t) : r.part[p] = rundown.part[p]
    BY <1>1, <2>1
  <2> QED BY <2>1, <2>2, <2>3, <2>4
<1>3. ASSUME NEW t \in Segments \ DOMAIN N, NEW p \in PartsOfSegment(t)
      PROVE  r.part[p] = "absent"
  <2>1. p \in Parts /\ SegmentOf[p] = t
    BY PartTypes
  <2>2. t # s => rundown.part[p] = "absent"
    BY <2>1 DEF AsTold
  <2> QED BY <1>1, <2>1, <2>2
<1>4. ASSUME NEW t \in r.concealed
      PROVE  r.segment[t] # "absent" /\ (t \in LiveSegments => t \in DOMAIN N)
  BY <1>1, RundownTypes DEF Concealed
<1>7. Away(r, N)
  BY <1>1 DEF Away
<1>8. Shown(r)
  BY <1>1 DEF Shown
<1> QED BY <1>1, <1>2, <1>3, <1>4, <1>7, <1>8 DEF Handed

LEMMA RegenerateHands ==
  ASSUME setting \in Settings, rundown \in Rundown, Contents(nrcs), AsTold(rundown, nrcs), Concealed(rundown),
         Away(rundown, nrcs), Shown(rundown), LiveSegments \subseteq Segments,
         NEW removed \in SUBSET Segments, removed = Stored \ DOMAIN nrcs,
         NEW r, r = OrphanDeleted(Regenerated(DOMAIN nrcs, nrcs), removed)
  PROVE  r \in Rundown /\ Handed(r, nrcs, removed)
<1>q. PICK q : q = Regenerated(DOMAIN nrcs, nrcs)
  OBVIOUS
<1>0. DOMAIN nrcs \subseteq Segments
  BY DEF Contents
<1>1. /\ q \in Rundown
      /\ \A p \in Parts :
           q.part[p] = IF SegmentOf[p] \in DOMAIN nrcs THEN nrcs[SegmentOf[p]].parts[p] ELSE rundown.part[p]
      /\ \A t \in Segments : q.segment[t] = IF t \in DOMAIN nrcs THEN "synced" ELSE rundown.segment[t]
      /\ q.concealed = (rundown.concealed \ DOMAIN nrcs) \cup {t \in DOMAIN nrcs : nrcs[t].hidden}
  BY <1>q, RegeneratedEffect
<1>2. q \in Rundown /\ removed \in SUBSET Segments /\ r = OrphanDeleted(q, removed)
  BY <1>1, <1>q
<1>3. /\ r \in Rundown
      /\ \A p \in Parts : r.part[p] = IF SegmentOf[p] \in removed THEN "absent" ELSE q.part[p]
      /\ \A t \in Segments : r.segment[t] = IF t \in removed THEN "deleted" ELSE q.segment[t]
      /\ r.concealed = q.concealed
  <2>1. \A x : x = OrphanDeleted(q, removed) =>
          /\ x \in Rundown
          /\ \A p \in Parts : x.part[p] = IF SegmentOf[p] \in removed THEN "absent" ELSE q.part[p]
          /\ \A t \in Segments : x.segment[t] = IF t \in removed THEN "deleted" ELSE q.segment[t]
          /\ x.concealed = q.concealed
    <3> TAKE x
    <3> HAVE x = OrphanDeleted(q, removed)
    <3> QED BY <1>2, OrphanDeletedEffect
  <2> QED BY <1>2, <2>1
<1>4. ASSUME NEW t \in DOMAIN nrcs
      PROVE  /\ r.segment[t] \in {"synced", "hidden"} /\ t \notin removed
             /\ \A p \in PartsOfSegment(t) : r.part[p] = nrcs[t].parts[p]
  <2>1. t \in Segments /\ t \notin removed /\ \A p \in PartsOfSegment(t) : p \in Parts /\ SegmentOf[p] = t
    BY <1>0, PartTypes
  <2>2. r.segment[t] = q.segment[t] /\ \A p \in PartsOfSegment(t) : r.part[p] = q.part[p]
    BY <1>3, <2>1
  <2>3. q.segment[t] = "synced" /\ \A p \in PartsOfSegment(t) : q.part[p] = nrcs[t].parts[p]
    BY <1>1, <2>1
  <2> QED BY <2>1, <2>2, <2>3
<1>5. ASSUME NEW t \in Segments \ DOMAIN nrcs, NEW p \in PartsOfSegment(t)
      PROVE  r.part[p] = "absent"
  <2>1. p \in Parts /\ SegmentOf[p] = t /\ rundown.part[p] = "absent"
    BY PartTypes DEF AsTold
  <2> QED BY <1>1, <1>3, <2>1
<1>6. ASSUME NEW t \in r.concealed
      PROVE  r.segment[t] # "absent" /\ (t \in LiveSegments => t \in DOMAIN nrcs)
  <2>1. t \in Segments
    BY <1>1, <1>3, RundownTypes
  <2>2. t \in DOMAIN nrcs => r.segment[t] # "absent"
    BY <1>4
  <2>3. t \notin DOMAIN nrcs => t \in rundown.concealed
    BY <1>1, <1>3
  <2>4. t \notin DOMAIN nrcs => r.segment[t] # "absent" /\ t \notin LiveSegments
    BY <1>1, <1>3, <2>1, <2>3 DEF Concealed
  <2> QED BY <2>2, <2>4
<1>7. Away(r, nrcs)
  BY <1>1, <1>2, <1>3 DEF Away, Stored
<1>8. Shown(r)
  BY <1>1, <1>2, <1>3 DEF Shown
<1> QED BY <1>3, <1>4, <1>5, <1>6, <1>7, <1>8 DEF Handed

LEMMA CleanupHands ==
  ASSUME setting \in Settings, rundown \in Rundown, Contents(nrcs), AsTold(rundown, nrcs), Concealed(rundown),
         Away(rundown, nrcs), Shown(rundown), LiveSegments \subseteq Segments,
         NEW changed \in SUBSET DOMAIN nrcs, NEW removed \in SUBSET Segments,
         \A s \in removed : rundown.segment[s] = "deleted",
         NEW r, r = Regenerated(changed, nrcs)
  PROVE  r \in Rundown /\ Handed(r, nrcs, removed)
<1>1. /\ r \in Rundown
      /\ \A p \in Parts : r.part[p] = IF SegmentOf[p] \in changed THEN nrcs[SegmentOf[p]].parts[p] ELSE rundown.part[p]
      /\ \A t \in Segments : r.segment[t] = IF t \in changed THEN "synced" ELSE rundown.segment[t]
      /\ r.concealed = (rundown.concealed \ changed) \cup {t \in changed : nrcs[t].hidden}
  BY RegeneratedEffect
<1>2. ASSUME NEW t \in DOMAIN nrcs
      PROVE  /\ r.segment[t] \in {"synced", "hidden"} /\ t \notin removed
             /\ \A p \in PartsOfSegment(t) :
                  \/ r.part[p] = nrcs[t].parts[p]
                  \/ /\ t \in r.concealed \ LiveSegments
                     /\ nrcs[t].parts[p] # "absent" /\ r.part[p] = "unplayable"
  <2>1. t \in Segments /\ t \notin removed /\ \A p \in PartsOfSegment(t) : p \in Parts /\ SegmentOf[p] = t
    BY PartTypes DEF Contents, AsTold
  <2>2. CASE t \in changed
    BY <1>1, <2>1, <2>2
  <2>3. CASE t \notin changed
    BY <1>1, <2>1, <2>3 DEF AsTold, Concealed
  <2> QED BY <2>2, <2>3
<1>3. ASSUME NEW t \in Segments \ DOMAIN nrcs, NEW p \in PartsOfSegment(t)
      PROVE  r.part[p] = "absent"
  <2>1. p \in Parts /\ SegmentOf[p] = t /\ rundown.part[p] = "absent"
    BY PartTypes DEF AsTold
  <2> QED BY <1>1, <2>1
<1>4. ASSUME NEW t \in r.concealed
      PROVE  r.segment[t] # "absent" /\ (t \in LiveSegments => t \in DOMAIN nrcs)
  BY <1>1, RundownTypes DEF Concealed
<1>7. Away(r, nrcs)
  BY <1>1 DEF Away
<1>8. Shown(r)
  BY <1>1 DEF Shown
<1> QED BY <1>1, <1>2, <1>3, <1>4, <1>7, <1>8 DEF Handed
-----------------------------------------------------------------------------
(* What a commit makes of the instances and of what is next.               *)

(* An instance is orphaned exactly while its Part is gone.                 *)
OrphanedGone(pis, r) ==
  \A i \in DOMAIN pis : ~pis[i].reset => (pis[i].orphaned <=> r.part[PartOf(i)] = "absent")

(* The Parts that are back are of Segments that were made anew.            *)
Covers(r, changed) ==
  \A p \in Parts : rundown.part[p] = "absent" /\ r.part[p] # "absent" => SegmentOf[p] \in changed

LEMMA RegeneratedCovers ==
  ASSUME setting \in Settings, rundown \in Rundown, NEW N, Contents(N), NEW S \in SUBSET DOMAIN N,
         NEW C, S \subseteq C
  PROVE  Covers(Regenerated(S, N), C)
<1>1. \A r : r = Regenerated(S, N) =>
        \A p \in Parts : r.part[p] = IF SegmentOf[p] \in S THEN N[SegmentOf[p]].parts[p] ELSE rundown.part[p]
  <2> TAKE r
  <2> HAVE r = Regenerated(S, N)
  <2> QED BY RegeneratedEffect
<1> QED BY <1>1 DEF Covers

LEMMA OrphanDeletedCovers ==
  ASSUME NEW q \in Rundown, NEW S \in SUBSET Segments, NEW C, Covers(q, C)
  PROVE  Covers(OrphanDeleted(q, S), C)
<1>1. \A r : r = OrphanDeleted(q, S) =>
        \A p \in Parts : r.part[p] = IF SegmentOf[p] \in S THEN "absent" ELSE q.part[p]
  <2> TAKE r
  <2> HAVE r = OrphanDeleted(q, S)
  <2> QED BY OrphanDeletedEffect
<1> QED BY <1>1 DEF Covers

LEMMA RemovedCovers ==
  ASSUME NEW q \in Rundown, NEW removed \in SUBSET Segments, NEW C, Covers(q, C),
         NEW r, r = RemoveSegments(q, removed)
  PROVE  Covers(r, C)
<1>1. \A p \in Parts : r.part[p] # "absent" => q.part[p] # "absent"
  <2> DEFINE live == LiveSegments
             concealed == {s \in q.concealed : q.segment[s] # "absent"}
             purged == removed \ live
             orphanDeleted ==
               (removed \cap live) \cup {s \in concealed \cap live : q.segment[s] = "deleted"}
  <2>1. \A p \in Parts :
          r.part[p] = CASE SegmentOf[p] \in purged \cup orphanDeleted -> "absent"
                        [] SegmentOf[p] \in (concealed \ live) \ purged /\ q.part[p] # "absent" -> "unplayable"
                        [] OTHER -> q.part[p]
    BY RemovedTypes
  <2>2. ((concealed \ live) \ purged) \cap (purged \cup orphanDeleted) = {}
    OBVIOUS
  <2> HIDE DEF live, concealed, purged, orphanDeleted
  <2> QED BY <2>1, <2>2
<1> QED BY <1>1 DEF Covers

LEMMA UpdatedEffect ==
  ASSUME Typed, NEW r, NEW changed, NEW pis, pis = UpdatePartInstances(r, changed)
  PROVE  /\ pis \in Collections /\ DOMAIN pis = DOMAIN instances /\ IsFiniteSet(DOMAIN pis)
         /\ \A i \in DOMAIN instances :
              /\ instances[i].reset => pis[i].reset
              /\ pis[i].taken = instances[i].taken /\ pis[i].started = instances[i].started
              /\ pis[i].activation = instances[i].activation
              /\ i \in {playlist.current, playlist.next.id} => pis[i].reset = instances[i].reset
         /\ Covers(r, changed) /\ OrphanedGone(instances, rundown) => OrphanedGone(pis, r)
<1> DEFINE gone(i) == r.part[PartOf(i)] = "absent"
           updated(i, x) ==
             CASE ~x.reset /\ ~x.orphaned /\ gone(i) /\ i \in {playlist.current, playlist.next.id} ->
                     [x EXCEPT !.orphaned = TRUE]
               [] ~x.reset /\ ~x.orphaned /\ gone(i) /\ i \notin {playlist.current, playlist.next.id} ->
                     [x EXCEPT !.reset = TRUE]
               [] ~x.reset /\ x.orphaned /\ ~gone(i) /\ SegmentOfInstance(i) \in changed ->
                     [x EXCEPT !.orphaned = FALSE]
               [] OTHER -> x
<1>1. pis = [i \in DOMAIN instances |-> updated(i, instances[i])]
  BY DEF UpdatePartInstances
<1>2. ASSUME NEW i, NEW x \in PartInstance
      PROVE  /\ updated(i, x) \in PartInstance
             /\ x.reset => updated(i, x).reset
             /\ updated(i, x).taken = x.taken /\ updated(i, x).started = x.started
             /\ updated(i, x).activation = x.activation
             /\ i \in {playlist.current, playlist.next.id} => updated(i, x).reset = x.reset
             /\ ~updated(i, x).reset /\ (x.orphaned /\ ~gone(i) => SegmentOfInstance(i) \in changed)
                  => (updated(i, x).orphaned <=> gone(i))
  <2> DEFINE slot == i \in {playlist.current, playlist.next.id}
             orphan == [x EXCEPT !.orphaned = TRUE]
             spent == [x EXCEPT !.reset = TRUE]
             back == [x EXCEPT !.orphaned = FALSE]
             same(y) == y \in PartInstance /\ y.taken = x.taken /\ y.started = x.started
                        /\ y.activation = x.activation
  <2>1. /\ same(x) /\ same(orphan) /\ same(spent) /\ same(back)
        /\ orphan.reset = x.reset /\ orphan.orphaned /\ spent.reset
        /\ back.reset = x.reset /\ ~back.orphaned
    BY DEF PartInstance
  <2>2. /\ ~x.reset /\ ~x.orphaned /\ gone(i) /\ slot => updated(i, x) = orphan
        /\ ~x.reset /\ ~x.orphaned /\ gone(i) /\ ~slot => updated(i, x) = spent
        /\ ~x.reset /\ x.orphaned /\ ~gone(i) /\ SegmentOfInstance(i) \in changed => updated(i, x) = back
        /\ x.reset \/ (x.orphaned /\ gone(i)) \/ (~x.orphaned /\ ~gone(i))
             \/ (x.orphaned /\ SegmentOfInstance(i) \notin changed) => updated(i, x) = x
    BY DEF PartInstance
  <2> HIDE DEF updated, orphan, spent, back, same, gone, slot
  <2>3. /\ same(updated(i, x))
        /\ x.reset => updated(i, x).reset
        /\ slot => updated(i, x).reset = x.reset
        /\ ~updated(i, x).reset /\ (x.orphaned /\ ~gone(i) => SegmentOfInstance(i) \in changed)
             => (updated(i, x).orphaned <=> gone(i))
    <3>1. CASE x.reset
      BY <2>1, <2>2, <3>1
    <3>2. CASE ~x.reset /\ x.orphaned
      <4>1. CASE gone(i)
        BY <2>1, <2>2, <3>2, <4>1
      <4>2. CASE ~gone(i) /\ SegmentOfInstance(i) \in changed
        BY <2>1, <2>2, <3>2, <4>2
      <4>3. CASE ~gone(i) /\ SegmentOfInstance(i) \notin changed
        BY <2>1, <2>2, <3>2, <4>3
      <4> QED BY <4>1, <4>2, <4>3
    <3>3. CASE ~x.reset /\ ~x.orphaned
      <4>1. CASE gone(i) /\ slot
        BY <2>1, <2>2, <3>3, <4>1
      <4>2. CASE gone(i) /\ ~slot
        BY <2>1, <2>2, <3>3, <4>2
      <4>3. CASE ~gone(i)
        BY <2>1, <2>2, <3>3, <4>3
      <4> QED BY <4>1, <4>2, <4>3
    <3> QED BY <3>1, <3>2, <3>3
  <2> QED BY <2>3 DEF same, slot
<1> HIDE DEF updated
<1>3. \A i \in DOMAIN instances : instances[i] \in PartInstance
  BY DEF Typed, TypeOK
<1>4. pis \in [DOMAIN instances -> PartInstance] /\ DOMAIN instances \subseteq InstanceIds
  BY <1>1, <1>2, <1>3 DEF Typed, TypeOK
<1>5. pis \in Collections
  BY <1>4, CollectionMade
<1>6. \A i \in DOMAIN instances :
        /\ instances[i].reset => pis[i].reset
        /\ pis[i].taken = instances[i].taken /\ pis[i].started = instances[i].started
        /\ pis[i].activation = instances[i].activation
        /\ i \in {playlist.current, playlist.next.id} => pis[i].reset = instances[i].reset
  BY <1>1, <1>2, <1>3
<1>7. ASSUME Covers(r, changed), OrphanedGone(instances, rundown),
             NEW i \in DOMAIN instances, ~pis[i].reset
      PROVE  pis[i].orphaned <=> gone(i)
  <2>1. PartOf(i) \in Parts /\ instances[i] \in PartInstance
    BY <1>3, InstanceIdTypes DEF Typed, TypeOK
  <2>2. ~instances[i].reset
    BY <1>6, <1>7
  <2>3. instances[i].orphaned => rundown.part[PartOf(i)] = "absent"
    BY <1>7, <2>2 DEF OrphanedGone
  <2>4. instances[i].orphaned /\ ~gone(i) => SegmentOfInstance(i) \in changed
    BY <1>7, <2>1, <2>3 DEF Covers, SegmentOfInstance
  <2>5. pis[i] = updated(i, instances[i])
    BY <1>1
  <2> HIDE DEF gone
  <2> QED BY <1>2, <1>7, <2>1, <2>4, <2>5
<1>8. Covers(r, changed) /\ OrphanedGone(instances, rundown) => OrphanedGone(pis, r)
  BY <1>1, <1>7 DEF OrphanedGone
<1> QED BY <1>1, <1>5, <1>6, <1>8 DEF Typed

(* What ensureNextPartIsValid chooses from, what it chooses, and when it   *)
(* keeps what is next.                                                     *)
NextIsThere(m) == m.pl.next.id \in DOMAIN m.pis /\ ~m.pis[m.pl.next.id].orphaned

OwnCopy(m) == {p \in {PartOf(m.pl.next.id)} \ {None} : m.rundown.part[p] # "absent"}

Candidates(m) == IF NextIsThere(m) THEN PlayableParts(m) \cup OwnCopy(m) ELSE PlayableParts(m)

Chosen(m) == SelectNextPart(Candidates(m), m.pl.queued, PartOf(m.pl.current))

KeepsNext(m) ==
  IF NextIsThere(m)
  THEN m.pl.current \notin DOMAIN m.pis \/ Chosen(m).part = PartOf(m.pl.next.id)
  ELSE Chosen(m) = NoSelection /\ m.pl.next = NoNext

LEMMA EnsureCases ==
  ASSUME NEW m, NEW n \in EnsureNextPartIsValid(m)
  PROVE  \/ /\ n = m
            /\ \/ m.pl.activation = None
               \/ manual
               \/ KeepsNext(m)
               \/ PartOf(m.pl.current) \in AutoNextParts
         \/ n \in SetNextPart(m, Chosen(m)) /\ ~KeepsNext(m) /\ m.pl.activation # None
<1> DEFINE current == m.pl.current
           next == m.pl.next.id
           hasNext == next \in DOMAIN m.pis
           nextIsDeleted == hasNext /\ m.pis[next].orphaned
           ownCopy == {p \in {PartOf(next)} \ {None} : m.rundown.part[p] # "absent"}
           follows == SelectNextPart(PlayableParts(m) \cup ownCopy, m.pl.queued, PartOf(current))
           choice == IF hasNext /\ ~nextIsDeleted THEN follows ELSE SelectPartAfterCurrent(m)
           keep == IF hasNext /\ ~nextIsDeleted
                   THEN current \notin DOMAIN m.pis \/ choice.part = PartOf(next)
                   ELSE choice = NoSelection /\ m.pl.next = NoNext
           closeToAutonext == hasNext /\ current \in DOMAIN m.pis /\ PartOf(current) \in AutoNextParts
<1>1. n \in CASE \/ m.pl.activation = None
                 \/ manual /\ hasNext /\ ~nextIsDeleted
                 \/ keep -> {m}
              [] OTHER -> SetNextPart(m, choice) \cup (IF closeToAutonext THEN {m} ELSE {})
  BY DEF EnsureNextPartIsValid
<1>2. choice = Chosen(m)
  BY DEF Chosen, Candidates, NextIsThere, OwnCopy, SelectPartAfterCurrent
<1>3. keep <=> KeepsNext(m)
  BY <1>2 DEF KeepsNext, NextIsThere
<1>4. closeToAutonext => PartOf(m.pl.current) \in AutoNextParts
  OBVIOUS
<1> HIDE DEF hasNext, nextIsDeleted, choice, keep, closeToAutonext
<1> QED BY <1>1, <1>2, <1>3, <1>4

(* What is chosen instead of the next is another Part that may be played,  *)
(* or nothing: the copy that is next is chosen only where it is kept.      *)
LEMMA ChosenEffect ==
  ASSUME NEW m, Fits(m)
  PROVE  /\ Candidates(m) \in SUBSET Parts /\ PlayableParts(m) \subseteq Candidates(m)
         /\ Chosen(m).instance = NoInstance
         /\ ~KeepsNext(m) => IsChoice(m, Chosen(m)) /\ Chosen(m).part \in PlayableParts(m) \cup {None}
<1>1. PlayableParts(m) \in SUBSET Parts /\ DOMAIN m.pis \subseteq InstanceIds
  BY ModelTypes DEF PlayableParts
<1>2. NextIsThere(m) => PartOf(m.pl.next.id) \in Parts
  BY <1>1, InstanceIdTypes DEF Fits, NextIsThere
<1>3. Candidates(m) \in SUBSET Parts /\ PlayableParts(m) \subseteq Candidates(m)
  BY <1>1, <1>2 DEF Candidates, OwnCopy
<1>4. /\ Chosen(m).instance = NoInstance
      /\ \/ Chosen(m) = NoSelection
         \/ \E q \in Candidates(m), consumes \in BOOLEAN : Chosen(m) = PartSelection(q, consumes)
  BY <1>3, SelectNextPartIsChoice DEF Chosen
<1>5. ASSUME NEW q \in Candidates(m), NEW consumes \in BOOLEAN, Chosen(m) = PartSelection(q, consumes),
             ~KeepsNext(m)
      PROVE  q \in PlayableParts(m)
  <2>1. Chosen(m).part = q
    BY <1>5 DEF PartSelection
  <2>2. NextIsThere(m) => q # PartOf(m.pl.next.id)
    BY <1>5, <2>1 DEF KeepsNext
  <2> QED BY <1>5, <2>2 DEF Candidates, OwnCopy
<1>6. ASSUME ~KeepsNext(m)
      PROVE  IsChoice(m, Chosen(m)) /\ Chosen(m).part \in PlayableParts(m) \cup {None}
  <2>1. CASE Chosen(m) = NoSelection
    BY <2>1 DEF IsChoice, NoSelection
  <2>2. CASE \E q \in Candidates(m), consumes \in BOOLEAN : Chosen(m) = PartSelection(q, consumes)
    <3>1. PICK q \in PlayableParts(m), consumes \in BOOLEAN : Chosen(m) = PartSelection(q, consumes)
      BY <1>5, <1>6, <2>2
    <3> QED BY <3>1 DEF IsChoice, PartSelection
  <2> QED BY <1>4, <2>1, <2>2
<1> QED BY <1>3, <1>4, <1>6

LEMMA EnsureKeeps ==
  ASSUME NEW m, Sane(m), NEW n \in EnsureNextPartIsValid(m)
  PROVE  /\ Sane(n) /\ Sourced(m, n) /\ ButNext(m, n)
         /\ InPlace(m) => InPlace(n)
<1>1. n = m \/ (n \in SetNextPart(m, Chosen(m)) /\ ~KeepsNext(m) /\ m.pl.activation # None)
  BY EnsureCases
<1>2. CASE n = m
  <2>1. Sourced(m, m) /\ ButNext(m, m)
    BY SlotsSourced DEF Sane, SameStore, ButNext
  <2> QED BY <1>2, <2>1
<1>3. CASE n \in SetNextPart(m, Chosen(m)) /\ ~KeepsNext(m) /\ m.pl.activation # None
  <2>1. IsChoice(m, Chosen(m)) /\ Chosen(m).instance = NoInstance
    BY <1>3, ChosenEffect DEF Sane
  <2>2. SoundChoice(m, Chosen(m))
    BY <1>3, <2>1 DEF SoundChoice
  <2> QED BY <1>3, <2>1, <2>2, SetNextPlaces
<1> QED BY <1>1, <1>2, <1>3

(* Where the copy that is next is kept because it would be chosen again,   *)
(* what followed before the edit follows now: the copy cannot have been    *)
(* chosen for the queued Segment, since what follows would then still be   *)
(* of the Segment on air.                                                  *)
LEMMA KeptFollows ==
  ASSUME NEW m, Fits(m), NEW r, Follows(r, m.pl), NextIsThere(m), Chosen(m).part = PartOf(m.pl.next.id)
  PROVE  Follows(m.rundown, m.pl)
<1> DEFINE p == PartOf(m.pl.current)
           q == PartOf(m.pl.next.id)
           A == Candidates(m)
<1>1. SUFFICES ASSUME m.pl.current # NoInstance, ~m.pl.next.consumes
               PROVE  /\ q = After(Followers(m.rundown, m.pl), p)
                      /\ SegmentOf[q] = m.pl.queued => SegmentOf[q] = SegmentOf[p]
  BY DEF Follows, SegmentOfInstance
<1>2. setting \in Settings /\ p \in Parts /\ q \in Parts /\ m.pl.next.id # NoInstance
  BY <1>1, ModelTypes, InstanceIdTypes DEF Fits, NextIsThere
<1>3. A \in SUBSET Parts
  BY ChosenEffect
<1>4. A = Followers(m.rundown, m.pl)
  <2>1. \A s \in Parts : s # None
    BY <1>2, SettingTypes DEF None
  <2> QED BY <1>2, <2>1 DEF Candidates, OwnCopy, PlayableParts, Followers
<1>5. /\ q = After(Followers(r, m.pl), p)
      /\ SegmentOf[q] = m.pl.queued => SegmentOf[q] = SegmentOf[p]
  BY <1>1, <1>2 DEF Follows, SegmentOfInstance
<1>6. CASE ~Chosen(m).consumes
  <2>1. Chosen(m).part = After(A, p)
    BY <1>2, <1>3, <1>6, SelectNextPartEffect DEF Chosen
  <2> QED BY <1>4, <1>5, <2>1
<1>7. CASE Chosen(m).consumes
  <2>1. /\ q \in A /\ SegmentOf[q] = m.pl.queued
        /\ After(A, p) = None \/ SegmentOf[p] # SegmentOf[After(A, p)]
    BY <1>2, <1>3, <1>7, SelectNextPartEffect DEF Chosen
  <2>2. SegmentOf[q] = SegmentOf[p]
    BY <1>5, <2>1
  <2>3. q > p
    <3> DEFINE S == {s \in Followers(r, m.pl) : s > p}
    <3>1. S \in SUBSET Parts
      BY DEF Followers
    <3>2. FirstOf(S) \in S \cup {None} /\ q = FirstOf(S)
      BY <1>2, <1>5, <3>1, FirstOfIsMember DEF After
    <3>3. q # None
      BY <1>2, SettingTypes DEF None
    <3> QED BY <3>2, <3>3
  <2> DEFINE T == {s \in A : s > p}
             a == After(A, p)
  <2>4. T \in SUBSET Parts /\ q \in T
    BY <1>3, <2>1, <2>3
  <2>5. a \in T /\ a <= q
    <3>1. T \in SUBSET Nat /\ T # {}
      BY <1>2, <2>4, SettingTypes
    <3>2. a = Min(T)
      BY <3>1 DEF FirstOf, After
    <3> HIDE DEF T, a
    <3> QED BY <2>4, <3>1, <3>2, MinIsLeast
  <2>6. a \in Parts /\ p <= a /\ a # None
    BY <1>2, <2>4, <2>5, SettingTypes DEF None
  <2> HIDE DEF a, T
  <2>7. SegmentOf[p] <= SegmentOf[a] /\ SegmentOf[a] <= SegmentOf[q]
    BY <1>2, <2>5, <2>6, SegmentsInOrder
  <2>8. SegmentOf[p] \in Nat /\ SegmentOf[a] \in Nat
    BY <1>2, <2>6, SettingTypes
  <2>9. SegmentOf[p] = SegmentOf[a]
    BY <2>2, <2>7, <2>8
  <2> QED BY <2>1, <2>6, <2>9 DEF a
<1> QED BY <1>6, <1>7

LEMMA EnsureFollows ==
  ASSUME NEW m, Sane(m), AiredInOrder(m), NEW n \in EnsureNextPartIsValid(m), BlueprintMoves = {},
         PartOf(m.pl.current) \notin AutoNextParts,
         NEW r, ~manual => Follows(r, m.pl), manual => n.pl.next # m.pl.next
  PROVE  Follows(n.rundown, n.pl)
<1>1. Fits(m)
  BY DEF Sane
<1>2. m.pl.current # NoInstance => m.pl.activation # None /\ m.pl.current \in DOMAIN m.pis
  BY DEF AiredInOrder, Aired
<1>3. SUFFICES ASSUME m.pl.current # NoInstance
               PROVE  Follows(n.rundown, n.pl)
  BY EnsureKeeps DEF ButNext, Follows
<1>4. CASE n = m /\ KeepsNext(m)
  <2>1. Follows(r, m.pl)
    BY <1>4
  <2>2. CASE NextIsThere(m)
    BY <1>1, <1>2, <1>3, <1>4, <2>1, <2>2, KeptFollows DEF KeepsNext
  <2>3. CASE ~NextIsThere(m)
    <3>1. Chosen(m) = NoSelection /\ m.pl.next = NoNext
      BY <1>4, <2>3 DEF KeepsNext
    <3>2. AsChosen(Chosen(m), m)
      BY <3>1 DEF AsChosen, NoSelection, NoNext, PartOf, NoInstance
    <3>3. Chosen(m).part = None
      BY <3>1 DEF NoSelection
    <3> QED BY <1>1, <1>4, <3>2, <3>3, ChosenEffect, SelectedFollows DEF Chosen
  <2> QED BY <2>2, <2>3
<1>5. CASE n \in SetNextPart(m, Chosen(m)) /\ ~KeepsNext(m)
  <2>1. IsChoice(m, Chosen(m)) /\ Chosen(m).part \in PlayableParts(m) \cup {None}
    BY <1>1, <1>5, ChosenEffect
  <2>2. Fits(n) /\ ButNext(m, n) /\ AsChosen(Chosen(m), n)
    BY <1>1, <1>5, <2>1, SetNextPartKeeps
  <2>3. PlayableParts(n) = PlayableParts(m) /\ n.pl.queued = m.pl.queued /\ n.pl.current = m.pl.current
    BY <2>2 DEF ButNext, PlayableParts
  <2>4. Chosen(m) = SelectNextPart(Candidates(m), n.pl.queued, PartOf(n.pl.current))
    BY <2>3 DEF Chosen
  <2> QED BY <1>1, <2>1, <2>2, <2>3, <2>4, ChosenEffect, SelectedFollows
<1> QED BY <1>2, <1>3, <1>4, <1>5, EnsureCases

(* The slots as they were found are in place with the updated instances.   *)
SlotsInPlace == SlotsMatchInstances /\ SlotsDistinct /\ SelectedShareActivation

LEMMA LoadIsInPlace ==
  ASSUME Typed, SlotsInPlace, Whole, NEW pis \in Collections, DOMAIN pis = DOMAIN instances,
         \A i \in DOMAIN instances :
            /\ pis[i].taken = instances[i].taken /\ pis[i].started = instances[i].started
            /\ pis[i].activation = instances[i].activation
            /\ i \in {playlist.current, playlist.next.id} => pis[i].reset = instances[i].reset,
         NEW r \in Rundown, NEW l, l = Load(playlist, pis, r)
  PROVE  InPlace(l)
<1>1. /\ l.pl = playlist /\ l.pis = pis /\ l.deferred = {} /\ l.purged = {}
      /\ Selected(playlist) \cap DOMAIN pis \subseteq l.loaded
  BY LoadIsSane DEF Typed
<1>2. /\ Model.pl = playlist /\ Model.pis = instances /\ Model.deferred = {} /\ Model.purged = {}
      /\ NoInstance \notin DOMAIN instances
  BY ModelIsSane, ModelTypes DEF Sane, Fits
<1>3. InPlace(Model)
  BY ModelIsInPlace DEF SlotsInPlace
<1>4. Aired(playlist) \subseteq DOMAIN instances
  BY <1>2, <1>3 DEF InPlace, AiredInOrder
<1>5. playlist.current # NoInstance => playlist.current \in DOMAIN instances
  BY <1>4 DEF Aired
<1>6. \A i \in DOMAIN pis : ~pis[i].taken => i = playlist.next.id
  BY <1>2, <1>3 DEF InPlace, OnlyNext
<1>7. AiredInOrder(l)
  <2>1. \A i \in DOMAIN pis : ~pis[i].taken => i \in l.loaded
    BY <1>1, <1>2, <1>6 DEF Selected
  <2>2. \A i \in Aired(playlist) :
           pis[i].taken /\ (~PlayFromAnywhere => pis[i].activation = playlist.activation)
    BY <1>2, <1>3, <1>4 DEF InPlace, AiredInOrder
  <2>3. ~PlayFromAnywhere /\ playlist.current # NoInstance => ~pis[playlist.current].reset
    BY <1>2, <1>3, <1>5 DEF InPlace, AiredInOrder
  <2>4. /\ ~PlayFromAnywhere => IsInjective(playlist.previous) /\ playlist.current \notin Range(playlist.previous)
        /\ Aired(playlist) # {} => playlist.activation # None
    BY <1>2, <1>3 DEF InPlace, AiredInOrder
  <2> QED BY <1>1, <1>4, <2>1, <2>2, <2>3, <2>4 DEF AiredInOrder
<1>8. NextInOrder(l)
  BY <1>1, <1>2, <1>3 DEF InPlace, NextInOrder
<1>9. OnlyNext(l) /\ Playing(l)
  BY <1>1, <1>2, <1>3, <1>5, <1>6 DEF InPlace, OnlyNext, Playing
<1> QED BY <1>7, <1>8, <1>9 DEF InPlace

-----------------------------------------------------------------------------
(* After a save, crash or no crash, a Segment is live that was so before,  *)
(* or that has a Part that may be played.                                  *)
LEMMA LiveComesFrom ==
  ASSUME Typed, ~PlayFromAnywhere, setting' = setting,
         NEW pis \in Collections, DOMAIN pis = DOMAIN instances,
         \A i \in DOMAIN instances : instances[i].reset => pis[i].reset,
         NEW l, l.used = DOMAIN instances \cup Selected(playlist), l.pl = playlist, l.pis = pis,
         NEW m, Sane(m), Sourced(l, m),
         NEW pl, NEW stored, Save(pl, stored),
         \/ pl = m.pl /\ stored = SavedInstances(m)
         \/ pl = m.pl /\ stored = m.pis
         \/ pl = m.pl /\ stored = pis
         \/ pl = playlist /\ stored = m.pis,
         NEW s \in LiveSegments'
  PROVE  s \in LiveSegments \/ \E p \in PlayableParts(l) : SegmentOf[p] = s
<1>1. /\ Fits(m) /\ m.pis \in Collections /\ IsFiniteSet(DOMAIN m.pis)
      /\ SavedInstances(m) \in Collections /\ IsFiniteSet(DOMAIN instances)
  BY ModelTypes, SavedEffect, FS_Subset DEF Sane, Fits, Typed
<1>2. /\ DOMAIN SavedInstances(m) \subseteq DOMAIN m.pis
      /\ \A i \in DOMAIN SavedInstances(m) : m.pis[i].reset => SavedInstances(m)[i].reset
  BY <1>1, SavedEffect
<1>3. stored \in Collections /\ IsFiniteSet(DOMAIN stored)
  BY <1>1, <1>2, FS_Subset
<1>4. /\ playlist' = pl /\ instances' = Remembered(pl, stored)
      /\ DOMAIN instances' \subseteq DOMAIN stored
      /\ \A i \in DOMAIN instances' : instances'[i] = stored[i]
  BY <1>3, RememberedEffect DEF Save
<1>5. PICK i : /\ i \in Selected(pl) \cap DOMAIN instances' /\ ~instances'[i].reset
               /\ s = SegmentOf[PartOf(i)]
  <2>1. LiveSegments' = {SegmentOf'[PartOf(i)] :
                           i \in {j \in Selected(playlist') \cap DOMAIN instances' : ~instances'[j].reset}}
    BY DEF LiveSegments, SegmentOfInstance
  <2> QED BY <1>4, <2>1, SettingStays
<1>6. i \in DOMAIN stored /\ ~stored[i].reset
  BY <1>4, <1>5
<1>7. ASSUME i \in Selected(playlist), i \in DOMAIN instances, ~instances[i].reset
      PROVE  s \in LiveSegments
  BY <1>5, <1>7 DEF LiveSegments, SegmentOfInstance
<1>8. CASE i \in l.used
  <2>1. i \in Selected(playlist)
    BY <1>5, <1>8 DEF Sourced
  <2>2. i \in DOMAIN instances /\ ~instances[i].reset
    <3>1. CASE stored = pis
      BY <1>6, <3>1
    <3>2. CASE stored = m.pis \/ stored = SavedInstances(m)
      <4>1. i \in DOMAIN m.pis /\ ~m.pis[i].reset
        BY <1>2, <1>6, <3>2
      <4>2. i \in DOMAIN l.pis /\ ~l.pis[i].reset
        BY <1>8, <4>1 DEF Sourced
      <4> QED BY <4>2
    <3> QED BY <3>1, <3>2
  <2> QED BY <1>7, <2>1, <2>2
<1>9. CASE i \notin l.used
  <2>1. i \in DOMAIN m.pis
    BY <1>2, <1>6, <1>9
  <2>2. PartOf(i) \in PlayableParts(l)
    BY <1>9, <2>1 DEF Sourced
  <2> QED BY <1>5, <2>2
<1> QED BY <1>8, <1>9

(* And the instances stay orphaned exactly while their Parts are gone.     *)
LEMMA OrphansStored ==
  ASSUME NEW pis \in Collections, IsFiniteSet(DOMAIN pis),
         NEW l, DOMAIN l.pis \subseteq l.used, l.pis = pis, OrphanedGone(pis, l.rundown),
         NEW m, Sane(m), Sourced(l, m),
         NEW pl, NEW stored, Save(pl, stored),
         stored = SavedInstances(m) \/ stored = m.pis \/ stored = pis
  PROVE  OrphanedGone(instances', l.rundown)
<1>1. /\ Fits(m) /\ m.pis \in Collections /\ IsFiniteSet(DOMAIN m.pis)
      /\ SavedInstances(m) \in Collections
      /\ DOMAIN SavedInstances(m) \subseteq DOMAIN m.pis
      /\ \A i \in DOMAIN SavedInstances(m) :
           /\ SavedInstances(m)[i].orphaned = m.pis[i].orphaned
           /\ m.pis[i].reset => SavedInstances(m)[i].reset
  <2>1. Fits(m) /\ m.pis \in Collections /\ IsFiniteSet(DOMAIN m.pis)
    BY ModelTypes, FS_Subset DEF Sane, Fits
  <2>2. \A saved : saved = SavedInstances(m) =>
          /\ saved \in Collections /\ DOMAIN saved = DOMAIN m.pis \ m.purged
          /\ \A i \in DOMAIN saved : Alike(m.pis[i], saved[i]) /\ (m.pis[i].reset => saved[i].reset)
    <3> TAKE saved
    <3> HAVE saved = SavedInstances(m)
    <3> QED BY <2>1, SavedEffect
  <2>3. \A i \in DOMAIN SavedInstances(m) : SavedInstances(m)[i].orphaned = m.pis[i].orphaned
    BY <2>2 DEF Alike
  <2> QED BY <2>1, <2>2, <2>3
<1>2. stored \in Collections /\ IsFiniteSet(DOMAIN stored)
  BY <1>1, FS_Subset
<1>3. DOMAIN instances' \subseteq DOMAIN stored /\ \A i \in DOMAIN instances' : instances'[i] = stored[i]
  BY <1>2, RememberedEffect DEF Save
<1>4. ASSUME NEW i \in DOMAIN m.pis, ~m.pis[i].reset
      PROVE  m.pis[i].orphaned <=> l.rundown.part[PartOf(i)] = "absent"
  <2>1. CASE i \in l.used
    <3>1. i \in DOMAIN pis /\ m.pis[i].orphaned = pis[i].orphaned /\ ~pis[i].reset
      BY <1>4, <2>1 DEF Sourced
    <3> QED BY <3>1 DEF OrphanedGone
  <2>2. CASE i \notin l.used
    <3>1. ~m.pis[i].orphaned /\ PartOf(i) \in PlayableParts(l)
      BY <2>2 DEF Sourced
    <3> QED BY <3>1 DEF PlayableParts
  <2> QED BY <2>1, <2>2
<1>5. ASSUME NEW i \in DOMAIN stored, ~stored[i].reset
      PROVE  stored[i].orphaned <=> l.rundown.part[PartOf(i)] = "absent"
  <2>1. CASE stored = pis
    BY <1>5, <2>1 DEF OrphanedGone
  <2>2. CASE stored = m.pis
    BY <1>4, <1>5, <2>2
  <2>3. CASE stored = SavedInstances(m)
    BY <1>1, <1>4, <1>5, <2>3
  <2> QED BY <2>1, <2>2, <2>3
<1> QED BY <1>3, <1>5 DEF OrphanedGone

(* And so it is there, and not concealed: no Part of a concealed Segment   *)
(* may be played.                                                          *)
LEMMA ConcealedStay ==
  ASSUME setting \in Settings, NEW N, Contents(N), AsTold(rundown', N), Concealed(rundown'), Shown(rundown'),
         \A s \in LiveSegments' : \/ s \in LiveSegments
                                  \/ \E p \in Parts : rundown'.part[p] = "playable" /\ SegmentOf[p] = s
  PROVE  (Concealed(rundown) /\ Shown(rundown))'
<1>1. ASSUME NEW p \in Parts, rundown'.part[p] = "playable"
      PROVE  /\ SegmentOf[p] \notin rundown'.concealed
             /\ rundown'.segment[SegmentOf[p]] # "absent"
  <2>1. SegmentOf[p] \in Segments /\ p \in PartsOfSegment(SegmentOf[p])
    BY PartTypes
  <2>2. SegmentOf[p] \in DOMAIN N
    BY <1>1, <2>1 DEF AsTold
  <2> QED BY <1>1, <2>1, <2>2 DEF AsTold
<1>2. /\ \A s \in rundown'.concealed : rundown'.segment[s] # "absent" /\ s \notin LiveSegments
      /\ \A s \in LiveSegments : rundown'.segment[s] # "absent"
  BY DEF Concealed, Shown
<1>3. \A s \in rundown'.concealed : s \notin LiveSegments'
  BY <1>1, <1>2
<1>4. \A s \in LiveSegments' : rundown'.segment[s] # "absent"
  BY <1>1, <1>2
<1> QED BY <1>2, <1>3, <1>4 DEF Concealed, Shown

-----------------------------------------------------------------------------
(* Orphaned Segments. Those that a job is about to remove need no other    *)
(* job: what is live of them is in a slot, and the rest goes.              *)
SlotSegmentsOf(pl) == {SegmentOfInstance(i) : i \in Selected(pl)}

(* Of what is not in F.                                                    *)
TendedBut(r, N, pl, jobs, removed, F) ==
  \A s \in Segments \ (SlotSegmentsOf(pl) \cup F) :
     /\ r.segment[s] = "hidden" /\ s \in DOMAIN N => \E job \in jobs : s \in job.hidden
     /\ r.segment[s] = "deleted" /\ s \notin removed => \E job \in jobs : s \in job.deleted

Tended(r, N, pl, jobs, F) == TendedBut(r, N, pl, jobs, {}, F)

LEMMA TendedMore ==
  ASSUME NEW r, NEW N, NEW pl, NEW jobs, NEW F, Tended(r, N, pl, jobs, F), NEW G, F \subseteq G
  PROVE  Tended(r, N, pl, jobs, G)
BY DEF Tended, TendedBut

(* What is forgotten is what is not tended, before a step and after it.    *)
LEMMA ForgottenBefore == Tended(rundown, nrcs, playlist, cleanup, Forgotten)
<1> SUFFICES ASSUME NEW s \in Segments \ (SlotSegmentsOf(playlist) \cup Forgotten)
             PROVE  /\ rundown.segment[s] = "hidden" /\ s \in DOMAIN nrcs =>
                          \E job \in cleanup : s \in job.hidden
                    /\ rundown.segment[s] = "deleted" => \E job \in cleanup : s \in job.deleted
  BY DEF Tended, TendedBut
<1>1. s \notin {SegmentOfInstance(i) : i \in Selected(playlist)}
  BY DEF SlotSegmentsOf
<1>2. /\ s \notin {t \in DOMAIN nrcs : rundown.segment[t] = "hidden"} \ UNION {job.hidden : job \in cleanup}
      /\ s \notin {t \in Segments : rundown.segment[t] = "deleted"} \ UNION {job.deleted : job \in cleanup}
  BY <1>1 DEF Forgotten
<1> QED BY <1>2

LEMMA ForgottenAfter ==
  ASSUME UNCHANGED setting, DOMAIN nrcs' \subseteq Segments,
         NEW F, Tended(rundown', nrcs', playlist', cleanup', F)
  PROVE  Forgotten' \subseteq F
<1>1. SegmentOf' = SegmentOf /\ Segments' = Segments
  BY DEF Segments, Parts, NumParts, SegmentOf
<1>2. \A i : SegmentOfInstance(i)' = SegmentOfInstance(i)
  BY <1>1 DEF SegmentOfInstance
<1>3. ASSUME NEW s \in Forgotten'
      PROVE  s \in F
  <2>1. /\ \/ /\ s \in DOMAIN nrcs' /\ rundown'.segment[s] = "hidden"
              /\ s \notin UNION {job.hidden : job \in cleanup'}
           \/ /\ s \in Segments /\ rundown'.segment[s] = "deleted"
              /\ s \notin UNION {job.deleted : job \in cleanup'}
        /\ s \notin SlotSegmentsOf(playlist')
    BY <1>1, <1>2, <1>3 DEF Forgotten, SlotSegmentsOf
  <2>2. s \in Segments
    BY <2>1
  <2> QED BY <2>1, <2>2 DEF Tended, TendedBut
<1> QED BY <1>3

(* Whoever cleans up leaves no orphan untended.                            *)
LEMMA QueueCleanupTends ==
  ASSUME NEW r, NEW N, NEW pl, NEW jobs, QueueCleanup(pl, r) \subseteq jobs
  PROVE  Tended(r, N, pl, jobs, {})
<1> DEFINE idle(state) == {s \in Segments : r.segment[s] = state} \ {SegmentOfInstance(i) : i \in Selected(pl)}
           job == [hidden |-> idle("hidden"), deleted |-> idle("deleted")]
<1>1. job.hidden = idle("hidden") /\ job.deleted = idle("deleted")
  OBVIOUS
<1>2. QueueCleanup(pl, r) = IF job.hidden \cup job.deleted = {} THEN {} ELSE {job}
  BY DEF QueueCleanup
<1> HIDE DEF job
<1>3. ASSUME NEW s \in Segments \ SlotSegmentsOf(pl)
      PROVE  /\ r.segment[s] = "hidden" => \E j \in jobs : s \in j.hidden
             /\ r.segment[s] = "deleted" => \E j \in jobs : s \in j.deleted
  <2>1. /\ r.segment[s] = "hidden" => s \in job.hidden
        /\ r.segment[s] = "deleted" => s \in job.deleted
    BY <1>1 DEF SlotSegmentsOf
  <2>2. s \in job.hidden \cup job.deleted => job \in jobs
    BY <1>2
  <2> QED BY <2>1, <2>2
<1> QED BY <1>3 DEF Tended, TendedBut

(* A commit makes orphans of live Segments only.                           *)
LEMMA RemovedTended ==
  ASSUME NEW q \in Rundown, NEW removed \in SUBSET Segments, NEW jobs, NEW N, NEW F,
         TendedBut(q, N, playlist, jobs, removed, F), NEW r, r = RemoveSegments(q, removed)
  PROVE  Tended(r, N, playlist, jobs, F)
<1> DEFINE live == LiveSegments
           concealed == {s \in q.concealed : q.segment[s] # "absent"}
           purged == removed \ live
           orphanDeleted ==
             (removed \cap live) \cup {s \in concealed \cap live : q.segment[s] = "deleted"}
           empty == {s \in Segments \ (concealed \cup orphanDeleted) :
                       q.segment[s] # "absent" /\ \A p \in PartsOfSegment(s) : q.part[p] = "absent"}
           orphanHidden == ((concealed \cap live) \cup (empty \cap live)) \ orphanDeleted
<1>1. \A s \in Segments :
        r.segment[s] = CASE s \in purged -> "absent"
                         [] s \in orphanDeleted -> "deleted"
                         [] s \in orphanHidden /\ q.segment[s] = "synced" -> "hidden"
                         [] s \in (empty \ live) \ purged -> "synced"
                         [] OTHER -> q.segment[s]
  BY RemovedTypes
<1>2. /\ orphanHidden \subseteq live /\ orphanDeleted \subseteq live
      /\ purged \cap live = {} /\ removed \subseteq live \cup purged
  OBVIOUS
<1>3. live \subseteq SlotSegmentsOf(playlist)
  BY DEF LiveSegments, SlotSegmentsOf
<1> HIDE DEF live, purged, orphanDeleted, orphanHidden, empty
<1>4. ASSUME NEW s \in Segments \ SlotSegmentsOf(playlist)
      PROVE  /\ r.segment[s] \in {"hidden", "deleted"} => r.segment[s] = q.segment[s] /\ s \notin removed
  <2>1. s \notin live /\ s \notin orphanHidden /\ s \notin orphanDeleted /\ (s \in removed => s \in purged)
    BY <1>2, <1>3, <1>4
  <2>2. CASE s \in purged
    <3>1. r.segment[s] = "absent"
      BY <1>1, <2>1, <2>2
    <3> QED BY <3>1
  <2>3. CASE s \notin purged /\ s \in empty
    <3>1. r.segment[s] = "synced"
      BY <1>1, <2>1, <2>3
    <3> QED BY <3>1
  <2>4. CASE s \notin purged /\ s \notin empty
    <3>1. r.segment[s] = q.segment[s]
      BY <1>1, <2>1, <2>4
    <3> QED BY <2>1, <2>4, <3>1
  <2> QED BY <2>2, <2>3, <2>4
<1> QED BY <1>4 DEF Tended, TendedBut

-----------------------------------------------------------------------------
(* What was chosen automatically follows, where every save was a whole     *)
(* one, no blueprint moves what is next, and no autonext is close.         *)
Following(whole, chosen, r, pl) ==
  whole /\ BlueprintMoves = {} /\ ~chosen /\ PartOf(pl.current) \notin AutoNextParts => Follows(r, pl)

(* The invariant of the database while the newsroom changes it.            *)
IngestTyped == Typed /\ IngestTypeOK

IngestInv ==
  /\ IngestTyped
  /\ ~PlayFromAnywhere => AsToldInv
  /\ OrphanedGone(instances, rundown)
  /\ SlotsInPlace
  /\ NothingBehind(playlist)
  /\ Following(Whole, manual, rundown, playlist)

LEMMA FollowsIsAsTold == RundownFollowsNrcs <=> AsTold(rundown, nrcs)
BY DEF RundownFollowsNrcs, AsTold

LEMMA ContentsStored ==
  ASSUME IngestTypeOK
  PROVE  Contents(nrcs)
BY DEF IngestTypeOK, Contents

(* What a step keeps, whatever the newsroom does, and what it keeps of the *)
(* rundown when it has told N.                                             *)
Placed ==
  /\ Typed' /\ manual' \in BOOLEAN /\ cleanup' \subseteq CleanupJob
  /\ OrphanedGone(instances, rundown) => OrphanedGone(instances', rundown')
  /\ SlotsInPlace => SlotsInPlace'
  /\ NothingBehind(playlist) => NothingBehind(playlist')
  /\ SlotsInPlace /\ Following(Whole, manual, rundown, playlist)
       => Following(Whole', manual', rundown', playlist')

Told(N) == AsTold(rundown', N) /\ Away(rundown', N) /\ (Concealed(rundown) /\ Shown(rundown))'

(* A commit leaves the types, and the rundown as it was handed over.       *)
LEMMA CommitKeeps ==
  ASSUME IngestTyped, NEW r1 \in Rundown, NEW changed, Covers(r1, changed),
         NEW removed \in SUBSET Segments, NEW pending \in SUBSET CleanupJob,
         Commit(r1, changed, removed, pending), UNCHANGED <<setting, crashes>>,
         NEW N, Contents(N)
  PROVE  /\ Placed
         /\ ~PlayFromAnywhere /\ Handed(r1, N, removed) => Told(N)
         /\ \A F : TendedBut(r1, N, playlist, pending, removed, F) =>
                    Tended(rundown', N, playlist', cleanup', F)
         /\ MovesSlots => Tended(rundown', N, playlist', cleanup', {})
<1> DEFINE r == RemoveSegments(r1, removed)
           pis == UpdatePartInstances(r, changed)
           l == Load(playlist, pis, r)
<1>1. Typed /\ setting \in Settings /\ manual \in BOOLEAN /\ LiveSegments \subseteq Segments
  BY LiveIsSegment DEF IngestTyped, IngestTypeOK, Typed, TypeOK
<1>2. r \in Rundown /\ Covers(r, changed)
  BY RemovedTypes, RemovedCovers
<1>3. PICK m \in EnsureNextPartIsValid(l) :
        /\ rundown' = r
        /\ Save(m.pl, SavedInstances(m))
        /\ manual' = (manual /\ m.pl.next = playlist.next)
        /\ cleanup' = pending \cup (IF m.pl.next = playlist.next THEN {} ELSE QueueCleanup(m.pl, r))
  BY DEF Commit
<1>4. ~PlayFromAnywhere /\ Handed(r1, N, removed) => AsTold(r, N) /\ Concealed(r) /\ Away(r, N) /\ Shown(r)
  BY <1>1, CommitsAsTold
<1>t. ASSUME NEW F, TendedBut(r1, N, playlist, pending, removed, F)
      PROVE  Tended(r, N, playlist, pending, F)
  BY <1>1, <1>t, RemovedTended
<1> HIDE DEF r
<1>5. /\ pis \in Collections /\ DOMAIN pis = DOMAIN instances /\ IsFiniteSet(DOMAIN pis)
      /\ \A i \in DOMAIN instances :
           /\ instances[i].reset => pis[i].reset
           /\ pis[i].taken = instances[i].taken /\ pis[i].started = instances[i].started
           /\ pis[i].activation = instances[i].activation
           /\ i \in {playlist.current, playlist.next.id} => pis[i].reset = instances[i].reset
      /\ OrphanedGone(instances, rundown) => OrphanedGone(pis, r)
  BY <1>1, <1>2, UpdatedEffect
<1> HIDE DEF pis
<1>6. /\ Sane(l) /\ l.pl = playlist /\ l.pis = pis /\ l.rundown = r
      /\ l.used = DOMAIN pis \cup Selected(playlist)
  BY <1>1, <1>2, <1>5, LoadIsSane
<1>x. SlotsInPlace /\ Whole => InPlace(l)
  BY <1>1, <1>2, <1>5, LoadIsInPlace
<1> HIDE DEF l
<1>7. Sane(m) /\ Sourced(l, m) /\ ButNext(l, m) /\ (InPlace(l) => InPlace(m))
  BY <1>3, <1>6, EnsureKeeps
<1>8. Typed'
  <2>1. /\ m.pl \in Playlist /\ Len(m.pl.previous) <= MaxPrevious /\ NextIsProper(m.pl)
        /\ m.pis \in Collections /\ IsFiniteSet(DOMAIN m.pis)
    BY <1>7, ModelTypes, FS_Subset DEF Sane, Fits, NextIsProper
  <2>2. SavedInstances(m) \in Collections /\ IsFiniteSet(DOMAIN SavedInstances(m))
    BY <1>7, <2>1, SavedEffect, FS_Subset DEF Sane
  <2>3. rundown' \in Rundown' /\ crashes' \in 0..MaxCrashes /\ setting' = setting
    BY <1>1, <1>2, <1>3, SettingStays DEF Typed, TypeOK
  <2> QED BY <1>1, <1>3, <2>1, <2>2, <2>3, SettingStays, TypesStored
<1>9. manual' \in BOOLEAN
  BY <1>1, <1>3
<1>10. cleanup' \subseteq CleanupJob
  <2>1. QueueCleanup(m.pl, r) \subseteq CleanupJob
    BY DEF QueueCleanup, CleanupJob
  <2> QED BY <1>3, <2>1
<1>11. ASSUME ~PlayFromAnywhere, Handed(r1, N, removed)
       PROVE  Told(N)
  <2>1. AsTold(rundown', N) /\ Concealed(rundown') /\ Away(rundown', N) /\ Shown(rundown')
    BY <1>3, <1>4, <1>11
  <2>2. ASSUME NEW s \in LiveSegments'
        PROVE  \/ s \in LiveSegments
               \/ \E p \in Parts : rundown'.part[p] = "playable" /\ SegmentOf[p] = s
    <3>1. s \in LiveSegments \/ \E p \in PlayableParts(l) : SegmentOf[p] = s
      BY <1>1, <1>3, <1>5, <1>6, <1>7, <1>11, <2>2, LiveComesFrom
    <3> QED BY <1>3, <1>6, <3>1 DEF PlayableParts
  <2>3. (Concealed(rundown) /\ Shown(rundown))'
    BY <1>1, <2>1, <2>2, ConcealedStay
  <2> QED BY <2>1, <2>3 DEF Told
<1>12. OrphanedGone(instances, rundown) => OrphanedGone(instances', rundown')
  <2>1. DOMAIN l.pis \subseteq l.used
    BY <1>6
  <2> QED BY <1>3, <1>5, <1>6, <1>7, <2>1, OrphansStored
<1>13. SlotsInPlace => SlotsInPlace'
  <2>1. Whole' <=> Whole
    BY DEF Whole
  <2>2. CASE Whole
    BY <1>3, <1>7, <1>x, <2>2, InPlaceStored DEF SlotsInPlace
  <2>3. CASE ~Whole'
    BY <2>3 DEF SlotsInPlace, SlotsMatchInstances, SlotsDistinct, SelectedShareActivation
  <2> QED BY <2>1, <2>2, <2>3
<1>14. playlist' = m.pl
  BY <1>3 DEF Save
<1>15. NothingBehind(playlist) => NothingBehind(playlist')
  BY <1>6, <1>7, <1>14 DEF NothingBehind, ButNext
<1>15a. m.pl.next # playlist.next => Tended(rundown', N, playlist', cleanup', {})
  <2>1. SUFFICES ASSUME m.pl.next # playlist.next
                 PROVE  QueueCleanup(playlist', rundown') \subseteq cleanup'
    BY QueueCleanupTends
  <2> QED BY <1>3, <1>14, <2>1
<1>16. ASSUME NEW F, TendedBut(r1, N, playlist, pending, removed, F)
       PROVE  Tended(rundown', N, playlist', cleanup', F)
  <2>1. CASE m.pl.next = playlist.next
    <3>1. Selected(m.pl) = Selected(playlist)
      BY <1>6, <1>7, <2>1 DEF Selected, ButNext
    <3>2. SlotSegmentsOf(m.pl) = SlotSegmentsOf(playlist)
      BY <3>1 DEF SlotSegmentsOf
    <3>3. Tended(r, N, playlist, pending, F) /\ cleanup' = pending
      BY <1>3, <1>t, <1>16, <2>1
    <3> QED BY <1>3, <1>14, <3>2, <3>3 DEF Tended, TendedBut
  <2>2. CASE m.pl.next # playlist.next
    BY <1>15a, <2>2, TendedMore
  <2> QED BY <2>1, <2>2
<1>16a. MovesSlots => Tended(rundown', N, playlist', cleanup', {})
  <2>1. playlist'.current = playlist.current
    BY <1>6, <1>7, <1>14 DEF ButNext
  <2> QED BY <1>14, <1>15a, <2>1 DEF MovesSlots
<1>17. ASSUME SlotsInPlace, Following(Whole, manual, rundown, playlist), Whole', BlueprintMoves = {}, ~manual',
              PartOf(playlist'.current) \notin AutoNextParts
       PROVE  Follows(rundown', playlist')
  <2>1. Whole /\ InPlace(l)
    BY <1>x, <1>17 DEF Whole
  <2>2. PartOf(l.pl.current) \notin AutoNextParts
    BY <1>6, <1>7, <1>14, <1>17 DEF ButNext
  <2>3. ~manual => Follows(rundown, l.pl)
    BY <1>6, <1>17, <2>1, <2>2 DEF Following
  <2>4. manual => m.pl.next # l.pl.next
    BY <1>1, <1>3, <1>6, <1>17
  <2>5. Follows(m.rundown, m.pl)
    BY <1>3, <1>6, <1>17, <2>1, <2>2, <2>3, <2>4, EnsureFollows DEF InPlace
  <2> QED BY <1>3, <1>6, <1>7, <1>14, <2>5 DEF ButNext
<1>18. SlotsInPlace /\ Following(Whole, manual, rundown, playlist) => Following(Whole', manual', rundown', playlist')
  BY <1>17 DEF Following
<1> QED BY <1>8, <1>9, <1>10, <1>11, <1>12, <1>13, <1>15, <1>16, <1>16a, <1>18 DEF Placed

-----------------------------------------------------------------------------
(* Every job keeps the invariant, and forgets no Segment but those it may. *)
MayForget ==
  (IF MovesSlots THEN {} ELSE Forgotten) \cup
  (IF StopReported \/ (MovesSlots /\ ~GatewayAttached) THEN Dropped ELSE {})

Stays ==
  /\ Placed /\ Contents(nrcs')
  /\ ~PlayFromAnywhere /\ AsToldInv => Told(nrcs')
  /\ NothingBehind(playlist) => Tended(rundown', nrcs', playlist', cleanup', MayForget)

(* What tends the orphans that were tended, and all of them with a move,   *)
(* forgets no more than it may.                                            *)
Tends(N) ==
  /\ Tended(rundown', N, playlist', cleanup', Forgotten)
  /\ MovesSlots => Tended(rundown', N, playlist', cleanup', {})

LEMMA TendsIsEnough ==
  ASSUME NEW N, Tends(N)
  PROVE  Tended(rundown', N, playlist', cleanup', MayForget)
<1>1. CASE MovesSlots
  BY <1>1, TendedMore DEF Tends
<1>2. CASE ~MovesSlots
  <2>1. Forgotten \subseteq MayForget
    BY <1>2 DEF MayForget
  <2> QED BY <2>1, TendedMore DEF Tends
<1> QED BY <1>1, <1>2

LEMMA UnchangedConcealed ==
  ASSUME UNCHANGED <<setting, playlist, instances, rundown>>, Concealed(rundown), Shown(rundown)
  PROVE  (Concealed(rundown) /\ Shown(rundown))'
<1>1. LiveSegments' = LiveSegments
  <2>1. LiveSegments' = {SegmentOf'[PartOf(i)] :
                           i \in {j \in Selected(playlist') \cap DOMAIN instances' : ~instances'[j].reset}}
    BY DEF LiveSegments, SegmentOfInstance
  <2> QED BY <2>1, SettingStays DEF LiveSegments, SegmentOfInstance
<1> QED BY <1>1 DEF Concealed, Shown

LEMMA UnchangedPlaced ==
  ASSUME UNCHANGED <<setting, playlist, instances, rundown, crashes, manual>>, Typed
  PROVE  /\ Typed'
         /\ OrphanedGone(instances, rundown) => OrphanedGone(instances', rundown')
         /\ SlotsInPlace => SlotsInPlace'
         /\ NothingBehind(playlist) => NothingBehind(playlist')
         /\ Following(Whole, manual, rundown, playlist) => Following(Whole', manual', rundown', playlist')
<1>1. Typed'
  BY SettingStays DEF Typed, TypeOK, NextIsProper
<1>2. SlotsMatchInstances => SlotsMatchInstances'
  BY SettingStays DEF SlotsMatchInstances, SlotsExist, PlayedSlots, OnlyNextIsUntaken, PlaybackIsReported, Whole
<1>3. SlotsDistinct => SlotsDistinct'
  BY SettingStays DEF SlotsDistinct, Whole
<1>4. SelectedShareActivation => SelectedShareActivation'
  BY SettingStays DEF SelectedShareActivation, Active, Whole
<1>5. Whole' <=> Whole
  BY DEF Whole
<1> QED BY <1>1, <1>2, <1>3, <1>4, <1>5 DEF SlotsInPlace, Following

(* Without a commit, the rundown is as it was handed over.                 *)
LEMMA CommitIfChangedKeeps ==
  ASSUME IngestTyped, NEW r1 \in Rundown, NEW changed, Covers(r1, changed), NEW removed \in SUBSET Segments,
         CommitIfChanged(r1, changed, removed), UNCHANGED <<setting, crashes>>,
         NEW N, Contents(N), ~PlayFromAnywhere /\ AsToldInv => Handed(r1, N, removed),
         TendedBut(r1, N, playlist, cleanup, removed, Forgotten)
  PROVE  /\ Placed
         /\ ~PlayFromAnywhere /\ AsToldInv => Told(N)
         /\ Tends(N)
<1>1. Typed /\ manual \in BOOLEAN /\ cleanup \in SUBSET CleanupJob
  BY DEF IngestTyped, IngestTypeOK
<1>2. CASE r1 # rundown
  <2>1. Commit(r1, changed, removed, cleanup)
    BY <1>2 DEF CommitIfChanged
  <2> QED BY <1>1, <2>1, CommitKeeps DEF Tends
<1>3. CASE r1 = rundown
  <2>1. UNCHANGED <<setting, crashes, playlist, instances, rundown, manual, cleanup>>
    BY <1>3 DEF CommitIfChanged
  <2>2. Placed
    BY <1>1, <2>1, UnchangedPlaced DEF Placed
  <2>3. ASSUME ~PlayFromAnywhere, AsToldInv
        PROVE  Told(N)
    <3>1. Handed(rundown, N, removed) /\ Concealed(rundown) /\ Shown(rundown) /\ Away(rundown, N)
      BY <1>3, <2>3 DEF AsToldInv, Handed
    <3>2. (Concealed(rundown) /\ Shown(rundown))'
      BY <2>1, <3>1, UnchangedConcealed
    <3>3. ASSUME NEW s \in DOMAIN N
          PROVE  /\ rundown.segment[s] \in {"synced", "hidden"}
                 /\ \A p \in PartsOfSegment(s) :
                      rundown.part[p] = IF s \in rundown.concealed /\ N[s].parts[p] # "absent"
                                        THEN "unplayable" ELSE N[s].parts[p]
      <4>1. rundown.segment[s] \in {"synced", "hidden"} /\ s \in Segments
        BY <3>1 DEF Handed, Contents
      <4>2. ASSUME NEW p \in PartsOfSegment(s)
            PROVE  rundown.part[p] = IF s \in rundown.concealed /\ N[s].parts[p] # "absent"
                                     THEN "unplayable" ELSE N[s].parts[p]
        <5>1. \/ rundown.part[p] = N[s].parts[p]
              \/ /\ s \in rundown.concealed \ LiveSegments
                 /\ N[s].parts[p] # "absent" /\ rundown.part[p] = "unplayable"
          BY <3>1 DEF Handed
        <5>2. s \in rundown.concealed => rundown.part[p] \in {"absent", "unplayable"}
          <6>1. s \notin DOMAIN nrcs => rundown.part[p] = "absent"
            BY <2>3, <4>1 DEF AsToldInv, AsTold
          <6>2. s \in DOMAIN nrcs =>
                  rundown.part[p] = IF s \in rundown.concealed /\ nrcs[s].parts[p] # "absent"
                                    THEN "unplayable" ELSE nrcs[s].parts[p]
            BY <2>3 DEF AsToldInv, AsTold
          <6> QED BY <6>1, <6>2
        <5> QED BY <5>1, <5>2
      <4> QED BY <4>1, <4>2
    <3>4. \A s \in Segments \ DOMAIN N : \A p \in PartsOfSegment(s) : rundown.part[p] = "absent"
      BY <3>1 DEF Handed
    <3>5. AsTold(rundown, N)
      BY <3>3, <3>4 DEF AsTold
    <3> QED BY <2>1, <3>1, <3>2, <3>5 DEF Told
  <2>4. Tends(N)
    <3>1. ~MovesSlots /\ playlist' = playlist /\ rundown' = rundown /\ cleanup' = cleanup
      BY <2>1 DEF MovesSlots
    <3>2. Tended(rundown, N, playlist, cleanup, Forgotten)
      BY <1>3, ForgottenBefore DEF Tended, TendedBut
    <3> QED BY <3>1, <3>2 DEF Tends
  <2> QED BY <1>1, <2>1, <2>2, <2>3, <2>4
<1> QED BY <1>2, <1>3

LEMMA NewContents ==
  ASSUME IngestTyped, NEW s \in Segments, NEW c \in Edits[s],
         NEW N, N = [t \in DOMAIN nrcs \cup {s} |-> IF t = s THEN c ELSE nrcs[t]]
  PROVE  Contents(N)
<1>1. IsContent(c, PartsOfSegment(s))
  BY EditTypes DEF IngestTyped, IngestTypeOK, TypeOK
<1>2. Contents(nrcs)
  BY ContentsStored DEF IngestTyped
<1> QED BY <1>1, <1>2 DEF Contents

LEMMA IngestJobStays ==
  ASSUME IngestTyped, IngestStep
  PROVE  Stays
<1>1. /\ Typed /\ setting \in Settings /\ rundown \in Rundown /\ Contents(nrcs) /\ manual \in BOOLEAN
      /\ cleanup \in SUBSET CleanupJob /\ DOMAIN nrcs \subseteq Segments /\ LiveSegments \subseteq Segments
  BY ContentsStored, LiveIsSegment DEF IngestTyped, IngestTypeOK, TypeOK
<1>0. \A C : Covers(rundown, C)
  BY DEF Covers
<1>2. UNCHANGED <<setting, crashes>>
  BY DEF IngestStep
<1>3. ASSUME NEW s \in Segments, HandleRemovedSegment(s)
      PROVE  Stays
  <2>1. /\ s \in DOMAIN nrcs /\ nrcs' = [t \in DOMAIN nrcs \ {s} |-> nrcs[t]]
        /\ CommitIfChanged(OrphanDeleted(rundown, {s}), {}, {s})
    BY <1>3 DEF HandleRemovedSegment
  <2>2. Contents(nrcs')
    BY <1>1, <2>1 DEF Contents
  <2>3. DOMAIN nrcs' = DOMAIN nrcs \ {s} /\ \A t \in DOMAIN nrcs' : nrcs'[t] = nrcs[t]
    BY <2>1
  <2>4. OrphanDeleted(rundown, {s}) \in Rundown
    BY <1>1, OrphanDeletedEffect
  <2>5. AsToldInv => Handed(OrphanDeleted(rundown, {s}), nrcs', {s})
    BY <1>1, <2>1, <2>3, RemovalHands DEF AsToldInv
  <2>6. {s} \in SUBSET Segments
    BY <1>1, <2>1
  <2>7. Covers(OrphanDeleted(rundown, {s}), {})
    BY <1>0, <1>1, <2>6, OrphanDeletedCovers
  <2>8. \A t \in Segments :
          OrphanDeleted(rundown, {s}).segment[t] = IF t \in {s} THEN "deleted" ELSE rundown.segment[t]
    BY <1>1, <2>6, OrphanDeletedEffect
  <2>9. TendedBut(OrphanDeleted(rundown, {s}), nrcs', playlist, cleanup, {s}, Forgotten)
    BY <2>3, <2>8, ForgottenBefore DEF Tended, TendedBut
  <2> QED BY <1>1, <1>2, <2>1, <2>2, <2>4, <2>5, <2>6, <2>7, <2>9, CommitIfChangedKeeps, TendsIsEnough DEF Stays
<1>4. ASSUME NEW s \in Segments, NEW c \in Edits[s], HandleUpdatedSegment(s, c)
      PROVE  Stays
  <2>1. /\ nrcs' = [t \in DOMAIN nrcs \cup {s} |-> IF t = s THEN c ELSE nrcs[t]]
        /\ CommitIfChanged(Regenerated({s}, nrcs'), {s}, {})
    BY <1>4 DEF HandleUpdatedSegment
  <2>2. Contents(nrcs')
    BY <2>1, NewContents
  <2>3. DOMAIN nrcs' = DOMAIN nrcs \cup {s} /\ \A t \in DOMAIN nrcs \ {s} : nrcs'[t] = nrcs[t]
    BY <2>1
  <2>4. {s} \in SUBSET DOMAIN nrcs' /\ {} \in SUBSET Segments
    BY <2>3
  <2>5. Regenerated({s}, nrcs') \in Rundown
    BY <1>1, <2>2, <2>4, RegeneratedEffect
  <2>6. AsToldInv => Handed(Regenerated({s}, nrcs'), nrcs', {})
    BY <1>1, <2>2, <2>3, UpdateHands DEF AsToldInv
  <2>7. Covers(Regenerated({s}, nrcs'), {s})
    BY <1>1, <2>2, <2>4, RegeneratedCovers
  <2>8. \A t \in Segments :
          Regenerated({s}, nrcs').segment[t] = IF t \in {s} THEN "synced" ELSE rundown.segment[t]
    BY <1>1, <2>2, <2>4, RegeneratedEffect
  <2>9. TendedBut(Regenerated({s}, nrcs'), nrcs', playlist, cleanup, {}, Forgotten)
    BY <2>3, <2>8, ForgottenBefore DEF Tended, TendedBut
  <2> QED BY <1>1, <1>2, <2>1, <2>2, <2>4, <2>5, <2>6, <2>7, <2>9, CommitIfChangedKeeps, TendsIsEnough DEF Stays
<1>5. ASSUME HandleRegenerateRundown
      PROVE  Stays
  <2>1. PICK removed : removed = Stored \ DOMAIN nrcs
    OBVIOUS
  <2>2. PICK q : q = Regenerated(DOMAIN nrcs, nrcs)
    OBVIOUS
  <2>3. PICK r : r = OrphanDeleted(q, removed)
    OBVIOUS
  <2>4. nrcs' = nrcs /\ Commit(r, DOMAIN nrcs \cup removed, removed, cleanup)
    BY <1>5, <2>1, <2>2, <2>3 DEF HandleRegenerateRundown
  <2>5. removed \in SUBSET Segments
    BY <2>1 DEF Stored
  <2>6. q \in Rundown
    BY <1>1, <2>2, RegeneratedEffect
  <2>7. r \in Rundown
    <3>1. \A x : x = OrphanDeleted(q, removed) => x \in Rundown
      <4> TAKE x
      <4> HAVE x = OrphanDeleted(q, removed)
      <4> QED BY <2>5, <2>6, OrphanDeletedEffect
    <3> QED BY <2>3, <3>1
  <2>8. AsToldInv => Handed(r, nrcs, removed)
    BY <1>1, <2>1, <2>2, <2>3, <2>5, RegenerateHands DEF AsToldInv
  <2>9. Covers(r, DOMAIN nrcs \cup removed)
    <3>1. Covers(q, DOMAIN nrcs \cup removed)
      BY <1>1, <2>2, RegeneratedCovers
    <3> QED BY <2>3, <2>5, <2>6, <3>1, OrphanDeletedCovers
  <2>10. \A t \in Segments : r.segment[t] = IF t \in removed THEN "deleted" ELSE q.segment[t]
    <3>1. \A x : x = OrphanDeleted(q, removed) =>
            \A t \in Segments : x.segment[t] = IF t \in removed THEN "deleted" ELSE q.segment[t]
      <4> TAKE x
      <4> HAVE x = OrphanDeleted(q, removed)
      <4> QED BY <2>5, <2>6, OrphanDeletedEffect
    <3> QED BY <2>3, <3>1
  <2>11. \A t \in Segments : q.segment[t] = IF t \in DOMAIN nrcs THEN "synced" ELSE rundown.segment[t]
    BY <1>1, <2>2, RegeneratedEffect
  <2>12. TendedBut(r, nrcs, playlist, cleanup, removed, Forgotten)
    BY <2>10, <2>11, ForgottenBefore DEF Tended, TendedBut
  <2>13. Tends(nrcs')
    BY <1>1, <1>2, <2>4, <2>5, <2>7, <2>9, <2>12, CommitKeeps DEF Tends
  <2>14. Placed /\ (~PlayFromAnywhere /\ AsToldInv => Told(nrcs))
    BY <1>1, <1>2, <2>4, <2>5, <2>7, <2>8, <2>9, CommitKeeps
  <2> QED BY <1>1, <2>4, <2>13, <2>14, TendsIsEnough DEF Stays
<1>6. ASSUME NEW job \in cleanup, HandleRemoveOrphanedSegments(job)
      PROVE  Stays
  <2>1. job.hidden \subseteq Segments /\ job.deleted \subseteq Segments
    BY <1>1, <1>6 DEF CleanupJob
  <2>2. PICK changed, removed :
          /\ changed = {s \in job.hidden : rundown.segment[s] = "hidden"} \cap DOMAIN nrcs
          /\ removed = {s \in job.deleted : rundown.segment[s] = "deleted"}
    OBVIOUS
  <2>3. /\ nrcs' = nrcs
        /\ IF changed \cup removed = {}
           THEN cleanup' = cleanup \ {job} /\ UNCHANGED <<playlist, instances, rundown, manual>>
           ELSE Commit(Regenerated(changed, nrcs), changed, removed, cleanup \ {job})
    BY <1>6, <2>2 DEF HandleRemoveOrphanedSegments
  <2>n. \A s \in Segments \ (SlotSegmentsOf(playlist) \cup Forgotten) :
                 /\ rundown.segment[s] = "hidden" /\ s \in DOMAIN nrcs /\ s \notin changed =>
                      \E j \in cleanup \ {job} : s \in j.hidden
                 /\ rundown.segment[s] = "deleted" /\ s \notin removed =>
                      \E j \in cleanup \ {job} : s \in j.deleted
    <3>2. ASSUME NEW s \in Segments \ (SlotSegmentsOf(playlist) \cup Forgotten),
                 rundown.segment[s] = "hidden", s \in DOMAIN nrcs, s \notin changed
          PROVE  \E j \in cleanup \ {job} : s \in j.hidden
      <4>1. PICK j \in cleanup : s \in j.hidden
        BY <3>2, ForgottenBefore DEF Tended, TendedBut
      <4>2. j # job
        BY <2>2, <3>2, <4>1
      <4> QED BY <4>1, <4>2
    <3>3. ASSUME NEW s \in Segments \ (SlotSegmentsOf(playlist) \cup Forgotten),
                 rundown.segment[s] = "deleted", s \notin removed
          PROVE  \E j \in cleanup \ {job} : s \in j.deleted
      <4>1. PICK j \in cleanup : s \in j.deleted
        BY <3>3, ForgottenBefore DEF Tended, TendedBut
      <4>2. j # job
        BY <2>2, <3>3, <4>1
      <4> QED BY <4>1, <4>2
    <3> QED BY <3>2, <3>3
  <2>4. CASE changed \cup removed = {}
    <3>1. UNCHANGED <<setting, crashes, playlist, instances, rundown, manual, nrcs>> /\ cleanup' = cleanup \ {job}
      BY <1>2, <2>3, <2>4
    <3>2. Placed
      BY <1>1, <3>1, UnchangedPlaced DEF Placed
    <3>3. AsToldInv => Told(nrcs')
      BY <3>1, UnchangedConcealed DEF AsToldInv, Told
    <3>4. Tends(nrcs')
      BY <2>4, <2>n, <3>1 DEF Tends, Tended, TendedBut, MovesSlots
    <3> QED BY <1>1, <3>1, <3>2, <3>3, <3>4, TendsIsEnough DEF Stays
  <2>5. CASE changed \cup removed # {}
    <3>1. /\ changed \in SUBSET DOMAIN nrcs /\ removed \in SUBSET Segments
          /\ \A s \in removed : rundown.segment[s] = "deleted"
      BY <2>1, <2>2
    <3>2. Commit(Regenerated(changed, nrcs), changed, removed, cleanup \ {job})
      BY <2>3, <2>5
    <3>3. Regenerated(changed, nrcs) \in Rundown
      BY <1>1, <3>1, RegeneratedEffect
    <3>4. AsToldInv => Handed(Regenerated(changed, nrcs), nrcs, removed)
      BY <1>1, <3>1, CleanupHands DEF AsToldInv
    <3>5. cleanup \ {job} \in SUBSET CleanupJob
      BY <1>1
    <3>6. Covers(Regenerated(changed, nrcs), changed)
      BY <1>1, <3>1, RegeneratedCovers
    <3>7. \A t \in Segments :
            Regenerated(changed, nrcs).segment[t] = IF t \in changed THEN "synced" ELSE rundown.segment[t]
      BY <1>1, <3>1, RegeneratedEffect
    <3>8. TendedBut(Regenerated(changed, nrcs), nrcs, playlist, cleanup \ {job}, removed, Forgotten)
      BY <2>n, <3>7 DEF TendedBut
    <3>9. Tends(nrcs')
      BY <1>1, <1>2, <2>3, <3>1, <3>2, <3>3, <3>5, <3>6, <3>8, CommitKeeps DEF Tends
    <3>10. Placed /\ (~PlayFromAnywhere /\ AsToldInv => Told(nrcs))
      BY <1>1, <1>2, <3>1, <3>2, <3>3, <3>4, <3>5, <3>6, CommitKeeps
    <3> QED BY <1>1, <2>3, <3>9, <3>10, TendsIsEnough DEF Stays
  <2> QED BY <2>4, <2>5
<1> QED BY <1>3, <1>4, <1>5, <1>6 DEF IngestStep

(* Queueing a Segment clears the queue, or leaves the slots: it is queued  *)
(* where what is next is of the Segment on air.                            *)
LEMMA QueueKeepsSlots ==
  ASSUME Typed, QueueStep
  PROVE  \/ playlist'.queued = None
         \/ /\ Selected(playlist') = Selected(playlist)
            /\ playlist'.current = playlist.current /\ playlist'.next = playlist.next
            /\ \/ playlist' = playlist
               \/ SegmentOfInstance(playlist.current) = SegmentOfInstance(playlist.next.id)
<1>1. PICK s \in Segments : HandleQueueNextSegment(s)
  BY DEF QueueStep
<1>2. PICK atOnce, m :
        /\ atOnce \in BOOLEAN /\ FirstPlayablePart(Model, s) # None
        /\ ~atOnce => SegmentOfInstance(playlist.current) = SegmentOfInstance(playlist.next.id)
        /\ m \in IF atOnce
                 THEN SetNextPart([Model EXCEPT !.pl.queued = IF atOnce THEN None ELSE s],
                                  PartSelection(FirstPlayablePart(Model, s), FALSE))
                 ELSE {[Model EXCEPT !.pl.queued = IF atOnce THEN None ELSE s]}
        /\ UpdateTimelineAndSave(m)
  BY <1>1 DEF HandleQueueNextSegment
<1>3. playlist' = m.pl \/ playlist' = playlist
  BY <1>2 DEF UpdateTimelineAndSave, SaveAllToDatabase, CrashDuringSave, Save
<1>4. /\ Fits(Model) /\ Model.pl = playlist /\ setting \in Settings
      /\ \A q \in Segments \cup {None} :
           /\ [Model EXCEPT !.pl.queued = q] = WithQueued(Model, q)
           /\ Fits(WithQueued(Model, q)) /\ SameStore(Model, WithQueued(Model, q))
           /\ SameSelection(Model, WithQueued(Model, q)) /\ WithQueued(Model, q).pl.queued = q
  <2>1. Fits(Model) /\ Model.pl = playlist /\ setting \in Settings
    BY ModelIsSane DEF Sane, Fits, Model, TypeOK
  <2>2. ASSUME NEW q \in Segments \cup {None}
        PROVE  /\ [Model EXCEPT !.pl.queued = q] = WithQueued(Model, q)
               /\ Fits(WithQueued(Model, q)) /\ SameStore(Model, WithQueued(Model, q))
               /\ SameSelection(Model, WithQueued(Model, q))
               /\ WithQueued(Model, q).pl.queued = q
    <3> DEFINE n == WithQueued(Model, q)
    <3>1. [Model EXCEPT !.pl.queued = q] = n
      BY DEF WithQueued
    <3> HIDE DEF n
    <3>2. /\ Fits(n) /\ SameStore(Model, n)
          /\ SameSelection(Model, n) /\ n.pl.queued = q
      BY <2>1, QueueEffect DEF n
    <3> QED BY <3>1, <3>2 DEF n
  <2> QED BY <2>1, <2>2
<1>5. CASE atOnce
  <2>1. m \in SetNextPart(WithQueued(Model, None), PartSelection(FirstPlayablePart(Model, s), FALSE))
    BY <1>2, <1>4, <1>5
  <2>2. FirstPlayablePart(Model, s) \in PlayableParts(Model)
    <3>1. PlayableParts(Model) \cap PartsOfSegment(s) \in SUBSET Parts
      BY DEF PlayableParts
    <3> QED BY <1>2, <1>4, <3>1, FirstOfIsMember DEF FirstPlayablePart
  <2>3. PlayableParts(WithQueued(Model, None)) = PlayableParts(Model)
    BY <1>4 DEF SameStore, PlayableParts
  <2>4. IsChoice(WithQueued(Model, None), PartSelection(FirstPlayablePart(Model, s), FALSE))
    BY <2>2, <2>3 DEF IsChoice
  <2>5. ButNext(WithQueued(Model, None), m)
    BY <1>4, <2>1, <2>4, SetNextPartKeeps
  <2>6. m.pl.queued = None
    BY <1>4, <2>5 DEF ButNext
  <2> QED BY <1>3, <2>6
<1>6. CASE ~atOnce
  <2>1. m = WithQueued(Model, s)
    BY <1>2, <1>4, <1>6
  <2>2. /\ Selected(m.pl) = Selected(playlist)
        /\ m.pl.current = playlist.current /\ m.pl.next = playlist.next
    BY <1>4, <2>1 DEF SameSelection, Selected
  <2> QED BY <1>2, <1>3, <1>6, <2>2
<1> QED BY <1>5, <1>6

(* Playout chooses what follows, or leaves what is next.                   *)
LEMMA PlayoutFollows ==
  ASSUME Typed, manual \in BOOLEAN, PlayoutStep, Following(Whole, manual, rundown, playlist)
  PROVE  Following(Whole', manual', rundown', playlist')
<1>1. SUFFICES ASSUME Whole', BlueprintMoves = {}, ~manual', PartOf(playlist'.current) \notin AutoNextParts
               PROVE  Follows(rundown', playlist')
  BY DEF Following
<1>2. /\ rundown' = rundown /\ setting \in Settings /\ crashes \in Nat
      /\ playlist.next.id \in InstanceIds \cup {NoInstance}
      /\ Model.pl = playlist /\ Model.rundown = rundown
  <2>1. Fits(Model) /\ Model.pl = playlist /\ Model.rundown = rundown
    BY ModelIsSane DEF Sane
  <2>2. setting \in Settings /\ crashes \in Nat
    BY SettingTypes DEF Typed, TypeOK
  <2> QED BY <2>1, <2>2, ModelTypes DEF PlayoutStep
<1>3. ASSUME Whole, ~manual, playlist'.current = playlist.current, playlist'.next = playlist.next
      PROVE  Follows(rundown, playlist)
  BY <1>1, <1>3 DEF Following
<1>4. CASE SetNextStep /\ manual' = TRUE
  BY <1>1, <1>4
<1>5. CASE QueueStep /\ playlist'.queued # None /\ manual' = manual
  <2>1. Whole
    <3>1. \E pl, stored : Save(pl, stored) /\ crashes' \in {crashes, crashes + 1}
      BY <1>5, NextDone DEF PlayoutStep, Next, JobDone, SaveAllToDatabase, CrashDuringSave
    <3> QED BY <1>1, <1>2, <3>1 DEF Whole
  <2>2. /\ playlist'.current = playlist.current /\ playlist'.next = playlist.next
        /\ playlist' = playlist \/ SegmentOfInstance(playlist.current) = SegmentOfInstance(playlist.next.id)
    BY <1>5, QueueKeepsSlots
  <2>3. Follows(rundown, playlist)
    BY <1>1, <1>3, <1>5, <2>1, <2>2
  <2>4. Followers(rundown, playlist') = Followers(rundown, playlist)
    BY <2>2 DEF Followers
  <2> QED BY <1>2, <2>2, <2>3, <2>4 DEF Follows
<1>6. CASE (OtherUserStep \/ GatewayStep) /\ manual' = (manual /\ playlist'.next = playlist.next)
  <2>1. PICK m : GoodAndGoesOn(Model, m) /\ SaveAllToDatabase(m)
    BY <1>6, OthersDone DEF GoesOnDone
  <2>2. playlist' = m.pl /\ Whole
    BY <1>1, <1>2, <2>1 DEF Whole, SaveAllToDatabase, CrashDuringSave, Save
  <2>3. m.rundown = rundown
    BY <1>2, <2>1 DEF GoodAndGoesOn, Good, Sourced
  <2>4. CASE BlueprintMoves = {} => Follows(m.rundown, m.pl)
    BY <1>1, <1>2, <2>2, <2>3, <2>4
  <2>5. CASE m.pl.current = playlist.current /\ m.pl.next = playlist.next /\ m.pl.queued \in {playlist.queued, None}
    <3>1. Follows(rundown, playlist)
      BY <1>1, <1>3, <1>6, <2>2, <2>5
    <3> QED BY <1>2, <2>2, <2>5, <3>1, FollowsKept
  <2> QED BY <1>2, <2>1, <2>4, <2>5 DEF GoodAndGoesOn, GoesOn
<1> QED BY <1>1, <1>4, <1>5, <1>6 DEF PlayoutStep

(* A clean-up tends every orphan, but where a take has dropped more of the *)
(* earlier instances since.                                                *)
LEMMA RangeOfMore ==
  ASSUME NEW S, NEW s \in Seq(S), NEW t \in Seq(S), NEW n \in Len(s)..Len(t), Len(s) # 0
  PROVE  Range(s \o SubSeq(t, Len(s), n)) \subseteq Range(s) \cup Range(t)
<1> DEFINE u == SubSeq(t, Len(s), n)
<1>1. /\ u \in Seq(S) /\ Len(u) = n - Len(s) + 1
      /\ \A k \in 1..Len(u) : u[k] = t[Len(s) + k - 1] /\ Len(s) + k - 1 \in 1..Len(t)
  OBVIOUS
<1> HIDE DEF u
<1>2. ASSUME NEW k \in 1..Len(s \o u)
      PROVE  (s \o u)[k] \in Range(s) \cup Range(t)
  <2>1. CASE k <= Len(s)
    <3>1. k \in DOMAIN s /\ (s \o u)[k] = s[k]
      BY <1>1, <1>2, <2>1
    <3> QED BY <3>1 DEF Range
  <2>2. CASE k > Len(s)
    <3>1. k - Len(s) \in 1..Len(u) /\ (s \o u)[k] = u[k - Len(s)]
      BY <1>1, <1>2, <2>2
    <3>2. Len(s) + (k - Len(s)) - 1 \in DOMAIN t /\ (s \o u)[k] = t[Len(s) + (k - Len(s)) - 1]
      BY <1>1, <3>1
    <3> QED BY <3>2 DEF Range
  <2> QED BY <1>2, <2>1, <2>2
<1>3. DOMAIN (s \o u) = 1..Len(s \o u)
  BY <1>1
<1> QED BY <1>2, <1>3 DEF Range, u

LEMMA CleanupTends ==
  ASSUME Typed, playlist' \in Playlist, UNCHANGED <<rundown, nrcs>>, CleansUp
  PROVE  Tended(rundown', nrcs', playlist', cleanup', MayForget)
<1>1. PICK previous \in PreviousAtCleanup :
        cleanup' = cleanup \cup QueueCleanup([playlist' EXCEPT !.previous = previous], rundown)
  BY DEF CleansUp
<1> DEFINE pl == [playlist' EXCEPT !.previous = previous]
<1>2. Tended(rundown', nrcs', pl, cleanup', {})
  BY <1>1, QueueCleanupTends
<1>3. pl.current = playlist'.current /\ pl.next = playlist'.next /\ pl.previous = previous
  BY DEF Playlist
<1> HIDE DEF pl
<1>4. ASSUME NEW i \in Selected(pl), i \notin Selected(playlist')
      PROVE  SegmentOfInstance(i) \in MayForget
  <2> DEFINE kept == playlist'.previous
  <2>1. kept \in Seq(InstanceIds) /\ playlist.previous \in Seq(InstanceIds)
    BY DEF Playlist, Typed, TypeOK
  <2>2. i \in Range(previous) /\ i # NoInstance /\ previous # kept /\ i \notin Range(kept)
    BY <1>3, <1>4 DEF Selected
  <2>3. PICK n \in Len(kept)..Len(playlist.previous) :
          /\ previous = kept \o SubSeq(playlist.previous, Len(kept), n)
          /\ ~GatewayAttached /\ kept # <<>>
          /\ playlist'.current = playlist.next.id /\ playlist.next.id # NoInstance
    BY <1>1, <2>2 DEF PreviousAtCleanup
  <2>4. i \in Range(playlist.previous)
    BY <2>1, <2>2, <2>3, EmptySeq, RangeOfMore
  <2>5. playlist'.current # playlist.current
    BY <2>3 DEF Typed, NextIsProper
  <2>6. SegmentOfInstance(i) \in Dropped
    BY <1>4, <2>4 DEF Dropped
  <2> QED BY <2>3, <2>5, <2>6 DEF MayForget, MovesSlots
<1>5. SlotSegmentsOf(pl) \subseteq SlotSegmentsOf(playlist') \cup MayForget
  BY <1>4 DEF SlotSegmentsOf
<1> QED BY <1>2, <1>5 DEF Tended, TendedBut

(* Playout leaves the rundown alone, and makes no concealed Segment live.  *)
LEMMA PlayoutJobStays ==
  ASSUME IngestTyped, PlayoutStep
  PROVE  Stays
<1>1. /\ Typed /\ setting \in Settings /\ Contents(nrcs) /\ manual \in BOOLEAN /\ cleanup \in SUBSET CleanupJob
  BY ContentsStored DEF IngestTyped, IngestTypeOK, TypeOK
<1>2. Next /\ UNCHANGED <<setting, rundown, nrcs>>
  BY DEF PlayoutStep, Next
<1>3. PICK m : Good(Model, m) /\ SaveAllToDatabase(m)
  BY <1>1, <1>2, NextDone DEF JobDone
<1>4. Sane(m) /\ Sourced(Model, m) /\ Lingers(Model.pl, m.pl) /\ (InPlace(Model) => InPlace(m))
  BY <1>3 DEF Good
<1>5. Typed'
  BY <1>1, <1>2, <1>3, <1>4, SaveKeepsTypes
<1>6. manual' \in BOOLEAN /\ cleanup' \subseteq CleanupJob
  <2>1. \A pl : QueueCleanup(pl, rundown) \subseteq CleanupJob
    BY DEF QueueCleanup, CleanupJob
  <2>2. CleansUp \/ UNCHANGED cleanup
    BY DEF PlayoutStep
  <2>3. manual' = TRUE \/ UNCHANGED manual \/ manual' = (manual /\ playlist'.next = playlist.next)
    BY DEF PlayoutStep
  <2> QED BY <1>1, <2>1, <2>2, <2>3 DEF CleansUp
<1>7. /\ Model.pl = playlist /\ Model.pis = instances /\ Model.rundown = rundown
      /\ Model.used = DOMAIN instances \cup Selected(playlist)
      /\ instances \in Collections /\ IsFiniteSet(DOMAIN instances)
  BY <1>1, ModelIsSane DEF Typed
<1>8. PICK pl, stored :
        /\ Save(pl, stored)
        /\ \/ pl = m.pl /\ stored = SavedInstances(m)
           \/ pl = m.pl /\ stored = m.pis
           \/ pl = m.pl /\ stored = instances
           \/ pl = playlist /\ stored = m.pis
  BY <1>3 DEF SaveAllToDatabase, CrashDuringSave
<1>9. ASSUME ~PlayFromAnywhere, AsToldInv
      PROVE  Told(nrcs')
  <2>1. /\ AsTold(rundown', nrcs) /\ Concealed(rundown') /\ nrcs' = nrcs
        /\ Away(rundown', nrcs) /\ Shown(rundown')
    BY <1>2, <1>9 DEF AsToldInv
  <2>2. ASSUME NEW s \in LiveSegments'
        PROVE  \/ s \in LiveSegments
               \/ \E p \in Parts : rundown'.part[p] = "playable" /\ SegmentOf[p] = s
    <3>1. s \in LiveSegments \/ \E p \in PlayableParts(Model) : SegmentOf[p] = s
      BY <1>1, <1>2, <1>4, <1>7, <1>8, <1>9, <2>2, LiveComesFrom
    <3> QED BY <1>2, <1>7, <3>1 DEF PlayableParts
  <2>3. (Concealed(rundown) /\ Shown(rundown))'
    BY <1>1, <2>1, <2>2, ConcealedStay
  <2> QED BY <2>1, <2>3 DEF Told
<1>10. OrphanedGone(instances, rundown) => OrphanedGone(instances', rundown')
  BY <1>2, <1>4, <1>7, <1>8, OrphansStored
<1>11. SlotsInPlace => SlotsInPlace'
  <2>1. CASE Whole /\ Save(m.pl, SavedInstances(m))
    BY <1>1, <1>2, <1>4, <2>1, ModelIsInPlace, InPlaceStored DEF SlotsInPlace
  <2>2. CASE ~Whole'
    BY <2>2 DEF SlotsInPlace, SlotsMatchInstances, SlotsDistinct, SelectedShareActivation
  <2>3. Whole' => Whole /\ Save(m.pl, SavedInstances(m))
    <3>1. crashes \in Nat
      BY <1>1, SettingTypes DEF Typed, TypeOK
    <3> QED BY <1>3, <3>1 DEF Whole, SaveAllToDatabase, CrashDuringSave
  <2> QED BY <2>1, <2>2, <2>3
<1>12. playlist' = m.pl \/ playlist' = playlist
  BY <1>8 DEF Save
<1>13. NothingBehind(playlist) => NothingBehind(playlist')
  BY <1>4, <1>7, <1>12 DEF Lingers
<1>14. ASSUME NothingBehind(playlist)
       PROVE  Tended(rundown', nrcs', playlist', cleanup', MayForget)
  <2>1. CASE CleansUp
    <3>1. m.pl \in Playlist /\ playlist \in Playlist
      BY <1>1, <1>4, ModelTypes DEF Sane, Typed, TypeOK
    <3> QED BY <1>1, <1>2, <1>12, <2>1, <3>1, CleanupTends
  <2>2. CASE UNCHANGED cleanup /\ ~MovesSlots /\ Selected(playlist') = Selected(playlist)
    <3>1. SlotSegmentsOf(playlist') = SlotSegmentsOf(playlist) /\ Forgotten \subseteq MayForget
      BY <2>2 DEF SlotSegmentsOf, MayForget
    <3>2. Tended(rundown', nrcs', playlist', cleanup', Forgotten)
      BY <1>2, <2>2, <3>1, ForgottenBefore DEF Tended, TendedBut
    <3> QED BY <3>1, <3>2, TendedMore
  <2>3. CASE UNCHANGED cleanup /\ ~MovesSlots /\ StopReported
    <3>1. playlist'.next = playlist.next /\ playlist'.current = playlist.current
          /\ MayForget = Forgotten \cup Dropped
      BY <2>3 DEF MovesSlots, MayForget
    <3>2. SlotSegmentsOf(playlist) \subseteq SlotSegmentsOf(playlist') \cup Dropped
      BY <3>1 DEF SlotSegmentsOf, Selected, Dropped
    <3> QED BY <1>2, <2>3, <3>1, <3>2, ForgottenBefore DEF Tended, TendedBut
  <2>4. CASE UNCHANGED cleanup /\ ~MovesSlots /\ ~StopReported
    <3>1. playlist'.next = playlist.next /\ playlist'.current = playlist.current
      BY <2>4 DEF MovesSlots
    <3>2. playlist'.previous = playlist.previous
      BY <1>4, <1>7, <1>12, <1>14, <2>4, <3>1 DEF Lingers
    <3>3. Selected(playlist') = Selected(playlist)
      BY <3>1, <3>2 DEF Selected
    <3> QED BY <2>2, <2>4, <3>3
  <2>5. CleansUp \/ (UNCHANGED cleanup /\ (~MovesSlots \/ (QueueStep /\ playlist'.queued # None)))
    BY DEF PlayoutStep
  <2>6. CASE UNCHANGED cleanup /\ QueueStep /\ playlist'.queued # None
    <3>1. Selected(playlist') = Selected(playlist) /\ ~MovesSlots
      BY <1>1, <2>6, QueueKeepsSlots DEF MovesSlots
    <3> QED BY <2>2, <2>6, <3>1
  <2> QED BY <2>1, <2>3, <2>4, <2>5, <2>6
<1>15. Following(Whole, manual, rundown, playlist) => Following(Whole', manual', rundown', playlist')
  BY <1>1, PlayoutFollows
<1> QED BY <1>1, <1>2, <1>5, <1>6, <1>9, <1>10, <1>11, <1>13, <1>14, <1>15 DEF Stays, Placed

-----------------------------------------------------------------------------
(* The theorems.                                                           *)
LEMMA IngestInvInit ==
  ASSUME IngestInit
  PROVE  IngestInv
<1>1. Init /\ manual = FALSE /\ cleanup = {}
      /\ nrcs = [s \in Segments |-> [hidden |-> FALSE, parts |-> [p \in PartsOfSegment(s) |-> rundown.part[p]]]]
  BY DEF IngestInit
<1>2. Typed /\ setting \in Settings /\ TypeOK
  BY <1>1, InvInit DEF PlayoutInv, Typed, TypeOK
<1>3. /\ \A p \in Parts : rundown.part[p] \in {"playable", "unplayable"}
      /\ \A s \in Segments : rundown.segment[s] = "synced"
      /\ rundown.concealed = {}
  BY <1>1 DEF Init
<1>4. ASSUME NEW s \in Segments
      PROVE  IsContent(nrcs[s], PartsOfSegment(s)) /\ \A p \in PartsOfSegment(s) : nrcs[s].parts[p] = rundown.part[p]
  <2>1. nrcs[s] = [hidden |-> FALSE, parts |-> [p \in PartsOfSegment(s) |-> rundown.part[p]]]
    BY <1>1
  <2>2. \A p \in PartsOfSegment(s) : rundown.part[p] \in {"playable", "unplayable"}
    BY <1>2, <1>3, PartTypes
  <2> QED BY <2>1, <2>2 DEF IsContent
<1>5. DOMAIN nrcs = Segments
  BY <1>1
<1>6. Cardinality(cleanup) = 0 /\ MaxCleanups \in Nat \ {0}
  BY <1>1, <1>2, FS_EmptySet, EditTypes
<1>7. IngestTypeOK
  <2>1. Cardinality(cleanup) <= MaxCleanups
    BY <1>6
  <2>2. \A s \in DOMAIN nrcs : IsContent(nrcs[s], PartsOfSegment(s))
    BY <1>4, <1>5
  <2>3. cleanup \subseteq CleanupJob /\ manual \in BOOLEAN
    BY <1>1
  <2> QED BY <1>2, <1>5, <2>1, <2>2, <2>3 DEF IngestTypeOK
<1>8. AsTold(rundown, nrcs)
  BY <1>3, <1>4, <1>5 DEF AsTold
<1>9. Concealed(rundown)
  BY <1>3 DEF Concealed
<1>10. Selected(playlist) = {} /\ DOMAIN instances = {}
  <2>1. /\ playlist.current = NoInstance /\ playlist.next.id = NoInstance /\ playlist.previous = <<>>
        /\ instances = [i \in {} |-> {}]
    BY <1>1 DEF Init, NoNext
  <2>2. Range(<<>>) = {}
    BY DEF Range
  <2> QED BY <2>1, <2>2 DEF Selected
<1>11. LiveSegments = {}
  BY <1>10 DEF LiveSegments
<1>12. Away(rundown, nrcs) /\ Shown(rundown)
  BY <1>5, <1>11 DEF Away, Shown
<1>13. OrphanedGone(instances, rundown)
  BY <1>10 DEF OrphanedGone
<1>14. SlotsInPlace
  BY <1>1, InvInit DEF PlayoutInv, SlotsInPlace
<1>15. NothingBehind(playlist)
  BY <1>1 DEF Init, NothingBehind
<1>17. Following(Whole, manual, rundown, playlist)
  BY <1>1 DEF Init, Following, Follows
<1> QED BY <1>2, <1>7, <1>8, <1>9, <1>12, <1>13, <1>14, <1>15, <1>17 DEF IngestInv, IngestTyped, AsToldInv

LEMMA JobsStay ==
  ASSUME IngestInv, [IngestNext]_ingestVars
  PROVE  Stays /\ Cardinality(cleanup') <= MaxCleanups
<1>1. IngestTyped /\ Contents(nrcs) /\ Typed
  BY ContentsStored DEF IngestInv, IngestTyped
<1>2. CASE IngestNext
  BY <1>1, <1>2, IngestJobStays, PlayoutJobStays DEF IngestNext
<1>3. CASE UNCHANGED ingestVars
  <2>1. UNCHANGED <<setting, playlist, instances, rundown, crashes, nrcs, manual, cleanup>>
    BY <1>3 DEF ingestVars
  <2>2. /\ manual \in BOOLEAN /\ cleanup \subseteq CleanupJob /\ Cardinality(cleanup) <= MaxCleanups
    BY <1>1 DEF IngestTyped, IngestTypeOK
  <2>3. Placed
    BY <1>1, <2>1, <2>2, UnchangedPlaced DEF Placed
  <2>4. AsToldInv => Told(nrcs')
    BY <2>1, UnchangedConcealed DEF AsToldInv, Told
  <2>5. Tends(nrcs')
    BY <2>1, ForgottenBefore DEF Tends, MovesSlots
  <2> QED BY <1>1, <2>1, <2>2, <2>3, <2>4, <2>5, TendsIsEnough DEF Stays
<1> QED BY <1>2, <1>3

LEMMA IngestInvNext ==
  ASSUME IngestInv, [IngestNext]_ingestVars
  PROVE  IngestInv'
<1>1. IngestTyped /\ Contents(nrcs) /\ Typed /\ TypeOK /\ LiveSegments \subseteq Segments
  BY ContentsStored, LiveIsSegment DEF IngestInv, IngestTyped, Typed
<1>2. setting' = setting
  BY DEF IngestNext, IngestStep, PlayoutStep, ingestVars
<1>3. /\ Segments' = Segments /\ MaxCleanups' = MaxCleanups /\ CleanupJob' = CleanupJob
      /\ PlayFromAnywhere' = PlayFromAnywhere
      /\ SegmentOf' = SegmentOf
  BY <1>2, SettingStays DEF Segments, Parts, NumParts, SegmentOf, MaxCleanups, CleanupJob
<1>4. \A s : PartsOfSegment(s)' = PartsOfSegment(s)
  BY <1>2 DEF PartsOfSegment, Parts, NumParts, SegmentOf
<1>5. Stays /\ Cardinality(cleanup') <= MaxCleanups
  BY JobsStay
<1>6. IngestTyped'
  <2>1. Typed' /\ TypeOK'
    BY <1>5 DEF Stays, Placed, Typed
  <2>2. IngestTypeOK'
    BY <1>3, <1>4, <1>5, <2>1 DEF Stays, Placed, Contents, IngestTypeOK
  <2> QED BY <2>1, <2>2 DEF IngestTyped
<1>7. ASSUME ~PlayFromAnywhere'
      PROVE  AsToldInv'
  <2>1. AsTold(rundown', nrcs') /\ Away(rundown', nrcs') /\ (Concealed(rundown) /\ Shown(rundown))'
    BY <1>3, <1>5, <1>7 DEF Stays, Told, IngestInv
  <2> QED BY <1>3, <1>4, <2>1 DEF AsToldInv, AsTold, Away
<1>8. (OrphanedGone(instances, rundown) /\ SlotsInPlace /\ NothingBehind(playlist))'
  BY <1>5 DEF Stays, Placed, IngestInv, OrphanedGone, NothingBehind
<1>10. Following(Whole, manual, rundown, playlist)'
  <2>1. Following(Whole', manual', rundown', playlist')
    BY <1>5 DEF Stays, Placed, IngestInv
  <2>2. Follows(rundown, playlist)' <=> Follows(rundown', playlist')
    BY <1>2, SettingStays DEF Follows, Followers, After, FirstOf, SegmentOfInstance
  <2> QED BY <1>2, <2>1, <2>2 DEF Following, BlueprintMoves, AutoNextParts
<1> QED BY <1>6, <1>7, <1>8, <1>10 DEF IngestInv

LEMMA IngestInvariant == IngestSpec => []IngestInv
<1>1. IngestInit => IngestInv
  BY IngestInvInit
<1>2. IngestInv /\ [IngestNext]_ingestVars => IngestInv'
  BY IngestInvNext
<1> QED BY <1>1, <1>2, PTL DEF IngestSpec

(* The types of the database while ingest and playout both change it, a    *)
(* worker that dies within a save included.                                *)
THEOREM IngestTypeCorrect == IngestSpec => []IngestTypeOK
<1>1. IngestInv => IngestTypeOK
  BY DEF IngestInv, IngestTyped
<1> QED BY <1>1, IngestInvariant, PTL

(* The rundown is what the newsroom told, through every edit, removal,     *)
(* regeneration and late clean-up, and whatever is on air meanwhile; where *)
(* users play from anywhere, an instance that was on air before may bring  *)
(* a concealed Segment back, and nothing is promised.                      *)
THEOREM RundownIsAsTold == IngestSpec => [](~PlayFromAnywhere => RundownFollowsNrcs)
<1>1. IngestInv => (~PlayFromAnywhere => RundownFollowsNrcs)
  BY FollowsIsAsTold DEF IngestInv, AsToldInv
<1> QED BY <1>1, IngestInvariant, PTL

(* No edit of the newsroom disturbs the slots: what PlayoutProofs shows of *)
(* the instances on air and next while the rundown stays as it is, holds   *)
(* of one that changes, too. (A hold is not kept: what is next may be      *)
(* taken away although it is what is held to.)                             *)
THEOREM SlotsMatchThroughEdits ==
  IngestSpec => [](SlotsMatchInstances /\ SlotsDistinct /\ SelectedShareActivation)
<1>1. IngestInv => SlotsMatchInstances /\ SlotsDistinct /\ SelectedShareActivation
  BY DEF IngestInv, SlotsInPlace
<1> QED BY <1>1, IngestInvariant, PTL

(* What is on air or next stays in a Segment of the rundown that is not    *)
(* hidden, and an instance is orphaned exactly while its Part is gone, for *)
(* every edit; but not where a save broke off, or users play from anywhere.*)
THEOREM SlotsStay == IngestSpec => [](~PlayFromAnywhere /\ Whole => SlotsStayInRundown)
<1>1. IngestInv => (~PlayFromAnywhere /\ Whole => SlotsStayInRundown)
  <2> SUFFICES ASSUME IngestInv, ~PlayFromAnywhere, Whole
               PROVE  SlotsStayInRundown
    OBVIOUS
  <2>1. /\ SlotsMatchInstances /\ Concealed(rundown) /\ Shown(rundown)
        /\ OrphanedGone(instances, rundown)
    BY DEF IngestInv, SlotsInPlace, AsToldInv
  <2>2. ASSUME NEW i \in {playlist.current, playlist.next.id} \ {NoInstance}
        PROVE  SegmentOfInstance(i) \in LiveSegments
    <3>1. i \in Selected(playlist)
      BY <2>2 DEF Selected
    <3>2. i \in DOMAIN instances /\ ~instances[i].reset
      BY <2>1, <3>1 DEF SlotsMatchInstances, SlotsExist, PlayedSlots
    <3> QED BY <3>1, <3>2 DEF LiveSegments
  <2>3. \A s \in SlotSegments : s \in LiveSegments
    BY <2>2 DEF SlotSegments
  <2> QED BY <2>1, <2>3 DEF SlotsStayInRundown, Concealed, Shown, OrphanedGone
<1> QED BY <1>1, IngestInvariant, PTL

(* Where nothing is queued, what follows is what the rule would select.    *)
LEMMA FollowingIsNextFollows ==
  ASSUME IngestTyped, Following(Whole, manual, rundown, playlist), Whole, BlueprintMoves = {}
  PROVE  NextFollows
<1> DEFINE p == PartOf(playlist.current)
           own == {q \in {PartOf(playlist.next.id)} \ {None} : rundown.part[q] # "absent"}
           A == PlayableParts(Model) \cup own
           c == SelectNextPart(A, None, p)
<1>1. SUFFICES ASSUME playlist.current # NoInstance, p \notin AutoNextParts, ~manual, ~playlist.next.consumes
               PROVE  PartOf(playlist.next.id) = c.part
  BY DEF NextFollows
<1>2. /\ setting \in Settings /\ Model.rundown = rundown /\ p \in Parts
      /\ PartOf(playlist.next.id) \in Parts \cup {None}
  <2>1. Fits(Model) /\ Model.pl = playlist /\ Model.rundown = rundown
    BY ModelIsSane DEF IngestTyped, Sane
  <2>2. setting \in Settings
    BY <2>1 DEF Fits
  <2>3. PartOf(NoInstance) = None
    BY DEF PartOf, NoInstance
  <2> QED BY <1>1, <2>1, <2>2, <2>3, ModelTypes, InstanceIdTypes
<1>3. \A q \in Parts : q # None /\ SegmentOf[q] # None
  BY <1>2, SettingTypes DEF None
<1>4. A = Followers(rundown, playlist) /\ A \in SUBSET Parts
  BY <1>2, <1>3 DEF Followers, PlayableParts
<1> HIDE DEF A
<1>5. ~c.consumes
  <2>1. c.consumes => c.part \in A /\ SegmentOf[c.part] = None
    BY <1>2, <1>4, SelectNextPartEffect
  <2> QED BY <1>3, <1>4, <2>1
<1>6. c.part = After(A, p)
  BY <1>2, <1>4, <1>5, SelectNextPartEffect
<1>7. Follows(rundown, playlist)
  BY <1>1 DEF Following
<1> QED BY <1>1, <1>4, <1>6, <1>7 DEF Follows

(* And what is next follows: what was chosen automatically is what follows *)
(* on air in the rundown as it is now, whatever was edited, taken, queued, *)
(* reset or reported in between, and nothing is next only when nothing     *)
(* follows. A blueprint that moves what is next chooses something else.    *)
THEOREM SlotsFollow ==
  IngestSpec => [](~PlayFromAnywhere /\ Whole /\ BlueprintMoves = {} => SlotsFollowRundown)
<1>1. IngestInv => (Whole /\ BlueprintMoves = {} => NextFollows)
  BY FollowingIsNextFollows DEF IngestInv
<1> QED BY <1>1, IngestInvariant, SlotsStay, PTL DEF SlotsFollowRundown

(* No step forgets an orphaned Segment, and every move of what is current  *)
(* or next finds those forgotten before, crash or no crash; but those of   *)
(* the earlier instances that are dropped because a Part is reported to    *)
(* have stopped. So none stays forgotten beyond the next take.             *)
THEOREM OrphansTended == IngestSpec => OrphansStayTended
<1>1. IngestInv /\ [IngestNext]_ingestVars => [Forgotten' \subseteq MayForget]_ingestVars
  <2> SUFFICES ASSUME IngestInv, [IngestNext]_ingestVars
               PROVE  Forgotten' \subseteq MayForget
    OBVIOUS
  <2>1. Tended(rundown', nrcs', playlist', cleanup', MayForget)
    BY JobsStay DEF Stays, IngestInv
  <2>2. UNCHANGED setting
    BY DEF IngestNext, IngestStep, PlayoutStep, ingestVars
  <2>3. IngestInv'
    BY IngestInvNext
  <2>4. DOMAIN nrcs' \subseteq Segments
    <3>1. Segments' = Segments
      BY <2>2 DEF Segments, Parts, NumParts, SegmentOf
    <3> QED BY <2>3, <3>1 DEF IngestInv, IngestTyped, IngestTypeOK
  <2> QED BY <2>1, <2>2, <2>4, ForgottenAfter
<1>2. OrphansStayTended <=> [][Forgotten' \subseteq MayForget]_ingestVars
  BY DEF OrphansStayTended, MayForget
<1> QED BY <1>1, <1>2, IngestInvariant, PTL DEF IngestSpec
=============================================================================
