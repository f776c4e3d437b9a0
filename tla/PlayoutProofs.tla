----------------------------- MODULE PlayoutProofs -----------------------------
(***************************************************************************)
(* Proofs about Playout, for every studio and rundown there may be.        *)
(*                                                                         *)
(* A job is a function from a loaded model to the models it may save.  So  *)
(* each step a job is made of gets a lemma: from a model that fits its     *)
(* types (Fits), and whose slots are in order (AiredInOrder, NextInOrder), *)
(* it makes one that is so, too.  The invariant of the database is what a  *)
(* job finds when it loads.                                                *)
(***************************************************************************)
EXTENDS Playout, NaturalLemmas

Collections == UNION {[D -> PartInstance] : D \in SUBSET InstanceIds}

Models ==
  [pl : Playlist, pis : Collections, rundown : Rundown, loaded : SUBSET InstanceIds,
   deferred : SUBSET InstanceIds, purged : SUBSET InstanceIds, used : SUBSET InstanceIds]

(* What holds of a model whatever has happened before, crashes included.   *)
Fits(m) ==
  /\ setting \in Settings
  /\ m \in Models
  /\ IsFiniteSet(m.used) /\ DOMAIN m.pis \cup Selected(m.pl) \subseteq m.used
  /\ m.loaded \subseteq DOMAIN m.pis /\ m.deferred \cup m.purged \subseteq m.used
  /\ m.pl.current # NoInstance => m.pl.current # m.pl.next.id
  /\ m.pl.next.consumes => m.pl.next.id # NoInstance

(* What is or was on air: the slots but for the next.                      *)
Aired(pl) == (Range(pl.previous) \cup {pl.current}) \ {NoInstance}

AiredInOrder(m) ==
  /\ Aired(m.pl) \subseteq DOMAIN m.pis \ m.purged
  /\ \A i \in Aired(m.pl) : m.pis[i].taken
  /\ m.pl.current # NoInstance => m.pl.current \notin m.deferred
  /\ \A i \in DOMAIN m.pis : ~m.pis[i].taken => i \in m.loaded
  /\ Aired(m.pl) # {} => m.pl.activation # None
  /\ ~PlayFromAnywhere =>
       /\ \A i \in Aired(m.pl) : m.pis[i].activation = m.pl.activation
       /\ m.pl.current # NoInstance => ~m.pis[m.pl.current].reset
       /\ IsInjective(m.pl.previous) /\ m.pl.current \notin Range(m.pl.previous)

NextInOrder(m) ==
  \/ m.pl.next = NoNext
  \/ /\ m.pl.next.id \in DOMAIN m.pis \ (m.purged \cup m.deferred)
     /\ m.pl.activation # None
     /\ m.pl.next.id # m.pl.current
     /\ ~PlayFromAnywhere =>
          /\ ~m.pis[m.pl.next.id].reset
          /\ m.pis[m.pl.next.id].activation = m.pl.activation
          /\ m.pl.next.id \notin Range(m.pl.previous)

-----------------------------------------------------------------------------
(* The types of what a studio and a rundown set.                           *)
LEMMA SettingTypes ==
  ASSUME setting \in Settings
  PROVE  /\ NumParts \in Nat \ {0} /\ Parts \subseteq Nat \ {0}
         /\ SegmentOf \in [Parts -> Segments] /\ Segments \subseteq Nat \ {0}
         /\ BlueprintMoves \subseteq Parts /\ MaxPrevious \in Nat \ {0}
         /\ AutoNextParts \cup HoldFrom \cup HoldTo \subseteq Parts
         /\ Modes \subseteq {"active", "rehearsal"} /\ MaxCrashes \in Nat
BY PlayoutAssumption, JobsAssumption
   DEF NumParts, Parts, SegmentOf, Segments, BlueprintMoves, MaxPrevious, AutoNextParts,
       HoldFrom, HoldTo, Modes, MaxCrashes, None

(* No instance has the id that stands for none.                            *)
LEMMA InstanceIdTypes ==
  ASSUME setting \in Settings
  PROVE  /\ NoInstance \notin InstanceIds /\ NoInstance = <<None, 0>>
         /\ \A i \in InstanceIds : PartOf(i) \in Parts /\ SegmentOfInstance(i) \in Segments
         /\ \A p \in Parts, k \in Nat \ {0} : <<p, k>> \in InstanceIds /\ PartOf(<<p, k>>) = p
BY SettingTypes DEF InstanceIds, NoInstance, None, PartOf, SegmentOfInstance

LEMMA CollectionTypes ==
  ASSUME NEW f \in Collections
  PROVE  /\ DOMAIN f \subseteq InstanceIds /\ f \in [DOMAIN f -> PartInstance]
         /\ \A i \in DOMAIN f : f[i] \in PartInstance
BY DEF Collections

LEMMA CollectionMade ==
  ASSUME NEW D \in SUBSET InstanceIds, NEW f \in [D -> PartInstance]
  PROVE  f \in Collections
BY DEF Collections

-----------------------------------------------------------------------------
(* There is always an id that is not in use.                               *)
LEMMA SomeAreFree ==
  ASSUME NEW U, IsFiniteSet(U), NEW f, f \in [1..(Cardinality(U) + 1) -> U]
  PROVE  \E x, y \in 1..(Cardinality(U) + 1) : x # y /\ f[x] = f[y]
<1> DEFINE n == Cardinality(U)
           S == 1..(n + 1)
<1>1. n \in Nat
  BY FS_CardinalityType
<1>2. IsFiniteSet(S) /\ Cardinality(S) = n + 1
  BY <1>1, FS_Interval
<1>3. n < n + 1
  BY <1>1
<1> HIDE DEF n
<1>4. Cardinality(U) < Cardinality(S)
  BY <1>2, <1>3 DEF n
<1>5. f \in [S -> U]
  BY DEF n
<1> HIDE DEF S
<1>6. \E x, y \in S : x # y /\ f[x] = f[y]
  BY <1>2, <1>4, <1>5, FS_PigeonHole
<1> QED BY <1>6 DEF S, n

LEMMA FreshIdIsFree ==
  ASSUME NEW m, Fits(m), NEW p \in Parts
  PROVE  FreshId(m, p) \in InstanceIds \ m.used /\ PartOf(FreshId(m, p)) = p
<1> DEFINE S == 1..(Cardinality(m.used) + 1)
           f == [k \in S |-> <<p, k>>]
<1>1. IsFiniteSet(m.used) /\ Cardinality(m.used) \in Nat
  BY FS_CardinalityType DEF Fits
<1>2. \E k \in S : <<p, k>> \notin m.used
  <2> SUFFICES ASSUME \A k \in S : <<p, k>> \in m.used
               PROVE  FALSE
    OBVIOUS
  <2>1. f \in [S -> m.used]
    OBVIOUS
  <2> HIDE DEF f
  <2>2. PICK x, y \in S : x # y /\ f[x] = f[y]
    BY <1>1, <2>1, SomeAreFree
  <2>3. f[x] = <<p, x>> /\ f[y] = <<p, y>>
    BY DEF f
  <2>4. <<p, x>> = <<p, y>>
    BY <2>2, <2>3
  <2>5. <<p, x>>[2] = x /\ <<p, y>>[2] = y
    OBVIOUS
  <2> QED BY <2>2, <2>4, <2>5
<1>3. PICK k \in S : FreshId(m, p) = <<p, k>> /\ <<p, k>> \notin m.used
  BY <1>2 DEF FreshId
<1>4. k \in Nat \ {0}
  BY <1>1
<1> QED BY <1>3, <1>4, InstanceIdTypes DEF Fits

LEMMA NewActivationIsNew ==
  ASSUME NEW m, Fits(m)
  PROVE  /\ NewActivation(m) \in Nat \ {None}
         /\ NewActivation(m) # m.pl.activation
         /\ \A i \in DOMAIN m.pis : m.pis[i].activation # NewActivation(m)
<1> DEFINE D == DOMAIN m.pis
           T == {m.pis[i].activation : i \in D}
           U == {m.pl.activation} \cup T
           S == 1..(Cardinality(U) + 1)
           f == [k \in S |-> k]
           g == [i \in D |-> m.pis[i].activation]
<1>1. IsFiniteSet(D)
  BY FS_Subset DEF Fits
<1>2. g \in Surjection(D, T)
  BY DEF Surjection
<1>3. IsFiniteSet(T)
  <2> HIDE DEF D, T, g
  <2> QED BY <1>1, <1>2, FS_Surjection
<1>4. IsFiniteSet(U)
  BY <1>3, FS_AddElement
<1> HIDE DEF T
<1>5. Cardinality(U) \in Nat
  BY <1>4, FS_CardinalityType
<1> HIDE DEF U
<1>6. \E k \in S : k \notin U
  <2> SUFFICES ASSUME \A k \in S : k \in U
               PROVE  FALSE
    OBVIOUS
  <2>1. f \in [S -> U]
    OBVIOUS
  <2> HIDE DEF f
  <2>2. PICK x, y \in S : x # y /\ f[x] = f[y]
    BY <1>4, <2>1, SomeAreFree
  <2>3. f[x] = x /\ f[y] = y
    BY DEF f
  <2> QED BY <2>2, <2>3
<1>7. NewActivation(m) = CHOOSE a \in S : a \notin U
  BY DEF NewActivation, U, T
<1>8. NewActivation(m) \in S /\ NewActivation(m) \notin U
  BY <1>6, <1>7
<1> QED BY <1>5, <1>8 DEF U, T, None

-----------------------------------------------------------------------------
(* What each small step does to a model.                                   *)
SameSlots(m, n) == n.pl = m.pl /\ n.rundown = m.rundown

(* Two instances that may differ in whether they are reset.                *)
Alike(x, y) ==
  /\ y.taken = x.taken /\ y.started = x.started /\ y.activation = x.activation
  /\ y.rehearsal = x.rehearsal /\ y.orphaned = x.orphaned

LEMMA ModelTypes ==
  ASSUME NEW m, Fits(m)
  PROVE  /\ m.pl \in Playlist /\ m.pis \in Collections
         /\ DOMAIN m.pis \subseteq InstanceIds /\ m.pis \in [DOMAIN m.pis -> PartInstance]
         /\ \A i \in DOMAIN m.pis : m.pis[i] \in PartInstance
         /\ m.pl.previous \in Seq(InstanceIds) /\ m.pl.activation \in Nat
         /\ m.pl.current \in InstanceIds \cup {NoInstance}
         /\ m.pl.next.id \in InstanceIds \cup {NoInstance}
         /\ Range(m.pl.previous) \subseteq InstanceIds
         /\ NoInstance \notin InstanceIds
<1>1. m.pl \in Playlist /\ m.pis \in Collections
  BY DEF Fits, Models
<1>2. m.pl.previous \in Seq(InstanceIds) /\ m.pl.activation \in Nat
      /\ m.pl.current \in InstanceIds \cup {NoInstance}
      /\ m.pl.next.id \in InstanceIds \cup {NoInstance}
  BY <1>1 DEF Playlist, NextInfo
<1>3. Range(m.pl.previous) \subseteq InstanceIds
  BY <1>2 DEF Range
<1> QED BY <1>1, <1>2, <1>3, CollectionTypes, InstanceIdTypes DEF Fits

(* Instances are marked as reset, and nothing else of them changes.        *)
LEMMA ResetEffect ==
  ASSUME NEW m, Fits(m), NEW S \in SUBSET DOMAIN m.pis,
         NEW n, n = ResetPartInstances(m, S)
  PROVE  /\ Fits(n) /\ SameSlots(m, n) /\ n.loaded = m.loaded
         /\ n.purged = m.purged /\ n.used = m.used
         /\ n.deferred = m.deferred \cup (S \ m.loaded)
         /\ DOMAIN n.pis = DOMAIN m.pis
         /\ \A i \in DOMAIN m.pis :
              /\ Alike(m.pis[i], n.pis[i])
              /\ i \in S \cap m.loaded => n.pis[i].reset
              /\ i \notin S \cap m.loaded => n.pis[i] = m.pis[i]
<1> DEFINE pis == [i \in DOMAIN m.pis |-> IF i \in S \cap m.loaded
                                          THEN [m.pis[i] EXCEPT !.reset = TRUE] ELSE m.pis[i]]
<1>1. n = [m EXCEPT !.pis = pis, !.deferred = m.deferred \cup (S \ m.loaded)]
  BY DEF ResetPartInstances
<1>2. pis \in [DOMAIN m.pis -> PartInstance]
  BY ModelTypes DEF PartInstance
<1>3. pis \in Collections /\ DOMAIN pis = DOMAIN m.pis
  BY <1>2, ModelTypes, CollectionMade
<1>4. \A i \in DOMAIN m.pis :
        /\ Alike(m.pis[i], pis[i])
        /\ i \in S \cap m.loaded => pis[i].reset
        /\ i \notin S \cap m.loaded => pis[i] = m.pis[i]
  BY ModelTypes DEF PartInstance, Alike
<1> HIDE DEF pis
<1>5. /\ n \in Models /\ n.pis = pis /\ n.deferred = m.deferred \cup (S \ m.loaded)
      /\ n.pl = m.pl /\ n.rundown = m.rundown /\ n.loaded = m.loaded
      /\ n.purged = m.purged /\ n.used = m.used
  BY <1>1, <1>3, ModelTypes DEF Fits, Models
<1> QED BY <1>3, <1>4, <1>5 DEF Fits, SameSlots

LEMMA RemoveEffect ==
  ASSUME NEW m, Fits(m), NEW S \in SUBSET InstanceIds,
         NEW n, n = RemoveInstances(m, S)
  PROVE  /\ Fits(n) /\ SameSlots(m, n) /\ n.loaded = m.loaded \ S
         /\ n.purged = m.purged /\ n.used = m.used /\ n.deferred = m.deferred \ S
         /\ DOMAIN n.pis = DOMAIN m.pis \ S
         /\ \A i \in DOMAIN n.pis : n.pis[i] = m.pis[i]
<1> DEFINE pis == [i \in DOMAIN m.pis \ S |-> m.pis[i]]
<1>1. n = [m EXCEPT !.pis = pis, !.loaded = m.loaded \ S, !.deferred = m.deferred \ S]
  BY DEF RemoveInstances
<1>2. pis \in [DOMAIN m.pis \ S -> PartInstance]
  BY ModelTypes
<1>3. pis \in Collections /\ DOMAIN pis = DOMAIN m.pis \ S
  BY <1>2, ModelTypes, CollectionMade
<1>4. \A i \in DOMAIN pis : pis[i] = m.pis[i]
  OBVIOUS
<1> HIDE DEF pis
<1>5. /\ n \in Models /\ n.pis = pis /\ n.deferred = m.deferred \ S
      /\ n.pl = m.pl /\ n.rundown = m.rundown /\ n.loaded = m.loaded \ S
      /\ n.purged = m.purged /\ n.used = m.used
  BY <1>1, <1>3 DEF Fits, Models
<1> QED BY <1>3, <1>4, <1>5 DEF Fits, SameSlots

(* A new instance is next to those there are, and was neither taken nor    *)
(* reset.                                                                  *)
LEMMA CreateEffect ==
  ASSUME NEW m, Fits(m), NEW p \in Parts,
         NEW id, id = CreateInstanceForPart(m, p).id,
         NEW n, n = CreateInstanceForPart(m, p).m
  PROVE  /\ Fits(n) /\ SameSlots(m, n) /\ n.loaded = m.loaded \cup {id}
         /\ n.purged = m.purged /\ n.deferred = m.deferred
         /\ DOMAIN n.pis = DOMAIN m.pis \cup {id}
         /\ id \in InstanceIds \ m.used /\ PartOf(id) = p
         /\ \A i \in DOMAIN m.pis : n.pis[i] = m.pis[i]
         /\ ~n.pis[id].taken /\ ~n.pis[id].reset /\ n.pis[id].activation = m.pl.activation
         /\ ~n.pis[id].orphaned /\ n.used = m.used \cup {id}
<1> DEFINE instance == [activation |-> m.pl.activation, rehearsal |-> m.pl.rehearsal,
                        taken |-> FALSE, reset |-> FALSE, started |-> FALSE, orphaned |-> FALSE]
           pis == [i \in DOMAIN m.pis \cup {id} |-> IF i = id THEN instance ELSE m.pis[i]]
<1>1. id = FreshId(m, p)
  BY DEF CreateInstanceForPart
<1>2. n = [m EXCEPT !.pis = pis, !.loaded = m.loaded \cup {id}, !.used = m.used \cup {id}]
  BY <1>1 DEF CreateInstanceForPart
<1>3. id \in InstanceIds \ m.used /\ PartOf(id) = p
  BY <1>1, FreshIdIsFree
<1>4. instance \in PartInstance
  BY ModelTypes DEF PartInstance, Playlist
<1>5. pis \in [DOMAIN m.pis \cup {id} -> PartInstance]
  BY <1>4, ModelTypes
<1>6. pis \in Collections /\ DOMAIN pis = DOMAIN m.pis \cup {id}
  BY <1>3, <1>5, ModelTypes, CollectionMade
<1>7. id \notin DOMAIN m.pis
  BY <1>3 DEF Fits
<1>8. /\ \A i \in DOMAIN m.pis : pis[i] = m.pis[i]
      /\ ~pis[id].taken /\ ~pis[id].reset /\ pis[id].activation = m.pl.activation
      /\ ~pis[id].orphaned
  BY <1>7
<1> HIDE DEF pis
<1>9. IsFiniteSet(m.used \cup {id})
  BY FS_AddElement DEF Fits
<1>10. /\ n \in Models /\ n.pis = pis /\ n.deferred = m.deferred
       /\ n.pl = m.pl /\ n.rundown = m.rundown /\ n.loaded = m.loaded \cup {id}
       /\ n.purged = m.purged /\ n.used = m.used \cup {id}
  <2>1. m \in Models
    BY DEF Fits
  <2>2. m.loaded \cup {id} \in SUBSET InstanceIds /\ m.used \cup {id} \in SUBSET InstanceIds
    BY <1>3, <2>1 DEF Models
  <2> QED BY <1>2, <1>6, <2>1, <2>2 DEF Models
<1> QED BY <1>3, <1>6, <1>8, <1>9, <1>10 DEF Fits, SameSlots

(* Another instance is next.                                               *)
ButNext(m, n) ==
  /\ n.rundown = m.rundown
  /\ n.pl.activation = m.pl.activation /\ n.pl.rehearsal = m.pl.rehearsal
  /\ n.pl.hold = m.pl.hold /\ n.pl.queued = m.pl.queued
  /\ n.pl.current = m.pl.current /\ n.pl.previous = m.pl.previous

Pointed(m, next) == [m EXCEPT !.pl.next = next]

PointsTo(m, next, n) ==
  /\ Fits(n) /\ ButNext(m, n) /\ n.pl.next = next
  /\ n.pis = m.pis /\ n.loaded = m.loaded /\ n.deferred = m.deferred
  /\ n.purged = m.purged /\ n.used = m.used

LEMMA PointEffect ==
  ASSUME NEW m, Fits(m), NEW next \in NextInfo,
         next = NoNext \/ next.id \in (InstanceIds \cap m.used) \ {m.pl.current}
  PROVE  PointsTo(m, next, Pointed(m, next))
<1>1. m.pl \in Playlist /\ m \in Models
  BY ModelTypes DEF Fits
<1> DEFINE n == Pointed(m, next)
           pl == [m.pl EXCEPT !.next = next]
<1>2. /\ pl \in Playlist /\ pl.next = next
      /\ pl.activation = m.pl.activation /\ pl.rehearsal = m.pl.rehearsal
      /\ pl.hold = m.pl.hold /\ pl.queued = m.pl.queued
      /\ pl.current = m.pl.current /\ pl.previous = m.pl.previous
  BY <1>1 DEF Playlist
<1>3. n = [m EXCEPT !.pl = pl]
  BY DEF Pointed
<1>4. NoNext.id = NoInstance /\ NoNext.consumes = FALSE
  BY DEF NoNext
<1>5. Selected(pl) \subseteq m.used
  BY <1>2, <1>4 DEF Fits, Selected
<1> HIDE DEF pl
<1>6. /\ n \in Models /\ n.pl = pl /\ n.pis = m.pis /\ n.loaded = m.loaded
      /\ n.deferred = m.deferred /\ n.purged = m.purged /\ n.used = m.used
      /\ n.rundown = m.rundown
  BY <1>1, <1>2, <1>3 DEF Models
<1>7. pl.current # NoInstance => pl.current # next.id
  BY <1>2, <1>4
<1>8. next.consumes => next.id # NoInstance
  BY <1>4, ModelTypes
<1> QED BY <1>2, <1>5, <1>6, <1>7, <1>8 DEF Fits, ButNext, PointsTo

-----------------------------------------------------------------------------
(* Setting what is next leaves alone what is or was on air, forgets no     *)
(* reset, and all it adds is in memory, untaken, of a playable Part and of *)
(* the running activation.                                                 *)
Kept(m, n) ==
  /\ \A i \in DOMAIN n.pis \cap DOMAIN m.pis :
        /\ Alike(m.pis[i], n.pis[i])
        /\ m.pis[i].reset => n.pis[i].reset
        /\ i \in m.deferred => i \in n.deferred
        /\ i \in m.loaded => i \in n.loaded
  /\ \A i \in DOMAIN n.pis \ DOMAIN m.pis :
        /\ i \in n.loaded /\ ~n.pis[i].taken /\ i \notin m.used
        /\ ~n.pis[i].orphaned /\ PartOf(i) \in PlayableParts(m)
        /\ n.pis[i].activation = m.pl.activation
  /\ m.used \subseteq n.used
  /\ Aired(m.pl) \cap DOMAIN m.pis \subseteq DOMAIN n.pis
  /\ m.pl.current \in DOMAIN m.pis =>
        n.pis[m.pl.current].reset = m.pis[m.pl.current].reset
  /\ m.pl.current \in n.deferred => m.pl.current \in m.deferred
  /\ n.purged = m.purged

LEMMA KeptTransitive ==
  ASSUME NEW l, NEW m, NEW n, Fits(l), Kept(l, m), Kept(m, n), ButNext(l, m), ButNext(m, n)
  PROVE  Kept(l, n) /\ ButNext(l, n)
<1>1. ButNext(l, n)
  BY DEF ButNext
<1>2. Aired(l.pl) = Aired(m.pl) /\ l.pl.current = m.pl.current
  BY DEF Aired, ButNext
<1>8. DOMAIN l.pis \cap DOMAIN n.pis \subseteq DOMAIN m.pis /\ NoInstance \notin DOMAIN l.pis
  BY ModelTypes DEF Kept, Fits
<1>9. l.used \subseteq n.used
  BY DEF Kept
<1>3. ASSUME NEW i \in DOMAIN n.pis \cap DOMAIN l.pis
      PROVE  /\ Alike(l.pis[i], n.pis[i])
             /\ l.pis[i].reset => n.pis[i].reset
             /\ i \in l.deferred => i \in n.deferred
             /\ i \in l.loaded => i \in n.loaded
  BY <1>3, <1>8 DEF Kept, Alike
<1>4. ASSUME NEW i \in DOMAIN n.pis \ DOMAIN l.pis
      PROVE  /\ i \in n.loaded /\ ~n.pis[i].taken /\ i \notin l.used
             /\ ~n.pis[i].orphaned /\ PartOf(i) \in PlayableParts(l)
             /\ n.pis[i].activation = l.pl.activation
  <2>1. PlayableParts(m) = PlayableParts(l) /\ m.pl.activation = l.pl.activation
    BY DEF ButNext, PlayableParts
  <2> QED BY <1>4, <2>1 DEF Kept, Alike
<1>5. Aired(l.pl) \cap DOMAIN l.pis \subseteq DOMAIN n.pis
  BY <1>2 DEF Kept
<1>6. l.pl.current \in DOMAIN l.pis => n.pis[l.pl.current].reset = l.pis[l.pl.current].reset
  <2> SUFFICES ASSUME l.pl.current \in DOMAIN l.pis
               PROVE  n.pis[l.pl.current].reset = l.pis[l.pl.current].reset
    OBVIOUS
  <2>1. l.pl.current \in DOMAIN m.pis
    <3>1. l.pl.current # NoInstance => l.pl.current \in Aired(l.pl)
      BY DEF Aired
    <3> QED BY <3>1, <1>2, <1>8 DEF Kept
  <2> QED BY <2>1, <1>2 DEF Kept
<1>7. l.pl.current \in n.deferred => l.pl.current \in l.deferred
  BY <1>2 DEF Kept
<1> QED BY <1>1, <1>3, <1>4, <1>5, <1>6, <1>7, <1>9 DEF Kept

(* What becomes next is new or was next, or a user chose an instance.      *)
FreshNext(m, c, n) ==
  ~PlayFromAnywhere \/ c.instance = NoInstance => n.pl.next.id \notin m.used \ {m.pl.next.id}

LEMMA ResetKeeps ==
  ASSUME NEW m, Fits(m), NEW S \in SUBSET DOMAIN m.pis, m.pl.current \notin S,
         NEW n, n = ResetPartInstances(m, S)
  PROVE  /\ Fits(n) /\ ButNext(m, n) /\ n.pl = m.pl /\ Kept(m, n) /\ n.loaded = m.loaded
         /\ DOMAIN n.pis = DOMAIN m.pis
         /\ m.pl.next.id \notin S /\ NextInOrder(m) => NextInOrder(n)
<1>1. /\ Fits(n) /\ SameSlots(m, n) /\ n.loaded = m.loaded
      /\ n.purged = m.purged /\ n.used = m.used
      /\ n.deferred = m.deferred \cup (S \ m.loaded)
      /\ DOMAIN n.pis = DOMAIN m.pis
      /\ \A i \in DOMAIN m.pis :
           /\ Alike(m.pis[i], n.pis[i])
           /\ i \in S \cap m.loaded => n.pis[i].reset
           /\ i \notin S \cap m.loaded => n.pis[i] = m.pis[i]
  BY ResetEffect
<1>2. ButNext(m, n) /\ n.pl = m.pl
  BY <1>1 DEF ButNext, SameSlots
<1>3. Kept(m, n)
  BY <1>1 DEF Kept
<1>4. m.pl.next.id \notin S /\ NextInOrder(m) => NextInOrder(n)
  BY <1>1, <1>2 DEF NextInOrder, Alike
<1> QED BY <1>1, <1>2, <1>3, <1>4

LEMMA RemoveKeeps ==
  ASSUME NEW m, Fits(m), NEW S \in SUBSET InstanceIds, S \cap Selected(m.pl) = {},
         NEW n, n = RemoveInstances(m, S)
  PROVE  /\ Fits(n) /\ ButNext(m, n) /\ n.pl = m.pl /\ Kept(m, n) /\ n.loaded = m.loaded \ S
         /\ DOMAIN n.pis = DOMAIN m.pis \ S
         /\ NextInOrder(m) => NextInOrder(n)
<1>1. /\ Fits(n) /\ SameSlots(m, n) /\ n.loaded = m.loaded \ S
      /\ n.purged = m.purged /\ n.used = m.used /\ n.deferred = m.deferred \ S
      /\ DOMAIN n.pis = DOMAIN m.pis \ S
      /\ \A i \in DOMAIN n.pis : n.pis[i] = m.pis[i]
  BY RemoveEffect
<1>2. ButNext(m, n) /\ n.pl = m.pl
  BY <1>1 DEF ButNext, SameSlots
<1>3. Aired(m.pl) \cap S = {} /\ m.pl.current \notin S /\ m.pl.next.id \notin S
  BY ModelTypes DEF Aired, Selected
<1>4. Kept(m, n)
  BY <1>1, <1>3 DEF Kept, Alike
<1>5. NextInOrder(m) => NextInOrder(n)
  BY <1>1, <1>2, <1>3 DEF NextInOrder
<1> QED BY <1>1, <1>2, <1>4, <1>5

(* An instance that is there is made next.                                 *)
LEMMA SetAsNextKeeps ==
  ASSUME NEW m, Fits(m), NEW id \in DOMAIN m.pis, id # m.pl.current,
         NEW consumes \in BOOLEAN,
         NEW n, n = SetAsNext(m, id, consumes)
  PROVE  /\ Fits(n) /\ ButNext(m, n) /\ Kept(m, n) /\ n.loaded = m.loaded
         /\ n.pl.next.id = id /\ n.pl.next.consumes = consumes
         /\ /\ id \notin m.purged \cup m.deferred /\ m.pl.activation # None
            /\ ~PlayFromAnywhere => /\ ~m.pis[id].reset /\ id \notin Range(m.pl.previous)
                                    /\ m.pis[id].activation = m.pl.activation
            => NextInOrder(n)
<1> DEFINE kept == (Range(m.pl.previous) \cup {m.pl.current}) \cup {id}
           others == {i \in DOMAIN m.pis \ kept : PartOf(i) = PartOf(id) /\ ~m.pis[i].reset}
           next == [id |-> id, consumes |-> consumes]
           r == ResetPartInstances(m, others)
<1>1. n = Pointed(r, next)
  BY DEF SetAsNext, Pointed
<1>2. others \in SUBSET DOMAIN m.pis /\ m.pl.current \notin others /\ id \notin others
  OBVIOUS
<1> HIDE DEF others
<1>3. /\ Fits(r) /\ ButNext(m, r) /\ r.pl = m.pl /\ Kept(m, r) /\ r.loaded = m.loaded
      /\ DOMAIN r.pis = DOMAIN m.pis
  BY <1>2, ResetKeeps
<1>4. r.pis[id] = m.pis[id] /\ r.purged = m.purged /\ (id \in r.deferred => id \in m.deferred)
  BY <1>2, ResetEffect
<1> HIDE DEF r
<1>5. id \in InstanceIds
  BY ModelTypes
<1>6. next \in NextInfo /\ next.id = id /\ next.consumes = consumes
  BY <1>5 DEF NextInfo
<1> HIDE DEF next
<1>7. next.id \in (InstanceIds \cap r.used) \ {r.pl.current}
  BY <1>3, <1>5, <1>6 DEF Fits
<1>8. /\ Fits(n) /\ ButNext(r, n) /\ n.pl.next = next
      /\ n.pis = r.pis /\ n.loaded = r.loaded /\ n.deferred = r.deferred
      /\ n.purged = r.purged /\ n.used = r.used
  BY <1>1, <1>3, <1>6, <1>7, PointEffect DEF PointsTo
<1>9. Kept(r, n)
  BY <1>8 DEF Kept, Alike
<1>10. ButNext(m, n) /\ Kept(m, n)
  BY <1>3, <1>8, <1>9, KeptTransitive
<1>11. n.pis[id] = m.pis[id] /\ n.purged = m.purged /\ (id \in n.deferred => id \in m.deferred)
       /\ id \in DOMAIN n.pis
  BY <1>3, <1>4, <1>8
<1>12. n.pl.previous = m.pl.previous /\ n.pl.current = m.pl.current
       /\ n.pl.activation = m.pl.activation
  BY <1>10 DEF ButNext
<1> QED BY <1>3, <1>6, <1>8, <1>10, <1>11, <1>12 DEF NextInOrder

(* Setting nothing, a Part or an instance.                                 *)
IsChoice(m, c) ==
  \/ c = NoSelection
  \/ \E p \in PlayableParts(m), q \in BOOLEAN : c = PartSelection(p, q)
  \/ \E i \in m.loaded : c = InstanceSelection(i) /\ i # m.pl.current /\ PlayFromAnywhere

SoundChoice(m, c) ==
  /\ c # NoSelection => m.pl.activation # None
  /\ c.instance # NoInstance => c.instance \notin m.purged \cup m.deferred

(* What becomes next is of the Part that was chosen.                       *)
AsChosen(c, n) ==
  c.instance = NoInstance => PartOf(n.pl.next.id) = c.part /\ n.pl.next.consumes = c.consumes

LEMMA SetNextPartOnceKeeps ==
  ASSUME NEW m, Fits(m), NEW c, IsChoice(m, c),
         NEW n, n = SetNextPartOnce(m, c)
  PROVE  /\ Fits(n) /\ ButNext(m, n) /\ Kept(m, n) /\ FreshNext(m, c, n)
         /\ SoundChoice(m, c) /\ NextInOrder(m) => NextInOrder(n)
         /\ AsChosen(c, n)
<1> DEFINE next == m.pl.next.id
           reuse == next \in DOMAIN m.pis /\ PartOf(next) = c.part
           created == CreateInstanceForPart(m, c.part)
<1>1. CASE c = NoSelection
  <2>1. n = Pointed(m, NoNext)
    BY <1>1 DEF SetNextPartOnce, NoSelection, Pointed
  <2>2. NoNext \in NextInfo
    BY DEF NoNext, NextInfo
  <2>3. /\ Fits(n) /\ ButNext(m, n) /\ n.pl.next = NoNext
        /\ n.pis = m.pis /\ n.loaded = m.loaded /\ n.deferred = m.deferred
        /\ n.purged = m.purged /\ n.used = m.used
    BY <2>1, <2>2, PointEffect DEF PointsTo
  <2>4. Kept(m, n)
    BY <2>3 DEF Kept, Alike
  <2>5. NextInOrder(n)
    BY <2>3 DEF NextInOrder
  <2>6. FreshNext(m, c, n)
    BY <2>3, ModelTypes DEF FreshNext, NoNext, Fits, Models
  <2>7. AsChosen(c, n)
    <3>1. n.pl.next.id = NoInstance /\ n.pl.next.consumes = FALSE
      BY <2>3 DEF NoNext
    <3>2. c.part = None /\ c.consumes = FALSE
      BY <1>1 DEF NoSelection
    <3>3. PartOf(NoInstance) = None
      BY DEF PartOf, NoInstance
    <3> QED BY <3>1, <3>2, <3>3 DEF AsChosen
  <2> QED BY <2>3, <2>4, <2>5, <2>6, <2>7
<1>2. ASSUME NEW i \in m.loaded, c = InstanceSelection(i), i # m.pl.current, PlayFromAnywhere
      PROVE  /\ Fits(n) /\ ButNext(m, n) /\ Kept(m, n) /\ FreshNext(m, c, n)
             /\ SoundChoice(m, c) /\ NextInOrder(m) => NextInOrder(n)
             /\ AsChosen(c, n)
  <2>1. i \in DOMAIN m.pis /\ i # NoInstance
    BY ModelTypes DEF Fits
  <2>2. c.instance = i /\ c # NoSelection /\ c.part = None
    BY <1>2, <2>1 DEF InstanceSelection, NoSelection
  <2>3. n = SetAsNext(m, i, FALSE)
    BY <2>1, <2>2 DEF SetNextPartOnce
  <2>4. /\ Fits(n) /\ ButNext(m, n) /\ Kept(m, n)
        /\ i \notin m.purged \cup m.deferred /\ m.pl.activation # None => NextInOrder(n)
    BY <1>2, <2>1, <2>3, SetAsNextKeeps, Zenon
  <2> QED BY <1>2, <2>1, <2>2, <2>4 DEF SoundChoice, FreshNext, AsChosen
<1>3. ASSUME NEW p \in PlayableParts(m), NEW q \in BOOLEAN, c = PartSelection(p, q)
      PROVE  /\ Fits(n) /\ ButNext(m, n) /\ Kept(m, n) /\ FreshNext(m, c, n)
             /\ SoundChoice(m, c) /\ NextInOrder(m) => NextInOrder(n)
             /\ AsChosen(c, n)
  <2>1. p # None /\ p \in Parts
    BY SettingTypes DEF Fits, None, PlayableParts
  <2>2. c.instance = NoInstance /\ c # NoSelection /\ c.part = p /\ c.consumes = q
    BY <1>3, <2>1 DEF PartSelection, NoSelection
  <2>3. CASE reuse
    <3>1. n = SetAsNext(m, next, q)
      BY <2>1, <2>2, <2>3 DEF SetNextPartOnce
    <3>2. next \in DOMAIN m.pis /\ next # NoInstance
      BY <2>3, ModelTypes
    <3>3. next # m.pl.current
      BY <3>2 DEF Fits
    <3>4. NextInOrder(m) =>
            /\ next \notin m.purged \cup m.deferred /\ m.pl.activation # None
            /\ ~PlayFromAnywhere => /\ ~m.pis[next].reset /\ next \notin Range(m.pl.previous)
                                    /\ m.pis[next].activation = m.pl.activation
      BY <3>2 DEF NextInOrder, NoNext
    <3>5. /\ Fits(n) /\ ButNext(m, n) /\ Kept(m, n) /\ n.pl.next.id = next
          /\ n.pl.next.consumes = q
          /\ NextInOrder(m) => NextInOrder(n)
      BY <3>1, <3>2, <3>3, <3>4, SetAsNextKeeps
    <3> QED BY <2>2, <2>3, <3>5 DEF FreshNext, AsChosen
  <2>4. CASE ~reuse
    <3> DEFINE id == created.id
               l == created.m
    <3>1. n = SetAsNext(l, id, q)
      BY <2>1, <2>2, <2>4 DEF SetNextPartOnce
    <3>2. /\ Fits(l) /\ SameSlots(m, l) /\ l.loaded = m.loaded \cup {id}
          /\ l.purged = m.purged /\ l.deferred = m.deferred
          /\ DOMAIN l.pis = DOMAIN m.pis \cup {id}
          /\ id \in InstanceIds \ m.used /\ PartOf(id) = p
          /\ \A i \in DOMAIN m.pis : l.pis[i] = m.pis[i]
          /\ ~l.pis[id].taken /\ ~l.pis[id].reset /\ l.pis[id].activation = m.pl.activation
          /\ ~l.pis[id].orphaned /\ l.used = m.used \cup {id}
      BY <2>1, <2>2, CreateEffect
    <3> HIDE DEF created
    <3>4. l.pl = m.pl /\ ButNext(m, l) /\ Kept(m, l)
      BY <3>2 DEF SameSlots, ButNext, Kept, Alike, Fits
    <3>5. id \notin Selected(m.pl) /\ id # NoInstance
      BY <3>2, ModelTypes DEF Fits
    <3>6. id # m.pl.current /\ id \notin Range(m.pl.previous)
      BY <3>5 DEF Selected
    <3>7. id \notin l.purged \cup l.deferred
      BY <3>2 DEF Fits
    <3>8. /\ Fits(n) /\ ButNext(l, n) /\ Kept(l, n) /\ n.loaded = l.loaded
          /\ n.pl.next.id = id /\ n.pl.next.consumes = q
          /\ m.pl.activation # None => NextInOrder(n)
      BY <3>1, <3>2, <3>4, <3>6, <3>7, SetAsNextKeeps
    <3>9. ButNext(m, n) /\ Kept(m, n)
      BY <3>4, <3>8, KeptTransitive
    <3>10. FreshNext(m, c, n)
      BY <3>2, <3>8 DEF FreshNext
    <3>11. AsChosen(c, n)
      BY <2>2, <3>2, <3>8 DEF AsChosen
    <3> QED BY <2>2, <3>8, <3>9, <3>10, <3>11 DEF SoundChoice
  <2> QED BY <2>3, <2>4
<1> QED BY <1>1, <1>2, <1>3 DEF IsChoice

LEMMA MovedNextKeeps ==
  ASSUME NEW m, Fits(m), NEW c, IsChoice(m, c), NEW n \in MovedNext(m, c)
  PROVE  /\ Fits(n) /\ ButNext(m, n) /\ Kept(m, n) /\ FreshNext(m, c, n)
         /\ SoundChoice(m, c) /\ NextInOrder(m) => NextInOrder(n)
         /\ BlueprintMoves = {} => AsChosen(c, n)
<1> DEFINE once == SetNextPartOnce(m, c)
<1>1. /\ Fits(once) /\ ButNext(m, once) /\ Kept(m, once) /\ FreshNext(m, c, once)
      /\ SoundChoice(m, c) /\ NextInOrder(m) => NextInOrder(once)
      /\ AsChosen(c, once)
  BY SetNextPartOnceKeeps
<1>2. CASE n = once
  BY <1>1, <1>2
<1>3. ASSUME n # once
      PROVE  /\ c # NoSelection /\ BlueprintMoves # {}
             /\ \E move : /\ n = SetNextPartOnce(once, move)
                          /\ \/ move = NoSelection
                             \/ \E p \in PlayableParts(m) : move = PartSelection(p, FALSE)
  BY <1>3, SettingTypes DEF MovedNext, Fits
<1>4. CASE n # once
  <2>1. c # NoSelection /\ BlueprintMoves # {}
    BY <1>3, <1>4
  <2>2. PICK move : /\ n = SetNextPartOnce(once, move)
                    /\ \/ move = NoSelection
                       \/ \E p \in PlayableParts(m) : move = PartSelection(p, FALSE)
    BY <1>3, <1>4
  <2> HIDE DEF once
  <2>3. move.instance = NoInstance
    BY <2>2 DEF NoSelection, PartSelection
  <2>4. IsChoice(once, move)
    BY <1>1, <2>2 DEF IsChoice, ButNext, PlayableParts
  <2>5. SoundChoice(m, c) => SoundChoice(once, move)
    BY <1>1, <2>1, <2>3 DEF SoundChoice, ButNext
  <2>6. /\ Fits(n) /\ ButNext(once, n) /\ Kept(once, n) /\ FreshNext(once, move, n)
        /\ SoundChoice(once, move) /\ NextInOrder(once) => NextInOrder(n)
    BY <1>1, <2>2, <2>4, SetNextPartOnceKeeps
  <2>7. ButNext(m, n) /\ Kept(m, n)
    BY <1>1, <2>6, KeptTransitive
  <2>8. FreshNext(m, c, n)
    BY <1>1, <2>3, <2>6 DEF FreshNext, Kept
  <2> QED BY <1>1, <2>1, <2>5, <2>6, <2>7, <2>8
<1> QED BY <1>2, <1>4

(* Nothing is in memory that was only ever next.                           *)
UntakenGone(m) == \A i \in m.loaded : ~m.pis[i].taken => i \in Selected(m.pl)

LEMMA RemoveUntakenKeeps ==
  ASSUME NEW m, Fits(m), NEW n, n = RemoveUntakenPartInstances(m)
  PROVE  /\ Fits(n) /\ ButNext(m, n) /\ Kept(m, n) /\ n.pl = m.pl /\ UntakenGone(n)
         /\ NextInOrder(m) => NextInOrder(n)
<1> DEFINE S == {i \in m.loaded \ Selected(m.pl) : ~m.pis[i].taken}
<1>1. n = RemoveInstances(m, S)
  BY DEF RemoveUntakenPartInstances
<1>2. S \in SUBSET InstanceIds /\ S \cap Selected(m.pl) = {}
  BY ModelTypes DEF Fits
<1>3. \A i \in m.loaded \ S : ~m.pis[i].taken => i \in Selected(m.pl)
  OBVIOUS
<1> HIDE DEF S
<1>4. /\ Fits(n) /\ ButNext(m, n) /\ n.pl = m.pl /\ Kept(m, n) /\ n.loaded = m.loaded \ S
      /\ DOMAIN n.pis = DOMAIN m.pis \ S
      /\ NextInOrder(m) => NextInOrder(n)
  BY <1>1, <1>2, RemoveKeeps
<1>5. \A i \in n.loaded : n.pis[i].taken = m.pis[i].taken
  BY <1>4 DEF Kept, Alike, Fits
<1> QED BY <1>3, <1>4, <1>5 DEF UntakenGone

(* What is neither current nor next may be reset.                          *)
LEMMA ResetOthersKeeps ==
  ASSUME NEW m, Fits(m), NEW S, S \subseteq m.loaded \ {m.pl.current, m.pl.next.id},
         NEW n, n = ResetPartInstances(m, S)
  PROVE  /\ Fits(n) /\ ButNext(m, n) /\ Kept(m, n) /\ n.pl = m.pl
         /\ UntakenGone(m) => UntakenGone(n)
         /\ NextInOrder(m) => NextInOrder(n)
<1>1. S \in SUBSET DOMAIN m.pis /\ m.pl.current \notin S /\ m.pl.next.id \notin S
  BY DEF Fits
<1>2. /\ Fits(n) /\ ButNext(m, n) /\ n.pl = m.pl /\ Kept(m, n) /\ n.loaded = m.loaded
      /\ DOMAIN n.pis = DOMAIN m.pis
      /\ NextInOrder(m) => NextInOrder(n)
  BY <1>1, ResetKeeps
<1>3. UntakenGone(m) => UntakenGone(n)
  BY <1>2 DEF UntakenGone, Kept, Alike, Fits
<1> QED BY <1>2, <1>3

LEMMA ResetWhenChangingSegmentKeeps ==
  ASSUME NEW m, Fits(m), NEW n, n = ResetWhenChangingSegment(m)
  PROVE  /\ Fits(n) /\ ButNext(m, n) /\ Kept(m, n) /\ n.pl = m.pl
         /\ UntakenGone(m) => UntakenGone(n)
         /\ NextInOrder(m) => NextInOrder(n)
<1>1. CASE n = m
  BY <1>1 DEF ButNext, Kept, Alike
<1>2. ASSUME n # m
      PROVE  \E S \in SUBSET (m.loaded \ {m.pl.current, m.pl.next.id}) : n = ResetPartInstances(m, S)
  <2> DEFINE current == m.pl.current
             next == m.pl.next.id
             others == {i \in m.loaded \ {current, next} : ~m.pis[i].reset}
             trailing == {i \in others : /\ current \in DOMAIN m.pis
                                         /\ SegmentOfInstance(i) = SegmentOfInstance(current)
                                         /\ PartOf(i) > PartOf(current)}
             enters == \/ current \notin DOMAIN m.pis
                       \/ SegmentOfInstance(next) # SegmentOfInstance(current)
                       \/ PartOf(next) < PartOf(current)
             inNewSegment == {i \in others : enters /\ SegmentOfInstance(i) = SegmentOfInstance(next)}
  <2>1. n = ResetPartInstances(m, trailing \cup inNewSegment)
    BY <1>2 DEF ResetWhenChangingSegment
  <2>2. trailing \cup inNewSegment \subseteq m.loaded \ {current, next}
    OBVIOUS
  <2> HIDE DEF trailing, inNewSegment
  <2> QED BY <2>1, <2>2
<1> QED BY <1>1, <1>2, ResetOthersKeeps

LEMMA CleanupKeeps ==
  ASSUME NEW m, Fits(m), NEW n, n = CleanupOrphanedItems(m)
  PROVE  /\ Fits(n) /\ ButNext(m, n) /\ Kept(m, n) /\ n.pl = m.pl
         /\ UntakenGone(m) => UntakenGone(n)
         /\ NextInOrder(m) => NextInOrder(n)
<1> DEFINE orphanedSegments == {s \in Segments : m.rundown.segment[s] \in {"deleted", "hidden"}}
           S == {i \in m.loaded : /\ m.pis[i].orphaned /\ ~m.pis[i].reset
                                  /\ i \notin Selected(m.pl)
                                  /\ ~(PreserveUnsynced /\ SegmentOfInstance(i) \in orphanedSegments)}
<1>1. n = ResetPartInstances(m, S)
  BY DEF CleanupOrphanedItems
<1> HIDE DEF orphanedSegments
<1>2. S \subseteq m.loaded \ {m.pl.current, m.pl.next.id}
  BY ModelTypes DEF Selected, Fits
<1> HIDE DEF S
<1> QED BY <1>1, <1>2, ResetOthersKeeps

(* setNextPart.                                                            *)
LEMMA SetNextPartKeeps ==
  ASSUME NEW m, Fits(m), NEW c, IsChoice(m, c), NEW n \in SetNextPart(m, c)
  PROVE  /\ Fits(n) /\ ButNext(m, n) /\ Kept(m, n) /\ FreshNext(m, c, n) /\ UntakenGone(n)
         /\ SoundChoice(m, c) /\ NextInOrder(m) => NextInOrder(n)
         /\ BlueprintMoves = {} => AsChosen(c, n)
<1>1. PICK x \in MovedNext(m, c) :
        n = CleanupOrphanedItems(ResetWhenChangingSegment(RemoveUntakenPartInstances(x)))
  BY DEF SetNextPart
<1> DEFINE y == RemoveUntakenPartInstances(x)
           z == ResetWhenChangingSegment(y)
<1>2. /\ Fits(x) /\ ButNext(m, x) /\ Kept(m, x) /\ FreshNext(m, c, x)
      /\ SoundChoice(m, c) /\ NextInOrder(m) => NextInOrder(x)
      /\ BlueprintMoves = {} => AsChosen(c, x)
  BY MovedNextKeeps
<1>3. /\ Fits(y) /\ ButNext(x, y) /\ Kept(x, y) /\ UntakenGone(y) /\ y.pl = x.pl
      /\ NextInOrder(x) => NextInOrder(y)
  BY <1>2, RemoveUntakenKeeps
<1>4. n = CleanupOrphanedItems(z)
  BY <1>1
<1> HIDE DEF y
<1>5. /\ Fits(z) /\ ButNext(y, z) /\ Kept(y, z) /\ UntakenGone(z) /\ z.pl = y.pl
      /\ NextInOrder(y) => NextInOrder(z)
  BY <1>3, ResetWhenChangingSegmentKeeps
<1> HIDE DEF z
<1>6. /\ Fits(n) /\ ButNext(z, n) /\ Kept(z, n) /\ UntakenGone(n) /\ n.pl = z.pl
      /\ NextInOrder(z) => NextInOrder(n)
  BY <1>4, <1>5, CleanupKeeps
<1>7. ButNext(m, y) /\ Kept(m, y)
  BY <1>2, <1>3, KeptTransitive
<1>8. ButNext(m, z) /\ Kept(m, z)
  BY <1>5, <1>7, KeptTransitive
<1>9. ButNext(m, n) /\ Kept(m, n)
  BY <1>6, <1>8, KeptTransitive
<1>10. FreshNext(m, c, n)
  BY <1>2, <1>3, <1>5, <1>6 DEF FreshNext
<1>11. BlueprintMoves = {} => AsChosen(c, n)
  BY <1>2, <1>3, <1>5, <1>6 DEF AsChosen
<1> QED BY <1>2, <1>3, <1>5, <1>6, <1>9, <1>10, <1>11

-----------------------------------------------------------------------------
(* Other slots, the same instances.                                        *)
WithSlots(m, pl) == [m EXCEPT !.pl = pl]

SameStore(m, n) ==
  /\ n.pis = m.pis /\ n.loaded = m.loaded /\ n.deferred = m.deferred
  /\ n.purged = m.purged /\ n.used = m.used /\ n.rundown = m.rundown

LEMMA SlotsEffect ==
  ASSUME NEW m, Fits(m), NEW pl \in Playlist, Selected(pl) \subseteq m.used,
         pl.current # NoInstance => pl.current # pl.next.id,
         pl.next.consumes => pl.next.id # NoInstance
  PROVE  /\ Fits(WithSlots(m, pl)) /\ SameStore(m, WithSlots(m, pl))
         /\ WithSlots(m, pl).pl = pl
<1> DEFINE n == WithSlots(m, pl)
<1>1. /\ n \in Models /\ n.pl = pl /\ n.pis = m.pis /\ n.loaded = m.loaded
      /\ n.deferred = m.deferred /\ n.purged = m.purged /\ n.used = m.used
      /\ n.rundown = m.rundown
  BY DEF Fits, Models, WithSlots
<1> HIDE DEF n
<1> QED BY <1>1 DEF Fits, SameStore, n

(* Where what a model selects and holds comes from, of one that was there  *)
(* before: what is selected was selected, or has an id that was not in     *)
(* use; an instance was there before, and is still reset if it was, or it  *)
(* has a new id and is of a Part that may be played.                       *)
Sourced(m, n) ==
  /\ n.rundown = m.rundown /\ m.used \subseteq n.used
  /\ ~PlayFromAnywhere => Selected(n.pl) \cap m.used \subseteq Selected(m.pl)
  /\ \A i \in DOMAIN n.pis \cap m.used :
        /\ i \in DOMAIN m.pis /\ n.pis[i].orphaned = m.pis[i].orphaned
        /\ m.pis[i].reset => n.pis[i].reset
  /\ \A i \in DOMAIN n.pis \ m.used : ~n.pis[i].orphaned /\ PartOf(i) \in PlayableParts(m)

LEMMA SourcedTransitive ==
  ASSUME NEW l, NEW m, NEW n, Sourced(l, m), Sourced(m, n)
  PROVE  Sourced(l, n)
<1>1. PlayableParts(m) = PlayableParts(l)
  BY DEF Sourced, PlayableParts
<1>2. n.rundown = l.rundown /\ l.used \subseteq n.used
  BY DEF Sourced
<1>3. ~PlayFromAnywhere => Selected(n.pl) \cap l.used \subseteq Selected(l.pl)
  BY DEF Sourced
<1>4. ASSUME NEW i \in DOMAIN n.pis \cap l.used
      PROVE  /\ i \in DOMAIN l.pis /\ n.pis[i].orphaned = l.pis[i].orphaned
             /\ l.pis[i].reset => n.pis[i].reset
  BY DEF Sourced
<1>5. ASSUME NEW i \in DOMAIN n.pis \ l.used
      PROVE  ~n.pis[i].orphaned /\ PartOf(i) \in PlayableParts(l)
  BY <1>1 DEF Sourced
<1> QED BY <1>2, <1>3, <1>4, <1>5 DEF Sourced

LEMMA SlotsSourced ==
  ASSUME NEW m, Fits(m), NEW n, SameStore(m, n), Selected(n.pl) \subseteq Selected(m.pl)
  PROVE  Sourced(m, n)
BY DEF SameStore, Sourced, Fits

LEMMA KeptSourced ==
  ASSUME NEW m, Fits(m), NEW c, NEW n, ButNext(m, n), Kept(m, n), FreshNext(m, c, n)
  PROVE  Sourced(m, n)
<1>1. ~PlayFromAnywhere => Selected(n.pl) \cap m.used \subseteq Selected(m.pl)
  BY DEF Selected, ButNext, FreshNext
<1>2. ASSUME NEW i \in DOMAIN n.pis \cap m.used
      PROVE  /\ i \in DOMAIN m.pis /\ n.pis[i].orphaned = m.pis[i].orphaned
             /\ m.pis[i].reset => n.pis[i].reset
  BY DEF Kept, Alike
<1>3. ASSUME NEW i \in DOMAIN n.pis \ m.used
      PROVE  ~n.pis[i].orphaned /\ PartOf(i) \in PlayableParts(m)
  BY DEF Kept, Fits
<1> QED BY <1>1, <1>2, <1>3 DEF Sourced, ButNext, Kept

(* A playlist in which nothing is selected, queued or held.                *)
Emptied(pl, activation, rehearsal) ==
  [pl EXCEPT !.activation = activation, !.rehearsal = rehearsal, !.hold = "none",
             !.current = NoInstance, !.next = NoNext, !.previous = <<>>, !.queued = None]

LEMMA EmptiedEffect ==
  ASSUME NEW m, Fits(m), NEW a \in Nat, NEW r \in BOOLEAN,
         NEW n, n = WithSlots(m, Emptied(m.pl, a, r))
  PROVE  /\ Fits(n) /\ SameStore(m, n) /\ n.pl \in Playlist
         /\ n.pl.current = NoInstance /\ n.pl.next = NoNext /\ n.pl.previous = <<>>
         /\ n.pl.hold = "none" /\ n.pl.activation = a /\ n.pl.rehearsal = r
         /\ n.pl.queued = None
         /\ NextInOrder(n)
<1> DEFINE pl == Emptied(m.pl, a, r)
<1>1. NoNext \in NextInfo /\ NoNext.id = NoInstance /\ ~NoNext.consumes
  BY DEF NoNext, NextInfo
<1>2. /\ pl \in Playlist
      /\ pl.current = NoInstance /\ pl.next = NoNext /\ pl.previous = <<>>
      /\ pl.hold = "none" /\ pl.activation = a /\ pl.rehearsal = r /\ pl.queued = None
  <2>1. m.pl \in Playlist
    BY ModelTypes
  <2>2. "none" \in HoldStates /\ <<>> \in Seq(InstanceIds)
    BY DEF HoldStates
  <2> QED BY <1>1, <2>1, <2>2 DEF Playlist, Emptied
<1>3. Range(pl.previous) = {}
  BY <1>2 DEF Range
<1> HIDE DEF pl
<1>4. Aired(pl) = {} /\ Selected(pl) = {}
  BY <1>1, <1>2, <1>3 DEF Aired, Selected
<1>5. Fits(n) /\ SameStore(m, n) /\ n.pl = pl
  BY <1>1, <1>2, <1>4, SlotsEffect DEF pl
<1> QED BY <1>2, <1>4, <1>5 DEF NextInOrder

(* The jobs empty the slots in three ways.                                 *)
LEMMA EmptyingSteps ==
  ASSUME NEW m, Fits(m), NEW a \in Nat, NEW r \in BOOLEAN
  PROVE  /\ DeactivatePlaylist(m) = WithSlots(m, Emptied(m.pl, None, m.pl.rehearsal))
         /\ ResetPlaylist(m, TRUE) = WithSlots(m, Emptied(m.pl, NewActivation(m), m.pl.rehearsal))
         /\ ResetPlaylist(m, FALSE) = WithSlots(m, Emptied(m.pl, m.pl.activation, m.pl.rehearsal))
         /\ ClearSelectedPartInstances([m EXCEPT !.pl.activation = a, !.pl.rehearsal = r])
              = WithSlots(m, Emptied(m.pl, a, r))
<1>1. m \in Models /\ m.pl \in Playlist
  BY ModelTypes DEF Fits
<1> DEFINE clear(n) == ClearSelectedPartInstances(n)
<1>2. ASSUME NEW n \in Models
      PROVE  clear(n) = WithSlots(n, Emptied(n.pl, n.pl.activation, n.pl.rehearsal))
  BY DEF ClearSelectedPartInstances, WithSlots, Emptied, Models, Playlist
<1> DEFINE pl == [m.pl EXCEPT !.activation = a, !.rehearsal = r]
           off == [m.pl EXCEPT !.activation = None]
<1>3. pl \in Playlist /\ off \in Playlist
  BY <1>1 DEF Playlist, None
<1>4. WithSlots(m, pl) \in Models /\ WithSlots(m, off) \in Models
  BY <1>1, <1>3 DEF WithSlots, Models
<1>5. [m EXCEPT !.pl.activation = a, !.pl.rehearsal = r] = WithSlots(m, pl)
  BY <1>1 DEF Models, WithSlots
<1>6. [m EXCEPT !.pl.activation = None] = WithSlots(m, off)
  BY <1>1 DEF Models, WithSlots
<1>7. DeactivatePlaylist(m) = clear(WithSlots(m, off))
  BY <1>6 DEF DeactivatePlaylist
<1>8. clear(m) = WithSlots(m, Emptied(m.pl, m.pl.activation, m.pl.rehearsal))
  BY <1>1, <1>2
<1>9. /\ clear(WithSlots(m, pl)) = WithSlots(WithSlots(m, pl), Emptied(pl, a, r))
      /\ clear(WithSlots(m, off)) = WithSlots(WithSlots(m, off), Emptied(off, None, m.pl.rehearsal))
  <2>1. pl.activation = a /\ pl.rehearsal = r /\ off.activation = None /\ off.rehearsal = m.pl.rehearsal
    BY <1>1 DEF Playlist
  <2>2. WithSlots(m, pl).pl = pl /\ WithSlots(m, off).pl = off
    BY <1>1 DEF WithSlots, Models
  <2> HIDE DEF pl, off, clear
  <2> QED BY <1>2, <1>4, <2>1, <2>2
<1>10. /\ Emptied(pl, a, r) = Emptied(m.pl, a, r)
       /\ Emptied(off, None, m.pl.rehearsal) = Emptied(m.pl, None, m.pl.rehearsal)
  BY <1>1 DEF Emptied, Playlist
<1> HIDE DEF pl, off
<1>11. ASSUME NEW p, NEW q
       PROVE  WithSlots(WithSlots(m, p), q) = WithSlots(m, q)
  BY <1>1 DEF WithSlots, Models
<1>12. ASSUME NEW x
       PROVE  [clear(m) EXCEPT !.pl.activation = x] = WithSlots(m, Emptied(m.pl, x, m.pl.rehearsal))
  <2> HIDE DEF clear
  <2>1. [Emptied(m.pl, m.pl.activation, m.pl.rehearsal) EXCEPT !.activation = x]
          = Emptied(m.pl, x, m.pl.rehearsal)
    BY <1>1 DEF Emptied, Playlist
  <2>2. WithSlots(m, Emptied(m.pl, m.pl.activation, m.pl.rehearsal)).pl
          = Emptied(m.pl, m.pl.activation, m.pl.rehearsal)
    BY <1>1 DEF WithSlots, Models
  <2> QED BY <1>1, <1>8, <1>11, <2>1, <2>2 DEF WithSlots
<1>13. /\ ResetPlaylist(m, TRUE) = [clear(m) EXCEPT !.pl.activation = NewActivation(m)]
       /\ ResetPlaylist(m, FALSE) = [clear(m) EXCEPT !.pl.activation = m.pl.activation]
  BY DEF ResetPlaylist
<1> HIDE DEF clear
<1>14. DeactivatePlaylist(m) = WithSlots(m, Emptied(m.pl, None, m.pl.rehearsal))
  BY <1>7, <1>9, <1>10, <1>11
<1>15. clear(WithSlots(m, pl)) = WithSlots(m, Emptied(m.pl, a, r))
  BY <1>9, <1>10, <1>11
<1> QED BY <1>5, <1>12, <1>13, <1>14, <1>15 DEF clear

-----------------------------------------------------------------------------
(* What was selected by a rule is a Part, or nothing.                      *)
LEMMA FirstOfIsMember ==
  ASSUME setting \in Settings, NEW S \in SUBSET Parts
  PROVE  FirstOf(S) \in S \cup {None} /\ (FirstOf(S) = None => S = {})
<1>1. S \in SUBSET Nat /\ None \notin S
  BY SettingTypes DEF None
<1>2. CASE S = {}
  BY <1>2 DEF FirstOf
<1>3. CASE S # {}
  BY <1>1, <1>3, MinIsLeast DEF FirstOf
<1> QED BY <1>2, <1>3

LEMMA SelectNextPartIsChoice ==
  ASSUME NEW m, Fits(m), NEW playable \in SUBSET Parts, NEW queued, NEW p
  PROVE  /\ playable = PlayableParts(m) => IsChoice(m, SelectNextPart(playable, queued, p))
         /\ SelectNextPart(playable, queued, p).instance = NoInstance
         /\ \/ SelectNextPart(playable, queued, p) = NoSelection
            \/ \E q \in playable, consumes \in BOOLEAN :
                  SelectNextPart(playable, queued, p) = PartSelection(q, consumes)
<1> DEFINE auto == FirstOf({q \in playable : q > p})
           inQueue == FirstOf(playable \cap PartsOfSegment(queued))
           c == SelectNextPart(playable, queued, p)
<1>1. auto \in playable \cup {None} /\ inQueue \in playable \cup {None}
  <2>1. {q \in playable : q > p} \in SUBSET Parts /\ playable \cap PartsOfSegment(queued) \in SUBSET Parts
    OBVIOUS
  <2> QED BY <2>1, FirstOfIsMember DEF Fits
<1>2. \/ inQueue # None /\ c = PartSelection(inQueue, TRUE)
      \/ auto # None /\ c = PartSelection(auto, FALSE)
      \/ c = NoSelection
  <2> DEFINE leaves == p = None \/ auto = None \/ SegmentOf[p] # SegmentOf[auto]
  <2>1. c = CASE leaves /\ inQueue # None -> PartSelection(inQueue, TRUE)
              [] ~(leaves /\ inQueue # None) /\ auto # None -> PartSelection(auto, FALSE)
              [] OTHER -> NoSelection
    BY DEF SelectNextPart
  <2> HIDE DEF c, auto, inQueue, leaves
  <2> QED BY <2>1
<1> HIDE DEF c, auto, inQueue
<1>3. playable = PlayableParts(m) => IsChoice(m, c)
  BY <1>1, <1>2 DEF IsChoice
<1>4. c.instance = NoInstance
  BY <1>2 DEF PartSelection, NoSelection
<1> QED BY <1>1, <1>2, <1>3, <1>4 DEF c

(* Of fewer Parts, the first one is the same if it is among them.          *)
LEMMA FirstOfFewer ==
  ASSUME setting \in Settings, NEW S \in SUBSET Parts, NEW T \in SUBSET S,
         FirstOf(S) \in T \cup {None}
  PROVE  FirstOf(T) = FirstOf(S)
<1>1. S \in SUBSET Nat /\ T \in SUBSET Nat /\ None \notin S
  BY SettingTypes DEF None
<1>2. CASE S = {}
  BY <1>2
<1>3. CASE S # {}
  <2>1. FirstOf(S) = Min(S) /\ Min(S) \in S /\ \A x \in S : Min(S) <= x
    BY <1>1, <1>3, MinIsLeast DEF FirstOf
  <2>2. Min(S) \in T /\ T # {}
    BY <1>1, <2>1
  <2>3. FirstOf(T) = Min(T) /\ Min(T) \in T /\ \A x \in T : Min(T) <= x
    BY <1>1, <2>2, MinIsLeast DEF FirstOf
  <2>4. Min(T) <= Min(S) /\ Min(S) <= Min(T) /\ Min(T) \in Nat /\ Min(S) \in Nat
    BY <1>1, <2>1, <2>2, <2>3
  <2>5. Min(T) = Min(S)
    BY <2>4
  <2> QED BY <2>1, <2>3, <2>5
<1> QED BY <1>2, <1>3

(* A later Part is of the same Segment or of a later one.                  *)
LEMMA SegmentsInOrder ==
  ASSUME setting \in Settings, NEW p \in Parts, NEW q \in Parts, p <= q
  PROVE  SegmentOf[p] <= SegmentOf[q]
BY PlayoutAssumption DEF Parts, NumParts, SegmentOf

(* Selected without the queue, it is the first of those behind p; and it   *)
(* is of the queued Segment only if that is the Segment of p.              *)
After(playable, p) == FirstOf({q \in playable : q > p})

LEMMA SelectNextPartEffect ==
  ASSUME setting \in Settings, NEW playable \in SUBSET Parts, NEW queued, NEW p \in Parts,
         NEW c, c = SelectNextPart(playable, queued, p)
  PROVE  /\ ~c.consumes => c.part = After(playable, p)
         /\ ~c.consumes /\ c.part # None /\ SegmentOf[c.part] = queued
              => SegmentOf[c.part] = SegmentOf[p]
         /\ c.consumes => /\ c.part \in playable /\ SegmentOf[c.part] = queued
                          /\ \/ After(playable, p) = None
                             \/ SegmentOf[p] # SegmentOf[After(playable, p)]
<1> DEFINE auto == After(playable, p)
           inQueue == FirstOf(playable \cap PartsOfSegment(queued))
           leaves == p = None \/ auto = None \/ SegmentOf[p] # SegmentOf[auto]
<1>1. c = CASE leaves /\ inQueue # None -> PartSelection(inQueue, TRUE)
            [] ~(leaves /\ inQueue # None) /\ auto # None -> PartSelection(auto, FALSE)
            [] OTHER -> NoSelection
  BY DEF SelectNextPart, After
<1>2. /\ inQueue \in (playable \cap PartsOfSegment(queued)) \cup {None}
      /\ inQueue = None => playable \cap PartsOfSegment(queued) = {}
      /\ auto \in playable \cup {None}
  <2>1. playable \cap PartsOfSegment(queued) \in SUBSET Parts /\ {q \in playable : q > p} \in SUBSET Parts
    OBVIOUS
  <2> QED BY <2>1, FirstOfIsMember DEF After
<1>3. p # None
  BY SettingTypes DEF None
<1> HIDE DEF auto, inQueue
<1>4. CASE leaves /\ inQueue # None
  <2>1. c.consumes = TRUE /\ c.part = inQueue
    BY <1>1, <1>4 DEF PartSelection
  <2> QED BY <1>2, <1>3, <1>4, <2>1 DEF PartsOfSegment, auto
<1>5. CASE ~(leaves /\ inQueue # None)
  <2>1. c.consumes = FALSE /\ c.part = auto
    BY <1>1, <1>5 DEF PartSelection, NoSelection
  <2>2. auto # None /\ SegmentOf[auto] = queued => inQueue # None
    BY <1>2 DEF PartsOfSegment
  <2> QED BY <1>5, <2>1, <2>2 DEF auto
<1> QED BY <1>4, <1>5

(* What is next is what follows the current Part in the rundown r, where   *)
(* the copy that is next counts as playable while its Part is there.  It   *)
(* is so whatever is queued; and what is next is of the queued Segment     *)
(* only where that is also the Segment on air.                             *)
Followers(r, pl) ==
  {p \in Parts : r.part[p] = "playable" \/ (p = PartOf(pl.next.id) /\ r.part[p] # "absent")}

Follows(r, pl) ==
  pl.current # NoInstance /\ ~pl.next.consumes =>
    /\ PartOf(pl.next.id) = After(Followers(r, pl), PartOf(pl.current))
    /\ pl.next.id # NoInstance /\ SegmentOfInstance(pl.next.id) = pl.queued
         => SegmentOfInstance(pl.next.id) = SegmentOfInstance(pl.current)

(* It is so where the rule has selected from all Parts that may be played, *)
(* and perhaps others, one that may be played.                             *)
LEMMA SelectedFollows ==
  ASSUME NEW n, Fits(n), NEW playable \in SUBSET Parts, PlayableParts(n) \subseteq playable,
         NEW c, c = SelectNextPart(playable, n.pl.queued, PartOf(n.pl.current)),
         c.part \in PlayableParts(n) \cup {None}, AsChosen(c, n)
  PROVE  Follows(n.rundown, n.pl)
<1> DEFINE p == PartOf(n.pl.current)
           next == n.pl.next.id
<1>1. SUFFICES ASSUME n.pl.current # NoInstance, ~n.pl.next.consumes
               PROVE  /\ PartOf(next) = After(Followers(n.rundown, n.pl), p)
                      /\ next # NoInstance /\ SegmentOfInstance(next) = n.pl.queued
                           => SegmentOfInstance(next) = SegmentOfInstance(n.pl.current)
  BY DEF Follows
<1>2. setting \in Settings /\ p \in Parts /\ (next # NoInstance => PartOf(next) \in Parts)
  BY <1>1, ModelTypes, InstanceIdTypes DEF Fits
<1>3. c.instance = NoInstance
  BY SelectNextPartIsChoice
<1>4. PartOf(next) = c.part /\ ~c.consumes
  BY <1>1, <1>3 DEF AsChosen
<1>5. /\ c.part = After(playable, p)
      /\ c.part # None /\ SegmentOf[c.part] = n.pl.queued => SegmentOf[c.part] = SegmentOf[p]
  BY <1>2, <1>4, SelectNextPartEffect
<1>6. Followers(n.rundown, n.pl) = PlayableParts(n)
  <2>1. \A q \in Parts : q # None
    BY <1>2, SettingTypes DEF None
  <2> QED BY <1>4, <2>1 DEF Followers, PlayableParts
<1>7. After(PlayableParts(n), p) = c.part
  <2> DEFINE S == {q \in playable : q > p}
             T == {q \in PlayableParts(n) : q > p}
  <2>1. S \in SUBSET Parts /\ T \in SUBSET S /\ FirstOf(S) = c.part
    BY <1>5 DEF After
  <2>2. FirstOf(S) \in S \cup {None}
    BY <1>2, <2>1, FirstOfIsMember
  <2>3. FirstOf(S) \in T \cup {None}
    BY <2>1, <2>2
  <2>4. FirstOf(T) = FirstOf(S)
    BY <1>2, <2>1, <2>3, FirstOfFewer
  <2> QED BY <2>1, <2>4 DEF After
<1>8. next # NoInstance => c.part # None
  BY <1>2, <1>4, SettingTypes DEF None
<1> QED BY <1>4, <1>5, <1>6, <1>7, <1>8 DEF SegmentOfInstance

(* Emptying the queue changes nothing of it.                               *)
LEMMA FollowsKept ==
  ASSUME setting \in Settings, NEW r, NEW pl, NEW ql,
         pl.next.id \in InstanceIds \cup {NoInstance}, Follows(r, pl),
         ql.current = pl.current, ql.next = pl.next, ql.queued \in {pl.queued, None}
  PROVE  Follows(r, ql)
<1>1. pl.next.id # NoInstance => SegmentOfInstance(pl.next.id) # None
  BY InstanceIdTypes, SettingTypes DEF None
<1>2. Followers(r, ql) = Followers(r, pl)
  BY DEF Followers
<1> QED BY <1>1, <1>2 DEF Follows

(* Setting next leaves in order what is or was on air.                     *)
UntakenLoaded(m) == \A i \in DOMAIN m.pis : ~m.pis[i].taken => i \in m.loaded

LEMMA AiredKept ==
  ASSUME NEW m, Fits(m), NEW n, ButNext(m, n), Kept(m, n), AiredInOrder(m)
  PROVE  AiredInOrder(n)
<1>1. /\ Aired(n.pl) = Aired(m.pl) /\ n.pl.current = m.pl.current
      /\ n.pl.previous = m.pl.previous /\ n.pl.activation = m.pl.activation
      /\ n.purged = m.purged
  BY DEF ButNext, Aired, Kept
<1>2. Aired(n.pl) \subseteq (DOMAIN n.pis \cap DOMAIN m.pis) \ n.purged
  BY <1>1 DEF AiredInOrder, Kept
<1>3. \A i \in Aired(n.pl) :
        n.pis[i].taken /\ (~PlayFromAnywhere => n.pis[i].activation = n.pl.activation)
  BY <1>1, <1>2 DEF AiredInOrder, Kept, Alike
<1>4. n.pl.current # NoInstance =>
        n.pl.current \notin n.deferred /\ (~PlayFromAnywhere => ~n.pis[n.pl.current].reset)
  <2>1. n.pl.current # NoInstance => n.pl.current \in Aired(n.pl)
    BY DEF Aired
  <2> QED BY <1>1, <1>2, <2>1 DEF AiredInOrder, Kept
<1>5. \A i \in DOMAIN n.pis : ~n.pis[i].taken => i \in n.loaded
  BY DEF AiredInOrder, Kept, Alike
<1> QED BY <1>1, <1>2, <1>3, <1>4, <1>5 DEF AiredInOrder

LEMMA NothingAired ==
  ASSUME NEW m, m.pl.current = NoInstance, m.pl.previous = <<>>, UntakenLoaded(m)
  PROVE  AiredInOrder(m)
<1>1. Range(m.pl.previous) = {}
  BY DEF Range
<1>2. Aired(m.pl) = {}
  BY <1>1 DEF Aired
<1>3. IsInjective(m.pl.previous)
  BY DEF IsInjective
<1> QED BY <1>1, <1>2, <1>3 DEF AiredInOrder, UntakenLoaded

-----------------------------------------------------------------------------
(* Resetting the playlist.  Every instance there is becomes one that does  *)
(* not come back: it is reset or removed, now or after the save, or it is  *)
(* a new one, in memory and never taken.                                   *)
Spent(m) ==
  \A i \in DOMAIN m.pis :
    m.pis[i].reset \/ i \in m.deferred \/ i \in m.purged \/ (i \in m.loaded /\ ~m.pis[i].taken)

LEMMA SpentKept ==
  ASSUME NEW m, NEW n, Kept(m, n), Spent(m)
  PROVE  Spent(n)
<1>1. ASSUME NEW i \in DOMAIN n.pis \cap DOMAIN m.pis
      PROVE  n.pis[i].reset \/ i \in n.deferred \/ i \in n.purged \/ (i \in n.loaded /\ ~n.pis[i].taken)
  BY <1>1 DEF Kept, Spent, Alike
<1>2. ASSUME NEW i \in DOMAIN n.pis \ DOMAIN m.pis
      PROVE  i \in n.loaded /\ ~n.pis[i].taken
  BY <1>2 DEF Kept
<1> QED BY <1>1, <1>2 DEF Spent

LEMMA RehearsalsGone ==
  ASSUME NEW m, Fits(m), NEW n, n = RemoveAllRehearsalPartInstances(m)
  PROVE  /\ Fits(n) /\ n.pl = m.pl /\ n.rundown = m.rundown /\ Sourced(m, n)
         /\ UntakenLoaded(m) => UntakenLoaded(n)
<1> DEFINE rehearsed == {i \in DOMAIN m.pis : m.pis[i].rehearsal}
           S == rehearsed \cap m.loaded
           r == RemoveInstances(m, S)
<1>1. n = [r EXCEPT !.purged = r.purged \cup (rehearsed \ m.loaded)]
  BY DEF RemoveAllRehearsalPartInstances
<1>2. S \in SUBSET InstanceIds /\ rehearsed \subseteq DOMAIN m.pis
  BY ModelTypes
<1> HIDE DEF S, rehearsed
<1>3. /\ Fits(r) /\ r.pl = m.pl /\ r.rundown = m.rundown /\ r.loaded = m.loaded \ S
      /\ r.used = m.used /\ DOMAIN r.pis = DOMAIN m.pis \ S
      /\ \A i \in DOMAIN r.pis : r.pis[i] = m.pis[i]
  BY <1>2, RemoveEffect DEF SameSlots
<1> HIDE DEF r
<1>4. rehearsed \subseteq InstanceIds /\ rehearsed \subseteq m.used
  BY <1>2, ModelTypes DEF Fits
<1>5. /\ n \in Models /\ n.pl = r.pl /\ n.rundown = r.rundown /\ n.pis = r.pis
      /\ n.loaded = r.loaded /\ n.deferred = r.deferred /\ n.used = r.used
      /\ n.purged = r.purged \cup (rehearsed \ m.loaded)
  BY <1>1, <1>3, <1>4 DEF Fits, Models
<1>6. Fits(n)
  BY <1>3, <1>4, <1>5 DEF Fits
<1>7. UntakenLoaded(m) => UntakenLoaded(n)
  BY <1>3, <1>5 DEF UntakenLoaded
<1>8. Sourced(m, n)
  BY <1>3, <1>5 DEF Sourced, Fits
<1> QED BY <1>3, <1>5, <1>6, <1>7, <1>8

(* What a reset, or an activation from the start, leads to.                *)
Restarted(n) ==
  /\ Fits(n) /\ UntakenGone(n) /\ n.pl.hold = "none"
  /\ n.pl.current = NoInstance /\ n.pl.previous = <<>>
  /\ NextInOrder(n)
  /\ n.pl.next.id # NoInstance => n.pis[n.pl.next.id].activation = n.pl.activation

LEMMA RestartKeeps ==
  ASSUME NEW m, Fits(m), m.pl.next = NoNext, m.pl.hold = "none", m.pl.current = NoInstance,
         m.pl.previous = <<>>,
         NEW c, IsChoice(m, c), c.instance = NoInstance,
         c # NoSelection => m.pl.activation # None,
         NEW n \in SetNextPart(m, c)
  PROVE  /\ Restarted(n) /\ n.pl.activation = m.pl.activation /\ Sourced(m, n)
         /\ UntakenLoaded(m) => AiredInOrder(n)
         /\ Spent(m) => Spent(n)
<1>1. SoundChoice(m, c) /\ NextInOrder(m)
  BY DEF SoundChoice, NextInOrder
<1>2. /\ Fits(n) /\ ButNext(m, n) /\ Kept(m, n) /\ FreshNext(m, c, n) /\ UntakenGone(n)
      /\ NextInOrder(n)
  BY <1>1, SetNextPartKeeps
<1>5. ASSUME n.pl.next.id # NoInstance
      PROVE  n.pis[n.pl.next.id].activation = n.pl.activation
  <2>1. n.pl.next.id \notin m.used
    BY <1>2, <1>5 DEF FreshNext, NoNext
  <2>2. n.pl.next.id \in DOMAIN n.pis \ DOMAIN m.pis
    BY <1>2, <1>5, <2>1 DEF NextInOrder, NoNext, Fits
  <2> QED BY <1>2, <2>2 DEF Kept, ButNext
<1>3. Restarted(n) /\ n.pl.activation = m.pl.activation
  BY <1>2, <1>5 DEF Restarted, ButNext
<1>4. UntakenLoaded(m) => AiredInOrder(n)
  BY <1>2, NothingAired, AiredKept
<1> QED BY <1>2, <1>3, <1>4, SpentKept, KeptSourced

LEMMA SetNextPartWorks ==
  ASSUME NEW m, NEW c, c.instance = NoInstance
  PROVE  SetNextPart(m, c) # {}
<1>1. SetNextPartOnce(m, c) \in MovedNext(m, c)
  BY DEF MovedNext
<1> QED BY <1>1 DEF SetNextPart

LEMMA ResetPlaylistEffect ==
  ASSUME NEW m, Fits(m), NEW n, n = ResetPlaylist(m, m.pl.activation # None)
  PROVE  /\ Fits(n) /\ SameStore(m, n)
         /\ n.pl.current = NoInstance /\ n.pl.next = NoNext /\ n.pl.previous = <<>>
         /\ n.pl.hold = "none"
         /\ m.pl.activation # None => n.pl.activation # None
<1>1. m.pl.activation \in Nat /\ NewActivation(m) \in Nat \ {None} /\ m.pl.rehearsal \in BOOLEAN
  BY ModelTypes, NewActivationIsNew DEF Playlist
<1>2. CASE m.pl.activation # None
  <2>1. n = WithSlots(m, Emptied(m.pl, NewActivation(m), m.pl.rehearsal))
    BY <1>1, <1>2, EmptyingSteps
  <2> QED BY <1>1, <2>1, EmptiedEffect
<1>3. CASE m.pl.activation = None
  <2>1. n = WithSlots(m, Emptied(m.pl, m.pl.activation, m.pl.rehearsal))
    BY <1>1, <1>3, EmptyingSteps
  <2> QED BY <1>1, <1>3, <2>1, EmptiedEffect
<1> QED BY <1>2, <1>3

LEMMA ResetRundownPlaylistRestarts ==
  ASSUME NEW m, Fits(m)
  PROVE  /\ ResetRundownPlaylist(m) # {}
         /\ \A n \in ResetRundownPlaylist(m) :
              /\ Restarted(n) /\ Spent(n) /\ Sourced(m, n)
              /\ UntakenLoaded(m) => AiredInOrder(n)
<1> DEFINE active == m.pl.activation # None
           emptied == ResetPlaylist(m, active)
           cleared == RemoveAllRehearsalPartInstances(emptied)
           all == {i \in DOMAIN cleared.pis : ~cleared.pis[i].reset}
           reset == ResetPartInstances(cleared, all)
           c == IF active THEN SelectFirstPart(reset) ELSE NoSelection
<1>1. ResetRundownPlaylist(m) = SetNextPart(reset, c)
  BY DEF ResetRundownPlaylist
<1> HIDE DEF emptied
<1>3. /\ Fits(emptied) /\ SameStore(m, emptied)
      /\ emptied.pl.current = NoInstance /\ emptied.pl.next = NoNext
      /\ emptied.pl.previous = <<>> /\ emptied.pl.hold = "none"
      /\ active => emptied.pl.activation # None
  BY ResetPlaylistEffect DEF emptied
<1>4. /\ Fits(cleared) /\ cleared.pl = emptied.pl /\ Sourced(emptied, cleared)
      /\ UntakenLoaded(emptied) => UntakenLoaded(cleared)
  BY <1>3, RehearsalsGone
<1> HIDE DEF cleared
<1>5. all \in SUBSET DOMAIN cleared.pis /\ \A i \in DOMAIN cleared.pis \ all : cleared.pis[i].reset
  OBVIOUS
<1> HIDE DEF all
<1>6. /\ Fits(reset) /\ reset.pl = emptied.pl /\ reset.loaded = cleared.loaded
      /\ reset.rundown = cleared.rundown /\ reset.used = cleared.used
      /\ reset.deferred = cleared.deferred \cup (all \ cleared.loaded)
      /\ DOMAIN reset.pis = DOMAIN cleared.pis
      /\ \A i \in DOMAIN cleared.pis :
           /\ Alike(cleared.pis[i], reset.pis[i])
           /\ i \in all \cap cleared.loaded => reset.pis[i].reset
           /\ i \notin all \cap cleared.loaded => reset.pis[i] = cleared.pis[i]
  BY <1>4, <1>5, ResetEffect DEF SameSlots
<1>7. Spent(reset)
  BY <1>5, <1>6 DEF Spent
<1>8. UntakenLoaded(m) => UntakenLoaded(reset)
  BY <1>3, <1>4, <1>6 DEF UntakenLoaded, SameStore, Alike
<1>13. Sourced(m, reset)
  <2>1. Selected(emptied.pl) = {}
    BY <1>3 DEF Selected, NoNext, Range
  <2>2. Sourced(m, emptied)
    BY <1>3, <2>1, SlotsSourced
  <2>3. Sourced(cleared, reset)
    BY <1>4, <1>6 DEF Sourced, Alike, Fits
  <2> QED BY <1>4, <2>2, <2>3, SourcedTransitive
<1> HIDE DEF reset
<1>9. IsChoice(reset, c) /\ c.instance = NoInstance /\ (c # NoSelection => active)
  <2>1. PlayableParts(reset) \in SUBSET Parts
    BY DEF PlayableParts
  <2>2. /\ IsChoice(reset, SelectFirstPart(reset))
        /\ SelectFirstPart(reset).instance = NoInstance
    BY <1>6, <2>1, SelectNextPartIsChoice DEF SelectFirstPart
  <2>3. IsChoice(reset, NoSelection) /\ NoSelection.instance = NoInstance
    BY DEF IsChoice, NoSelection
  <2> QED BY <2>2, <2>3
<1> HIDE DEF c
<1>10. reset.pl.next = NoNext
  BY <1>3, <1>6
<1>11. ASSUME NEW n \in SetNextPart(reset, c)
       PROVE  /\ Restarted(n) /\ Spent(n) /\ Sourced(m, n)
              /\ UntakenLoaded(m) => AiredInOrder(n)
  BY <1>3, <1>6, <1>7, <1>8, <1>9, <1>10, <1>13, RestartKeeps, SourcedTransitive
<1>12. SetNextPart(reset, c) # {}
  BY <1>9, SetNextPartWorks
<1> QED BY <1>1, <1>11, <1>12

-----------------------------------------------------------------------------
(* Activating.  With nothing on air that could go on, from the start.      *)
LEMMA ActivateInnerRestarts ==
  ASSUME NEW m, Fits(m), NEW r \in BOOLEAN,
         m.pl.current \notin DOMAIN m.pis \/ m.pis[m.pl.current].reset
  PROVE  /\ ActivateInner(m, r) # {}
         /\ \A n \in ActivateInner(m, r) :
              /\ Restarted(n) /\ Sourced(m, n)
              /\ UntakenLoaded(m) => AiredInOrder(n)
              /\ Spent(m) => Spent(n)
<1> DEFINE activated == [m EXCEPT !.pl.activation = NewActivation(m), !.pl.rehearsal = r]
           cleared == ClearSelectedPartInstances(activated)
           c == SelectFirstPart(cleared)
<1>1. ActivateInner(m, r) = SetNextPart(cleared, c)
  BY DEF ActivateInner
<1>2. NewActivation(m) \in Nat \ {None}
  BY NewActivationIsNew
<1>3. cleared = WithSlots(m, Emptied(m.pl, NewActivation(m), r))
  BY <1>2, EmptyingSteps
<1> HIDE DEF cleared
<1>4. /\ Fits(cleared) /\ SameStore(m, cleared)
      /\ cleared.pl.current = NoInstance /\ cleared.pl.next = NoNext /\ cleared.pl.previous = <<>>
      /\ cleared.pl.hold = "none" /\ cleared.pl.activation = NewActivation(m)
      /\ NextInOrder(cleared)
  BY <1>2, <1>3, EmptiedEffect
<1>5. IsChoice(cleared, c) /\ c.instance = NoInstance
  <2>1. PlayableParts(cleared) \in SUBSET Parts
    BY DEF PlayableParts
  <2> QED BY <1>4, <2>1, SelectNextPartIsChoice DEF SelectFirstPart
<1> HIDE DEF c
<1>6. /\ UntakenLoaded(m) => UntakenLoaded(cleared)
      /\ Spent(m) => Spent(cleared)
  BY <1>4 DEF SameStore, UntakenLoaded, Spent
<1>9. Sourced(m, cleared)
  <2>1. Selected(cleared.pl) = {}
    BY <1>4 DEF Selected, NoNext, Range
  <2> QED BY <1>4, <2>1, SlotsSourced
<1>7. ASSUME NEW n \in SetNextPart(cleared, c)
      PROVE  /\ Restarted(n) /\ Sourced(m, n)
             /\ UntakenLoaded(m) => AiredInOrder(n)
             /\ Spent(m) => Spent(n)
  BY <1>2, <1>4, <1>5, <1>6, <1>9, RestartKeeps, SourcedTransitive
<1>8. SetNextPart(cleared, c) # {}
  BY <1>5, SetNextPartWorks
<1> QED BY <1>1, <1>7, <1>8

(* What is on air goes on, and belongs to the new activation.              *)
LEMMA ActivateInnerPreserves ==
  ASSUME NEW m, Fits(m), NEW r \in BOOLEAN,
         m.pl.current \in DOMAIN m.pis, ~m.pis[m.pl.current].reset,
         NEW n \in ActivateInner(m, r)
  PROVE  /\ Fits(n) /\ Sourced(m, n)
         /\ n.pl.hold = m.pl.hold /\ n.pl.current = m.pl.current /\ n.pl.next = m.pl.next
         /\ n.pl.previous = m.pl.previous /\ n.pl.queued = m.pl.queued
         /\ AiredInOrder(m) => AiredInOrder(n)
         /\ NextInOrder(m) => NextInOrder(n)
         /\ DOMAIN n.pis = DOMAIN m.pis
         /\ \A i \in DOMAIN m.pis : /\ n.pis[i].taken = m.pis[i].taken
                                    /\ n.pis[i].started = m.pis[i].started
<1> DEFINE a == NewActivation(m)
           S == Selected(m.pl)
           pl == [m.pl EXCEPT !.activation = a, !.rehearsal = r]
           pis == [i \in DOMAIN m.pis |-> IF i \in S THEN [m.pis[i] EXCEPT !.activation = a]
                                          ELSE m.pis[i]]
<1>1. a \in Nat \ {None} /\ m.pl \in Playlist /\ m \in Models
  BY NewActivationIsNew, ModelTypes DEF Fits
<1> HIDE DEF a
<1>2. n = [[m EXCEPT !.pl.activation = a, !.pl.rehearsal = r] EXCEPT !.pis = pis]
  BY DEF ActivateInner, a
<1>3. /\ pl \in Playlist /\ pl.activation = a /\ pl.hold = m.pl.hold
      /\ pl.current = m.pl.current /\ pl.next = m.pl.next /\ pl.previous = m.pl.previous
      /\ pl.queued = m.pl.queued
  BY <1>1 DEF Playlist
<1>4. pis \in [DOMAIN m.pis -> PartInstance]
  BY <1>1, ModelTypes DEF PartInstance
<1>5. pis \in Collections /\ DOMAIN pis = DOMAIN m.pis
  BY <1>4, ModelTypes, CollectionMade
<1>6. \A i \in DOMAIN m.pis :
        /\ pis[i].taken = m.pis[i].taken /\ pis[i].started = m.pis[i].started
        /\ pis[i].reset = m.pis[i].reset /\ pis[i].orphaned = m.pis[i].orphaned
        /\ i \in S => pis[i].activation = a
  BY ModelTypes DEF PartInstance
<1>7. n = [m EXCEPT !.pl = pl, !.pis = pis]
  <2> HIDE DEF pis
  <2> QED BY <1>1, <1>2 DEF Models
<1> HIDE DEF pis, pl
<1>8. /\ n \in Models /\ n.pl = pl /\ n.pis = pis /\ n.loaded = m.loaded
      /\ n.deferred = m.deferred /\ n.purged = m.purged /\ n.used = m.used
      /\ n.rundown = m.rundown
  BY <1>1, <1>3, <1>5, <1>7 DEF Models
<1>9. Selected(pl) = S /\ Aired(pl) = Aired(m.pl)
  BY <1>3 DEF Selected, Aired
<1>14. Sourced(m, n)
  BY <1>5, <1>6, <1>8, <1>9 DEF Sourced, Fits
<1> HIDE DEF S
<1>10. Fits(n)
  BY <1>3, <1>5, <1>8, <1>9 DEF Fits, S
<1>11. Aired(pl) \subseteq S /\ (m.pl.next.id # NoInstance => m.pl.next.id \in S)
  BY <1>9 DEF Aired, Selected, S
<1>12. AiredInOrder(m) => AiredInOrder(n)
  BY <1>1, <1>3, <1>5, <1>6, <1>8, <1>9, <1>11 DEF AiredInOrder
<1>13. NextInOrder(m) => NextInOrder(n)
  <2>1. m.pl.next.id \in DOMAIN m.pis => m.pl.next.id # NoInstance
    BY ModelTypes
  <2> QED BY <1>1, <1>3, <1>5, <1>6, <1>8, <1>11, <2>1 DEF NextInOrder
<1> QED BY <1>3, <1>5, <1>6, <1>8, <1>10, <1>12, <1>13, <1>14

-----------------------------------------------------------------------------
(* Pruning the earlier instances leaves some of them, the latest first.    *)
SameButPrevious(m, n) ==
  /\ n.pl.activation = m.pl.activation /\ n.pl.rehearsal = m.pl.rehearsal
  /\ n.pl.hold = m.pl.hold /\ n.pl.queued = m.pl.queued
  /\ n.pl.current = m.pl.current /\ n.pl.next = m.pl.next

FrontOf(s, t) ==
  /\ Range(t) \subseteq Range(s) /\ (IsInjective(s) => IsInjective(t))
  /\ s = <<>> => t = <<>>
  /\ s # <<>> => t # <<>> /\ Head(t) = Head(s)

LEMMA PruneEffect ==
  ASSUME NEW m, Fits(m), NEW n \in PrunePreviousPartInstances(m)
  PROVE  /\ Fits(n) /\ SameStore(m, n) /\ SameButPrevious(m, n)
         /\ FrontOf(m.pl.previous, n.pl.previous) /\ Len(n.pl.previous) <= MaxPrevious
<1>1. m.pl.previous \in Seq(InstanceIds) /\ m.pl \in Playlist /\ m \in Models
  BY ModelTypes DEF Fits
<1>2. MaxPrevious \in Nat
  BY SettingTypes DEF Fits
<1>3. CASE m.pl.previous = <<>>
  <2>1. n = m /\ Len(m.pl.previous) = 0
    BY <1>3 DEF PrunePreviousPartInstances
  <2> QED BY <1>2, <1>3, <2>1 DEF SameStore, SameButPrevious, FrontOf
<1>4. CASE m.pl.previous # <<>>
  <2>1. PICK k \in 1..Len(m.pl.previous) :
          k <= MaxPrevious /\ n = [m EXCEPT !.pl.previous = SubSeq(m.pl.previous, 1, k)]
    BY <1>4 DEF PrunePreviousPartInstances
  <2> DEFINE s == SubSeq(m.pl.previous, 1, k)
             pl == [m.pl EXCEPT !.previous = s]
  <2>2. /\ s \in Seq(InstanceIds) /\ Len(s) = k /\ s # <<>> /\ Head(s) = Head(m.pl.previous)
        /\ Range(s) \subseteq Range(m.pl.previous)
        /\ IsInjective(m.pl.previous) => IsInjective(s)
    BY <1>1, FrontEntries
  <2> HIDE DEF s
  <2>3. n = WithSlots(m, pl)
    BY <2>1 DEF WithSlots, s
  <2>4. /\ pl \in Playlist /\ pl.previous = s
        /\ pl.activation = m.pl.activation /\ pl.rehearsal = m.pl.rehearsal
        /\ pl.hold = m.pl.hold /\ pl.queued = m.pl.queued
        /\ pl.current = m.pl.current /\ pl.next = m.pl.next
    BY <1>1, <2>2 DEF Playlist
  <2> HIDE DEF pl
  <2>5. Selected(pl) \subseteq Selected(m.pl)
    BY <2>2, <2>4 DEF Selected
  <2>6. Fits(n) /\ SameStore(m, n) /\ n.pl = pl
    BY <2>3, <2>4, <2>5, SlotsEffect DEF Fits
  <2> QED BY <1>4, <2>1, <2>2, <2>4, <2>6 DEF SameButPrevious, FrontOf
<1> QED BY <1>3, <1>4

(* Moving on: what is next is on air, and what was on air is the first of  *)
(* the earlier ones.                                                       *)
Cycled(m, n) ==
  /\ n.pl.activation = m.pl.activation /\ n.pl.hold = m.pl.hold /\ n.pl.queued = m.pl.queued
  /\ n.pl.current = m.pl.next.id /\ n.pl.next = NoNext
  /\ Range(n.pl.previous) \subseteq Aired(m.pl)
  /\ m.pl.current # NoInstance => n.pl.previous # <<>> /\ Head(n.pl.previous) = m.pl.current
  /\ IsInjective(m.pl.previous) /\ m.pl.current \notin Range(m.pl.previous)
       => IsInjective(n.pl.previous)
  /\ Len(n.pl.previous) <= MaxPrevious

LEMMA CycleEffect ==
  ASSUME NEW m, Fits(m), NEW n \in CycleSelectedPartInstances(m)
  PROVE  Fits(n) /\ SameStore(m, n) /\ Cycled(m, n)
<1>1. /\ m.pl.previous \in Seq(InstanceIds) /\ m.pl \in Playlist /\ m \in Models
      /\ m.pl.current \in InstanceIds \cup {NoInstance} /\ NoInstance \notin InstanceIds
      /\ m.pl.next.id \in InstanceIds \cup {NoInstance}
      /\ Range(m.pl.previous) \subseteq InstanceIds
  BY ModelTypes DEF Fits
<1> DEFINE previous == IF m.pl.current = NoInstance THEN m.pl.previous
                       ELSE <<m.pl.current>> \o m.pl.previous
           pl == [m.pl EXCEPT !.previous = previous, !.current = m.pl.next.id, !.next = NoNext]
           x == WithSlots(m, pl)
<1>2. [m EXCEPT !.pl.previous = previous, !.pl.current = m.pl.next.id, !.pl.next = NoNext] = x
  <2> HIDE DEF previous
  <2> QED BY <1>1 DEF WithSlots, Models
<1>3. n \in PrunePreviousPartInstances(x)
  BY <1>2 DEF CycleSelectedPartInstances
<1>4. /\ previous \in Seq(InstanceIds) /\ Range(previous) = Aired(m.pl)
      /\ m.pl.current # NoInstance => previous # <<>> /\ Head(previous) = m.pl.current
      /\ IsInjective(m.pl.previous) /\ m.pl.current \notin Range(m.pl.previous)
           => IsInjective(previous)
  <2>1. CASE m.pl.current = NoInstance
    BY <1>1, <2>1 DEF Aired
  <2>2. CASE m.pl.current # NoInstance
    <3>1. m.pl.current \in InstanceIds
      BY <1>1, <2>2
    <3>2. /\ previous = <<m.pl.current>> \o m.pl.previous
          /\ previous \in Seq(InstanceIds) /\ previous # <<>> /\ Head(previous) = m.pl.current
          /\ Range(previous) = {m.pl.current} \cup Range(m.pl.previous)
          /\ IsInjective(m.pl.previous) /\ m.pl.current \notin Range(m.pl.previous)
               => IsInjective(previous)
      BY <1>1, <2>2, <3>1, PrependEntries
    <3> HIDE DEF previous
    <3>3. Range(previous) = Aired(m.pl)
      BY <1>1, <3>1, <3>2 DEF Aired
    <3> QED BY <3>2, <3>3
  <2> QED BY <2>1, <2>2
<1> HIDE DEF previous
<1>5. NoNext \in NextInfo /\ NoNext.id = NoInstance /\ ~NoNext.consumes
  BY DEF NoNext, NextInfo
<1>6. /\ pl \in Playlist /\ pl.previous = previous /\ pl.current = m.pl.next.id /\ pl.next = NoNext
      /\ pl.activation = m.pl.activation /\ pl.rehearsal = m.pl.rehearsal
      /\ pl.hold = m.pl.hold /\ pl.queued = m.pl.queued
  BY <1>1, <1>4, <1>5 DEF Playlist
<1> HIDE DEF pl
<1>7. Selected(pl) \subseteq Selected(m.pl)
  BY <1>4, <1>5, <1>6 DEF Selected, Aired
<1>8. Fits(x) /\ SameStore(m, x) /\ x.pl = pl
  BY <1>5, <1>6, <1>7, SlotsEffect DEF Fits
<1> HIDE DEF x
<1>9. /\ Fits(n) /\ SameStore(x, n) /\ SameButPrevious(x, n)
      /\ FrontOf(x.pl.previous, n.pl.previous) /\ Len(n.pl.previous) <= MaxPrevious
  BY <1>3, <1>8, PruneEffect
<1>10. SameStore(m, n)
  BY <1>8, <1>9 DEF SameStore
<1>11. Cycled(m, n)
  BY <1>4, <1>6, <1>8, <1>9 DEF Cycled, SameButPrevious, FrontOf
<1> QED BY <1>9, <1>10, <1>11

LEMMA CycledSourced ==
  ASSUME NEW m, Fits(m), NEW n, SameStore(m, n), Cycled(m, n)
  PROVE  Sourced(m, n)
<1>1. Selected(n.pl) \subseteq Selected(m.pl)
  BY DEF Cycled, Selected, Aired, NoNext
<1> QED BY <1>1, SlotsSourced

(* An instance is marked as taken, or as started.                          *)
Marked(m, n) ==
  /\ n.pl = m.pl /\ n.loaded = m.loaded /\ n.deferred = m.deferred
  /\ n.purged = m.purged /\ n.used = m.used /\ n.rundown = m.rundown
  /\ DOMAIN n.pis = DOMAIN m.pis
  /\ \A j \in DOMAIN m.pis :
       /\ n.pis[j].activation = m.pis[j].activation /\ n.pis[j].reset = m.pis[j].reset
       /\ n.pis[j].orphaned = m.pis[j].orphaned
       /\ m.pis[j].taken => n.pis[j].taken
       /\ m.pis[j].started => n.pis[j].started

LEMMA MarkEffect ==
  ASSUME NEW m, Fits(m), NEW i \in DOMAIN m.pis
  PROVE  /\ Fits(MarkTaken(m, i)) /\ Marked(m, MarkTaken(m, i))
         /\ MarkTaken(m, i).pis[i].taken
         /\ \A j \in DOMAIN m.pis \ {i} : MarkTaken(m, i).pis[j] = m.pis[j]
         /\ Fits(ReportPartInstanceHasStarted(m, i)) /\ Marked(m, ReportPartInstanceHasStarted(m, i))
         /\ ReportPartInstanceHasStarted(m, i).pis[i].started
         /\ \A j \in DOMAIN m.pis : ReportPartInstanceHasStarted(m, i).pis[j].taken = m.pis[j].taken
<1> DEFINE taken == [m.pis EXCEPT ![i].taken = TRUE]
           started == [m.pis EXCEPT ![i].started = TRUE]
           t == MarkTaken(m, i)
           s == ReportPartInstanceHasStarted(m, i)
<1>1. m \in Models /\ m.pis \in [DOMAIN m.pis -> PartInstance] /\ DOMAIN m.pis \subseteq InstanceIds
  BY ModelTypes DEF Fits
<1>2. t = [m EXCEPT !.pis = taken] /\ s = [m EXCEPT !.pis = started]
  BY DEF MarkTaken, ReportPartInstanceHasStarted
<1>3. taken \in [DOMAIN m.pis -> PartInstance] /\ started \in [DOMAIN m.pis -> PartInstance]
  BY <1>1 DEF PartInstance
<1>4. taken \in Collections /\ started \in Collections
  BY <1>1, <1>3, CollectionMade
<1>5. \A j \in DOMAIN m.pis :
        /\ taken[j].activation = m.pis[j].activation /\ taken[j].reset = m.pis[j].reset
        /\ taken[j].orphaned = m.pis[j].orphaned
        /\ m.pis[j].taken => taken[j].taken
        /\ m.pis[j].started => taken[j].started
        /\ j # i => taken[j] = m.pis[j]
  BY <1>1 DEF PartInstance
<1>6. \A j \in DOMAIN m.pis :
        /\ started[j].activation = m.pis[j].activation /\ started[j].reset = m.pis[j].reset
        /\ started[j].orphaned = m.pis[j].orphaned
        /\ started[j].taken = m.pis[j].taken
        /\ m.pis[j].started => started[j].started
  BY <1>1 DEF PartInstance
<1>7. taken[i].taken /\ started[i].started
  BY <1>1 DEF PartInstance
<1>8. DOMAIN taken = DOMAIN m.pis /\ DOMAIN started = DOMAIN m.pis
  OBVIOUS
<1> HIDE DEF taken, started
<1>9. /\ t \in Models /\ t.pis = taken /\ t.pl = m.pl /\ t.loaded = m.loaded
      /\ t.deferred = m.deferred /\ t.purged = m.purged /\ t.used = m.used /\ t.rundown = m.rundown
  BY <1>1, <1>2, <1>4 DEF Models
<1>10. /\ s \in Models /\ s.pis = started /\ s.pl = m.pl /\ s.loaded = m.loaded
       /\ s.deferred = m.deferred /\ s.purged = m.purged /\ s.used = m.used /\ s.rundown = m.rundown
  BY <1>1, <1>2, <1>4 DEF Models
<1> HIDE DEF t, s
<1>11. Fits(t) /\ Fits(s)
  BY <1>8, <1>9, <1>10 DEF Fits
<1>12. Marked(m, t) /\ Marked(m, s)
  BY <1>5, <1>6, <1>8, <1>9, <1>10 DEF Marked
<1> QED BY <1>5, <1>6, <1>7, <1>9, <1>10, <1>11, <1>12 DEF t, s

LEMMA MarkedSourced ==
  ASSUME NEW m, Fits(m), NEW n, Marked(m, n)
  PROVE  Sourced(m, n)
BY DEF Marked, Sourced, Fits

-----------------------------------------------------------------------------
(* All that is asked of a model that a job starts from, or leaves.         *)
OnlyNext(m) == \A i \in DOMAIN m.pis : ~m.pis[i].taken => i = m.pl.next.id

Playing(m) == ~GatewayAttached /\ m.pl.current # NoInstance => m.pis[m.pl.current].started

HeldPair(i, j) ==
  PartOf(i) \in HoldFrom /\ PartOf(j) \in HoldTo /\ SegmentOfInstance(i) = SegmentOfInstance(j)

HoldInOrder(pl) ==
  /\ pl.hold = "pending" => HeldPair(pl.current, pl.next.id)
  /\ pl.hold \in {"active", "complete"} =>
       pl.previous # <<>> /\ HeldPair(Head(pl.previous), pl.current)

Sane(m) == Fits(m) /\ Len(m.pl.previous) <= MaxPrevious

(* The slots are in order, and so is the hold.  (An ingest job may break   *)
(* a hold, but not the rest.)                                              *)
InPlace(m) == AiredInOrder(m) /\ NextInOrder(m) /\ OnlyNext(m) /\ Playing(m)

InOrder(m) == InPlace(m) /\ HoldInOrder(m.pl)

LEMMA UntakenIsNext ==
  ASSUME NEW m, Fits(m), UntakenGone(m), AiredInOrder(m)
  PROVE  OnlyNext(m)
<1>1. ASSUME NEW i \in DOMAIN m.pis, ~m.pis[i].taken
      PROVE  i = m.pl.next.id
  <2>1. i \in Selected(m.pl)
    BY <1>1 DEF AiredInOrder, UntakenGone
  <2>2. i \notin Aired(m.pl)
    BY <1>1 DEF AiredInOrder
  <2> QED BY <2>1, <2>2 DEF Aired, Selected
<1> QED BY <1>1 DEF OnlyNext

LEMMA RestartedInOrder ==
  ASSUME NEW m, Restarted(m), AiredInOrder(m)
  PROVE  InPlace(m) /\ InOrder(m)
<1>1. OnlyNext(m)
  BY UntakenIsNext DEF Restarted
<1>2. Playing(m) /\ HoldInOrder(m.pl)
  BY DEF Restarted, Playing, HoldInOrder
<1> QED BY <1>1, <1>2 DEF InPlace, InOrder, Restarted

LEMMA RestartedIsSane ==
  ASSUME NEW m, Restarted(m)
  PROVE  Sane(m)
<1>1. MaxPrevious \in Nat \ {0} /\ Len(<<>>) = 0
  BY SettingTypes DEF Restarted, Fits
<1> QED BY <1>1 DEF Restarted, Sane

-----------------------------------------------------------------------------
(* The hold and the queue are changed alone.                               *)
SameSelection(m, n) ==
  /\ n.pl.activation = m.pl.activation /\ n.pl.rehearsal = m.pl.rehearsal
  /\ n.pl.current = m.pl.current /\ n.pl.next = m.pl.next /\ n.pl.previous = m.pl.previous

WithHold(m, h) == [m EXCEPT !.pl.hold = h]
WithQueued(m, q) == [m EXCEPT !.pl.queued = q]

LEMMA HoldEffect ==
  ASSUME NEW m, Fits(m), NEW h \in HoldStates, NEW n, n = WithHold(m, h)
  PROVE  /\ Fits(n) /\ SameStore(m, n) /\ SameSelection(m, n)
         /\ n.pl.hold = h /\ n.pl.queued = m.pl.queued
<1> DEFINE pl == [m.pl EXCEPT !.hold = h]
<1>1. m.pl \in Playlist /\ n = WithSlots(m, pl)
  BY ModelTypes DEF WithSlots, WithHold
<1>2. /\ pl \in Playlist /\ pl.hold = h /\ pl.queued = m.pl.queued
      /\ pl.activation = m.pl.activation /\ pl.rehearsal = m.pl.rehearsal
      /\ pl.current = m.pl.current /\ pl.next = m.pl.next /\ pl.previous = m.pl.previous
  BY <1>1 DEF Playlist
<1> HIDE DEF pl
<1>3. /\ Selected(pl) \subseteq m.used
      /\ pl.current # NoInstance => pl.current # pl.next.id
      /\ pl.next.consumes => pl.next.id # NoInstance
  BY <1>2 DEF Selected, Fits
<1>4. Fits(n) /\ SameStore(m, n) /\ n.pl = pl
  BY <1>1, <1>2, <1>3, SlotsEffect
<1> QED BY <1>2, <1>4 DEF SameSelection

LEMMA QueueEffect ==
  ASSUME NEW m, Fits(m), NEW q \in Segments \cup {None}, NEW n, n = WithQueued(m, q)
  PROVE  /\ Fits(n) /\ SameStore(m, n) /\ SameSelection(m, n)
         /\ n.pl.hold = m.pl.hold /\ n.pl.queued = q
<1> DEFINE pl == [m.pl EXCEPT !.queued = q]
<1>1. m.pl \in Playlist /\ n = WithSlots(m, pl)
  BY ModelTypes DEF WithSlots, WithQueued
<1>2. /\ pl \in Playlist /\ pl.queued = q /\ pl.hold = m.pl.hold
      /\ pl.activation = m.pl.activation /\ pl.rehearsal = m.pl.rehearsal
      /\ pl.current = m.pl.current /\ pl.next = m.pl.next /\ pl.previous = m.pl.previous
  BY <1>1 DEF Playlist
<1> HIDE DEF pl
<1>3. /\ Selected(pl) \subseteq m.used
      /\ pl.current # NoInstance => pl.current # pl.next.id
      /\ pl.next.consumes => pl.next.id # NoInstance
  BY <1>2 DEF Selected, Fits
<1>4. Fits(n) /\ SameStore(m, n) /\ n.pl = pl
  BY <1>1, <1>2, <1>3, SlotsEffect
<1> QED BY <1>2, <1>4 DEF SameSelection

LEMMA SelectionKept ==
  ASSUME NEW m, NEW n, SameStore(m, n), SameSelection(m, n)
  PROVE  /\ AiredInOrder(m) => AiredInOrder(n)
         /\ NextInOrder(m) => NextInOrder(n)
         /\ OnlyNext(m) => OnlyNext(n)
         /\ Playing(m) => Playing(n)
<1>1. Aired(n.pl) = Aired(m.pl)
  BY DEF SameSelection, Aired
<1> QED BY <1>1 DEF SameStore, SameSelection, AiredInOrder, NextInOrder, OnlyNext, Playing

LEMMA SelectionSourced ==
  ASSUME NEW m, Fits(m), NEW n, SameStore(m, n), SameSelection(m, n)
  PROVE  Sourced(m, n)
<1>1. Selected(n.pl) = Selected(m.pl)
  BY DEF SameSelection, Selected
<1> QED BY <1>1, SlotsSourced

LEMMA ClearQueuedEffect ==
  ASSUME NEW m, Fits(m), NEW i, NEW info, NEW n, n = ClearQueuedSegmentId(m, i, info)
  PROVE  /\ Fits(n) /\ SameStore(m, n) /\ SameSelection(m, n) /\ n.pl.hold = m.pl.hold
         /\ info.consumes /\ m.pl.queued = SegmentOfInstance(i) => n.pl.queued = None
<1>1. CASE info.consumes /\ m.pl.queued = SegmentOfInstance(i)
  <2>1. n = WithQueued(m, None)
    BY <1>1 DEF ClearQueuedSegmentId, WithQueued
  <2>2. /\ Fits(n) /\ SameStore(m, n) /\ SameSelection(m, n)
        /\ n.pl.hold = m.pl.hold /\ n.pl.queued = None
    BY <2>1, QueueEffect
  <2> QED BY <2>2
<1>2. CASE ~(info.consumes /\ m.pl.queued = SegmentOfInstance(i))
  <2>1. n = m
    BY <1>2 DEF ClearQueuedSegmentId
  <2> QED BY <1>2, <2>1 DEF SameStore, SameSelection
<1> QED BY <1>1, <1>2

-----------------------------------------------------------------------------
(* The playhead has moved on, and what it moved to is marked as taken.     *)
MovedOn(m, x) ==
  /\ x.pl.activation = m.pl.activation
  /\ x.pl.current = m.pl.next.id /\ x.pl.next = NoNext
  /\ Range(x.pl.previous) \subseteq Aired(m.pl)
  /\ m.pl.current # NoInstance => x.pl.previous # <<>> /\ Head(x.pl.previous) = m.pl.current
  /\ IsInjective(m.pl.previous) /\ m.pl.current \notin Range(m.pl.previous)
       => IsInjective(x.pl.previous)
  /\ Len(x.pl.previous) <= MaxPrevious
  /\ x.loaded = m.loaded /\ x.deferred = m.deferred /\ x.purged = m.purged
  /\ DOMAIN x.pis = DOMAIN m.pis
  /\ \A j \in DOMAIN m.pis :
       /\ x.pis[j].activation = m.pis[j].activation /\ x.pis[j].reset = m.pis[j].reset
       /\ m.pis[j].taken => x.pis[j].taken
  /\ x.pis[m.pl.next.id].taken

LEMMA MovedOnKeeps ==
  ASSUME NEW m, Fits(m), NEW x, MovedOn(m, x), m.pl.next.id \in DOMAIN m.pis,
         AiredInOrder(m), NextInOrder(m)
  PROVE  /\ AiredInOrder(x) /\ NextInOrder(x) /\ x.pl.activation # None
<1> DEFINE next == m.pl.next.id
<1>1. next \in DOMAIN m.pis /\ next # NoInstance
  BY ModelTypes
<1>2. /\ next \notin m.purged \cup m.deferred
      /\ m.pl.activation # None /\ next # m.pl.current
      /\ ~PlayFromAnywhere => /\ ~m.pis[next].reset /\ next \notin Range(m.pl.previous)
                              /\ m.pis[next].activation = m.pl.activation
  BY <1>1 DEF NextInOrder, NoNext
<1>3. Aired(x.pl) \subseteq Aired(m.pl) \cup {next}
  BY DEF Aired, MovedOn
<1>4. Aired(x.pl) \subseteq DOMAIN x.pis \ x.purged
  BY <1>1, <1>2, <1>3 DEF AiredInOrder, MovedOn
<1>5. \A i \in Aired(x.pl) :
        x.pis[i].taken /\ (~PlayFromAnywhere => x.pis[i].activation = x.pl.activation)
  BY <1>1, <1>2, <1>3 DEF AiredInOrder, MovedOn
<1>6. x.pl.current \notin x.deferred /\ (~PlayFromAnywhere => ~x.pis[x.pl.current].reset)
  BY <1>1, <1>2 DEF MovedOn
<1>7. \A i \in DOMAIN x.pis : ~x.pis[i].taken => i \in x.loaded
  BY DEF AiredInOrder, MovedOn
<1>8. ~PlayFromAnywhere => IsInjective(x.pl.previous) /\ x.pl.current \notin Range(x.pl.previous)
  BY <1>2 DEF AiredInOrder, MovedOn, Aired
<1>9. x.pl.activation # None
  BY <1>2 DEF MovedOn
<1>10. AiredInOrder(x)
  BY <1>4, <1>5, <1>6, <1>7, <1>8, <1>9 DEF AiredInOrder
<1>11. NextInOrder(x)
  BY DEF MovedOn, NextInOrder
<1> QED BY <1>9, <1>10, <1>11

(* What follows is chosen.                                                 *)
LEMMA NextChosen ==
  ASSUME NEW m, Fits(m), NEW x, Fits(x), MovedOn(m, x), m.pl.next.id \in DOMAIN m.pis,
         NEW n \in SetNextPart(x, SelectPartAfterCurrent(x))
  PROVE  /\ Fits(n) /\ ButNext(x, n) /\ Kept(x, n) /\ n.pl.current \in DOMAIN n.pis
         /\ Sourced(x, n)
         /\ AiredInOrder(m) /\ NextInOrder(m) => AiredInOrder(n) /\ NextInOrder(n) /\ OnlyNext(n)
         /\ BlueprintMoves = {} => Follows(n.rundown, n.pl)
<1> DEFINE c == SelectPartAfterCurrent(x)
<1>6. PlayableParts(x) \in SUBSET Parts
  BY DEF PlayableParts
<1>1. IsChoice(x, c) /\ c.instance = NoInstance
  BY <1>6, SelectNextPartIsChoice DEF SelectPartAfterCurrent
<1>7. /\ c = SelectNextPart(PlayableParts(x), x.pl.queued, PartOf(x.pl.current))
      /\ c.part \in PlayableParts(x) \cup {None}
  BY <1>6, SelectNextPartIsChoice DEF SelectPartAfterCurrent, NoSelection, PartSelection
<1> HIDE DEF c
<1>2. /\ Fits(n) /\ ButNext(x, n) /\ Kept(x, n) /\ FreshNext(x, c, n) /\ UntakenGone(n)
      /\ SoundChoice(x, c) /\ NextInOrder(x) => NextInOrder(n)
      /\ BlueprintMoves = {} => AsChosen(c, n)
  BY <1>1, SetNextPartKeeps DEF c
<1>8. PlayableParts(n) = PlayableParts(x) /\ n.pl.queued = x.pl.queued /\ n.pl.current = x.pl.current
  BY <1>2 DEF ButNext, PlayableParts
<1>9. BlueprintMoves = {} => Follows(n.rundown, n.pl)
  BY <1>2, <1>6, <1>7, <1>8, SelectedFollows
<1>3. n.pl.current = m.pl.next.id /\ m.pl.next.id \in DOMAIN x.pis /\ m.pl.next.id # NoInstance
  BY <1>2, ModelTypes DEF ButNext, MovedOn
<1>4. n.pl.current \in DOMAIN n.pis
  BY <1>2, <1>3 DEF Kept, Aired, MovedOn
<1>5. ASSUME AiredInOrder(m), NextInOrder(m)
      PROVE  AiredInOrder(n) /\ NextInOrder(n) /\ OnlyNext(n)
  <2>1. AiredInOrder(x) /\ NextInOrder(x) /\ x.pl.activation # None
    BY <1>5, MovedOnKeeps
  <2>2. SoundChoice(x, c)
    BY <1>1, <2>1 DEF SoundChoice
  <2>3. AiredInOrder(n) /\ NextInOrder(n)
    BY <1>2, <2>1, <2>2, AiredKept
  <2> QED BY <1>2, <2>3, UntakenIsNext
<1> QED BY <1>2, <1>4, <1>5, <1>9, KeptSourced

(* Fewer earlier instances, or an instance that has started.               *)
LEMMA PrunedKeeps ==
  ASSUME NEW m, NEW n, SameStore(m, n), SameButPrevious(m, n),
         FrontOf(m.pl.previous, n.pl.previous)
  PROVE  /\ AiredInOrder(m) => AiredInOrder(n)
         /\ NextInOrder(m) => NextInOrder(n)
         /\ OnlyNext(m) => OnlyNext(n)
         /\ Playing(m) => Playing(n)
         /\ HoldInOrder(m.pl) => HoldInOrder(n.pl)
<1>1. Aired(n.pl) \subseteq Aired(m.pl)
  BY DEF SameButPrevious, FrontOf, Aired
<1>2. AiredInOrder(m) => AiredInOrder(n)
  BY <1>1 DEF SameStore, SameButPrevious, FrontOf, AiredInOrder
<1>3. NextInOrder(m) => NextInOrder(n)
  BY DEF SameStore, SameButPrevious, FrontOf, NextInOrder
<1>4. (OnlyNext(m) => OnlyNext(n)) /\ (Playing(m) => Playing(n))
  BY DEF SameStore, SameButPrevious, OnlyNext, Playing
<1>5. HoldInOrder(m.pl) => HoldInOrder(n.pl)
  BY DEF SameButPrevious, FrontOf, HoldInOrder
<1> QED BY <1>2, <1>3, <1>4, <1>5

LEMMA PrunedSourced ==
  ASSUME NEW m, Fits(m), NEW n, SameStore(m, n), SameButPrevious(m, n),
         FrontOf(m.pl.previous, n.pl.previous)
  PROVE  Sourced(m, n)
<1>1. Selected(n.pl) \subseteq Selected(m.pl)
  BY DEF SameButPrevious, FrontOf, Selected
<1> QED BY <1>1, SlotsSourced

LEMMA StartedKeeps ==
  ASSUME NEW m, NEW n, Marked(m, n), \A i \in DOMAIN m.pis : n.pis[i].taken = m.pis[i].taken
  PROVE  /\ AiredInOrder(m) => AiredInOrder(n)
         /\ NextInOrder(m) => NextInOrder(n)
         /\ OnlyNext(m) => OnlyNext(n)
         /\ HoldInOrder(m.pl) => HoldInOrder(n.pl)
<1>1. ASSUME AiredInOrder(m)
      PROVE  AiredInOrder(n)
  <2>1. /\ n.pl = m.pl /\ n.purged = m.purged /\ n.deferred = m.deferred /\ n.loaded = m.loaded
        /\ DOMAIN n.pis = DOMAIN m.pis
        /\ \A i \in DOMAIN m.pis : /\ n.pis[i].taken = m.pis[i].taken
                                   /\ n.pis[i].activation = m.pis[i].activation
                                   /\ n.pis[i].reset = m.pis[i].reset
    BY DEF Marked
  <2>2. m.pl.current # NoInstance => m.pl.current \in Aired(m.pl)
    BY DEF Aired
  <2>3. Aired(m.pl) \subseteq DOMAIN m.pis
    BY <1>1 DEF AiredInOrder
  <2> QED BY <1>1, <2>1, <2>2, <2>3 DEF AiredInOrder
<1>2. NextInOrder(m) => NextInOrder(n)
  BY DEF Marked, NextInOrder
<1>3. OnlyNext(m) => OnlyNext(n)
  BY DEF Marked, OnlyNext
<1> QED BY <1>1, <1>2, <1>3 DEF Marked

LEMMA SimulateEffect ==
  ASSUME NEW m, Fits(m), m.pl.current \in DOMAIN m.pis, Len(m.pl.previous) <= MaxPrevious,
         NEW n \in SimulatePlayout(m)
  PROVE  /\ Sane(n) /\ SameButPrevious(m, n) /\ Sourced(m, n)
         /\ FrontOf(m.pl.previous, n.pl.previous)
         /\ AiredInOrder(m) => AiredInOrder(n)
         /\ NextInOrder(m) => NextInOrder(n)
         /\ OnlyNext(m) => OnlyNext(n)
         /\ HoldInOrder(m.pl) => HoldInOrder(n.pl)
         /\ Playing(n)
<1> DEFINE s == ReportPartInstanceHasStarted(m, m.pl.current)
<1>1. /\ Fits(s) /\ Marked(m, s) /\ s.pis[m.pl.current].started
      /\ \A j \in DOMAIN m.pis : s.pis[j].taken = m.pis[j].taken
  BY MarkEffect
<1>8. Sourced(m, s)
  BY <1>1, MarkedSourced
<1>2. CASE GatewayAttached
  <2>1. n = m
    BY <1>2 DEF SimulatePlayout
  <2>2. Sourced(m, n)
    BY <2>1, SlotsSourced DEF SameStore
  <2> QED BY <1>2, <2>1, <2>2 DEF Sane, SameButPrevious, FrontOf, Playing
<1>3. ~GatewayAttached => n = s \/ n \in PrunePreviousPartInstances(s)
  BY DEF SimulatePlayout, ReportPartInstanceHasStopped
<1> HIDE DEF s
<1>4. /\ AiredInOrder(m) => AiredInOrder(s)
      /\ NextInOrder(m) => NextInOrder(s)
      /\ OnlyNext(m) => OnlyNext(s)
      /\ HoldInOrder(m.pl) => HoldInOrder(s.pl)
  BY <1>1, StartedKeeps
<1>5. s.pl = m.pl /\ Playing(s)
  BY <1>1 DEF Marked, Playing
<1>6. CASE n = s
  BY <1>1, <1>4, <1>5, <1>6, <1>8 DEF Sane, SameButPrevious, FrontOf
<1>7. CASE n \in PrunePreviousPartInstances(s)
  <2>1. /\ Fits(n) /\ SameStore(s, n) /\ SameButPrevious(s, n)
        /\ FrontOf(s.pl.previous, n.pl.previous) /\ Len(n.pl.previous) <= MaxPrevious
    BY <1>1, <1>7, PruneEffect
  <2>2. /\ AiredInOrder(s) => AiredInOrder(n)
        /\ NextInOrder(s) => NextInOrder(n)
        /\ OnlyNext(s) => OnlyNext(n)
        /\ Playing(s) => Playing(n)
        /\ HoldInOrder(s.pl) => HoldInOrder(n.pl)
    BY <2>1, PrunedKeeps
  <2>3. SameButPrevious(m, n) /\ FrontOf(m.pl.previous, n.pl.previous)
    BY <1>5, <2>1 DEF SameButPrevious
  <2>4. Sourced(m, n)
    BY <1>1, <1>8, <2>1, PrunedSourced, SourcedTransitive
  <2> QED BY <1>4, <1>5, <2>1, <2>2, <2>3, <2>4 DEF Sane
<1> QED BY <1>2, <1>3, <1>6, <1>7

LEMMA StartHoldEffect ==
  ASSUME NEW m, Fits(m), NEW from, NEW n \in StartHold(m, from)
  PROVE  /\ Fits(n) /\ SameStore(m, n) /\ SameSelection(m, n) /\ n.pl.queued = m.pl.queued
         /\ n.pl.hold = IF m.pl.hold = "pending" THEN "active" ELSE m.pl.hold
<1>1. CASE m.pl.hold # "pending"
  <2>1. n = m
    BY <1>1 DEF StartHold
  <2> QED BY <1>1, <2>1 DEF SameStore, SameSelection
<1>2. CASE m.pl.hold = "pending"
  <2>1. n = WithHold(m, "active")
    <3>1. StartHold(m, from) \subseteq {[m EXCEPT !.pl.hold = "active"]}
      BY <1>2 DEF StartHold
    <3> QED BY <3>1 DEF WithHold
  <2>2. "active" \in HoldStates
    BY DEF HoldStates
  <2>3. /\ Fits(n) /\ SameStore(m, n) /\ SameSelection(m, n)
        /\ n.pl.hold = "active" /\ n.pl.queued = m.pl.queued
    BY <2>1, <2>2, HoldEffect
  <2> QED BY <1>2, <2>3
<1> QED BY <1>1, <1>2

-----------------------------------------------------------------------------
(* A take moves the playhead on.                                           *)
LEMMA TakeMovesOn ==
  ASSUME NEW m, Fits(m), m.pl.next.id \in DOMAIN m.pis,
         NEW x \in CycleSelectedPartInstances(
                     MarkTaken(ClearQueuedSegmentId(m, m.pl.next.id, m.pl.next), m.pl.next.id))
  PROVE  /\ Fits(x) /\ MovedOn(m, x) /\ x.pl.hold = m.pl.hold /\ Sourced(m, x)
         /\ m.pl.next.consumes /\ m.pl.queued = SegmentOfInstance(m.pl.next.id) => x.pl.queued = None
<1> DEFINE i == m.pl.next.id
           q == ClearQueuedSegmentId(m, i, m.pl.next)
           t == MarkTaken(q, i)
<1>1. /\ Fits(q) /\ SameStore(m, q) /\ SameSelection(m, q) /\ q.pl.hold = m.pl.hold
      /\ m.pl.next.consumes /\ m.pl.queued = SegmentOfInstance(i) => q.pl.queued = None
  BY ClearQueuedEffect
<1>2. x \in CycleSelectedPartInstances(t)
  OBVIOUS
<1> HIDE DEF q
<1>3. /\ Fits(t) /\ Marked(q, t) /\ t.pis[i].taken
  BY <1>1, MarkEffect DEF SameStore
<1> HIDE DEF t
<1>4. Fits(x) /\ SameStore(t, x) /\ Cycled(t, x)
  BY <1>2, <1>3, CycleEffect
<1>5. Aired(t.pl) = Aired(m.pl)
  BY <1>1, <1>3 DEF SameSelection, Marked, Aired
<1>6. MovedOn(m, x)
  BY <1>1, <1>3, <1>4, <1>5 DEF SameStore, SameSelection, Marked, Cycled, MovedOn
<1>7. Sourced(m, x)
  <2>1. Sourced(m, q) /\ Sourced(q, t) /\ Sourced(t, x)
    BY <1>1, <1>3, <1>4, SelectionSourced, MarkedSourced, CycledSourced
  <2> QED BY <2>1, SourcedTransitive
<1> QED BY <1>7, <1>1, <1>3, <1>4, <1>6 DEF Cycled, Marked

LEMMA TakeNextKeeps ==
  ASSUME NEW m, Fits(m), NEW n \in TakeNext(m)
  PROVE  /\ Sane(n) /\ Sourced(m, n)
         /\ n.pl.hold = IF m.pl.hold = "pending" THEN "active" ELSE m.pl.hold
         /\ m.pl.next.consumes /\ m.pl.queued = SegmentOfInstance(m.pl.next.id) => n.pl.queued = None
         /\ n.pl.current = m.pl.next.id /\ m.pl.next.id # NoInstance
         /\ InPlace(m) => InPlace(n)
         /\ HoldInOrder(m.pl) /\ m.pl.hold \in {"none", "pending"} => HoldInOrder(n.pl)
         /\ BlueprintMoves = {} => Follows(n.rundown, n.pl)
<1> DEFINE marked == MarkTaken(ClearQueuedSegmentId(m, m.pl.next.id, m.pl.next), m.pl.next.id)
           chosen == UNION {SetNextPart(x, SelectPartAfterCurrent(x)) :
                              x \in CycleSelectedPartInstances(marked)}
           held == UNION {StartHold(x, m.pl.current) : x \in chosen}
<1>1. m.pl.next.id \in DOMAIN m.pis /\ n \in UNION {SimulatePlayout(x) : x \in held}
  BY DEF TakeNext
<1>2. PICK h \in held : n \in SimulatePlayout(h)
  BY <1>1
<1>3. PICK c \in chosen : h \in StartHold(c, m.pl.current)
  OBVIOUS
<1>4. PICK x \in CycleSelectedPartInstances(marked) : c \in SetNextPart(x, SelectPartAfterCurrent(x))
  OBVIOUS
<1>5. /\ Fits(x) /\ MovedOn(m, x) /\ x.pl.hold = m.pl.hold /\ Sourced(m, x)
      /\ m.pl.next.consumes /\ m.pl.queued = SegmentOfInstance(m.pl.next.id) => x.pl.queued = None
  BY <1>1, TakeMovesOn
<1> HIDE DEF marked, chosen, held
<1>6. /\ Fits(c) /\ ButNext(x, c) /\ Kept(x, c) /\ c.pl.current \in DOMAIN c.pis
      /\ Sourced(x, c)
      /\ AiredInOrder(m) /\ NextInOrder(m) => AiredInOrder(c) /\ NextInOrder(c) /\ OnlyNext(c)
      /\ BlueprintMoves = {} => Follows(c.rundown, c.pl)
  BY <1>1, <1>4, <1>5, NextChosen
<1>7. /\ Fits(h) /\ SameStore(c, h) /\ SameSelection(c, h) /\ h.pl.queued = c.pl.queued
      /\ h.pl.hold = IF c.pl.hold = "pending" THEN "active" ELSE c.pl.hold
  BY <1>3, <1>6, StartHoldEffect
<1>8. AiredInOrder(m) /\ NextInOrder(m) => AiredInOrder(h) /\ NextInOrder(h) /\ OnlyNext(h)
  BY <1>6, <1>7, SelectionKept
<1>9. h.pl.current \in DOMAIN h.pis /\ Len(h.pl.previous) <= MaxPrevious
  BY <1>5, <1>6, <1>7 DEF SameStore, SameSelection, ButNext, MovedOn
<1>10. h.pl.hold = IF m.pl.hold = "pending" THEN "active" ELSE m.pl.hold
  BY <1>5, <1>6, <1>7 DEF ButNext
<1>11. m.pl.next.consumes /\ m.pl.queued = SegmentOfInstance(m.pl.next.id) => h.pl.queued = None
  BY <1>5, <1>6, <1>7 DEF ButNext
<1>12. ASSUME HoldInOrder(m.pl), m.pl.hold \in {"none", "pending"}
       PROVE  HoldInOrder(h.pl)
  <2>1. CASE m.pl.hold = "none"
    BY <1>10, <2>1 DEF HoldInOrder
  <2>2. CASE m.pl.hold = "pending"
    <3>1. HeldPair(m.pl.current, m.pl.next.id) /\ h.pl.hold = "active"
      BY <1>10, <1>12, <2>2 DEF HoldInOrder
    <3>2. m.pl.current # NoInstance
      BY <3>1, SettingTypes DEF HeldPair, PartOf, NoInstance, None, Fits
    <3>3. /\ h.pl.previous # <<>> /\ Head(h.pl.previous) = m.pl.current
          /\ h.pl.current = m.pl.next.id
      BY <1>5, <1>6, <1>7, <3>2 DEF MovedOn, ButNext, SameSelection
    <3> QED BY <3>1, <3>3 DEF HoldInOrder
  <2> QED BY <1>12, <2>1, <2>2
<1>13. /\ Sane(n) /\ SameButPrevious(h, n) /\ Sourced(h, n)
       /\ AiredInOrder(h) => AiredInOrder(n)
       /\ NextInOrder(h) => NextInOrder(n)
       /\ OnlyNext(h) => OnlyNext(n)
       /\ HoldInOrder(h.pl) => HoldInOrder(n.pl)
       /\ Playing(n)
  BY <1>2, <1>7, <1>9, SimulateEffect
<1>14. /\ n.pl.hold = IF m.pl.hold = "pending" THEN "active" ELSE m.pl.hold
       /\ m.pl.next.consumes /\ m.pl.queued = SegmentOfInstance(m.pl.next.id) => n.pl.queued = None
  BY <1>10, <1>11, <1>13 DEF SameButPrevious
<1>15. Sourced(m, n)
  <2>1. Sourced(m, x) /\ Sourced(x, c) /\ Sourced(c, h) /\ Sourced(h, n)
    BY <1>5, <1>6, <1>7, <1>13, SelectionSourced
  <2> QED BY <2>1, SourcedTransitive
<1>16. n.pl.current = m.pl.next.id /\ m.pl.next.id # NoInstance
  BY <1>1, <1>5, <1>6, <1>7, <1>13, ModelTypes DEF MovedOn, ButNext, SameSelection, SameButPrevious
<1>17. BlueprintMoves = {} => Follows(n.rundown, n.pl)
  <2>1. n.rundown = c.rundown /\ n.pl.current = c.pl.current /\ n.pl.next = c.pl.next
        /\ n.pl.queued = c.pl.queued
    BY <1>7, <1>13 DEF SameStore, SameSelection, SameButPrevious, Sourced
  <2>2. setting \in Settings /\ c.pl.next.id \in InstanceIds \cup {NoInstance}
    BY <1>6, ModelTypes DEF Fits
  <2> QED BY <1>6, <2>1, <2>2, FollowsKept
<1> QED BY <1>8, <1>12, <1>13, <1>14, <1>15, <1>16, <1>17 DEF InPlace

-----------------------------------------------------------------------------
(* What a job leaves, of what it found.                                    *)
CleanMove(pl, ql) ==
  ql.current # pl.current =>
    /\ ql.hold \in {"none", "active"}
    /\ ql.hold = "active" => pl.hold = "pending"

ClearsQueue(pl, ql) ==
  pl.next.consumes /\ ql.current = pl.next.id /\ pl.queued = SegmentOfInstance(pl.next.id)
    => ql.queued = None

(* Where nothing is on air nothing was on air just before; and but for the *)
(* report that one has stopped, the earlier instances change only with the *)
(* current one.                                                            *)
NothingBehind(pl) == pl.current = NoInstance => pl.previous = <<>>

Lingers(pl, ql) ==
  NothingBehind(pl) =>
    /\ NothingBehind(ql)
    /\ ~StopReported /\ ql.current = pl.current => ql.previous = pl.previous

Good(m, n) ==
  /\ Sane(n) /\ Sourced(m, n) /\ CleanMove(m.pl, n.pl) /\ Lingers(m.pl, n.pl)
  /\ InPlace(m) => InPlace(n)
  /\ InOrder(m) => InOrder(n)

(* What follows is what follows in the rundown, where the job has chosen   *)
(* anew and no blueprint has moved what is next; or it is as it was, with  *)
(* the queue perhaps emptied.                                              *)
GoesOn(m, n) ==
  \/ BlueprintMoves = {} => Follows(n.rundown, n.pl)
  \/ /\ n.pl.current = m.pl.current /\ n.pl.next = m.pl.next
     /\ n.pl.queued \in {m.pl.queued, None}

GoodAndGoesOn(m, n) == Good(m, n) /\ GoesOn(m, n)

LEMMA RestartedIsGood ==
  ASSUME NEW m, NEW n, Restarted(n), Sourced(m, n), UntakenLoaded(m) => AiredInOrder(n)
  PROVE  GoodAndGoesOn(m, n)
<1>1. (InPlace(m) => InPlace(n)) /\ (InOrder(m) => InOrder(n))
  BY RestartedInOrder DEF InPlace, InOrder, AiredInOrder, UntakenLoaded
<1>2. CleanMove(m.pl, n.pl) /\ Lingers(m.pl, n.pl)
  BY DEF CleanMove, Lingers, NothingBehind, Restarted
<1>3. GoesOn(m, n)
  BY DEF GoesOn, Follows, Restarted
<1> QED BY <1>1, <1>2, <1>3, RestartedIsSane DEF Good, GoodAndGoesOn

LEMMA SelectionIsGood ==
  ASSUME NEW m, Sane(m), NEW n, Fits(n), SameStore(m, n), SameSelection(m, n),
         InOrder(m) => HoldInOrder(n.pl)
  PROVE  /\ Good(m, n)
         /\ n.pl.queued \in {m.pl.queued, None} => GoodAndGoesOn(m, n)
<1>1. Sane(n)
  BY DEF Sane, SameSelection
<1>2. CleanMove(m.pl, n.pl) /\ Lingers(m.pl, n.pl)
  BY DEF CleanMove, Lingers, NothingBehind, SameSelection
<1>3. (InPlace(m) => InPlace(n)) /\ (InOrder(m) => InOrder(n))
  BY SelectionKept DEF InPlace, InOrder
<1>4. Sourced(m, n)
  BY SelectionSourced DEF Sane
<1>5. n.pl.queued \in {m.pl.queued, None} => GoesOn(m, n)
  BY DEF GoesOn, SameSelection
<1> QED BY <1>1, <1>2, <1>3, <1>4, <1>5 DEF Good, GoodAndGoesOn

(* Taking.                                                                 *)
LEMMA TakeIsGood ==
  ASSUME NEW m, Sane(m), NEW n \in PerformTakeToNextedPart(m)
  PROVE  GoodAndGoesOn(m, n) /\ ClearsQueue(m.pl, n.pl)
<1> DEFINE ready == IF m.pl.hold = "complete" THEN [m EXCEPT !.pl.hold = "none"] ELSE m
<1>1. m.pl.hold \in HoldStates /\ Fits(m)
  BY ModelTypes DEF Sane, Playlist
<1>2. m.pl.next.consumes => m.pl.current # m.pl.next.id
  BY <1>1 DEF Fits
<1>3. /\ "none" \in HoldStates /\ "complete" \in HoldStates
  BY DEF HoldStates
<1>4. /\ Fits(ready) /\ SameStore(m, ready) /\ SameSelection(m, ready)
      /\ ready.pl.queued = m.pl.queued
      /\ ready.pl.hold = IF m.pl.hold = "complete" THEN "none" ELSE m.pl.hold
  <2>1. CASE m.pl.hold = "complete"
    <3>1. ready = WithHold(m, "none")
      BY <2>1 DEF WithHold
    <3> HIDE DEF ready
    <3>2. /\ Fits(ready) /\ SameStore(m, ready) /\ SameSelection(m, ready)
          /\ ready.pl.hold = "none" /\ ready.pl.queued = m.pl.queued
      BY <1>1, <1>3, <3>1, HoldEffect
    <3> QED BY <2>1, <3>2
  <2>2. CASE m.pl.hold # "complete"
    BY <1>1, <2>2 DEF SameStore, SameSelection
  <2> QED BY <2>1, <2>2
<1>5. CASE m.pl.hold = "active"
  <2>1. n = WithHold(m, "complete")
    BY <1>5 DEF PerformTakeToNextedPart, WithHold
  <2>2. /\ Fits(n) /\ SameStore(m, n) /\ SameSelection(m, n)
        /\ n.pl.hold = "complete" /\ n.pl.queued = m.pl.queued
    BY <1>1, <1>3, <2>1, HoldEffect
  <2>3. InOrder(m) => HoldInOrder(n.pl)
    BY <1>5, <2>2 DEF InOrder, HoldInOrder, SameSelection
  <2>4. ClearsQueue(m.pl, n.pl)
    BY <1>2, <2>2 DEF ClearsQueue, SameSelection
  <2> QED BY <2>2, <2>3, <2>4, SelectionIsGood
<1>6. CASE m.pl.hold # "active"
  <2>1. n \in TakeNext(ready) \/ n = ready
    BY <1>6 DEF PerformTakeToNextedPart
  <2> HIDE DEF ready
  <2>2. InOrder(m) => HoldInOrder(ready.pl)
    BY <1>4, <1>6 DEF InOrder, HoldInOrder, SameSelection
  <2>3. Good(m, ready) /\ GoodAndGoesOn(m, ready)
    BY <1>4, <2>2, SelectionIsGood DEF GoodAndGoesOn
  <2>4. CASE n = ready
    <3>1. ClearsQueue(m.pl, n.pl)
      BY <1>2, <1>4, <2>4 DEF ClearsQueue, SameSelection
    <3> QED BY <2>3, <2>4, <3>1
  <2>5. CASE n \in TakeNext(ready)
    <3>1. ready.pl.hold \in {"none", "pending"}
      BY <1>1, <1>4, <1>6 DEF HoldStates
    <3>2. /\ Sane(n) /\ Sourced(ready, n)
          /\ n.pl.hold = IF ready.pl.hold = "pending" THEN "active" ELSE ready.pl.hold
          /\ ready.pl.next.consumes /\ ready.pl.queued = SegmentOfInstance(ready.pl.next.id)
               => n.pl.queued = None
          /\ n.pl.current = ready.pl.next.id /\ ready.pl.next.id # NoInstance
          /\ InPlace(ready) => InPlace(n)
          /\ HoldInOrder(ready.pl) /\ ready.pl.hold \in {"none", "pending"} => HoldInOrder(n.pl)
          /\ BlueprintMoves = {} => Follows(n.rundown, n.pl)
      BY <1>4, <2>5, <3>1, TakeNextKeeps
    <3>3. CleanMove(m.pl, n.pl)
      BY <1>4, <3>1, <3>2 DEF CleanMove
    <3>6. n.pl.current # m.pl.current /\ Lingers(m.pl, n.pl)
      BY <1>1, <1>4, <3>2 DEF Lingers, NothingBehind, SameSelection, Fits
    <3>7. (InPlace(m) => InPlace(n)) /\ (InOrder(m) => InOrder(n))
      BY <2>3, <3>1, <3>2 DEF Good, InOrder
    <3>4. ClearsQueue(m.pl, n.pl)
      BY <1>4, <3>2 DEF ClearsQueue, SameSelection
    <3>5. Sourced(m, n)
      BY <2>3, <3>2, SourcedTransitive DEF Good
    <3> QED BY <3>2, <3>3, <3>4, <3>5, <3>6, <3>7 DEF Good, GoesOn, GoodAndGoesOn
  <2> QED BY <2>1, <2>4, <2>5
<1> QED BY <1>5, <1>6

(* The gateway plays on by itself.                                         *)
LEMMA AutonextIsGood ==
  ASSUME NEW m, Sane(m), GatewayAttached, m.pl.next.id \in DOMAIN m.pis, NEW n \in Autonext(m)
  PROVE  GoodAndGoesOn(m, n)
<1> DEFINE i == m.pl.next.id
           cycled == {[x EXCEPT !.pl.hold = "none"] : x \in CycleSelectedPartInstances(m)}
           played == {ClearQueuedSegmentId(MarkTaken(ReportPartInstanceHasStarted(x, i), i),
                                           i, x.pl.next) : x \in cycled}
<1>1. n \in UNION {SetNextPart(x, SelectPartAfterCurrent(x)) : x \in played}
  BY DEF Autonext
<1>2. PICK z \in played : n \in SetNextPart(z, SelectPartAfterCurrent(z))
  BY <1>1
<1>3. PICK y \in cycled :
        z = ClearQueuedSegmentId(MarkTaken(ReportPartInstanceHasStarted(y, i), i), i, y.pl.next)
  OBVIOUS
<1>4. PICK x \in CycleSelectedPartInstances(m) : y = WithHold(x, "none")
  BY DEF WithHold
<1> HIDE DEF cycled, played
<1>5. Fits(x) /\ SameStore(m, x) /\ Cycled(m, x)
  BY CycleEffect DEF Sane
<1>6. "none" \in HoldStates
  BY DEF HoldStates
<1>7. /\ Fits(y) /\ SameStore(x, y) /\ SameSelection(x, y) /\ y.pl.hold = "none"
  BY <1>4, <1>5, <1>6, HoldEffect
<1> DEFINE s == ReportPartInstanceHasStarted(y, i)
           t == MarkTaken(s, i)
<1>8. i \in DOMAIN y.pis
  BY <1>5, <1>7 DEF SameStore
<1>9. Fits(s) /\ Marked(y, s)
  BY <1>7, <1>8, MarkEffect
<1>10. z = ClearQueuedSegmentId(t, i, y.pl.next)
  BY <1>3
<1> HIDE DEF s
<1>11. Fits(t) /\ Marked(s, t) /\ t.pis[i].taken
  BY <1>8, <1>9, MarkEffect DEF Marked
<1> HIDE DEF t
<1>12. Fits(z) /\ SameStore(t, z) /\ SameSelection(t, z) /\ z.pl.hold = t.pl.hold
  BY <1>10, <1>11, ClearQueuedEffect
<1>13. z.pl.hold = "none"
  BY <1>7, <1>9, <1>11, <1>12 DEF Marked
<1>14. MovedOn(m, z)
  <2>1. /\ t.pl = y.pl /\ t.loaded = y.loaded /\ t.deferred = y.deferred /\ t.purged = y.purged
        /\ DOMAIN t.pis = DOMAIN y.pis
        /\ \A j \in DOMAIN y.pis :
             /\ t.pis[j].activation = y.pis[j].activation /\ t.pis[j].reset = y.pis[j].reset
             /\ y.pis[j].taken => t.pis[j].taken
    BY <1>9, <1>11 DEF Marked
  <2>2. /\ z.pl.activation = x.pl.activation /\ z.pl.current = x.pl.current
        /\ z.pl.next = x.pl.next /\ z.pl.previous = x.pl.previous
    BY <1>7, <1>12, <2>1 DEF SameSelection
  <2>3. /\ z.pis = t.pis /\ z.loaded = t.loaded /\ z.deferred = t.deferred /\ z.purged = t.purged
        /\ y.pis = m.pis /\ y.loaded = m.loaded /\ y.deferred = m.deferred /\ y.purged = m.purged
    BY <1>5, <1>7, <1>12 DEF SameStore
  <2> QED BY <1>5, <1>11, <2>1, <2>2, <2>3 DEF MovedOn, Cycled
<1>15. /\ Fits(n) /\ ButNext(z, n) /\ Sourced(z, n)
       /\ AiredInOrder(m) /\ NextInOrder(m) => AiredInOrder(n) /\ NextInOrder(n) /\ OnlyNext(n)
       /\ BlueprintMoves = {} => Follows(n.rundown, n.pl)
  BY <1>2, <1>12, <1>14, NextChosen DEF Sane
<1>16. n.pl.hold = "none" /\ Len(n.pl.previous) <= MaxPrevious
  BY <1>13, <1>14, <1>15 DEF ButNext, MovedOn
<1>17. (InPlace(m) => InPlace(n)) /\ (InOrder(m) => InOrder(n))
  BY <1>15, <1>16 DEF InPlace, InOrder, Playing, HoldInOrder
<1>19. Lingers(m.pl, n.pl)
  <2>1. i # NoInstance /\ i # m.pl.current
    BY ModelTypes DEF Sane, Fits
  <2>2. n.pl.current = i
    BY <1>14, <1>15 DEF ButNext, MovedOn
  <2> QED BY <2>1, <2>2 DEF Lingers, NothingBehind
<1>18. Sourced(m, n)
  <2>1. Sourced(m, x) /\ Sourced(x, y) /\ Sourced(y, s) /\ Sourced(s, t) /\ Sourced(t, z)
    BY <1>5, <1>7, <1>9, <1>11, <1>12, CycledSourced, SelectionSourced, MarkedSourced DEF Sane
  <2> QED BY <1>15, <2>1, SourcedTransitive
<1> QED BY <1>15, <1>16, <1>17, <1>18, <1>19 DEF Good, Sane, CleanMove, GoesOn, GoodAndGoesOn

(* Choosing what is next.                                                  *)
LEMMA SetNextPlaces ==
  ASSUME NEW m, Sane(m), NEW c, IsChoice(m, c), InPlace(m) => SoundChoice(m, c),
         NEW n \in SetNextPart(m, c)
  PROVE  /\ Sane(n) /\ Sourced(m, n) /\ ButNext(m, n)
         /\ InPlace(m) => InPlace(n)
<1>1. /\ Fits(n) /\ ButNext(m, n) /\ Kept(m, n) /\ FreshNext(m, c, n) /\ UntakenGone(n)
      /\ SoundChoice(m, c) /\ NextInOrder(m) => NextInOrder(n)
  BY SetNextPartKeeps DEF Sane
<1>2. Sane(n)
  BY <1>1 DEF Sane, ButNext
<1>3. ASSUME InPlace(m)
      PROVE  InPlace(n)
  <2>1. AiredInOrder(m) /\ NextInOrder(m) /\ Playing(m)
    BY <1>3 DEF InPlace
  <2>2. AiredInOrder(n) /\ NextInOrder(n)
    BY <1>1, <1>3, <2>1, AiredKept DEF Sane
  <2>3. OnlyNext(n)
    BY <1>1, <2>2, UntakenIsNext
  <2>4. m.pl.current # NoInstance => m.pl.current \in DOMAIN m.pis \cap DOMAIN n.pis
    BY <1>1, <2>1, <2>2 DEF AiredInOrder, Aired, ButNext
  <2>5. Playing(n)
    BY <1>1, <2>1, <2>4 DEF Playing, Kept, Alike, ButNext
  <2> QED BY <2>2, <2>3, <2>5 DEF InPlace
<1>4. Sourced(m, n)
  BY <1>1, KeptSourced DEF Sane
<1> QED BY <1>1, <1>2, <1>3, <1>4

LEMMA SetNextIsGood ==
  ASSUME NEW m, Sane(m), m.pl.hold \in {"none", "complete"},
         NEW c, IsChoice(m, c), InPlace(m) => SoundChoice(m, c),
         NEW n \in SetNextPart(m, c)
  PROVE  Good(m, n)
<1>1. /\ Sane(n) /\ Sourced(m, n) /\ ButNext(m, n)
      /\ InPlace(m) => InPlace(n)
  BY SetNextPlaces
<1>2. CleanMove(m.pl, n.pl) /\ Lingers(m.pl, n.pl)
  BY <1>1 DEF CleanMove, Lingers, NothingBehind, ButNext
<1>3. HoldInOrder(m.pl) => HoldInOrder(n.pl)
  BY <1>1 DEF HoldInOrder, ButNext
<1> QED BY <1>1, <1>2, <1>3 DEF Good, InOrder

(* Resetting, activating, deactivating.                                    *)
LEMMA ResetIsGood ==
  ASSUME NEW m, Sane(m), NEW n \in ResetRundownPlaylist(m)
  PROVE  GoodAndGoesOn(m, n)
BY ResetRundownPlaylistRestarts, RestartedIsGood DEF Sane

LEMMA FromTheStart ==
  ASSUME NEW m, Fits(m), NEW r \in BOOLEAN
  PROVE  /\ ActivateRundownPlaylist(m, r, TRUE) # {}
         /\ \A n \in ActivateRundownPlaylist(m, r, TRUE) :
              Restarted(n) /\ Spent(n) /\ Sourced(m, n) /\ (UntakenLoaded(m) => AiredInOrder(n))
<1>1. ActivateRundownPlaylist(m, r, TRUE) = UNION {ActivateInner(x, r) : x \in ResetRundownPlaylist(m)}
  BY DEF ActivateRundownPlaylist
<1>2. /\ ResetRundownPlaylist(m) # {}
      /\ \A x \in ResetRundownPlaylist(m) :
           /\ Restarted(x) /\ Spent(x) /\ Sourced(m, x)
           /\ UntakenLoaded(m) => AiredInOrder(x)
  BY ResetRundownPlaylistRestarts
<1>3. ASSUME NEW x \in ResetRundownPlaylist(m)
      PROVE  /\ ActivateInner(x, r) # {}
             /\ \A n \in ActivateInner(x, r) :
                  Restarted(n) /\ Spent(n) /\ Sourced(m, n) /\ (UntakenLoaded(m) => AiredInOrder(n))
  <2>1. Fits(x) /\ Spent(x) /\ x.pl.current = NoInstance /\ (UntakenLoaded(m) => UntakenLoaded(x))
    BY <1>2 DEF Restarted, AiredInOrder, UntakenLoaded
  <2>2. x.pl.current \notin DOMAIN x.pis
    BY <2>1, ModelTypes
  <2> QED BY <1>2, <2>1, <2>2, ActivateInnerRestarts, SourcedTransitive
<1>4. ASSUME NEW n \in ActivateRundownPlaylist(m, r, TRUE)
      PROVE  Restarted(n) /\ Spent(n) /\ Sourced(m, n) /\ (UntakenLoaded(m) => AiredInOrder(n))
  <2>1. PICK x \in ResetRundownPlaylist(m) : n \in ActivateInner(x, r)
    BY <1>1
  <2> QED BY <1>3, <2>1
<1>5. ActivateRundownPlaylist(m, r, TRUE) # {}
  <2>1. PICK x \in ResetRundownPlaylist(m) : TRUE
    BY <1>2
  <2>2. PICK n \in ActivateInner(x, r) : TRUE
    BY <1>3
  <2> QED BY <1>1, <2>1, <2>2
<1> QED BY <1>4, <1>5

LEMMA ActivateIsGood ==
  ASSUME NEW m, Sane(m), NEW r \in BOOLEAN, NEW force \in BOOLEAN,
         NEW n \in ActivateRundownPlaylist(m, r, force)
  PROVE  GoodAndGoesOn(m, n)
<1>1. Fits(m)
  BY DEF Sane
<1>2. CASE m.pl.activation = None \/ force
  <2>1. ActivateRundownPlaylist(m, r, force) = ActivateRundownPlaylist(m, r, TRUE)
    BY <1>2 DEF ActivateRundownPlaylist
  <2> QED BY <1>1, <2>1, FromTheStart, RestartedIsGood
<1>3. CASE ~(m.pl.activation = None \/ force)
  <2>1. n \in ActivateInner(m, r)
    BY <1>3 DEF ActivateRundownPlaylist
  <2>2. CASE m.pl.current \notin DOMAIN m.pis \/ m.pis[m.pl.current].reset
    BY <1>1, <2>1, <2>2, ActivateInnerRestarts, RestartedIsGood
  <2>3. CASE ~(m.pl.current \notin DOMAIN m.pis \/ m.pis[m.pl.current].reset)
    <3>1. /\ Fits(n) /\ Sourced(m, n)
          /\ n.pl.hold = m.pl.hold /\ n.pl.current = m.pl.current /\ n.pl.next = m.pl.next
          /\ n.pl.previous = m.pl.previous /\ n.pl.queued = m.pl.queued
          /\ AiredInOrder(m) => AiredInOrder(n)
          /\ NextInOrder(m) => NextInOrder(n)
          /\ DOMAIN n.pis = DOMAIN m.pis
          /\ \A i \in DOMAIN m.pis : /\ n.pis[i].taken = m.pis[i].taken
                                     /\ n.pis[i].started = m.pis[i].started
      BY <1>1, <2>1, <2>3, ActivateInnerPreserves
    <3>2. (OnlyNext(m) => OnlyNext(n)) /\ (Playing(m) => Playing(n))
      BY <2>3, <3>1 DEF OnlyNext, Playing
    <3>3. HoldInOrder(m.pl) => HoldInOrder(n.pl)
      BY <3>1 DEF HoldInOrder
    <3>4. Lingers(m.pl, n.pl)
      BY <3>1 DEF Lingers, NothingBehind
    <3>5. Good(m, n)
      BY <3>1, <3>2, <3>3, <3>4 DEF Good, Sane, CleanMove, InPlace, InOrder
    <3> QED BY <3>1, <3>5 DEF GoesOn, GoodAndGoesOn
  <2> QED BY <2>2, <2>3
<1> QED BY <1>2, <1>3

LEMMA DeactivateIsGood ==
  ASSUME NEW m, Sane(m), NEW n \in SetNextPart(DeactivatePlaylist(m), NoSelection)
  PROVE  GoodAndGoesOn(m, n)
<1> DEFINE off == DeactivatePlaylist(m)
<1>1. Fits(m) /\ None \in Nat /\ m.pl.rehearsal \in BOOLEAN
  BY ModelTypes DEF Sane, None, Playlist
<1>2. off = WithSlots(m, Emptied(m.pl, None, m.pl.rehearsal))
  BY <1>1, EmptyingSteps
<1> HIDE DEF off
<1>3. /\ Fits(off) /\ SameStore(m, off) /\ NextInOrder(off)
      /\ off.pl.current = NoInstance /\ off.pl.next = NoNext /\ off.pl.previous = <<>> /\ off.pl.hold = "none"
  BY <1>1, <1>2, EmptiedEffect
<1>4. IsChoice(off, NoSelection) /\ NoSelection.instance = NoInstance
  BY DEF IsChoice, NoSelection
<1>5. Restarted(n) /\ Sourced(off, n) /\ (UntakenLoaded(off) => AiredInOrder(n))
  BY <1>3, <1>4, RestartKeeps DEF off
<1>6. UntakenLoaded(m) => UntakenLoaded(off)
  BY <1>3 DEF SameStore, UntakenLoaded
<1>7. Sourced(m, n)
  <2>1. Selected(off.pl) = {}
    BY <1>3 DEF Selected, NoNext, Range
  <2> QED BY <1>1, <1>3, <1>5, <2>1, SlotsSourced, SourcedTransitive
<1> QED BY <1>5, <1>6, <1>7, RestartedIsGood

-----------------------------------------------------------------------------
(* The invariant of the database.  What the runs check is inductive        *)
(* together, once the next is known to be another than the current one     *)
(* whatever a crash has left behind.                                       *)
NextIsProper(pl) ==
  /\ pl.current # NoInstance => pl.current # pl.next.id
  /\ pl.next.consumes => pl.next.id # NoInstance

Typed ==
  /\ TypeOK /\ instances \in Collections /\ IsFiniteSet(DOMAIN instances)
  /\ NextIsProper(playlist)

PlayoutInv ==
  Typed /\ SlotsMatchInstances /\ SlotsDistinct /\ SelectedShareActivation /\ HoldPairs

(* What a job loads, of the instances and the rundown that it loads.       *)
LEMMA LoadIsSane ==
  ASSUME Typed, NEW pis \in Collections, IsFiniteSet(DOMAIN pis), NEW r \in Rundown,
         NEW m, m = Load(playlist, pis, r)
  PROVE  /\ Sane(m) /\ m.pl = playlist /\ m.pis = pis
         /\ m.rundown = r /\ m.deferred = {} /\ m.purged = {}
         /\ m.used = DOMAIN pis \cup Selected(playlist)
         /\ m.loaded \subseteq DOMAIN pis
         /\ Selected(playlist) \cap DOMAIN pis \subseteq m.loaded
<1>1. /\ setting \in Settings /\ playlist \in Playlist
      /\ Len(playlist.previous) <= MaxPrevious /\ DOMAIN pis \subseteq InstanceIds
      /\ NextIsProper(playlist)
  BY CollectionTypes DEF Typed, TypeOK
<1>2. /\ playlist.previous \in Seq(InstanceIds)
      /\ playlist.current \in InstanceIds \cup {NoInstance}
      /\ playlist.next.id \in InstanceIds \cup {NoInstance}
  BY <1>1 DEF Playlist, NextInfo
<1>3. Selected(playlist) \subseteq InstanceIds
  BY <1>2 DEF Selected, Range
<1>4. IsFiniteSet(Selected(playlist))
  <2>1. IsFiniteSet(Range(playlist.previous))
    BY <1>2, RangeIsFinite
  <2>2. IsFiniteSet({playlist.current, playlist.next.id})
    <3>1. IsFiniteSet({playlist.current})
      BY FS_Singleton
    <3>2. IsFiniteSet({playlist.current} \cup {playlist.next.id})
      BY <3>1, FS_AddElement
    <3>3. {playlist.current, playlist.next.id} = {playlist.current} \cup {playlist.next.id}
      OBVIOUS
    <3> QED BY <3>2, <3>3
  <2>3. IsFiniteSet(Range(playlist.previous) \cup {playlist.current, playlist.next.id})
    BY <2>1, <2>2, FS_Union
  <2> QED BY <2>3, FS_Difference DEF Selected
<1>5. IsFiniteSet(DOMAIN pis \cup Selected(playlist))
  BY <1>4, FS_Union
<1>6. /\ m.pl = playlist /\ m.pis = pis /\ m.rundown = r
      /\ m.deferred = {} /\ m.purged = {}
      /\ m.used = DOMAIN pis \cup Selected(playlist)
      /\ m.loaded \subseteq DOMAIN pis
      /\ Selected(playlist) \cap DOMAIN pis \subseteq m.loaded
  BY DEF Load
<1>7. m \in [pl : {playlist}, pis : {pis}, rundown : {r},
             loaded : SUBSET DOMAIN pis, deferred : {{}}, purged : {{}},
             used : {DOMAIN pis \cup Selected(playlist)}]
  BY DEF Load
<1>8. m \in Models
  BY <1>1, <1>3, <1>7 DEF Models
<1>9. Fits(m)
  BY <1>1, <1>5, <1>6, <1>8 DEF Fits, NextIsProper
<1> QED BY <1>1, <1>6, <1>9 DEF Sane

LEMMA ModelIsSane ==
  ASSUME Typed
  PROVE  /\ Sane(Model) /\ Model.pl = playlist /\ Model.pis = instances
         /\ Model.rundown = rundown /\ Model.deferred = {} /\ Model.purged = {}
         /\ Model.used = DOMAIN instances \cup Selected(playlist)
         /\ Model.loaded \subseteq DOMAIN instances
         /\ Selected(playlist) \cap DOMAIN instances \subseteq Model.loaded
<1>1. instances \in Collections /\ IsFiniteSet(DOMAIN instances) /\ rundown \in Rundown
  BY DEF Typed, TypeOK
<1> QED BY <1>1, LoadIsSane DEF Model

LEMMA ModelIsInPlace ==
  ASSUME Typed, SlotsMatchInstances, SlotsDistinct, SelectedShareActivation, Whole
  PROVE  InPlace(Model)
<1> DEFINE m == Model
<1>1. /\ Sane(m) /\ m.pl = playlist /\ m.pis = instances /\ m.deferred = {} /\ m.purged = {}
      /\ Selected(playlist) \cap DOMAIN instances \subseteq m.loaded
  BY ModelIsSane
<1>2. /\ playlist \in Playlist /\ playlist.next \in NextInfo /\ NoInstance \notin DOMAIN instances
      /\ NoInstance \notin Range(playlist.previous)
      /\ playlist.next.consumes \in BOOLEAN
  BY <1>1, ModelTypes DEF Sane, Playlist, NextInfo
<1> HIDE DEF m
<1>3. /\ SlotsExist /\ PlayedSlots /\ OnlyNextIsUntaken /\ PlaybackIsReported
  BY DEF SlotsMatchInstances
<1>4. /\ playlist.current # NoInstance => playlist.current # playlist.next.id
      /\ ~PlayFromAnywhere =>
           /\ Range(playlist.previous) \cap {playlist.current, playlist.next.id} = {}
           /\ IsInjective(playlist.previous)
  BY DEF SlotsDistinct
<1>5. /\ playlist.activation = None => Selected(playlist) = {}
      /\ playlist.activation # None /\ ~PlayFromAnywhere =>
           \A i \in Selected(playlist) : instances[i].activation = playlist.activation
  BY DEF SelectedShareActivation, Active
<1>6. Aired(playlist) = Range(playlist.previous) \cup ({playlist.current} \ {NoInstance})
      /\ Aired(playlist) \subseteq Selected(playlist)
  BY <1>2 DEF Aired, Selected
<1>7. AiredInOrder(m)
  <2>1. Aired(playlist) \subseteq DOMAIN instances
    BY <1>3, <1>6 DEF SlotsExist
  <2>2. \A i \in Aired(playlist) : instances[i].taken
    BY <1>3, <1>6 DEF PlayedSlots
  <2>3. Aired(playlist) # {} => playlist.activation # None
    BY <1>5, <1>6
  <2>4. ~PlayFromAnywhere => \A i \in Aired(playlist) : instances[i].activation = playlist.activation
    BY <1>5, <1>6, <2>3
  <2>5. ~PlayFromAnywhere /\ playlist.current # NoInstance => ~instances[playlist.current].reset
    BY <1>3 DEF PlayedSlots
  <2>6. \A i \in DOMAIN instances : ~instances[i].taken => i \in m.loaded
    BY <1>1, <1>2, <1>3 DEF OnlyNextIsUntaken, Selected
  <2> QED BY <1>1, <1>4, <2>1, <2>2, <2>3, <2>4, <2>5, <2>6 DEF AiredInOrder
<1>8. NextInOrder(m)
  <2>1. CASE playlist.next.id = NoInstance
    <3>1. ~playlist.next.consumes
      BY <2>1 DEF Typed, NextIsProper
    <3>2. playlist.next = NoNext
      BY <1>2, <2>1, <3>1 DEF NextInfo, NoNext
    <3> QED BY <1>1, <3>2 DEF NextInOrder
  <2>2. CASE playlist.next.id # NoInstance
    <3>1. playlist.next.id \in Selected(playlist)
      BY <2>2 DEF Selected
    <3>2. /\ playlist.next.id \in DOMAIN instances /\ playlist.activation # None
          /\ ~PlayFromAnywhere => instances[playlist.next.id].activation = playlist.activation
      BY <1>3, <1>5, <3>1 DEF SlotsExist
    <3>3. ~PlayFromAnywhere => ~instances[playlist.next.id].reset
      BY <1>3, <2>2 DEF PlayedSlots
    <3>4. playlist.next.id # playlist.current
      BY <1>4, <2>2
    <3> QED BY <1>1, <1>4, <3>2, <3>3, <3>4 DEF NextInOrder
  <2> QED BY <2>1, <2>2
<1>9. OnlyNext(m) /\ Playing(m)
  BY <1>1, <1>3 DEF OnlyNext, OnlyNextIsUntaken, Playing, PlaybackIsReported
<1> QED BY <1>7, <1>8, <1>9 DEF InPlace, m

LEMMA ModelIsInOrder ==
  ASSUME PlayoutInv, Whole
  PROVE  InOrder(Model)
<1>1. Model.pl = playlist
  BY ModelIsSane DEF PlayoutInv
<1>2. HoldInOrder(Model.pl)
  BY <1>1 DEF PlayoutInv, HoldPairs, IsHoldPair, HoldInOrder, HeldPair
<1> QED BY <1>2, ModelIsInPlace DEF PlayoutInv, InOrder

-----------------------------------------------------------------------------
(* Saving.                                                                 *)
LEMMA RememberedEffect ==
  ASSUME NEW pl, NEW pis \in Collections, IsFiniteSet(DOMAIN pis), NEW n, n = Remembered(pl, pis)
  PROVE  /\ n \in Collections /\ DOMAIN n \subseteq DOMAIN pis /\ IsFiniteSet(DOMAIN n)
         /\ \A i \in DOMAIN n : n[i] = pis[i] /\ (~pis[i].reset \/ i \in Selected(pl))
         /\ Selected(pl) \cap DOMAIN pis \subseteq DOMAIN n
<1> DEFINE kept == {i \in DOMAIN pis : ~pis[i].reset}
           played == {i \in kept : pis[i].taken} \ Selected(pl)
           ofNow(i) == pis[i].activation = pl.activation
           alike(i, j) == /\ PartOf(i) = PartOf(j) /\ (ofNow(i) <=> ofNow(j))
                          /\ [pis[i] EXCEPT !.activation = None] = [pis[j] EXCEPT !.activation = None]
           spare == IF TrackPlayed THEN {i \in played : \E j \in played : alike(i, j) /\ j[2] < i[2]}
                    ELSE played
           D == (kept \ spare) \cup (Selected(pl) \cap DOMAIN pis)
<1>1. n = [i \in D |-> pis[i]]
  BY DEF Remembered
<1> HIDE DEF spare
<1>2. D \subseteq DOMAIN pis /\ \A i \in D : ~pis[i].reset \/ i \in Selected(pl)
  OBVIOUS
<1>3. Selected(pl) \cap DOMAIN pis \subseteq D
  OBVIOUS
<1> HIDE DEF D
<1>4. DOMAIN pis \subseteq InstanceIds /\ \A i \in DOMAIN pis : pis[i] \in PartInstance
  BY CollectionTypes
<1>5. n \in [D -> PartInstance] /\ D \in SUBSET InstanceIds
  BY <1>1, <1>2, <1>4
<1>6. n \in Collections
  BY <1>5, CollectionMade
<1>7. IsFiniteSet(D)
  BY <1>2, FS_Subset
<1> QED BY <1>1, <1>2, <1>3, <1>6, <1>7

LEMMA SavedEffect ==
  ASSUME NEW m, Fits(m), NEW n, n = SavedInstances(m)
  PROVE  /\ n \in Collections /\ DOMAIN n = DOMAIN m.pis \ m.purged
         /\ \A i \in DOMAIN n : /\ Alike(m.pis[i], n[i])
                                /\ n[i].reset => m.pis[i].reset \/ i \in m.deferred
                                /\ m.pis[i].reset \/ i \in m.deferred => n[i].reset
<1> DEFINE D == DOMAIN m.pis \ m.purged
<1>1. n = [i \in D |-> IF i \in m.deferred THEN [m.pis[i] EXCEPT !.reset = TRUE] ELSE m.pis[i]]
  BY DEF SavedInstances
<1>2. D \in SUBSET InstanceIds /\ \A i \in D : m.pis[i] \in PartInstance
  BY ModelTypes
<1>3. n \in [D -> PartInstance]
  <2>1. \A i \in D : [m.pis[i] EXCEPT !.reset = TRUE] \in PartInstance
    BY <1>2 DEF PartInstance
  <2> QED BY <1>1, <1>2, <2>1
<1>4. n \in Collections
  BY <1>2, <1>3, CollectionMade
<1>5. ASSUME NEW i \in D
      PROVE  /\ Alike(m.pis[i], n[i])
             /\ n[i].reset => m.pis[i].reset \/ i \in m.deferred
             /\ m.pis[i].reset \/ i \in m.deferred => n[i].reset
  <2>1. m.pis[i] \in PartInstance
    BY <1>2
  <2>2. CASE i \in m.deferred
    <3>1. n[i] = [m.pis[i] EXCEPT !.reset = TRUE]
      BY <1>1, <2>2
    <3> QED BY <2>1, <2>2, <3>1 DEF PartInstance, Alike
  <2>3. CASE i \notin m.deferred
    <3>1. n[i] = m.pis[i]
      BY <1>1, <2>3
    <3> QED BY <2>3, <3>1 DEF Alike
  <2> QED BY <2>2, <2>3
<1> QED BY <1>3, <1>4, <1>5

(* The setting is what it was, and so is all that it sets.                 *)
LEMMA SettingStays ==
  ASSUME setting' = setting
  PROVE  /\ InstanceIds' = InstanceIds /\ Playlist' = Playlist /\ Rundown' = Rundown
         /\ Collections' = Collections /\ MaxPrevious' = MaxPrevious /\ MaxCrashes' = MaxCrashes
         /\ PlayFromAnywhere' = PlayFromAnywhere /\ GatewayAttached' = GatewayAttached
         /\ HoldFrom' = HoldFrom /\ HoldTo' = HoldTo /\ SegmentOf' = SegmentOf
         /\ Parts' = Parts
<1>1. Parts' = Parts /\ SegmentOf' = SegmentOf
  BY DEF Parts, NumParts, SegmentOf
<1>2. Segments' = Segments
  BY <1>1 DEF Segments
<1>3. InstanceIds' = InstanceIds
  BY <1>1 DEF InstanceIds
<1>4. NextInfo' = NextInfo
  BY <1>3 DEF NextInfo
<1>5. Playlist' = Playlist
  BY <1>2, <1>3, <1>4 DEF Playlist
<1>6. Rundown' = Rundown
  BY <1>1, <1>2 DEF Rundown
<1>7. Collections' = Collections
  BY <1>3 DEF Collections
<1>8. /\ MaxPrevious' = MaxPrevious /\ MaxCrashes' = MaxCrashes
      /\ PlayFromAnywhere' = PlayFromAnywhere /\ GatewayAttached' = GatewayAttached
      /\ HoldFrom' = HoldFrom /\ HoldTo' = HoldTo
  BY DEF MaxPrevious, MaxCrashes, PlayFromAnywhere, GatewayAttached, HoldFrom, HoldTo
<1> QED BY <1>1, <1>3, <1>5, <1>6, <1>7, <1>8

LEMMA TypesStored ==
  ASSUME Typed, setting' = setting, rundown' \in Rundown, crashes' \in 0..MaxCrashes,
         NEW pl \in Playlist, Len(pl.previous) <= MaxPrevious, NextIsProper(pl),
         NEW pis \in Collections, IsFiniteSet(DOMAIN pis), Save(pl, pis)
  PROVE  Typed'
<1>1. playlist' = pl /\ instances' = Remembered(pl, pis)
  BY DEF Save
<1> DEFINE n == Remembered(pl, pis)
<1>2. n \in Collections /\ IsFiniteSet(DOMAIN n)
  BY RememberedEffect
<1> HIDE DEF n
<1>3. DOMAIN n \subseteq InstanceIds /\ \A i \in DOMAIN n : n[i] \in PartInstance
  BY <1>2, CollectionTypes
<1>4. setting \in Settings
  BY DEF Typed, TypeOK
<1>5. instances' = n
  BY <1>1 DEF n
<1>6. TypeOK'
  BY <1>1, <1>3, <1>4, <1>5, SettingStays DEF TypeOK, PartInstance
<1>7. instances' \in Collections' /\ IsFiniteSet(DOMAIN instances')
  BY <1>2, <1>5, SettingStays
<1>8. NextIsProper(playlist')
  BY <1>1
<1> QED BY <1>6, <1>7, <1>8 DEF Typed

LEMMA InPlaceStored ==
  ASSUME NEW m, Sane(m), InPlace(m), setting' = setting, Save(m.pl, SavedInstances(m))
  PROVE  /\ (SlotsMatchInstances /\ SlotsDistinct /\ SelectedShareActivation)'
         /\ HoldInOrder(m.pl) => HoldPairs'
<1> DEFINE saved == SavedInstances(m)
           n == Remembered(m.pl, saved)
           pl == m.pl
<1>1. playlist' = pl /\ instances' = n
  BY DEF Save
<1>2. /\ pl \in Playlist /\ NoInstance \notin DOMAIN m.pis /\ NoInstance \notin Range(pl.previous)
      /\ setting \in Settings /\ IsFiniteSet(DOMAIN m.pis)
  BY ModelTypes, FS_Subset DEF Sane, Fits
<1>3. /\ saved \in Collections /\ DOMAIN saved = DOMAIN m.pis \ m.purged
      /\ \A i \in DOMAIN saved : /\ Alike(m.pis[i], saved[i])
                                 /\ saved[i].reset => m.pis[i].reset \/ i \in m.deferred
  BY SavedEffect DEF Sane
<1>4. IsFiniteSet(DOMAIN saved)
  BY <1>2, <1>3, FS_Subset
<1>5. /\ DOMAIN n \subseteq DOMAIN saved /\ \A i \in DOMAIN n : n[i] = saved[i]
      /\ Selected(pl) \cap DOMAIN saved \subseteq DOMAIN n
  BY <1>3, <1>4, RememberedEffect
<1> HIDE DEF saved, n
<1>6. AiredInOrder(m) /\ NextInOrder(m) /\ OnlyNext(m) /\ Playing(m)
  BY DEF InPlace
<1>7. /\ Aired(pl) = Range(pl.previous) \cup ({pl.current} \ {NoInstance})
      /\ Selected(pl) = Aired(pl) \cup ({pl.next.id} \ {NoInstance})
  BY <1>2 DEF Aired, Selected
<1>8. NoNext.id = NoInstance
  BY DEF NoNext
<1>9. Selected(pl) \subseteq DOMAIN saved
  BY <1>3, <1>6, <1>7, <1>8 DEF AiredInOrder, NextInOrder
<1>10. Selected(pl) \subseteq DOMAIN n
  BY <1>5, <1>9
<1>11. \A i \in DOMAIN n : /\ i \in DOMAIN m.pis /\ Alike(m.pis[i], n[i])
                           /\ n[i].reset => m.pis[i].reset \/ i \in m.deferred
  BY <1>3, <1>5
<1>12. \A i \in Aired(pl) : n[i].taken
  BY <1>6, <1>7, <1>10, <1>11 DEF AiredInOrder, Alike
<1>13. ~PlayFromAnywhere => \A i \in {pl.current, pl.next.id} \ {NoInstance} : ~n[i].reset
  <2>1. ~PlayFromAnywhere /\ pl.current # NoInstance => pl.current \in Aired(pl) /\ ~n[pl.current].reset
    BY <1>6, <1>7, <1>10, <1>11 DEF AiredInOrder
  <2>2. ~PlayFromAnywhere /\ pl.next.id # NoInstance => ~n[pl.next.id].reset
    BY <1>6, <1>7, <1>8, <1>10, <1>11 DEF NextInOrder
  <2> QED BY <2>1, <2>2
<1>14. \A i \in DOMAIN n : ~n[i].taken => i = pl.next.id
  BY <1>6, <1>11 DEF OnlyNext, Alike
<1>15. ~GatewayAttached /\ pl.current # NoInstance => n[pl.current].started
  BY <1>6, <1>7, <1>10, <1>11 DEF Playing, Alike
<1>16. SlotsMatchInstances'
  <2>1. SlotsExist'
    BY <1>1, <1>10 DEF SlotsExist
  <2>2. PlayedSlots'
    BY <1>1, <1>7, <1>12, <1>13, SettingStays DEF PlayedSlots
  <2>3. OnlyNextIsUntaken'
    BY <1>1, <1>14 DEF OnlyNextIsUntaken
  <2>4. PlaybackIsReported'
    BY <1>1, <1>15, SettingStays DEF PlaybackIsReported
  <2> QED BY <2>1, <2>2, <2>3, <2>4 DEF SlotsMatchInstances
<1>17. pl.current # NoInstance => pl.current # pl.next.id
  BY DEF Sane, Fits
<1>18. ~PlayFromAnywhere => /\ Range(pl.previous) \cap {pl.current, pl.next.id} = {}
                            /\ IsInjective(pl.previous)
  BY <1>2, <1>6, <1>8 DEF AiredInOrder, NextInOrder
<1>19. SlotsDistinct'
  BY <1>1, <1>17, <1>18, SettingStays DEF SlotsDistinct
<1>20. \A i \in Selected(pl) : /\ pl.activation # None
                               /\ ~PlayFromAnywhere => n[i].activation = pl.activation
  BY <1>6, <1>7, <1>8, <1>10, <1>11 DEF AiredInOrder, NextInOrder, Alike
<1>21. SelectedShareActivation'
  BY <1>1, <1>20, SettingStays DEF SelectedShareActivation, Active
<1>22. ASSUME HoldInOrder(pl)
       PROVE  HoldPairs'
  <2>1. /\ HoldFrom \cup HoldTo \subseteq Parts /\ None \notin Parts /\ PartOf(NoInstance) = None
        /\ HoldFrom' = HoldFrom /\ HoldTo' = HoldTo /\ SegmentOf' = SegmentOf
    BY <1>2, SettingTypes, SettingStays DEF None, PartOf, NoInstance
  <2>2. ASSUME NEW i, NEW j, HeldPair(i, j), {i, j} \ {NoInstance} \subseteq DOMAIN n
        PROVE  /\ {i, j} \subseteq DOMAIN n
               /\ PartOf(i) \in HoldFrom /\ PartOf(j) \in HoldTo
               /\ SegmentOf[PartOf(i)] = SegmentOf[PartOf(j)]
    <3>1. i # NoInstance /\ j # NoInstance
      BY <2>1, <2>2 DEF HeldPair
    <3> QED BY <2>2, <3>1 DEF HeldPair, SegmentOfInstance
  <2>3. CASE pl.hold = "pending"
    <3>1. {pl.current, pl.next.id} \ {NoInstance} \subseteq DOMAIN n
      BY <1>10 DEF Selected
    <3>2. /\ {pl.current, pl.next.id} \subseteq DOMAIN n
          /\ PartOf(pl.current) \in HoldFrom /\ PartOf(pl.next.id) \in HoldTo
          /\ SegmentOf[PartOf(pl.current)] = SegmentOf[PartOf(pl.next.id)]
      BY <1>22, <2>2, <2>3, <3>1 DEF HoldInOrder
    <3> QED BY <1>1, <2>1, <2>3, <3>2 DEF HoldPairs, IsHoldPair, SegmentOfInstance
  <2>4. CASE pl.hold \in {"active", "complete"}
    <3>1. pl.previous # <<>> /\ HeldPair(Head(pl.previous), pl.current)
      BY <1>22, <2>4 DEF HoldInOrder
    <3>2. Head(pl.previous) \in Range(pl.previous)
      <4>1. pl.previous \in Seq(InstanceIds)
        BY ModelTypes DEF Sane
      <4>2. Len(pl.previous) \in Nat /\ DOMAIN pl.previous = 1..Len(pl.previous)
            /\ Len(pl.previous) # 0 /\ Head(pl.previous) = pl.previous[1]
        BY <3>1, <4>1
      <4>3. 1 \in DOMAIN pl.previous
        BY <4>2
      <4> QED BY <4>2, <4>3 DEF Range
    <3>3. {Head(pl.previous), pl.current} \ {NoInstance} \subseteq DOMAIN n
      BY <1>10, <3>2 DEF Selected
    <3>4. /\ {Head(pl.previous), pl.current} \subseteq DOMAIN n
          /\ PartOf(Head(pl.previous)) \in HoldFrom /\ PartOf(pl.current) \in HoldTo
          /\ SegmentOf[PartOf(Head(pl.previous))] = SegmentOf[PartOf(pl.current)]
      BY <2>2, <3>1, <3>3
    <3> QED BY <1>1, <2>1, <2>4, <3>1, <3>4 DEF HoldPairs, IsHoldPair, SegmentOfInstance
  <2>5. CASE pl.hold \notin {"pending", "active", "complete"}
    BY <1>1, <2>5 DEF HoldPairs
  <2> QED BY <2>3, <2>4, <2>5
<1> QED BY <1>16, <1>19, <1>21, <1>22

(* A job that leaves what is good keeps the types, crash or no crash.      *)
LEMMA SaveKeepsTypes ==
  ASSUME Typed, NEW m, Sane(m), SaveAllToDatabase(m), UNCHANGED <<setting, rundown>>
  PROVE  Typed'
<1>1. /\ crashes \in 0..MaxCrashes /\ MaxCrashes \in Nat /\ rundown' \in Rundown
      /\ setting' = setting
  BY SettingTypes DEF Typed, TypeOK
<1>2. /\ m.pl \in Playlist /\ Len(m.pl.previous) <= MaxPrevious /\ NextIsProper(m.pl)
      /\ m.pis \in Collections /\ IsFiniteSet(DOMAIN m.pis)
  BY ModelTypes, FS_Subset DEF Sane, Fits, NextIsProper
<1>3. /\ playlist \in Playlist /\ Len(playlist.previous) <= MaxPrevious /\ NextIsProper(playlist)
      /\ instances \in Collections /\ IsFiniteSet(DOMAIN instances)
  BY DEF Typed, TypeOK
<1>4. SavedInstances(m) \in Collections /\ IsFiniteSet(DOMAIN SavedInstances(m))
  BY <1>2, SavedEffect, FS_Subset DEF Sane
<1>5. CASE Save(m.pl, SavedInstances(m)) /\ UNCHANGED crashes
  BY <1>1, <1>2, <1>4, <1>5, TypesStored
<1>6. CASE CrashDuringSave(m)
  <2>1. crashes' \in 0..MaxCrashes
    BY <1>1, <1>6 DEF CrashDuringSave
  <2>2. CASE Save(m.pl, instances)
    BY <1>1, <1>2, <1>3, <2>1, <2>2, TypesStored
  <2>3. CASE Save(playlist, m.pis)
    BY <1>1, <1>2, <1>3, <2>1, <2>3, TypesStored
  <2>4. CASE Save(m.pl, m.pis)
    BY <1>1, <1>2, <2>1, <2>4, TypesStored
  <2> QED BY <1>6, <2>2, <2>3, <2>4 DEF CrashDuringSave
<1> QED BY <1>5, <1>6 DEF SaveAllToDatabase

(* And it keeps the invariant: where no save broke off, what it leaves is  *)
(* in order; and of the rest only the types are promised.                  *)
LEMMA SaveKeeps ==
  ASSUME PlayoutInv, NEW m, Good(Model, m), SaveAllToDatabase(m), UNCHANGED <<setting, rundown>>
  PROVE  PlayoutInv'
<1>1. Typed /\ Sane(m) /\ crashes \in Nat
  BY SettingTypes DEF PlayoutInv, Typed, TypeOK, Good
<1>2. Typed'
  BY <1>1, SaveKeepsTypes
<1>3. CASE Save(m.pl, SavedInstances(m)) /\ UNCHANGED crashes /\ Whole
  <2>1. InOrder(m)
    BY <1>3, ModelIsInOrder DEF Good
  <2> QED BY <1>1, <1>2, <1>3, <2>1, InPlaceStored DEF PlayoutInv, InOrder
<1>4. CASE ~Whole'
  BY <1>2, <1>4 DEF PlayoutInv, SlotsMatchInstances, SlotsDistinct, SelectedShareActivation, HoldPairs
<1>5. Whole' => Whole /\ Save(m.pl, SavedInstances(m)) /\ UNCHANGED crashes
  BY <1>1 DEF Whole, SaveAllToDatabase, CrashDuringSave
<1> QED BY <1>3, <1>4, <1>5

-----------------------------------------------------------------------------
(* Every job leaves what is good.                                          *)
JobDone == \E m : Good(Model, m) /\ SaveAllToDatabase(m)

(* What comes next is then what followed, or as it was; but not where a    *)
(* user chose it.                                                          *)
GoesOnDone == \E m : GoodAndGoesOn(Model, m) /\ SaveAllToDatabase(m)

LEMMA Saving ==
  ASSUME NEW m, UpdateTimelineAndSave(m)
  PROVE  /\ Good(Model, m) => JobDone
         /\ GoodAndGoesOn(Model, m) => GoesOnDone
BY DEF JobDone, GoesOnDone, UpdateTimelineAndSave

LEMMA ActivationDone ==
  ASSUME Typed,
         \/ HandlePrepareForBroadcast
         \/ \E activate \in Modes \cup {AsBefore} : HandleResetRundownPlaylist(activate)
         \/ \E mode \in Modes : HandleActivateRundownPlaylist(mode)
         \/ HandleDeactivateRundownPlaylist
  PROVE  GoesOnDone
<1>1. Sane(Model) /\ playlist.rehearsal \in BOOLEAN
  BY ModelIsSane DEF Typed, TypeOK, Playlist
<1>2. CASE HandlePrepareForBroadcast
  <2>1. PICK m \in ActivateRundownPlaylist(Model, TRUE, TRUE) : UpdateTimelineAndSave(m)
    BY <1>2 DEF HandlePrepareForBroadcast
  <2> QED BY <1>1, <2>1, ActivateIsGood, Saving
<1>3. ASSUME NEW activate \in Modes \cup {AsBefore}, HandleResetRundownPlaylist(activate)
      PROVE  GoesOnDone
  <2>1. PICK m \in ResetOutcomes(activate) : UpdateTimelineAndSave(m)
    BY <1>3 DEF HandleResetRundownPlaylist
  <2> DEFINE r == IF activate = AsBefore THEN playlist.rehearsal ELSE activate = "rehearsal"
  <2>2. r \in BOOLEAN
    BY <1>1
  <2>3. m \in ActivateRundownPlaylist(Model, r, TRUE) \/ m \in ResetRundownPlaylist(Model)
    BY <2>1 DEF ResetOutcomes
  <2> HIDE DEF r
  <2>4. GoodAndGoesOn(Model, m)
    BY <1>1, <2>2, <2>3, ActivateIsGood, ResetIsGood
  <2> QED BY <2>1, <2>4, Saving
<1>4. ASSUME NEW mode \in Modes, HandleActivateRundownPlaylist(mode)
      PROVE  GoesOnDone
  <2> DEFINE r == mode = "rehearsal"
  <2>1. PICK m \in ActivateRundownPlaylist(Model, r, FALSE) : UpdateTimelineAndSave(m)
    BY <1>4 DEF HandleActivateRundownPlaylist
  <2>2. r \in BOOLEAN
    OBVIOUS
  <2> HIDE DEF r
  <2>3. GoodAndGoesOn(Model, m)
    BY <1>1, <2>1, <2>2, ActivateIsGood
  <2> QED BY <2>1, <2>3, Saving
<1>5. CASE HandleDeactivateRundownPlaylist
  <2>1. PICK m \in SetNextPart(DeactivatePlaylist(Model), NoSelection) : UpdateTimelineAndSave(m)
    BY <1>5 DEF HandleDeactivateRundownPlaylist
  <2> QED BY <1>1, <2>1, DeactivateIsGood, Saving
<1> QED BY <1>2, <1>3, <1>4, <1>5

(* What is moved to is a Part that may be played.                          *)
LEMMA NeighbourIsPart ==
  ASSUME setting \in Settings, NEW m, NEW p, NEW forward \in BOOLEAN
  PROVE  Neighbour(m, p, forward) \in PlayableParts(m) \cup {None}
<1> DEFINE S == {q \in PlayableParts(m) : IF forward THEN q > p ELSE q < p}
<1>1. S \subseteq PlayableParts(m) /\ S \in SUBSET Nat /\ NumParts \in Nat /\ \A q \in S : q <= NumParts
  BY SettingTypes DEF PlayableParts, Parts
<1>2. Neighbour(m, p, forward) = CASE S = {} -> None [] S # {} /\ forward -> Min(S) [] OTHER -> Max(S)
  BY DEF Neighbour
<1> HIDE DEF S
<1>3. S # {} => Min(S) \in S /\ Max(S) \in S
  BY <1>1, MinIsLeast, MaxIsGreatest
<1> QED BY <1>1, <1>2, <1>3

LEMMA MovesToPart ==
  ASSUME setting \in Settings, NEW m, NEW ref, NEW current, NEW forward \in BOOLEAN
  PROVE  /\ MoveByPart(m, ref, current, forward) \in PlayableParts(m) \cup {None}
         /\ MoveBySegment(m, ref, current, forward) \in PlayableParts(m) \cup {None}
<1>1. MoveByPart(m, ref, current, forward) \in PlayableParts(m) \cup {None}
  BY NeighbourIsPart DEF MoveByPart
<1>2. MoveBySegment(m, ref, current, forward) \in PlayableParts(m) \cup {None}
  <2> DEFINE beyond(q) == IF forward THEN SegmentOf[q] > SegmentOf[ref]
                          ELSE SegmentOf[q] < SegmentOf[ref]
             S == {q \in PlayableParts(m) \ {current} : beyond(q)}
             segments == {SegmentOf[q] : q \in S}
             closest == IF forward THEN Min(segments) ELSE Max(segments)
             T == {q \in S : SegmentOf[q] = closest}
  <2>1. MoveBySegment(m, ref, current, forward) = IF S = {} THEN None ELSE FirstOf(T)
    BY DEF MoveBySegment
  <2>2. T \in SUBSET Parts /\ T \subseteq PlayableParts(m)
    BY DEF PlayableParts
  <2> HIDE DEF T, S
  <2> QED BY <2>1, <2>2, FirstOfIsMember
<1> QED BY <1>1, <1>2

(* A Part is set as next.                                                  *)
LEMMA SetPartDone ==
  ASSUME Typed, MayChangeNext,
         NEW m, Sane(m), Sourced(Model, m), InPlace(Model) => InPlace(m), InOrder(Model) => InOrder(m),
         m.pl.activation = playlist.activation, m.pl.hold = playlist.hold,
         m.pl.current = playlist.current, m.pl.previous = playlist.previous,
         NEW p \in PlayableParts(m), NEW consumes \in BOOLEAN,
         NEW n \in SetNextPart(m, PartSelection(p, consumes))
  PROVE  Good(Model, n)
<1> DEFINE c == PartSelection(p, consumes)
<1>1. Sane(Model) /\ Model.pl = playlist
  BY ModelIsSane
<1>2. m.pl.hold \in {"none", "complete"} /\ m.pl.activation # None
  BY DEF MayChangeNext, Active
<1>3. IsChoice(m, c) /\ SoundChoice(m, c)
  BY <1>2 DEF IsChoice, SoundChoice, PartSelection
<1>4. Good(m, n)
  BY <1>2, <1>3, SetNextIsGood
<1> QED BY <1>1, <1>4, SourcedTransitive DEF Good, CleanMove, Lingers, NothingBehind

LEMMA SetNextDone ==
  ASSUME Typed, SetNextStep \/ QueueStep
  PROVE  JobDone
<1>1. /\ Sane(Model) /\ Fits(Model) /\ setting \in Settings /\ Model.pl = playlist
      /\ Model.pis = instances /\ Model.deferred = {} /\ Model.purged = {}
      /\ None \in Segments \cup {None} /\ Sourced(Model, Model)
  BY ModelIsSane, SlotsSourced DEF Sane, Fits, SameStore
<1>2. ASSUME NEW p, NEW q
      PROVE  ConsumesQueuedSegment(q, p) \in BOOLEAN
  BY DEF ConsumesQueuedSegment
<1>3. ASSUME MayChangeNext, NEW p \in PlayableParts(Model), \E m \in SetNextPartFromPart(p) : UpdateTimelineAndSave(m)
      PROVE  JobDone
  <2>1. PICK m \in SetNextPart(Model, PartSelection(p, ConsumesQueuedSegment(Model, p))) :
          UpdateTimelineAndSave(m)
    BY <1>3 DEF SetNextPartFromPart
  <2>2. Good(Model, m)
    BY <1>1, <1>2, <1>3, <2>1, SetPartDone
  <2> QED BY <2>1, <2>2, Saving
<1>4. ASSUME NEW p \in Parts, HandleSetNextPart(p)
      PROVE  JobDone
  BY <1>3, <1>4 DEF HandleSetNextPart
<1>5. ASSUME NEW forward \in BOOLEAN, NEW bySegment \in BOOLEAN, HandleMoveNextPart(forward, bySegment)
      PROVE  JobDone
  <2>1. PICK ref, current, target :
          /\ MayChangeNext /\ target # None
          /\ target = IF bySegment THEN MoveBySegment(Model, ref, current, forward)
                      ELSE MoveByPart(Model, ref, current, forward)
          /\ \E m \in SetNextPartFromPart(target) : UpdateTimelineAndSave(m)
    BY <1>5 DEF HandleMoveNextPart
  <2>2. target \in PlayableParts(Model)
    BY <1>1, <2>1, MovesToPart
  <2> QED BY <1>3, <2>1, <2>2
<1>6. ASSUME NEW i \in DOMAIN instances, HandleSetNextInstance(i)
      PROVE  JobDone
  <2> DEFINE p == PartOf(i)
             byPart == NoInstance \in {playlist.next.id, playlist.current} \/ i = playlist.current
             choice == IF byPart THEN PartSelection(p, ConsumesQueuedSegment(Model, p))
                       ELSE InstanceSelection(i)
  <2>1. /\ MayChangeNext /\ PlayFromAnywhere
        /\ byPart => p \in PlayableParts(Model)
        /\ \E m \in SetNextPart(Model, choice) : UpdateTimelineAndSave(m)
    BY <1>6 DEF HandleSetNextInstance
  <2>2. PICK m \in SetNextPart(Model, choice) : UpdateTimelineAndSave(m)
    BY <2>1
  <2>3. CASE byPart
    <3>1. p \in PlayableParts(Model) /\ choice = PartSelection(p, ConsumesQueuedSegment(Model, p))
      BY <2>1, <2>3
    <3>2. Good(Model, m)
      BY <1>1, <1>2, <2>1, <2>2, <3>1, SetPartDone
    <3> QED BY <2>2, <3>2, Saving
  <2>4. CASE ~byPart
    <3>1. choice = InstanceSelection(i) /\ choice.instance = i /\ i # NoInstance /\ i # playlist.current
      BY <1>1, <2>4, ModelTypes DEF InstanceSelection
    <3> HIDE DEF choice
    <3>2. i \in Model.loaded
      BY <2>2, <3>1 DEF SetNextPart
    <3>3. IsChoice(Model, choice) /\ SoundChoice(Model, choice)
      BY <1>1, <2>1, <3>1, <3>2 DEF IsChoice, SoundChoice, MayChangeNext, Active
    <3>4. Good(Model, m)
      BY <1>1, <2>1, <2>2, <3>3, SetNextIsGood DEF MayChangeNext
    <3> QED BY <2>2, <3>4, Saving
  <2> QED BY <2>3, <2>4
<1>7. ASSUME NEW q \in Segments \cup {None}
      PROVE  /\ [Model EXCEPT !.pl.queued = q] = WithQueued(Model, q)
             /\ Good(Model, WithQueued(Model, q)) /\ Sane(WithQueued(Model, q))
             /\ SameSelection(Model, WithQueued(Model, q))
             /\ WithQueued(Model, q).pl.hold = playlist.hold
  <2> DEFINE n == WithQueued(Model, q)
  <2>1. [Model EXCEPT !.pl.queued = q] = n
    BY DEF WithQueued
  <2> HIDE DEF n
  <2>2. Fits(n) /\ SameStore(Model, n) /\ SameSelection(Model, n) /\ n.pl.hold = playlist.hold
    BY <1>1, QueueEffect DEF n
  <2>3. InOrder(Model) => HoldInOrder(n.pl)
    BY <1>1, <2>2 DEF InOrder, HoldInOrder, SameSelection
  <2>4. Good(Model, n)
    BY <1>1, <2>2, <2>3, SelectionIsGood
  <2> QED BY <2>1, <2>2, <2>4 DEF Good, n
<1>8. ASSUME NEW s \in Segments
      PROVE  FirstPlayablePart(Model, s) # None => FirstPlayablePart(Model, s) \in PlayableParts(Model)
  <2>1. PlayableParts(Model) \cap PartsOfSegment(s) \in SUBSET Parts
    BY DEF PlayableParts
  <2> QED BY <1>1, <2>1, FirstOfIsMember DEF FirstPlayablePart
<1>9. ASSUME NEW p \in PlayableParts(Model), MayChangeNext,
             NEW m \in SetNextPart([Model EXCEPT !.pl.queued = None], PartSelection(p, FALSE)),
             UpdateTimelineAndSave(m)
      PROVE  JobDone
  <2>1. m \in SetNextPart(WithQueued(Model, None), PartSelection(p, FALSE))
    BY <1>1, <1>7, <1>9
  <2>2. p \in PlayableParts(WithQueued(Model, None))
    BY <1>1, <1>7, <1>9 DEF Good, Sourced, PlayableParts
  <2>3. Good(Model, m)
    BY <1>1, <1>7, <1>9, <2>1, <2>2, SetPartDone DEF SameSelection, Good
  <2> QED BY <1>9, <2>3, Saving
<1>10. ASSUME NEW s \in Segments, HandleSetNextSegment(s)
       PROVE  JobDone
  BY <1>8, <1>9, <1>10 DEF HandleSetNextSegment
<1>11. ASSUME NEW s \in Segments, HandleQueueNextSegment(s)
       PROVE  JobDone
  <2>1. PICK atOnce \in BOOLEAN :
          /\ MayChangeNext /\ FirstPlayablePart(Model, s) # None
          /\ \E m \in IF atOnce
                      THEN SetNextPart([Model EXCEPT !.pl.queued = IF atOnce THEN None ELSE s],
                                       PartSelection(FirstPlayablePart(Model, s), FALSE))
                      ELSE {[Model EXCEPT !.pl.queued = IF atOnce THEN None ELSE s]} :
                UpdateTimelineAndSave(m)
    BY <1>11 DEF HandleQueueNextSegment
  <2>2. CASE atOnce
    BY <1>8, <1>9, <2>1, <2>2
  <2>3. CASE ~atOnce
    <3>1. UpdateTimelineAndSave([Model EXCEPT !.pl.queued = s])
      BY <2>1, <2>3
    <3> QED BY <1>7, <3>1, Saving
  <2> QED BY <2>2, <2>3
<1> QED BY <1>4, <1>5, <1>6, <1>10, <1>11 DEF SetNextStep, QueueStep

LEMMA HoldDone ==
  ASSUME Typed, HandleActivateHold \/ HandleDeactivateHold \/ HandleClearQueuedSegment
  PROVE  GoesOnDone
<1>1. /\ Sane(Model) /\ Fits(Model) /\ Model.pl = playlist
      /\ "pending" \in HoldStates /\ "none" \in HoldStates /\ None \in Segments \cup {None}
  BY ModelIsSane DEF Sane, HoldStates
<1>2. ASSUME NEW h \in HoldStates, NEW n, n = WithHold(Model, h), InOrder(Model) => HoldInOrder(n.pl)
      PROVE  GoodAndGoesOn(Model, n)
  <2>1. /\ Fits(n) /\ SameStore(Model, n) /\ SameSelection(Model, n)
        /\ n.pl.queued = Model.pl.queued
    BY <1>1, <1>2, HoldEffect
  <2> QED BY <1>1, <1>2, <2>1, SelectionIsGood
<1>3. CASE HandleActivateHold
  <2> DEFINE n == WithHold(Model, "pending")
  <2>1. /\ UpdateTimelineAndSave(n)
        /\ PartOf(playlist.current) \in HoldFrom /\ PartOf(playlist.next.id) \in HoldTo
        /\ SegmentOf[PartOf(playlist.current)] = SegmentOf[PartOf(playlist.next.id)]
    BY <1>3 DEF HandleActivateHold, WithHold
  <2> HIDE DEF n
  <2>2. n.pl.current = playlist.current /\ n.pl.next = playlist.next /\ n.pl.hold = "pending"
    BY <1>1, HoldEffect DEF n, SameSelection
  <2>3. HoldInOrder(n.pl)
    BY <2>1, <2>2 DEF HoldInOrder, HeldPair, SegmentOfInstance
  <2>4. GoodAndGoesOn(Model, n)
    BY <1>1, <1>2, <2>3 DEF n
  <2> QED BY <2>1, <2>4, Saving
<1>4. CASE HandleDeactivateHold
  <2> DEFINE n == WithHold(Model, "none")
  <2>1. UpdateTimelineAndSave(n)
    BY <1>4 DEF HandleDeactivateHold, WithHold
  <2> HIDE DEF n
  <2>2. n.pl.hold = "none"
    BY <1>1, HoldEffect DEF n
  <2>3. HoldInOrder(n.pl)
    BY <2>2 DEF HoldInOrder
  <2>4. GoodAndGoesOn(Model, n)
    BY <1>1, <1>2, <2>3 DEF n
  <2> QED BY <2>1, <2>4, Saving
<1>5. CASE HandleClearQueuedSegment
  <2> DEFINE n == WithQueued(Model, None)
  <2>1. UpdateTimelineAndSave(n)
    BY <1>5 DEF HandleClearQueuedSegment, WithQueued
  <2> HIDE DEF n
  <2>2. /\ Fits(n) /\ SameStore(Model, n) /\ SameSelection(Model, n)
        /\ n.pl.hold = playlist.hold /\ n.pl.queued = None
    BY <1>1, QueueEffect DEF n
  <2>3. InOrder(Model) => HoldInOrder(n.pl)
    BY <1>1, <2>2 DEF InOrder, HoldInOrder, SameSelection
  <2>4. GoodAndGoesOn(Model, n)
    BY <1>1, <2>2, <2>3, SelectionIsGood
  <2> QED BY <2>1, <2>4, Saving
<1> QED BY <1>3, <1>4, <1>5

LEMMA TakeDone ==
  ASSUME Typed, HandleTakeNextPart
  PROVE  \E m : GoodAndGoesOn(Model, m) /\ ClearsQueue(playlist, m.pl) /\ SaveAllToDatabase(m)
<1>1. Sane(Model) /\ Model.pl = playlist
  BY ModelIsSane
<1>2. PICK m \in PerformTakeToNextedPart(Model) : UpdateTimelineAndSave(m)
  BY DEF HandleTakeNextPart
<1> QED BY <1>1, <1>2, TakeIsGood DEF UpdateTimelineAndSave

LEMMA ReportDone ==
  ASSUME Typed, NEW i \in OnTimeline, OnPartPlaybackStarted(i) \/ OnPartPlaybackStopped(i)
  PROVE  GoesOnDone
<1>1. /\ Sane(Model) /\ Fits(Model) /\ Model.pl = playlist /\ Model.pis = instances
      /\ i \in DOMAIN instances
  BY ModelIsSane DEF Sane, OnTimeline
<1>2. GatewayAttached
  BY DEF OnPartPlaybackStarted, OnPartPlaybackStopped
<1>3. CASE SaveAllToDatabase(ReportPartInstanceHasStarted(Model, i))
  <2> DEFINE n == ReportPartInstanceHasStarted(Model, i)
  <2>1. /\ Fits(n) /\ Marked(Model, n)
        /\ \A j \in DOMAIN instances : n.pis[j].taken = instances[j].taken
    BY <1>1, MarkEffect
  <2>2. SaveAllToDatabase(n)
    BY <1>3
  <2> HIDE DEF n
  <2>3. n.pl = playlist /\ Playing(n)
    BY <1>1, <1>2, <2>1 DEF Marked, Playing
  <2>4. (InPlace(Model) => InPlace(n)) /\ (InOrder(Model) => InOrder(n))
    BY <1>1, <2>1, <2>3, StartedKeeps DEF InPlace, InOrder
  <2>5. Good(Model, n)
    BY <1>1, <2>1, <2>3, <2>4, MarkedSourced DEF Good, Sane, CleanMove, Lingers, NothingBehind
  <2>6. GoesOn(Model, n)
    BY <1>1, <2>3 DEF GoesOn
  <2> QED BY <2>2, <2>5, <2>6 DEF GoesOnDone, GoodAndGoesOn
<1>4. CASE StartsNext(i) /\ \E m \in Autonext(Model) : SaveAllToDatabase(m)
  <2>1. PICK m \in Autonext(Model) : SaveAllToDatabase(m)
    BY <1>4
  <2>2. Model.pl.next.id \in DOMAIN Model.pis
    BY <1>1, <1>4 DEF StartsNext
  <2> QED BY <1>1, <1>2, <2>1, <2>2, AutonextIsGood DEF GoesOnDone
<1>5. CASE OnPartPlaybackStopped(i)
  <2>1. PICK m \in PrunePreviousPartInstances(Model) : SaveAllToDatabase(m)
    BY <1>5 DEF OnPartPlaybackStopped, ReportPartInstanceHasStopped
  <2>2. /\ Fits(m) /\ SameStore(Model, m) /\ SameButPrevious(Model, m)
        /\ FrontOf(Model.pl.previous, m.pl.previous) /\ Len(m.pl.previous) <= MaxPrevious
    BY <1>1, <2>1, PruneEffect
  <2>4. Lingers(Model.pl, m.pl)
    <3>1. NothingBehind(Model.pl) => NothingBehind(m.pl)
      BY <2>2 DEF NothingBehind, FrontOf, SameButPrevious
    <3>2. StopReported
      BY <1>5 DEF StopReported
    <3> QED BY <3>1, <3>2 DEF Lingers
  <2>3. Good(Model, m)
    BY <1>1, <2>2, <2>4, PrunedKeeps, PrunedSourced
       DEF Good, Sane, InPlace, InOrder, CleanMove, SameButPrevious
  <2>5. GoesOn(Model, m)
    BY <2>2 DEF GoesOn, SameButPrevious
  <2> QED BY <2>1, <2>3, <2>5 DEF GoesOnDone, GoodAndGoesOn
<1> QED BY <1>3, <1>4, <1>5 DEF OnPartPlaybackStarted, OnPartPlaybackStopped

LEMMA OthersDone ==
  ASSUME Typed, OtherUserStep \/ GatewayStep
  PROVE  GoesOnDone
<1>1. CASE OtherUserStep
  <2>1. ASSUME HandleTakeNextPart
        PROVE  GoesOnDone
    BY <2>1, TakeDone DEF GoesOnDone
  <2> QED BY <1>1, <2>1, ActivationDone, HoldDone DEF OtherUserStep
<1>2. CASE GatewayStep
  BY <1>2, ReportDone DEF GatewayStep, StopReported
<1> QED BY <1>1, <1>2

LEMMA NextDone ==
  ASSUME Typed, Next
  PROVE  JobDone /\ UNCHANGED <<setting, rundown>>
<1>1. CASE SetNextStep \/ QueueStep
  BY <1>1, SetNextDone DEF Next
<1>2. CASE OtherUserStep \/ GatewayStep
  BY <1>2, OthersDone DEF Next, JobDone, GoesOnDone, GoodAndGoesOn
<1> QED BY <1>1, <1>2 DEF Next

-----------------------------------------------------------------------------
(* The theorems.                                                           *)
LEMMA InvInit ==
  ASSUME Init
  PROVE  PlayoutInv
<1>1. /\ setting \in Settings /\ instances = [i \in {} |-> {}] /\ DOMAIN instances = {}
      /\ playlist = [activation |-> None, rehearsal |-> FALSE, hold |-> "none",
                     current |-> NoInstance, next |-> NoNext, previous |-> <<>>, queued |-> None]
      /\ rundown = [part |-> [p \in Parts |-> IF p \in setting.playable THEN "playable" ELSE "unplayable"],
                    segment |-> [s \in Segments |-> "synced"], concealed |-> {}]
      /\ crashes = 0
  BY DEF Init
<1>2. instances \in Collections
  <2>1. instances \in [{} -> PartInstance]
    BY <1>1
  <2> QED BY <2>1, CollectionMade
<1>3. NoNext \in NextInfo /\ NoNext.id = NoInstance /\ ~NoNext.consumes
  BY DEF NoNext, NextInfo
<1>4. playlist \in Playlist
  <2>1. None \in Nat /\ <<>> \in Seq(InstanceIds) /\ "none" \in HoldStates
    BY DEF None, HoldStates
  <2> QED BY <1>1, <1>3, <2>1 DEF Playlist
<1>5. rundown \in Rundown
  BY <1>1 DEF Rundown
<1>6. MaxPrevious \in Nat \ {0} /\ MaxCrashes \in Nat
  BY <1>1, SettingTypes
<1>7. TypeOK
  <2>1. Len(playlist.previous) <= MaxPrevious
    BY <1>1, <1>6
  <2> QED BY <1>1, <1>4, <1>5, <1>6, <2>1 DEF TypeOK
<1>8. Typed
  BY <1>1, <1>2, <1>3, <1>7, FS_EmptySet DEF Typed, NextIsProper
<1>9. Range(playlist.previous) = {} /\ playlist.current = NoInstance /\ playlist.next.id = NoInstance
      /\ playlist.hold = "none" /\ playlist.activation = None /\ IsInjective(playlist.previous)
  BY <1>1, <1>3 DEF Range, IsInjective
<1>10. Selected(playlist) = {}
  BY <1>9 DEF Selected
<1>11. SlotsMatchInstances
  BY <1>1, <1>9, <1>10 DEF SlotsMatchInstances, SlotsExist, PlayedSlots, OnlyNextIsUntaken,
                           PlaybackIsReported
<1>12. SlotsDistinct /\ SelectedShareActivation /\ HoldPairs
  BY <1>9, <1>10 DEF SlotsDistinct, SelectedShareActivation, HoldPairs, Active
<1> QED BY <1>8, <1>11, <1>12 DEF PlayoutInv

LEMMA InvNext ==
  ASSUME PlayoutInv, [Next]_vars
  PROVE  PlayoutInv'
<1>1. CASE Next
  BY <1>1, NextDone, SaveKeeps DEF JobDone, PlayoutInv
<1>2. CASE UNCHANGED vars
  <2>1. /\ setting' = setting /\ playlist' = playlist /\ instances' = instances
        /\ rundown' = rundown /\ crashes' = crashes
    BY <1>2 DEF vars
  <2>2. Typed'
    BY <2>1, SettingStays DEF PlayoutInv, Typed, TypeOK, NextIsProper
  <2>3. SlotsMatchInstances'
    BY <2>1, SettingStays DEF PlayoutInv, SlotsMatchInstances, SlotsExist, PlayedSlots,
       OnlyNextIsUntaken, PlaybackIsReported, Whole
  <2>4. SlotsDistinct' /\ SelectedShareActivation'
    BY <2>1, SettingStays DEF PlayoutInv, SlotsDistinct, SelectedShareActivation, Active, Whole
  <2>5. HoldPairs'
    BY <2>1, SettingStays DEF PlayoutInv, HoldPairs, IsHoldPair, SegmentOfInstance, Whole
  <2> QED BY <2>2, <2>3, <2>4, <2>5 DEF PlayoutInv
<1> QED BY <1>1, <1>2

LEMMA Invariant == Spec => []PlayoutInv
<1>1. Init => PlayoutInv
  BY InvInit
<1>2. PlayoutInv /\ [Next]_vars => PlayoutInv'
  BY InvNext
<1> QED BY <1>1, <1>2, PTL DEF Spec

(* The types of the database, whatever happens: a job, or a worker that    *)
(* dies while it saves.                                                    *)
THEOREM TypeCorrect == Spec => []TypeOK
<1>1. PlayoutInv => TypeOK
  BY DEF PlayoutInv, Typed
<1> QED BY <1>1, Invariant, PTL

(* What the slots of the playlist name is stored, and as the slot says:    *)
(* what is or was on air was taken, what is on air or next is not reset,   *)
(* and nothing else is left that was only ever next.                       *)
THEOREM SlotsMatch == Spec => []SlotsMatchInstances
<1>1. PlayoutInv => SlotsMatchInstances
  BY DEF PlayoutInv
<1> QED BY <1>1, Invariant, PTL

(* No instance is on air and next at once; and where users do not play     *)
(* from anywhere no instance is in two slots.                              *)
THEOREM InOneSlot == Spec => []SlotsDistinct
<1>1. PlayoutInv => SlotsDistinct
  BY DEF PlayoutInv
<1> QED BY <1>1, Invariant, PTL

(* The selected instances are of the activation that runs, which is the    *)
(* one their PieceInstances are loaded by.                                 *)
THEOREM OneActivation == Spec => []SelectedShareActivation
<1>1. PlayoutInv => SelectedShareActivation
  BY DEF PlayoutInv
<1> QED BY <1>1, Invariant, PTL

(* A hold is between a Part to hold from and one to hold to, of one        *)
(* segment.                                                                *)
THEOREM HoldsArePaired == Spec => []HoldPairs
<1>1. PlayoutInv => HoldPairs
  BY DEF PlayoutInv
<1> QED BY <1>1, Invariant, PTL

(* Whatever a crash left behind, a reset leads back to a playlist that is  *)
(* as if nothing had been played.                                          *)
LEMMA ResetLeavesNext ==
  ASSUME Typed, NEW activate \in Modes
  PROVE  /\ ResetOutcomes(activate) # {}
         /\ \A m \in ResetOutcomes(activate) :
              LET saved == Remembered(m.pl, SavedInstances(m))
              IN  /\ Selected(m.pl) \subseteq DOMAIN saved
                  /\ \A i \in DOMAIN saved : /\ i = m.pl.next.id
                                             /\ saved[i].activation = m.pl.activation
<1> DEFINE r == activate = "rehearsal"
<1>1. Fits(Model) /\ r \in BOOLEAN
  BY ModelIsSane DEF Sane
<1>2. ResetOutcomes(activate) = ActivateRundownPlaylist(Model, r, TRUE)
  <2>1. activate # AsBefore
    BY <1>1, SettingTypes DEF AsBefore, Fits
  <2> QED BY <2>1 DEF ResetOutcomes
<1> HIDE DEF r
<1>3. /\ ResetOutcomes(activate) # {}
      /\ \A m \in ResetOutcomes(activate) : Restarted(m) /\ Spent(m)
  BY <1>1, <1>2, FromTheStart
<1>4. ASSUME NEW m \in ResetOutcomes(activate)
      PROVE  LET saved == Remembered(m.pl, SavedInstances(m))
             IN  /\ Selected(m.pl) \subseteq DOMAIN saved
                 /\ \A i \in DOMAIN saved : /\ i = m.pl.next.id
                                            /\ saved[i].activation = m.pl.activation
  <2> DEFINE stored == SavedInstances(m)
             saved == Remembered(m.pl, stored)
             next == m.pl.next.id
  <2>1. /\ Fits(m) /\ UntakenGone(m) /\ NextInOrder(m) /\ Spent(m)
        /\ m.pl.current = NoInstance /\ m.pl.previous = <<>>
    BY <1>3 DEF Restarted
  <2>2. Selected(m.pl) = {next} \ {NoInstance}
    BY <2>1 DEF Selected, Range
  <2>3. NoInstance \notin DOMAIN m.pis /\ IsFiniteSet(DOMAIN m.pis)
    BY <2>1, ModelTypes, FS_Subset DEF Fits
  <2>4. /\ stored \in Collections /\ DOMAIN stored = DOMAIN m.pis \ m.purged
        /\ \A i \in DOMAIN stored : /\ Alike(m.pis[i], stored[i])
                                    /\ m.pis[i].reset \/ i \in m.deferred => stored[i].reset
    BY <2>1, SavedEffect
  <2>5. IsFiniteSet(DOMAIN stored)
    BY <2>3, <2>4, FS_Subset
  <2>6. /\ DOMAIN saved \subseteq DOMAIN stored
        /\ \A i \in DOMAIN saved : saved[i] = stored[i] /\ (~stored[i].reset \/ i \in Selected(m.pl))
        /\ Selected(m.pl) \cap DOMAIN stored \subseteq DOMAIN saved
    BY <2>4, <2>5, RememberedEffect
  <2> HIDE DEF stored, saved
  <2>7. next # NoInstance => /\ next \in DOMAIN m.pis \ m.purged
                             /\ m.pis[next].activation = m.pl.activation
    BY <1>3, <2>1 DEF NextInOrder, NoNext, Restarted
  <2>8. Selected(m.pl) \subseteq DOMAIN saved
    BY <2>2, <2>4, <2>6, <2>7
  <2>9. ASSUME NEW i \in DOMAIN saved
        PROVE  i = next /\ saved[i].activation = m.pl.activation
    <3>1. i \in DOMAIN m.pis \ m.purged /\ saved[i].activation = m.pis[i].activation
      BY <2>4, <2>6 DEF Alike
    <3>2. i \in Selected(m.pl)
      BY <2>1, <2>4, <2>6, <3>1 DEF Spent, UntakenGone
    <3> QED BY <2>2, <2>7, <3>1, <3>2
  <2> QED BY <2>8, <2>9 DEF saved, stored
<1> QED BY <1>3, <1>4

(* In whatever state a dead worker left the database, a reset works, and   *)
(* leaves only the next instance, which is of the new activation.          *)
THEOREM ResetsRecover == Spec => []ResetRecovers
<1>1. PlayoutInv => ResetRecovers
  BY ResetLeavesNext DEF PlayoutInv, ResetRecovers
<1> QED BY <1>1, Invariant, PTL

(* When the playhead moves, what was planned for the move is over: the     *)
(* hold, and the queue that was taken into.                                *)
LEMMA StepsMoveCompletely ==
  ASSUME PlayoutInv, Next
  PROVE  HoldEndsBeforeMoving /\ TakeConsumesQueue
<1>1. Typed /\ Model.pl = playlist /\ NextIsProper(playlist)
  BY ModelIsSane DEF PlayoutInv, Typed
<1>2. HoldEndsBeforeMoving
  <2>1. PICK m : Good(Model, m) /\ SaveAllToDatabase(m)
    BY <1>1, NextDone DEF JobDone
  <2>2. playlist' = m.pl \/ playlist' = playlist
    BY <2>1 DEF SaveAllToDatabase, CrashDuringSave, Save
  <2> QED BY <1>1, <2>1, <2>2 DEF HoldEndsBeforeMoving, Good, CleanMove
<1>3. ASSUME PlaysConsumer, HandleTakeNextPart
      PROVE  playlist'.queued = None
  <2>1. PICK m : ClearsQueue(playlist, m.pl) /\ SaveAllToDatabase(m)
    BY <1>1, <1>3, TakeDone
  <2>2. playlist' = m.pl \/ playlist' = playlist
    BY <2>1 DEF SaveAllToDatabase, CrashDuringSave, Save
  <2>3. playlist'.current # playlist.current
    BY <1>1, <1>3 DEF PlaysConsumer, NextIsProper
  <2> QED BY <1>3, <2>1, <2>2, <2>3 DEF PlaysConsumer, ClearsQueue
<1> QED BY <1>2, <1>3 DEF TakeConsumesQueue, TakeStep

(* When the playhead moves a hold goes on only from pending to active, and *)
(* is over otherwise; and a take into the queued segment clears the queue. *)
THEOREM MovesAreComplete == Spec => MovesCompletely
<1>1. PlayoutInv /\ [Next]_vars => [HoldEndsBeforeMoving /\ TakeConsumesQueue]_vars
  BY StepsMoveCompletely
<1> QED BY <1>1, Invariant, PTL DEF Spec, MovesCompletely
=============================================================================
