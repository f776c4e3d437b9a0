---------------------------- MODULE NaturalLemmas ----------------------------
(***************************************************************************)
(* Least and greatest elements of sets of natural numbers, and positions   *)
(* of sequences: what the proofs about the components share.               *)
(***************************************************************************)
EXTENDS Naturals, SequencesExt, SequenceTheorems, FiniteSetTheorems,
        WellFoundedInduction, TLAPS

(* The order of the natural numbers, as a relation, is well-founded.       *)
LEMMA LessIsWellFounded ==
  IsWellFoundedOn({r \in Nat \X Nat : r[1] < r[2]}, Nat)
BY NatLessThanWellFounded DEF OpToRel

(* A set of natural numbers that is not empty has a least element.         *)
LEMMA LeastNat ==
  ASSUME NEW S \in SUBSET Nat, S # {}
  PROVE  \E x \in S : \A y \in S : x <= y
<1> DEFINE R == {r \in Nat \X Nat : r[1] < r[2]}
<1>1. IsWellFoundedOn(R, Nat)
  BY LessIsWellFounded
<1>2. \A x, y \in Nat : y < x => <<y, x>> \in R
  OBVIOUS
<1> HIDE DEF R
<1>3. PICK x \in S : \A y \in S : <<y, x>> \notin R
  BY <1>1, WFMin
<1>4. ASSUME NEW y \in S
      PROVE  x <= y
  <2>1. x \in Nat /\ y \in Nat
    OBVIOUS
  <2>2. ~(y < x)
    BY <1>2, <1>3, <2>1, Zenon
  <2> QED BY <2>1, <2>2
<1> QED BY <1>4

(* One that is bounded has a greatest element, too.                        *)
LEMMA GreatestNat ==
  ASSUME NEW S \in SUBSET Nat, S # {}, NEW b \in Nat, \A y \in S : y <= b
  PROVE  \E x \in S : \A y \in S : y <= x
<1> DEFINE D == {d \in 0..b : b - d \in S}
<1>1. D \in SUBSET Nat
  OBVIOUS
<1>2. PICK e \in S : TRUE
  OBVIOUS
<1>3. b - e \in D
  BY <1>2
<1>4. PICK d \in D : \A f \in D : d <= f
  BY <1>1, <1>3, LeastNat
<1>5. b - d \in S
  BY <1>4
<1>6. ASSUME NEW y \in S
      PROVE  y <= b - d
  <2>1. b - y \in D
    OBVIOUS
  <2>2. d <= b - y
    BY <2>1, <1>4
  <2> QED BY <2>2, <1>4
<1> QED BY <1>5, <1>6

(* What Max and Min choose.                                                *)
LEMMA MaxIsGreatest ==
  ASSUME NEW S \in SUBSET Nat, S # {}, NEW b \in Nat, \A y \in S : y <= b
  PROVE  Max(S) \in S /\ \A y \in S : y <= Max(S)
<1>1. PICK x \in S : \A y \in S : y <= x
  BY GreatestNat
<1>2. \A y \in S : x >= y
  BY <1>1
<1> QED BY <1>2 DEF Max

LEMMA MinIsLeast ==
  ASSUME NEW S \in SUBSET Nat, S # {}
  PROVE  Min(S) \in S /\ \A y \in S : Min(S) <= y
<1>1. PICK x \in S : \A y \in S : x <= y
  BY LeastNat
<1> QED BY <1>1 DEF Min

(* Without the entry at p, those behind it move up by one.                 *)
LEMMA RemoveAtEntries ==
  ASSUME NEW S, NEW s \in Seq(S), NEW p \in 1..Len(s)
  PROVE  /\ RemoveAt(s, p) \in Seq(S)
         /\ Len(RemoveAt(s, p)) = Len(s) - 1
         /\ \A i \in 1..(Len(s) - 1) :
              RemoveAt(s, p)[i] = IF i < p THEN s[i] ELSE s[i + 1]
<1>1. Len(s) \in Nat
  BY LenProperties
<1> DEFINE front == SubSeq(s, 1, p - 1)
           back == SubSeq(s, p + 1, Len(s))
<1>2. /\ front \in Seq(S) /\ Len(front) = p - 1
      /\ \A i \in 1..(p - 1) : front[i] = s[i]
  BY <1>1, SubSeqProperties
<1>3. /\ back \in Seq(S) /\ Len(back) = Len(s) - p
      /\ \A i \in 1..(Len(s) - p) : back[i] = s[p + i]
  BY <1>1, SubSeqProperties
<1> HIDE DEF front, back
<1>4. /\ front \o back \in Seq(S)
      /\ Len(front \o back) = Len(front) + Len(back)
      /\ \A i \in 1..(Len(front) + Len(back)) :
           (front \o back)[i] = IF i <= Len(front) THEN front[i] ELSE back[i - Len(front)]
  BY <1>2, <1>3, ConcatProperties
<1>5. ASSUME NEW i \in 1..(Len(s) - 1)
      PROVE  (front \o back)[i] = IF i < p THEN s[i] ELSE s[i + 1]
  <2>1. ASSUME i < p
        PROVE  (front \o back)[i] = s[i]
    BY <2>1, <1>1, <1>2, <1>3, <1>4
  <2>2. ASSUME ~(i < p)
        PROVE  (front \o back)[i] = s[i + 1]
    <3>1. i - (p - 1) \in 1..(Len(s) - p)
      BY <2>2, <1>1
    <3>2. back[i - (p - 1)] = s[i + 1]
      BY <3>1, <1>1, <1>3
    <3> QED BY <2>2, <3>2, <1>1, <1>2, <1>3, <1>4
  <2> QED BY <2>1, <2>2, Zenon
<1>6. RemoveAt(s, p) = front \o back
  BY DEF RemoveAt, front, back
<1> QED BY <1>1, <1>2, <1>3, <1>4, <1>5, <1>6

(* Sequences of two and three entries, made by appending.                  *)
LEMMA AppendTwo ==
  ASSUME NEW a, NEW b
  PROVE  Append(<<a>>, b) = <<a, b>>
<1> DEFINE S == {a, b}
<1>1. <<a>> \in Seq(S) /\ <<a, b>> \in Seq(S) /\ b \in S
  OBVIOUS
<1>2. Append(<<a>>, b) \in Seq(S) /\ Len(Append(<<a>>, b)) = 2
  BY <1>1, AppendProperties
<1>3. Append(<<a>>, b)[1] = a /\ Append(<<a>>, b)[2] = b
  BY <1>1, AppendProperties
<1>4. \A i \in 1..2 : Append(<<a>>, b)[i] = <<a, b>>[i]
  BY <1>3
<1> QED BY <1>1, <1>2, <1>4, SeqEqual

LEMMA AppendThree ==
  ASSUME NEW a, NEW b, NEW c
  PROVE  Append(<<a, b>>, c) = <<a, b, c>>
<1> DEFINE S == {a, b, c}
<1>1. <<a, b>> \in Seq(S) /\ <<a, b, c>> \in Seq(S) /\ c \in S
  OBVIOUS
<1>2. Append(<<a, b>>, c) \in Seq(S) /\ Len(Append(<<a, b>>, c)) = 3
  BY <1>1, AppendProperties
<1>3. Append(<<a, b>>, c)[1] = a /\ Append(<<a, b>>, c)[2] = b /\ Append(<<a, b>>, c)[3] = c
  BY <1>1, AppendProperties
<1>4. \A i \in 1..3 : Append(<<a, b>>, c)[i] = <<a, b, c>>[i]
  BY <1>3
<1> QED BY <1>1, <1>2, <1>4, SeqEqual
(* The first entries of a sequence.                                        *)
LEMMA FrontEntries ==
  ASSUME NEW S, NEW s \in Seq(S), NEW k \in 1..Len(s)
  PROVE  /\ SubSeq(s, 1, k) \in Seq(S) /\ Len(SubSeq(s, 1, k)) = k
         /\ SubSeq(s, 1, k) # <<>> /\ Head(SubSeq(s, 1, k)) = Head(s)
         /\ Range(SubSeq(s, 1, k)) \subseteq Range(s)
         /\ IsInjective(s) => IsInjective(SubSeq(s, 1, k))
<1> DEFINE f == SubSeq(s, 1, k)
<1>1. Len(s) \in Nat /\ DOMAIN s = 1..Len(s)
  BY LenProperties
<1>2. f \in Seq(S) /\ Len(f) = k /\ \A i \in 1..k : f[i] = s[i]
  BY <1>1, SubSeqProperties
<1> HIDE DEF f
<1>3. DOMAIN f = 1..k
  BY <1>2, LenProperties
<1>4. f # <<>> /\ Head(f) = Head(s)
  <2>1. 1 \in 1..k /\ Len(f) # 0
    BY <1>1, <1>2
  <2>2. s # <<>>
    BY <1>1
  <2>3. f # <<>>
    BY <2>1
  <2>4. Head(f) = f[1] /\ Head(s) = s[1]
    BY <1>2, <2>2, <2>3, HeadTailProperties
  <2> QED BY <1>2, <2>1, <2>3, <2>4
<1>5. Range(f) \subseteq Range(s)
  BY <1>1, <1>2, <1>3 DEF Range
<1>6. IsInjective(s) => IsInjective(f)
  BY <1>1, <1>2, <1>3 DEF IsInjective
<1> QED BY <1>2, <1>4, <1>5, <1>6 DEF f

(* A sequence with one more entry at its head.                             *)
LEMMA PrependEntries ==
  ASSUME NEW S, NEW s \in Seq(S), NEW a \in S
  PROVE  /\ <<a>> \o s \in Seq(S) /\ <<a>> \o s # <<>> /\ Head(<<a>> \o s) = a
         /\ Range(<<a>> \o s) = {a} \cup Range(s)
         /\ IsInjective(s) /\ a \notin Range(s) => IsInjective(<<a>> \o s)
<1> DEFINE f == <<a>> \o s
<1>1. Len(s) \in Nat /\ DOMAIN s = 1..Len(s)
  BY LenProperties
<1>2. <<a>> \in Seq(S) /\ Len(<<a>>) = 1 /\ <<a>>[1] = a
  OBVIOUS
<1>3. /\ f \in Seq(S) /\ Len(f) = 1 + Len(s)
      /\ \A i \in 1..(1 + Len(s)) : f[i] = IF i <= 1 THEN <<a>>[i] ELSE s[i - 1]
  BY <1>2, ConcatProperties
<1> HIDE DEF f
<1>4. DOMAIN f = 1..(1 + Len(s))
  BY <1>3, LenProperties
<1>5. f[1] = a /\ \A i \in 1..Len(s) : f[i + 1] = s[i]
  BY <1>1, <1>2, <1>3
<1>6. \A j \in DOMAIN f : j = 1 \/ (j - 1 \in DOMAIN s /\ f[j] = s[j - 1])
  BY <1>1, <1>3, <1>4
<1>7. f # <<>> /\ Head(f) = a
  BY <1>1, <1>3, <1>5, HeadTailProperties
<1>8. Range(f) = {a} \cup Range(s)
  <2>1. Range(f) \subseteq {a} \cup Range(s)
    BY <1>5, <1>6 DEF Range
  <2>2. a \in Range(f)
    BY <1>1, <1>4, <1>5 DEF Range
  <2>3. ASSUME NEW i \in DOMAIN s
        PROVE  s[i] \in Range(f)
    <3>1. i + 1 \in DOMAIN f /\ f[i + 1] = s[i]
      BY <1>1, <1>4, <1>5
    <3> QED BY <3>1 DEF Range
  <2> QED BY <2>1, <2>2, <2>3 DEF Range
<1>9. ASSUME IsInjective(s), a \notin Range(s), NEW i \in DOMAIN f, NEW j \in DOMAIN f, f[i] = f[j]
      PROVE  i = j
  <2>1. \A k \in DOMAIN s : s[k] # a
    BY <1>9 DEF Range
  <2>2. i \in Nat /\ j \in Nat
    BY <1>1, <1>4
  <2>3. CASE i = 1
    BY <1>5, <1>6, <1>9, <2>1, <2>3
  <2>4. CASE j = 1
    BY <1>5, <1>6, <1>9, <2>1, <2>4
  <2>5. CASE i # 1 /\ j # 1
    <3>1. i - 1 \in DOMAIN s /\ j - 1 \in DOMAIN s /\ s[i - 1] = s[j - 1]
      BY <1>6, <1>9, <2>5
    <3>2. i - 1 = j - 1
      BY <1>9, <3>1 DEF IsInjective
    <3> QED BY <2>2, <3>2
  <2> QED BY <2>3, <2>4, <2>5
<1>10. IsInjective(s) /\ a \notin Range(s) => IsInjective(f)
  BY <1>9 DEF IsInjective
<1> QED BY <1>3, <1>7, <1>8, <1>10 DEF f

(* The entries of a sequence are finitely many.                            *)
LEMMA RangeIsFinite ==
  ASSUME NEW S, NEW s \in Seq(S)
  PROVE  IsFiniteSet(Range(s))
<1>1. Len(s) \in Nat /\ DOMAIN s = 1..Len(s)
  BY LenProperties
<1>2. IsFiniteSet(1..Len(s))
  BY <1>1, FS_Interval
<1>3. s \in [1..Len(s) -> Range(s)] /\ \A x \in Range(s) : \E i \in 1..Len(s) : s[i] = x
  BY <1>1 DEF Range
<1>4. s \in Surjection(1..Len(s), Range(s))
  BY <1>3 DEF Surjection
<1> QED BY <1>2, <1>4, FS_Surjection
=============================================================================
