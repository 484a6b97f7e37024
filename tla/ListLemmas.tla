----------------------------- MODULE ListLemmas -----------------------------
(***************************************************************************)
(* Facts about naturals and sequences that the proofs about the proxy's    *)
(* two lists share.                                                        *)
(***************************************************************************)
EXTENDS Naturals, Integers, Sequences, FiniteSets, SequencesExt,
        SequenceTheorems, FiniteSetTheorems, WellFoundedInduction, TLAPS

(* The numbers below those of a set form finite sets, of which a smallest  *)
(* one exists: every set of naturals has a least element.                  *)
LEMMA NatLeast ==
  ASSUME NEW T, T \in SUBSET Nat, T # {}
  PROVE  \E x \in T : \A y \in T : x <= y
<1> DEFINE Below(x) == {y \in T : y < x}
           R == StrictSubsetOrdering(Nat)
           B == {Below(x) : x \in T}
<1>1. B \subseteq FiniteSubsetsOf(Nat) /\ B # {}
  <2>1. ASSUME NEW x \in T PROVE IsFiniteSet(Below(x))
    <3>1. IsFiniteSet(0..x)
      BY FS_Interval
    <3>2. \A y \in T : y \in Nat
      OBVIOUS
    <3>3. \A y \in Below(x) : y \in 0..x
      BY <3>2
    <3>4. Below(x) \in SUBSET (0..x)
      BY <3>3
    <3> QED  BY <3>1, <3>4, FS_Subset
  <2> QED  BY <2>1 DEF FiniteSubsetsOf
<1>2. PICK b \in B : \A c \in B : <<c, b>> \notin R
  <2>1. IsWellFoundedOn(R, FiniteSubsetsOf(Nat))
    BY FS_StrictSubsetOrderingWellFounded
  <2> HIDE DEF B, R
  <2> QED  BY <1>1, <2>1, WFMin
<1>3. PICK x \in T : b = Below(x)
  OBVIOUS
<1>4. ASSUME NEW y \in T, y < x PROVE FALSE
  <2>1. \A z \in T : z \in Nat
    OBVIOUS
  <2>2. \A z \in T : z < y => z < x
    BY <1>4, <2>1
  <2>3. Below(y) \subseteq Below(x)
    BY <2>2
  <2>4. y \in Below(x) /\ y \notin Below(y)
    BY <1>4, <2>1
  <2>5. Below(x) \in SUBSET Nat
    BY <2>1
  <2>6. <<Below(y), Below(x)>> \in R
    BY <2>3, <2>4, <2>5 DEF StrictSubsetOrdering
  <2> QED  BY <1>2, <1>3, <2>6
<1> QED  BY <1>4

(* A sequence without one of its elements, place by place.                 *)
LEMMA RemoveAtProperties ==
  ASSUME NEW S, NEW s \in Seq(S), NEW i \in 1..Len(s)
  PROVE  /\ RemoveAt(s, i) \in Seq(S)
         /\ Len(RemoveAt(s, i)) = Len(s) - 1
         /\ \A k \in 1..(Len(s) - 1) :
              RemoveAt(s, i)[k] = IF k < i THEN s[k] ELSE s[k + 1]
<1> DEFINE a == SubSeq(s, 1, i - 1)
           b == SubSeq(s, i + 1, Len(s))
<1>1. Len(s) \in Nat /\ i \in Nat
  BY LenProperties
<1>2. a \in Seq(S) /\ Len(a) = i - 1 /\ \A k \in 1..(i - 1) : a[k] = s[k]
  BY <1>1, SubSeqProperties
<1>3. /\ b \in Seq(S) /\ Len(b) = Len(s) - i
      /\ \A k \in 1..(Len(s) - i) : b[k] = s[i + k]
  <2>1. CASE i < Len(s)
    BY <1>1, <2>1, SubSeqProperties
  <2>2. CASE i = Len(s)
    <3>1. b = <<>>
      BY <1>1, <2>2, SubSeqProperties
    <3> QED  BY <1>1, <2>2, <3>1
  <2> QED  BY <1>1, <2>1, <2>2
<1> HIDE DEF a, b
<1>4. /\ a \o b \in Seq(S)
      /\ Len(a \o b) = Len(a) + Len(b)
      /\ \A k \in 1..(Len(a) + Len(b)) :
           (a \o b)[k] = IF k <= Len(a) THEN a[k] ELSE b[k - Len(a)]
  BY <1>2, <1>3, ConcatProperties
<1>5. RemoveAt(s, i) = a \o b
  BY DEF RemoveAt, a, b
<1>6. ASSUME NEW k \in 1..(Len(s) - 1)
      PROVE  (a \o b)[k] = IF k < i THEN s[k] ELSE s[k + 1]
  <2>1. CASE k < i
    BY <1>1, <1>2, <1>3, <1>4, <2>1
  <2>2. CASE k >= i
    <3>1. k - (i - 1) \in 1..(Len(s) - i)
      BY <1>1, <2>2
    <3>2. b[k - (i - 1)] = s[i + (k - (i - 1))]
      BY <1>3, <3>1
    <3>3. i + (k - (i - 1)) = k + 1
      BY <1>1
    <3>4. (a \o b)[k] = b[k - (i - 1)]
      BY <1>1, <1>2, <1>3, <1>4, <2>2
    <3> QED  BY <1>1, <2>2, <3>2, <3>3, <3>4
  <2>3. k < i \/ k >= i
    BY <1>1
  <2> QED  BY <2>1, <2>2, <2>3
<1>7. Len(a \o b) = Len(s) - 1
  BY <1>1, <1>2, <1>3, <1>4
<1> QED  BY <1>4, <1>5, <1>6, <1>7

(* RemoveFirst of an element that is there takes out its first place.      *)
LEMMA RemoveFirstPlace ==
  ASSUME NEW S, NEW s \in Seq(S), NEW f, NEW i \in 1..Len(s),
         s[i] = f, \A j \in 1..(i - 1) : s[j] # f
  PROVE  RemoveFirst(s, f) = RemoveAt(s, i)
<1> DEFINE I == {j \in 1..Len(s) : s[j] = f}
<1>1. Len(s) \in Nat
  BY LenProperties
<1>2. i \in I /\ \A j \in I : i <= j
  BY <1>1
<1>3. Min(I) = i
  <2>1. \A x \in I : (\A y \in I : x <= y) => x = i
    BY <1>1, <1>2
  <2> QED  BY <1>2, <2>1 DEF Min
<1>4. SelectInSeq(s, LAMBDA v : v = f) = i
  BY <1>2, <1>3 DEF SelectInSeq
<1> QED  BY <1>4 DEF RemoveFirst
=============================================================================
