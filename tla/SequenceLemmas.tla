---------------------------- MODULE SequenceLemmas ----------------------------
(***************************************************************************)
(* Facts about sequences, natural numbers and finite sets of them that the *)
(* proofs of several components share.                                     *)
(***************************************************************************)
EXTENDS Integers, Sequences, SequenceTheorems, FiniteSetTheorems,
        WellFoundedInduction, TLAPS

(* A set of natural numbers has a least one, and a bounded one a greatest. *)
LEMMA LeastOfNat ==
  ASSUME NEW T, T \subseteq Nat, T # {}
  PROVE  \E x \in T : \A y \in T : x <= y
<1> DEFINE R == OpToRel(<, Nat)
<1>1. IsWellFoundedOn(R, Nat)
  BY Zenon, NatLessThanWellFounded
<1>2. \A x, y \in Nat : <<y, x>> \in R <=> y < x
  BY Zenon DEF OpToRel
<1> HIDE DEF R
<1>3. PICK x \in T : \A y \in T : <<y, x>> \notin R
  BY <1>1, WFMin
<1>4. ASSUME NEW y \in T PROVE x <= y
  <2>1. x \in Nat /\ y \in Nat /\ ~(y < x)
    BY <1>2, <1>3
  <2> QED BY <2>1
<1> QED BY <1>3, <1>4

LEMMA GreatestOfNat ==
  ASSUME NEW m \in Nat, NEW T, T \subseteq 0..m, T # {}
  PROVE  \E x \in T : \A y \in T : y <= x
<1> DEFINE D == {m - y : y \in T}
<1>1. D \subseteq Nat /\ D # {}
  <2>1. \A y \in T : y \in Int /\ m - y \in Nat
    OBVIOUS
  <2>2. PICK z \in T : TRUE
    OBVIOUS
  <2>3. m - z \in D
    OBVIOUS
  <2> QED BY <2>1, <2>3
<1>2. PICK d \in D : \A e \in D : d <= e
  BY <1>1, LeastOfNat
<1>3. PICK x \in T : d = m - x
  BY <1>2
<1>4. \A y \in T : m - x <= m - y
  BY <1>2, <1>3
<1>5. \A y \in T : y <= x
  BY <1>3, <1>4
<1> QED BY <1>5

(* Taking some from the front of a sequence and leaving the rest.          *)
LEMMA SplitSeq ==
  ASSUME NEW S, NEW s \in Seq(S), NEW k \in 0..Len(s)
  PROVE  /\ SubSeq(s, 1, k) \in Seq(S) /\ Len(SubSeq(s, 1, k)) = k
         /\ SubSeq(s, k + 1, Len(s)) \in Seq(S)
         /\ Len(SubSeq(s, k + 1, Len(s))) = Len(s) - k
         /\ \A i \in 1..k : SubSeq(s, 1, k)[i] = s[i]
         /\ \A i \in 1..Len(s) - k : SubSeq(s, k + 1, Len(s))[i] = s[k + i]
<1>1. Len(s) \in Nat /\ \A i \in 1..Len(s) : s[i] \in S
  BY LenProperties, ElementOfSeq
<1>2. \A i \in 1..k : s[i] \in S
  BY <1>1
<1>3. \A i \in k + 1..Len(s) : s[i] \in S
  BY <1>1
<1>4. k \in Int /\ 1 \in Int /\ k + 1 \in Int /\ Len(s) \in Int
  BY <1>1
<1>5. /\ SubSeq(s, 1, k) \in Seq(S)
      /\ Len(SubSeq(s, 1, k)) = IF 1 <= k THEN k - 1 + 1 ELSE 0
      /\ \A i \in 1..k - 1 + 1 : SubSeq(s, 1, k)[i] = s[1 + i - 1]
  BY <1>2, <1>4, SubSeqProperties
<1>6. /\ SubSeq(s, k + 1, Len(s)) \in Seq(S)
      /\ Len(SubSeq(s, k + 1, Len(s))) = IF k + 1 <= Len(s) THEN Len(s) - (k + 1) + 1 ELSE 0
      /\ \A i \in 1..Len(s) - (k + 1) + 1 :
           SubSeq(s, k + 1, Len(s))[i] = s[(k + 1) + i - 1]
  BY <1>3, <1>4, SubSeqProperties
<1>7. \A i \in 1..k : SubSeq(s, 1, k)[i] = s[i]
  BY <1>4, <1>5
<1>8. \A i \in 1..Len(s) - k : SubSeq(s, k + 1, Len(s))[i] = s[k + i]
  BY <1>4, <1>6
<1> QED
  BY <1>1, <1>4, <1>5, <1>6, <1>7, <1>8

(* Taking the first of s \o t takes the first of s.                        *)
LEMMA TailOfConcat ==
  ASSUME NEW S, NEW s \in Seq(S), NEW t \in Seq(S), s # <<>>
  PROVE  s \o t # <<>> /\ Tail(s \o t) = Tail(s) \o t
<1> DEFINE m == Len(s)  n == Len(t)
<1>1. m \in Nat \ {0} /\ n \in Nat
  BY EmptySeq, LenProperties
<1>2. /\ s \o t \in Seq(S) /\ Len(s \o t) = m + n
      /\ \A i \in 1..m + n : (s \o t)[i] = IF i <= m THEN s[i] ELSE t[i - m]
  BY ConcatProperties
<1>3. s \o t # <<>>
  BY <1>1, <1>2, EmptySeq
<1>4. /\ Tail(s \o t) \in Seq(S) /\ Len(Tail(s \o t)) = (m + n) - 1
      /\ \A i \in 1..(m + n) - 1 : Tail(s \o t)[i] = (s \o t)[i + 1]
  BY <1>2, <1>3, HeadTailProperties
<1>5. /\ Tail(s) \in Seq(S) /\ Len(Tail(s)) = m - 1
      /\ \A i \in 1..m - 1 : Tail(s)[i] = s[i + 1]
  BY HeadTailProperties
<1>6. /\ Tail(s) \o t \in Seq(S) /\ Len(Tail(s) \o t) = (m - 1) + n
      /\ \A i \in 1..(m - 1) + n :
           (Tail(s) \o t)[i] = IF i <= m - 1 THEN Tail(s)[i] ELSE t[i - (m - 1)]
  BY <1>5, ConcatProperties
<1>7. ASSUME NEW i \in 1..(m + n) - 1
      PROVE  Tail(s \o t)[i] = (Tail(s) \o t)[i]
  <2>1. CASE i <= m - 1
    <3>1. i \in 1..m - 1 /\ i + 1 \in 1..m + n /\ i + 1 <= m /\ i \in 1..(m - 1) + n
      BY <1>1, <2>1
    <3> QED BY <1>2, <1>4, <1>5, <1>6, <2>1, <3>1
  <2>2. CASE ~(i <= m - 1)
    <3>1. /\ i + 1 \in 1..m + n /\ ~(i + 1 <= m) /\ i \in 1..(m - 1) + n
          /\ (i + 1) - m = i - (m - 1)
      BY <1>1, <2>2
    <3> QED BY <1>2, <1>4, <1>6, <2>2, <3>1
  <2> QED BY <2>1, <2>2
<1>8. Len(Tail(s \o t)) = Len(Tail(s) \o t)
  BY <1>1, <1>4, <1>6
<1>9. Tail(s \o t) = Tail(s) \o t
  BY <1>4, <1>6, <1>7, <1>8, SeqEqual
<1> QED BY <1>3, <1>9

(* Pieces of a sequence that are no longer than it is.                     *)
LEMMA Piece ==
  ASSUME NEW S, NEW s \in Seq(S), NEW a \in Nat \ {0}, NEW b \in 0..Len(s), a <= b + 1
  PROVE  /\ SubSeq(s, a, b) \in Seq(S) /\ Len(SubSeq(s, a, b)) = b - a + 1
         /\ \A i \in 1..(b - a + 1) : SubSeq(s, a, b)[i] = s[a + i - 1]
<1>1. Len(s) \in Nat
  BY LenProperties
<1>2. \A i \in a..b : s[i] \in S
  BY <1>1, ElementOfSeq
<1>3. /\ SubSeq(s, a, b) \in Seq(S)
      /\ Len(SubSeq(s, a, b)) = IF a <= b THEN b - a + 1 ELSE 0
      /\ \A i \in 1 .. b - a + 1 : SubSeq(s, a, b)[i] = s[a + i - 1]
  BY <1>1, <1>2, SubSeqProperties
<1> QED BY <1>1, <1>3

(* s \o t begins with s.                                                   *)
LEMMA FrontOfConcat ==
  ASSUME NEW S, NEW s \in Seq(S), NEW t \in Seq(S)
  PROVE  SubSeq(s \o t, 1, Len(s)) = s
<1>1. Len(s) \in Nat /\ Len(t) \in Nat
  BY LenProperties
<1>2. /\ s \o t \in Seq(S) /\ Len(s \o t) = Len(s) + Len(t)
      /\ \A i \in 1..Len(s) + Len(t) :
           (s \o t)[i] = IF i <= Len(s) THEN s[i] ELSE t[i - Len(s)]
  BY ConcatProperties
<1>3. Len(s) \in 0..Len(s \o t)
  BY <1>1, <1>2
<1>4. /\ SubSeq(s \o t, 1, Len(s)) \in Seq(S)
      /\ Len(SubSeq(s \o t, 1, Len(s))) = Len(s)
      /\ \A i \in 1..Len(s) : SubSeq(s \o t, 1, Len(s))[i] = (s \o t)[i]
  BY <1>2, <1>3, SplitSeq
<1>5. \A i \in 1..Len(s) : SubSeq(s \o t, 1, Len(s))[i] = s[i]
  BY <1>1, <1>2, <1>4
<1> QED BY <1>4, <1>5, SeqEqual

(* One sequence behind another.                                            *)
LEMMA JoinIs ==
  ASSUME NEW S, NEW a \in Seq(S), NEW b \in Seq(S), NEW m, NEW n, Len(a) = m, Len(b) = n
  PROVE  /\ a \o b \in Seq(S) /\ Len(a \o b) = m + n
         /\ \A k \in 1..m + n : (a \o b)[k] = IF k <= m THEN a[k] ELSE b[k - m]
BY ConcatProperties

LEMMA IntervalIs ==
  ASSUME NEW m \in Nat
  PROVE  IsFiniteSet(1..m) /\ Cardinality(1..m) = m
<1>1. 1 \in Int /\ m \in Int
  OBVIOUS
<1>2. IsFiniteSet(1..m) /\ Cardinality(1..m) = IF 1 > m THEN 0 ELSE m - 1 + 1
  BY <1>1, FS_Interval
<1> QED BY <1>2

(* The n-th of some numbers.                                               *)
NotAbove(S, k) == {j \in S : j <= k}

LEMMA NthExists ==
  ASSUME NEW m \in Nat, NEW S, S \subseteq 1..m, NEW n \in 1..Cardinality(S)
  PROVE  \E k \in S : Cardinality(NotAbove(S, k)) = n
<1> DEFINE Below(k) == {j \in S : j <= k}
           T == {k \in Nat : Cardinality(Below(k)) >= n}
<1>0. \A j \in S : j \in Int /\ 1 <= j /\ j <= m
  OBVIOUS
<1>1. IsFiniteSet(S) /\ Cardinality(S) \in Nat
  <2>1. IsFiniteSet(1..m)
    BY IntervalIs
  <2>2. IsFiniteSet(S)
    BY <2>1, FS_Subset
  <2> QED BY <2>2, FS_CardinalityType
<1>2. ASSUME NEW k \in Nat PROVE IsFiniteSet(Below(k)) /\ Cardinality(Below(k)) \in Nat
  <2>1. Below(k) \subseteq S
    OBVIOUS
  <2> HIDE DEF Below
  <2>2. IsFiniteSet(Below(k))
    BY <1>1, <2>1, FS_Subset
  <2> QED BY <2>2, FS_CardinalityType
<1>3. Below(m) = S /\ Below(0) = {}
  <2>1. \A j \in S : j <= m /\ ~(j <= 0)
    BY <1>0
  <2> QED BY Zenon, <2>1
<1>4. m \in T
  BY <1>1, <1>3
<1>5. PICK k \in T : \A l \in T : k <= l
  <2>1. T \subseteq Nat /\ T # {}
    BY <1>4
  <2> HIDE DEF T
  <2> QED BY <2>1, LeastOfNat
<1>6. k \in Nat /\ Cardinality(Below(k)) >= n
  BY <1>5
<1>7. k # 0
  <2>1. Cardinality(Below(0)) = 0
    BY <1>3, FS_EmptySet
  <2> HIDE DEF Below
  <2> QED BY <1>6, <2>1
<1>8. k - 1 \in Nat /\ ~(Cardinality(Below(k - 1)) >= n)
  <2>1. k - 1 \in Nat /\ ~(k <= k - 1)
    BY <1>6, <1>7
  <2>2. k - 1 \notin T
    BY <1>5, <2>1
  <2> HIDE DEF Below
  <2> QED BY <2>1, <2>2
<1>9. k \in S
  <2> SUFFICES ASSUME k \notin S PROVE FALSE
    OBVIOUS
  <2>1. \A j \in S : j <= k <=> j <= k - 1
    BY <1>0, <1>6
  <2>2. Below(k) = Below(k - 1)
    BY <2>1
  <2> HIDE DEF Below
  <2> QED BY <1>6, <1>8, <2>2
<1>10. Below(k) = Below(k - 1) \cup {k} /\ k \notin Below(k - 1)
  <2>1. \A j \in S : j <= k <=> j <= k - 1 \/ j = k
    BY <1>0, <1>6
  <2>2. k <= k /\ ~(k <= k - 1)
    BY <1>6
  <2> QED BY <1>9, <2>1, <2>2
<1>11. Cardinality(Below(k)) = Cardinality(Below(k - 1)) + 1
  <2>1. IsFiniteSet(Below(k - 1))
    BY <1>2, <1>8
  <2> HIDE DEF Below
  <2> QED BY <1>10, <2>1, FS_AddElement
<1>12. Cardinality(Below(k)) = n
  <2>1. Cardinality(Below(k)) \in Nat /\ Cardinality(Below(k - 1)) \in Nat
    BY Zenon, <1>2, <1>6, <1>8
  <2>2. n \in Nat
    BY <1>1
  <2> HIDE DEF Below
  <2> QED BY <1>6, <1>8, <1>11, <2>1, <2>2
<1> HIDE DEF T
<1> QED BY <1>9, <1>12 DEF NotAbove
================================================================================
