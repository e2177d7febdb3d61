--------------------------- MODULE ServerPlistProofs ---------------------------
(***************************************************************************)
(* Proofs about the server's playlist, for any files, directory and        *)
(* number of items: its types, that nv is never too low, and, for the      *)
(* calls that keep it so, that it is exact and that nothing goes wrong.    *)
(***************************************************************************)
EXTENDS ServerPlist, SequenceLemmas

-----------------------------------------------------------------------------
(* Counting                                                                *)

LEMMA InjectionBounds ==
  ASSUME NEW S, NEW T, IsFiniteSet(T), NEW f \in [S -> T],
         \A a, b \in S : f[a] = f[b] => a = b
  PROVE  IsFiniteSet(S) /\ Cardinality(S) <= Cardinality(T)
<1>1. f \in Injection(S, T)
  BY DEF Injection, IsInjective
<1> QED BY <1>1, FS_Injection

LEMMA BijectionCounts ==
  ASSUME NEW S, NEW T, IsFiniteSet(T), NEW f \in [S -> T],
         \A a, b \in S : f[a] = f[b] => a = b,
         \A t \in T : \E a \in S : f[a] = t
  PROVE  Cardinality(S) = Cardinality(T)
<1>1. f \in Injection(S, T)
  BY DEF Injection, IsInjective
<1>2. f \in Surjection(S, T)
  BY DEF Surjection
<1> QED BY <1>1, <1>2, FS_Injection

LEMMA CountIs ==
  ASSUME NEW p \in Seq(Item)
  PROVE  /\ Len(p) \in Nat /\ Indices(p) \subseteq Nat /\ IsFiniteSet(Indices(p))
         /\ ValidIn(p) \subseteq Indices(p) /\ IsFiniteSet(ValidIn(p)) /\ Count(p) \in Nat
         /\ \A i \in Indices(p) : i + 1 \in 1..Len(p) /\ p[i + 1] \in Item
         /\ Count(p) = 0 <=> ValidIn(p) = {}
<1>1. Len(p) \in Nat
  BY LenProperties
<1>2. Indices(p) \subseteq Nat /\ IsFiniteSet(Indices(p))
  BY <1>1, FS_Interval DEF Indices
<1>3. ValidIn(p) \subseteq Indices(p)
  BY DEF ValidIn
<1>4. IsFiniteSet(ValidIn(p))
  BY <1>2, <1>3, FS_Subset
<1>5. Count(p) \in Nat /\ (Count(p) = 0 <=> ValidIn(p) = {})
  BY <1>4, FS_CardinalityType, FS_EmptySet DEF Count
<1>6. ASSUME NEW i \in Indices(p) PROVE i + 1 \in 1..Len(p) /\ p[i + 1] \in Item
  <2>1. i + 1 \in 1..Len(p)
    BY <1>1 DEF Indices
  <2> QED BY <2>1, ElementOfSeq
<1> QED BY <1>1, <1>2, <1>3, <1>4, <1>5, <1>6

(* Making valid items invalid.                                             *)
LEMMA SpoilCounts ==
  ASSUME NEW p \in Seq(Item), NEW S, S \subseteq ValidIn(p)
  PROVE  /\ Spoil(p, S) \in Seq(Item) /\ Len(Spoil(p, S)) = Len(p)
         /\ Count(Spoil(p, S)) = Count(p) - Cardinality(S)
<1> DEFINE q == Spoil(p, S)
<1>1. DOMAIN p = 1..Len(p) /\ Len(p) \in Nat /\ \A k \in 1..Len(p) : p[k] \in Item
  BY LenProperties, ElementOfSeq
<1>2. \A k \in 1..Len(p) : [p[k] EXCEPT !.valid = @ /\ k - 1 \notin S] \in Item
  BY <1>1 DEF Item
<1>3. q \in Seq(Item) /\ Len(q) = Len(p)
  BY <1>1, <1>2, SeqDef, LenProperties DEF Spoil
<1>4. ASSUME NEW i \in Indices(p)
      PROVE  q[i + 1].valid <=> p[i + 1].valid /\ i \notin S
  <2>1. i + 1 \in 1..Len(p) /\ (i + 1) - 1 = i
    BY <1>1 DEF Indices
  <2>2. q[i + 1] = [p[i + 1] EXCEPT !.valid = @ /\ (i + 1) - 1 \notin S]
    BY <1>1, <2>1 DEF Spoil
  <2> HIDE DEF q
  <2> QED BY <1>1, <2>1, <2>2 DEF Item
<1>5. ValidIn(q) = ValidIn(p) \ S
  <2>1. Indices(q) = Indices(p)
    BY <1>3 DEF Indices
  <2> HIDE DEF q
  <2> QED BY <1>4, <2>1 DEF ValidIn
<1>6. IsFiniteSet(S) /\ IsFiniteSet(ValidIn(p)) /\ Cardinality(S) \in Nat
  BY CountIs, FS_Subset, FS_CardinalityType
<1>7. Cardinality(ValidIn(p) \ S) = Cardinality(ValidIn(p)) - Cardinality(S)
  <2>1. Cardinality(ValidIn(p) \ S) = Cardinality(ValidIn(p)) - Cardinality(ValidIn(p) \cap S)
    BY <1>6, FS_Difference
  <2>2. ValidIn(p) \cap S = S
    OBVIOUS
  <2> QED BY <2>1, <2>2
<1> QED BY <1>3, <1>5, <1>7 DEF Count

(* One list behind another.                                                *)
LEMMA ConcatCounts ==
  ASSUME NEW p \in Seq(Item), NEW q \in Seq(Item)
  PROVE  /\ p \o q \in Seq(Item) /\ Len(p \o q) = Len(p) + Len(q)
         /\ Count(p \o q) = Count(p) + Count(q)
<1> DEFINE m == Len(p)  n == Len(q)  r == p \o q
           T == {m + i : i \in ValidIn(q)}
<1>1. m \in Nat /\ n \in Nat
  BY LenProperties
<1>2. /\ r \in Seq(Item) /\ Len(r) = m + n
      /\ \A i \in 1..m + n : r[i] = IF i <= m THEN p[i] ELSE q[i - m]
  BY ConcatProperties
<1>3. \A i \in 0..m + n - 1 : i + 1 \in 1..m + n /\ r[i + 1] = IF i < m THEN p[i + 1] ELSE q[(i - m) + 1]
  <2> HIDE DEF r
  <2>1. ASSUME NEW i \in 0..m + n - 1
        PROVE  /\ i + 1 \in 1..m + n /\ (i + 1 <= m <=> i < m) /\ (i + 1) - m = (i - m) + 1
    BY <1>1
  <2> QED BY <1>2, <2>1
<1>4. /\ ValidIn(r) = {i \in 0..m + n - 1 : r[i + 1].valid}
      /\ ValidIn(p) = {i \in 0..m - 1 : p[i + 1].valid}
      /\ ValidIn(q) = {i \in 0..n - 1 : q[i + 1].valid}
  BY <1>2 DEF ValidIn, Indices
<1> HIDE DEF m, n, r
<1>5. ValidIn(r) = ValidIn(p) \cup T
  <2>1. ASSUME NEW i \in ValidIn(r) PROVE i \in ValidIn(p) \cup T
    <3>1. i \in 0..m + n - 1 /\ r[i + 1].valid
      BY <1>4
    <3>2. CASE i < m
      BY <1>1, <1>3, <1>4, <3>1, <3>2
    <3>3. CASE ~(i < m)
      <4>1. i - m \in 0..n - 1 /\ m + (i - m) = i
        BY <1>1, <3>1, <3>3
      <4>2. q[(i - m) + 1].valid
        BY <1>3, <3>1, <3>3
      <4>3. i - m \in ValidIn(q)
        BY <1>4, <4>1, <4>2
      <4> QED BY <4>1, <4>3
    <3> QED BY <3>2, <3>3
  <2>2. ASSUME NEW i \in ValidIn(p) PROVE i \in ValidIn(r)
    <3>1. i \in 0..m - 1 /\ p[i + 1].valid
      BY <1>4
    <3>2. i \in 0..m + n - 1 /\ i < m
      BY <1>1, <3>1
    <3> QED BY <1>3, <1>4, <3>1, <3>2
  <2>3. ASSUME NEW j \in ValidIn(q) PROVE m + j \in ValidIn(r)
    <3>1. j \in 0..n - 1 /\ q[j + 1].valid
      BY <1>4
    <3>2. m + j \in 0..m + n - 1 /\ ~(m + j < m) /\ (m + j) - m = j
      BY <1>1, <3>1
    <3>3. r[(m + j) + 1] = q[((m + j) - m) + 1]
      BY <1>3, <3>2
    <3> QED BY <1>4, <3>1, <3>2, <3>3
  <2> QED BY <2>1, <2>2, <2>3
<1>6. ValidIn(p) \cap T = {}
  <2>1. ASSUME NEW i \in ValidIn(p), NEW j \in ValidIn(q), i = m + j PROVE FALSE
    <3>1. i \in 0..m - 1 /\ j \in 0..n - 1
      BY <1>4
    <3> QED BY <1>1, <2>1, <3>1
  <2> QED BY <2>1
<1>7. IsFiniteSet(ValidIn(p)) /\ IsFiniteSet(ValidIn(q)) /\ Count(p) \in Nat /\ Count(q) \in Nat
  BY CountIs
<1>8. IsFiniteSet(T) /\ Cardinality(T) = Count(q)
  <2> DEFINE f == [t \in T |-> t - m]
             g == [j \in ValidIn(q) |-> m + j]
  <2>0. \A j \in ValidIn(q) : j \in Int /\ (m + j) - m = j
    BY <1>1, <1>4
  <2>1. /\ f \in [T -> ValidIn(q)] /\ \A a, b \in T : f[a] = f[b] => a = b
        /\ \A j \in ValidIn(q) : \E a \in T : f[a] = j
    <3>1. \A t \in T : \E j \in ValidIn(q) : t = m + j /\ f[t] = j
      BY <2>0
    <3>2. \A j \in ValidIn(q) : m + j \in T /\ f[m + j] = j
      BY <2>0
    <3> HIDE DEF T, f
    <3>3. f \in [T -> ValidIn(q)]
      BY <3>1 DEF f
    <3> QED BY <3>1, <3>2, <3>3
  <2> HIDE DEF f, T
  <2> QED BY <1>7, <2>1, InjectionBounds, BijectionCounts DEF Count
<1>9. Cardinality(ValidIn(r)) = Count(p) + Count(q)
  <2>1. Cardinality(ValidIn(p) \cup T)
          = Cardinality(ValidIn(p)) + Cardinality(T) - Cardinality(ValidIn(p) \cap T)
    BY <1>7, <1>8, FS_Union
  <2>2. Cardinality(ValidIn(p) \cap T) = 0
    BY <1>6, FS_EmptySet
  <2>3. Cardinality(ValidIn(p)) = Count(p)
    BY DEF Count
  <2> HIDE DEF T
  <2> QED BY <1>5, <1>7, <1>8, <2>1, <2>2, <2>3
<1> QED BY <1>2, <1>9 DEF m, n, r, Count

-----------------------------------------------------------------------------
(* The edits of a list                                                     *)

(* A list up to a place, a part of it, and what is behind a place.         *)
UpTo(p, i) == SubSeq(p, 1, i)
PartOf(p, i, n) == SubSeq(p, i + 1, i + n)
Behind(p, i) == SubSeq(p, i + 1, Len(p))

LEMMA PartsOf ==
  ASSUME NEW p \in Seq(Item), NEW i \in 0..Len(p), NEW n \in 0..Len(p) - i
  PROVE  /\ UpTo(p, i) \in Seq(Item) /\ Len(UpTo(p, i)) = i
         /\ \A k \in 1..i : UpTo(p, i)[k] = p[k]
         /\ PartOf(p, i, n) \in Seq(Item) /\ Len(PartOf(p, i, n)) = n
         /\ \A k \in 1..n : PartOf(p, i, n)[k] = p[i + k]
         /\ Behind(p, i + n) \in Seq(Item) /\ Len(Behind(p, i + n)) = Len(p) - (i + n)
         /\ \A k \in 1..Len(p) - (i + n) : Behind(p, i + n)[k] = p[i + n + k]
         /\ Count(p) = Count(UpTo(p, i)) + Count(PartOf(p, i, n)) + Count(Behind(p, i + n))
<1> DEFINE m == Len(p)  to == i + n
           a == SubSeq(p, 1, i)  b == SubSeq(p, i + 1, to)  c == SubSeq(p, to + 1, m)
<1>1. m \in Nat /\ i \in Nat /\ n \in Nat /\ to \in 0..m
  BY LenProperties
<1>2. a \in Seq(Item) /\ Len(a) = i /\ \A k \in 1..i : a[k] = p[k]
  BY SplitSeq
<1>3. /\ c \in Seq(Item) /\ Len(c) = m - to
      /\ \A k \in 1..m - to : c[k] = p[to + k]
  <2> HIDE DEF to
  <2> QED BY <1>1, SplitSeq
<1>4. b \in Seq(Item) /\ Len(b) = n /\ \A k \in 1..n : b[k] = p[i + k]
  <2> DEFINE from == i + 1
  <2>1. from \in Nat \ {0} /\ to \in 0..Len(p) /\ from <= to + 1
    BY <1>1
  <2>2. to - from + 1 = n /\ \A k \in 1..n : from + k - 1 = i + k
    BY <1>1
  <2> HIDE DEF from, to
  <2>3. /\ SubSeq(p, from, to) \in Seq(Item) /\ Len(SubSeq(p, from, to)) = to - from + 1
        /\ \A k \in 1..(to - from + 1) : SubSeq(p, from, to)[k] = p[from + k - 1]
    BY <2>1, Piece
  <2> QED BY <2>2, <2>3 DEF from
<1> HIDE DEF a, b, c
<1>5. /\ a \o b \in Seq(Item) /\ Len(a \o b) = to
      /\ \A k \in 1..to : (a \o b)[k] = p[k]
  <2>1. /\ a \o b \in Seq(Item) /\ Len(a \o b) = i + n
        /\ \A k \in 1..i + n : (a \o b)[k] = IF k <= i THEN a[k] ELSE b[k - i]
    BY ZenonT(20), <1>2, <1>4, ConcatProperties
  <2>2. ASSUME NEW k \in 1..i + n PROVE (a \o b)[k] = p[k]
    <3>1. CASE k <= i
      BY <1>1, <1>2, <2>1, <3>1
    <3>2. CASE ~(k <= i)
      <4>1. k - i \in 1..n /\ i + (k - i) = k
        BY <1>1, <3>2
      <4> QED BY <1>4, <2>1, <3>2, <4>1
    <3> QED BY <3>1, <3>2
  <2> QED BY <2>1, <2>2
<1>6. p = (a \o b) \o c
  <2> DEFINE ab == a \o b  q == ab \o c
  <2>0. ab \in Seq(Item) /\ Len(ab) = to /\ \A k \in 1..to : ab[k] = p[k]
    BY <1>5
  <2> HIDE DEF ab, to
  <2>1. /\ q \in Seq(Item) /\ Len(q) = to + (m - to)
        /\ \A k \in 1..to + (m - to) : q[k] = IF k <= to THEN ab[k] ELSE c[k - to]
    BY <1>3, <2>0, JoinIs
  <2> HIDE DEF q
  <2>2. to + (m - to) = m
    BY <1>1
  <2>3. ASSUME NEW k \in 1..m PROVE q[k] = p[k]
    <3>1. CASE k <= to
      BY <1>1, <2>0, <2>1, <2>2, <3>1
    <3>2. CASE ~(k <= to)
      <4>1. k - to \in 1..m - to /\ to + (k - to) = k
        BY <1>1, <3>2
      <4> QED BY <1>3, <2>1, <2>2, <3>2, <4>1
    <3> QED BY <3>1, <3>2
  <2>4. p = q
    BY <2>1, <2>2, <2>3, SeqEqual DEF m
  <2> QED BY <2>4 DEF q, ab
<1>7. Count((a \o b) \o c) = Count(a) + Count(b) + Count(c)
  <2>1. Count(a \o b) = Count(a) + Count(b)
    BY <1>2, <1>4, ConcatCounts
  <2>2. Count((a \o b) \o c) = Count(a \o b) + Count(c)
    BY <1>3, <1>5, ConcatCounts
  <2> QED BY <2>1, <2>2
<1> QED BY <1>2, <1>3, <1>4, <1>6, <1>7 DEF a, b, c, UpTo, PartOf, Behind

LEMMA SplitAt ==
  ASSUME NEW p \in Seq(Item), NEW i \in 0..Len(p)
  PROVE  /\ UpTo(p, i) \in Seq(Item) /\ Len(UpTo(p, i)) = i
         /\ \A k \in 1..i : UpTo(p, i)[k] = p[k]
         /\ Behind(p, i) \in Seq(Item) /\ Len(Behind(p, i)) = Len(p) - i
         /\ \A k \in 1..Len(p) - i : Behind(p, i)[k] = p[i + k]
         /\ Count(p) = Count(UpTo(p, i)) + Count(Behind(p, i))
<1> DEFINE b == PartOf(p, i, 0)
<1>1. Len(p) \in Nat /\ i \in Nat /\ i + 0 = i /\ 0 \in 0..Len(p) - i
  BY LenProperties
<1>2. /\ UpTo(p, i) \in Seq(Item) /\ Len(UpTo(p, i)) = i
      /\ \A k \in 1..i : UpTo(p, i)[k] = p[k]
      /\ b \in Seq(Item) /\ Len(b) = 0
      /\ Behind(p, i + 0) \in Seq(Item) /\ Len(Behind(p, i + 0)) = Len(p) - (i + 0)
      /\ \A k \in 1..Len(p) - (i + 0) : Behind(p, i + 0)[k] = p[i + 0 + k]
      /\ Count(p) = Count(UpTo(p, i)) + Count(b) + Count(Behind(p, i + 0))
  BY <1>1, PartsOf
<1> HIDE DEF b
<1>3. Behind(p, i + 0) = Behind(p, i)
  BY <1>1
<1>4. Count(b) = 0
  <2>1. ValidIn(b) = {}
    BY <1>2 DEF ValidIn, Indices
  <2> QED BY <2>1, <1>2, CountIs
<1>5. Count(UpTo(p, i)) \in Nat /\ Count(Behind(p, i)) \in Nat
  BY <1>2, <1>3, CountIs
<1> QED BY <1>1, <1>2, <1>3, <1>4, <1>5

LEMMA InsertedIs ==
  ASSUME NEW p \in Seq(Item), NEW new \in Seq(Item), NEW idx \in -1..Len(p)
  PROVE  /\ Inserted(p, new, idx) \in Seq(Item) /\ Len(Inserted(p, new, idx)) = Len(p) + Len(new)
         /\ Count(Inserted(p, new, idx)) = Count(p) + Count(new)
         /\ \A k \in 1..Len(p) :
              p[k] = Inserted(p, new, idx)[IF idx >= 0 /\ k > idx THEN k + Len(new) ELSE k]
<1> DEFINE m == Len(p)  n == Len(new)
<1>1. m \in Nat /\ n \in Nat /\ Indices(p) = 0..m - 1
  BY LenProperties DEF Indices
<1>2. CASE idx \in {-1, Len(p)}
  <2>0. idx \notin Indices(p)
    BY <1>1, <1>2
  <2>1. Inserted(p, new, idx) = p \o new
    BY Zenon, <2>0 DEF Inserted
  <2>2. /\ Len(p \o new) = m + n
        /\ \A k \in 1..m + n : (p \o new)[k] = IF k <= m THEN p[k] ELSE new[k - m]
    BY ConcatProperties
  <2>3. \A k \in 1..m : k \in 1..m + n /\ k <= m
    BY <1>1
  <2>4. \A k \in 1..m : (p \o new)[k] = p[k]
    BY <2>2, <2>3
  <2>5. /\ p \o new \in Seq(Item) /\ Len(p \o new) = Len(p) + Len(new)
        /\ Count(p \o new) = Count(p) + Count(new)
    BY ConcatCounts
  <2>6. \A k \in 1..m : ~(idx >= 0 /\ k > idx)
    BY <1>1, <1>2
  <2>7. \A k \in 1..m : p[k] = (p \o new)[IF idx >= 0 /\ k > idx THEN k + Len(new) ELSE k]
    BY <2>4, <2>6
  <2> QED BY <2>1, <2>5, <2>7
<1>3. CASE idx \in Indices(p)
  <2> DEFINE a == UpTo(p, idx)  c == Behind(p, idx)  q == a \o new  r == q \o c
  <2>1. Inserted(p, new, idx) = r
    BY <1>3 DEF Inserted, UpTo, Behind
  <2>2. idx \in 0..m
    BY <1>1, <1>3
  <2>3. /\ a \in Seq(Item) /\ Len(a) = idx /\ \A k \in 1..idx : a[k] = p[k]
        /\ c \in Seq(Item) /\ Len(c) = m - idx /\ \A k \in 1..m - idx : c[k] = p[idx + k]
        /\ Count(p) = Count(a) + Count(c)
    BY <2>2, SplitAt
  <2> HIDE DEF a, c
  <2>5. /\ q \in Seq(Item) /\ Len(q) = idx + n /\ Count(q) = Count(a) + Count(new)
        /\ \A k \in 1..idx + n : q[k] = IF k <= idx THEN a[k] ELSE new[k - idx]
    <3>1. q \in Seq(Item) /\ Count(q) = Count(a) + Count(new)
      BY <2>3, ConcatCounts
    <3>2. Len(new) = n
      OBVIOUS
    <3>3. a \in Seq(Item) /\ Len(a) = idx
      BY <2>3
    <3> HIDE DEF n, m
    <3>4. /\ Len(q) = idx + n
          /\ \A k \in 1..idx + n : q[k] = IF k <= idx THEN a[k] ELSE new[k - idx]
      BY <3>2, <3>3, JoinIs
    <3> QED BY <3>1, <3>4
  <2> HIDE DEF q
  <2>6. /\ r \in Seq(Item) /\ Len(r) = (idx + n) + (m - idx) /\ Count(r) = Count(q) + Count(c)
        /\ \A k \in 1..(idx + n) + (m - idx) : r[k] = IF k <= idx + n THEN q[k] ELSE c[k - (idx + n)]
    <3>1. Count(r) = Count(q) + Count(c)
      BY <2>3, <2>5, ConcatCounts
    <3> DEFINE u == idx + n  v == m - idx
    <3>2. Len(q) = u /\ Len(c) = v
      BY <2>3, <2>5
    <3> HIDE DEF u, v
    <3>3. /\ r \in Seq(Item) /\ Len(r) = u + v
          /\ \A k \in 1..u + v : r[k] = IF k <= u THEN q[k] ELSE c[k - u]
      BY <2>3, <2>5, <3>2, JoinIs
    <3> QED BY <3>1, <3>3 DEF u, v
  <2> HIDE DEF r
  <2>7. Count(a) \in Nat /\ Count(c) \in Nat /\ Count(new) \in Nat
    BY <2>3, CountIs
  <2>8. ASSUME NEW k \in 1..m PROVE p[k] = r[IF idx >= 0 /\ k > idx THEN k + n ELSE k]
    <3>1. CASE k > idx
      <4>1. /\ k + n \in 1..(idx + n) + (m - idx) /\ ~(k + n <= idx + n)
            /\ (k + n) - (idx + n) = k - idx /\ k - idx \in 1..m - idx /\ idx + (k - idx) = k
        BY <1>1, <2>2, <3>1
      <4> QED BY <2>2, <2>3, <2>6, <3>1, <4>1
    <3>2. CASE ~(k > idx)
      <4>1. k \in 1..(idx + n) + (m - idx) /\ k <= idx + n /\ k \in 1..idx + n /\ k <= idx /\ k \in 1..idx
        BY <1>1, <2>2, <3>2
      <4> QED BY <2>3, <2>5, <2>6, <3>2, <4>1
    <3> QED BY <3>1, <3>2
  <2>9. (idx + n) + (m - idx) = m + n
    BY <1>1, <2>2
  <2> QED BY <2>1, <2>3, <2>5, <2>6, <2>7, <2>8, <2>9
<1> QED BY <1>1, <1>2, <1>3

(* Where the items of a list with others inserted come from.               *)
Parted(q, p, new, a) ==
  \A k \in 1..Len(p) + Len(new) :
    q[k] = IF k <= a THEN p[k] ELSE IF k <= a + Len(new) THEN new[k - a] ELSE p[k - Len(new)]

LEMMA InsertedPlaces ==
  ASSUME NEW p \in Seq(Item), NEW new \in Seq(Item), NEW idx
  PROVE  \E a \in 0..Len(p) : Parted(Inserted(p, new, idx), p, new, a)
<1> DEFINE m == Len(p)  n == Len(new)
<1>1. m \in Nat /\ n \in Nat /\ Indices(p) = 0..m - 1
  BY LenProperties DEF Indices
<1>2. CASE idx \notin Indices(p)
  <2>1. Inserted(p, new, idx) = p \o new
    BY Zenon, <1>2 DEF Inserted
  <2>2. \A k \in 1..m + n : (p \o new)[k] = IF k <= m THEN p[k] ELSE new[k - m]
    BY ConcatProperties
  <2>3. m \in 0..m /\ \A k \in 1..m + n : k <= m + n
    BY <1>1
  <2>4. \A k \in 1..m + n :
          Inserted(p, new, idx)[k] = IF k <= m THEN p[k] ELSE IF k <= m + n THEN new[k - m] ELSE p[k - n]
    BY <2>1, <2>2, <2>3
  <2> QED BY <2>3, <2>4 DEF Parted
<1>3. CASE idx \in Indices(p)
  <2> DEFINE a == UpTo(p, idx)  c == Behind(p, idx)  q == a \o new  r == q \o c
  <2>1. Inserted(p, new, idx) = r
    BY <1>3 DEF Inserted, UpTo, Behind
  <2>2. idx \in 0..m
    BY <1>1, <1>3
  <2>3. /\ a \in Seq(Item) /\ Len(a) = idx /\ \A k \in 1..idx : a[k] = p[k]
        /\ c \in Seq(Item) /\ Len(c) = m - idx /\ \A k \in 1..m - idx : c[k] = p[idx + k]
    BY <2>2, SplitAt
  <2> HIDE DEF a, c
  <2>4. /\ q \in Seq(Item) /\ Len(q) = idx + n
        /\ \A k \in 1..idx + n : q[k] = IF k <= idx THEN a[k] ELSE new[k - idx]
    <3>1. Len(new) = n /\ a \in Seq(Item) /\ Len(a) = idx
      BY <2>3
    <3> HIDE DEF n, m
    <3> QED BY <3>1, JoinIs
  <2> HIDE DEF q
  <2>5. \A k \in 1..(idx + n) + (m - idx) : r[k] = IF k <= idx + n THEN q[k] ELSE c[k - (idx + n)]
    <3> DEFINE u == idx + n  v == m - idx
    <3>1. Len(q) = u /\ Len(c) = v
      BY <2>3, <2>4
    <3> HIDE DEF u, v
    <3>2. /\ r \in Seq(Item) /\ Len(r) = u + v
          /\ \A k \in 1..u + v : r[k] = IF k <= u THEN q[k] ELSE c[k - u]
      BY SMTT(20), <2>3, <2>4, <3>1, JoinIs
    <3> QED BY <3>2 DEF u, v
  <2> HIDE DEF r
  <2>6. ASSUME NEW k \in 1..m + n
        PROVE  r[k] = IF k <= idx THEN p[k] ELSE IF k <= idx + n THEN new[k - idx] ELSE p[k - n]
    <3>1. CASE k <= idx
      <4>1. k \in 1..(idx + n) + (m - idx) /\ k <= idx + n /\ k \in 1..idx + n /\ k \in 1..idx
        BY <1>1, <2>2, <3>1
      <4> QED BY <2>3, <2>4, <2>5, <3>1, <4>1
    <3>2. CASE ~(k <= idx) /\ k <= idx + n
      <4>1. k \in 1..(idx + n) + (m - idx) /\ k \in 1..idx + n
        BY <1>1, <2>2, <3>2
      <4> QED BY <2>4, <2>5, <3>2, <4>1
    <3>3. CASE ~(k <= idx) /\ ~(k <= idx + n)
      <4>1. /\ k \in 1..(idx + n) + (m - idx)
            /\ k - (idx + n) \in 1..m - idx /\ idx + (k - (idx + n)) = k - n
        BY <1>1, <2>2, <3>3
      <4> QED BY <2>3, <2>5, <3>3, <4>1
    <3> QED BY <3>1, <3>2, <3>3
  <2>7. Parted(r, p, new, idx)
    BY <2>6 DEF Parted
  <2> QED BY <2>1, <2>2, <2>7
<1> QED BY <1>2, <1>3

LEMMA RemovedIs ==
  ASSUME NEW p \in Seq(Item), NEW i \in Indices(p), NEW n \in Nat \ {0}
  PROVE  /\ Removed(p, i, n) \in Seq(Item) /\ Len(Removed(p, i, n)) <= Len(p) /\ Count(Removed(p, i, n)) <= Count(p)
         /\ i + n > Len(p) => Removed(p, i, n) = p
         /\ i + n <= Len(p) =>
              /\ Len(Removed(p, i, n)) = Len(p) - n
              /\ Count(p) = Count(Removed(p, i, n)) + Count(PartOf(p, i, n))
              /\ PartOf(p, i, n) \in Seq(Item) /\ Len(PartOf(p, i, n)) = n
              /\ \A k \in 1..n : PartOf(p, i, n)[k] = p[i + k]
              /\ \A k \in 1..i : Removed(p, i, n)[k] = p[k]
              /\ \A k \in i + 1..Len(p) - n : Removed(p, i, n)[k] = p[k + n]
<1> DEFINE m == Len(p)  r == Removed(p, i, n)
<1>1. m \in Nat /\ i \in 0..m - 1 /\ Count(p) \in Nat
  BY CountIs DEF Indices
<1>2. CASE i + n > m
  <2>1. ~(i + n <= Len(p))
    BY <1>1, <1>2
  <2>2. r = p
    BY Zenon, <2>1 DEF Removed
  <2> HIDE DEF r
  <2> QED BY <1>1, <1>2, <2>2 DEF r
<1>3. CASE ~(i + n > m)
  <2> DEFINE a == UpTo(p, i)  b == PartOf(p, i, n)  c == Behind(p, i + n)
  <2>0. i >= 0 /\ n > 0 /\ i + n <= Len(p)
    BY <1>1, <1>3
  <2>1. r = a \o c
    BY Zenon, <2>0 DEF Removed, UpTo, Behind
  <2>2. i \in 0..Len(p) /\ n \in 0..Len(p) - i
    BY <1>1, <1>3
  <2>3. /\ a \in Seq(Item) /\ Len(a) = i /\ \A k \in 1..i : a[k] = p[k]
        /\ b \in Seq(Item) /\ Len(b) = n /\ \A k \in 1..n : b[k] = p[i + k]
        /\ c \in Seq(Item) /\ Len(c) = m - (i + n) /\ \A k \in 1..m - (i + n) : c[k] = p[i + n + k]
        /\ Count(p) = Count(a) + Count(b) + Count(c)
    <3>1. /\ UpTo(p, i) \in Seq(Item) /\ Len(UpTo(p, i)) = i
          /\ \A k \in 1..i : UpTo(p, i)[k] = p[k]
      BY Zenon, <2>2, PartsOf
    <3>2. PartOf(p, i, n) \in Seq(Item) /\ Len(PartOf(p, i, n)) = n
      BY <2>2, PartsOf
    <3>3. \A k \in 1..n : PartOf(p, i, n)[k] = p[i + k]
      BY Zenon, <2>2, PartsOf
    <3>4. /\ Behind(p, i + n) \in Seq(Item) /\ Len(Behind(p, i + n)) = Len(p) - (i + n)
          /\ \A k \in 1..Len(p) - (i + n) : Behind(p, i + n)[k] = p[i + n + k]
          /\ Count(p) = Count(UpTo(p, i)) + Count(PartOf(p, i, n)) + Count(Behind(p, i + n))
      BY ZenonT(30), <2>2, PartsOf
    <3> QED BY <3>1, <3>2, <3>3, <3>4
  <2> HIDE DEF a, b, c, r
  <2>4. Count(a) \in Nat /\ Count(b) \in Nat /\ Count(c) \in Nat
    BY <2>3, CountIs
  <2>5. r \in Seq(Item) /\ Count(r) = Count(a) + Count(c)
    BY <2>1, <2>3, ConcatCounts
  <2> DEFINE l == m - (i + n)
  <2>6. /\ Len(r) = i + l
        /\ \A k \in 1..i + l : r[k] = IF k <= i THEN a[k] ELSE c[k - i]
    <3> HIDE DEF l
    <3> QED BY SMTT(20), <2>1, <2>3, JoinIs DEF l
  <2>7. i + l = m - n /\ l \in Nat
    BY <1>1, <1>3
  <2>8. \A k \in 1..i : r[k] = p[k]
    <3>1. \A k \in 1..i : k \in 1..i + l /\ k <= i
      BY <1>1, <2>7
    <3> QED BY <2>3, <2>6, <3>1
  <2>9. ASSUME NEW k \in i + 1..m - n PROVE r[k] = p[k + n]
    <3>1. k \in 1..i + l /\ ~(k <= i) /\ k - i \in 1..m - (i + n) /\ i + n + (k - i) = k + n
      BY <1>1, <2>7
    <3> QED BY <2>3, <2>6, <3>1
  <2>10. m - n <= m /\ Count(r) <= Count(p) /\ Count(p) = Count(r) + Count(b)
    BY <1>1, <2>3, <2>4, <2>5
  <2> QED BY <1>3, <2>3, <2>5, <2>6, <2>7, <2>8, <2>9, <2>10 DEF r, b
<1> QED BY <1>2, <1>3

LEMMA MovedIs ==
  ASSUME NEW p \in Seq(Item), NEW i \in Indices(p), NEW j \in Indices(p)
  PROVE  /\ Moved(p, i, j) \in Seq(Item) /\ Len(Moved(p, i, j)) = Len(p)
         /\ Count(Moved(p, i, j)) = Count(p)
<1> DEFINE m == Len(p)
<1>1. m \in Nat /\ i \in 0..m - 1 /\ j \in 0..m - 1
  BY CountIs DEF Indices
<1>2. CASE i = j
  BY <1>2 DEF Moved
<1>3. CASE i # j
  <2> DEFINE n == 1  q == Removed(p, i, n)  b == PartOf(p, i, n)  e == <<p[i + 1]>>
             r == Inserted(q, e, j)
  <2>1. Moved(p, i, j) = r
    BY <1>3 DEF Moved
  <2>2. n \in Nat \ {0} /\ n = 1 /\ i + n <= Len(p)
    BY <1>1
  <2> HIDE DEF n
  <2>3. /\ q \in Seq(Item) /\ Len(q) = Len(p) - n /\ Count(p) = Count(q) + Count(b)
        /\ b \in Seq(Item) /\ Len(b) = n /\ \A k \in 1..n : b[k] = p[i + k]
    <3>1. q \in Seq(Item) /\ Len(q) = Len(p) - n /\ Count(p) = Count(q) + Count(b)
      BY <2>2, RemovedIs
    <3>2. b \in Seq(Item) /\ Len(b) = n
      BY ZenonT(20), <2>2, RemovedIs
    <3>3. \A k \in 1..n : b[k] = p[i + k]
      BY <2>2, RemovedIs
    <3> QED BY <3>1, <3>2, <3>3
  <2>4. e \in Seq(Item) /\ Len(e) = 1 /\ e[1] = p[i + 1]
    BY CountIs
  <2> HIDE DEF q, b, e
  <2>5. b = e
    <3>1. \A k \in 1..1 : b[k] = e[k]
      BY <2>2, <2>3, <2>4
    <3> QED BY <2>2, <2>3, <2>4, <3>1, SeqEqual
  <2>6. j \in -1..Len(q)
    BY <1>1, <2>2, <2>3
  <2>7. r \in Seq(Item) /\ Len(r) = Len(q) + Len(e) /\ Count(r) = Count(q) + Count(e)
    BY <2>3, <2>4, <2>6, InsertedIs
  <2> HIDE DEF r
  <2>8. Len(r) = Len(p)
    BY <1>1, <2>2, <2>3, <2>4, <2>7
  <2> QED BY <2>1, <2>3, <2>5, <2>7, <2>8
<1> QED BY <1>2, <1>3

(* Sequences as functions.                                                 *)
LEMMA ListFrom ==
  ASSUME NEW n \in Nat, NEW f \in [1..n -> Item]
  PROVE  f \in Seq(Item) /\ Len(f) = n /\ DOMAIN f = 1..n
<1>1. f \in Seq(Item)
  BY SeqDef
<1>2. DOMAIN f = 1..n /\ DOMAIN f = 1..Len(f) /\ Len(f) \in Nat
  BY <1>1, LenProperties
<1> QED BY <1>1, <1>2

LEMMA IdsAre == 0 \in Ids /\ 1..MaxItems \subseteq Ids /\ \A k \in 1..Len(Directory) : MaxItems + k \in Ids
<1>1. MaxItems \in Nat /\ Len(Directory) \in Nat
  BY BoundAssumption, DirectoryAssumption, LenProperties
<1> QED BY <1>1 DEF Ids

(* The items that paths become.                                            *)
LEMMA ItemsAre ==
  ASSUME NEW n \in Nat, NEW paths \in [1..n -> Path], NEW ids \in [1..n -> Ids]
  PROVE  /\ Items(ids, paths) \in Seq(Item) /\ Len(Items(ids, paths)) = n
         /\ Count(Items(ids, paths)) = Cardinality({k \in DOMAIN paths : paths[k] \in Sound})
         /\ \A k \in 1..n : Items(ids, paths)[k].id = IF Tracked THEN ids[k] ELSE 0
<1> DEFINE p == Items(ids, paths)  S == {k \in DOMAIN paths : paths[k] \in Sound}
           f == [k \in S |-> k - 1]
<1>1. p \in [1..n -> Item]
  BY IdsAre DEF Items, Item
<1>2. p \in Seq(Item) /\ Len(p) = n
  BY <1>1, ListFrom
<1>3. \A k \in 1..n : /\ p[k].valid <=> paths[k] \in Sound
                      /\ p[k].id = IF Tracked THEN ids[k] ELSE 0
  BY DEF Items
<1>4. S \subseteq 1..n /\ \A k \in S : k \in Int
  OBVIOUS
<1> HIDE DEF p
<1>5. ValidIn(p) = {i \in 0..n - 1 : p[i + 1].valid}
  BY <1>2 DEF ValidIn, Indices
<1>6. \A i \in 0..n - 1 : i + 1 \in 1..n /\ (i + 1) - 1 = i
  OBVIOUS
<1>7. \A k \in 1..n : k - 1 \in 0..n - 1 /\ (k - 1) + 1 = k
  OBVIOUS
<1>8. \A k \in S : f[k] \in ValidIn(p) /\ f[k] = k - 1
  <2>1. ASSUME NEW k \in S PROVE k - 1 \in ValidIn(p)
    <3>1. k \in 1..n /\ paths[k] \in Sound
      OBVIOUS
    <3> QED BY <1>3, <1>5, <1>7, <3>1
  <2> HIDE DEF S
  <2> QED BY <2>1
<1>9. \A i \in ValidIn(p) : i + 1 \in S /\ f[i + 1] = i
  <2>1. ASSUME NEW i \in ValidIn(p) PROVE i + 1 \in S /\ (i + 1) - 1 = i
    <3>1. i \in 0..n - 1 /\ p[i + 1].valid
      BY <1>5
    <3> QED BY <1>3, <1>6, <3>1
  <2> HIDE DEF S
  <2> QED BY <2>1
<1>10. f \in [S -> ValidIn(p)]
  <2> HIDE DEF S
  <2> QED BY <1>8
<1> HIDE DEF S, f
<1>11. \A a, b \in S : f[a] = f[b] => a = b
  BY <1>4, <1>8
<1>12. \A i \in ValidIn(p) : \E a \in S : f[a] = i
  BY <1>9
<1>13. IsFiniteSet(ValidIn(p))
  BY <1>2, CountIs
<1>14. Cardinality(S) = Cardinality(ValidIn(p))
  BY <1>10, <1>11, <1>12, <1>13, BijectionCounts
<1> QED BY <1>2, <1>3, <1>14 DEF Count, p, S

(* Renaming changes no type.                                               *)
LEMMA RenamedIs ==
  ASSUME NEW p \in Seq(Item), NEW f, NEW g \in Path, NEW q,
         q = [k \in DOMAIN p |-> IF p[k].path = f THEN [p[k] EXCEPT !.path = g] ELSE p[k]]
  PROVE  /\ q \in Seq(Item) /\ Len(q) = Len(p) /\ ValidIn(q) = ValidIn(p)
         /\ \A k \in 1..Len(p) : q[k].id = p[k].id
<1>1. Len(p) \in Nat /\ DOMAIN p = 1..Len(p) /\ \A k \in 1..Len(p) : p[k] \in Item
  BY LenProperties, ElementOfSeq
<1>2. \A k \in 1..Len(p) : q[k] \in Item /\ q[k].id = p[k].id /\ q[k].valid = p[k].valid
  BY <1>1 DEF Item
<1>3. q = [k \in 1..Len(p) |-> q[k]]
  BY <1>1
<1>4. q \in [1..Len(p) -> Item]
  BY <1>2, <1>3
<1>5. q \in Seq(Item) /\ Len(q) = Len(p)
  BY <1>1, <1>4, ListFrom
<1>6. \A i \in Indices(p) : q[i + 1].valid = p[i + 1].valid
  BY <1>2, CountIs
<1>7. ValidIn(q) = ValidIn(p)
  BY <1>5, <1>6 DEF ValidIn, Indices
<1> QED BY <1>2, <1>5, <1>7

(* The n-th of some places.                                                *)
LEMMA NthIs ==
  ASSUME NEW m \in Nat, NEW S, S \subseteq 1..m, NEW n \in 1..Cardinality(S)
  PROVE  NthOf(S, n) \in S /\ Cardinality({j \in S : j <= NthOf(S, n)}) = n
<1>1. \E k \in S : Cardinality(NotAbove(S, k)) = n
  BY NthExists
<1> QED BY <1>1 DEF NthOf, NotAbove

LEMMA WithoutIs ==
  ASSUME NEW p \in Seq(Item), NEW F
  PROVE  /\ Without(p, F) \in Seq(Item) /\ Len(Without(p, F)) <= Len(p)
         /\ Count(Without(p, F)) <= Count(p)
<1> DEFINE S == {k \in DOMAIN p : p[k].path \notin F}
           m == Len(p)  l == Cardinality(S)  q == Without(p, F)
           f == [i \in ValidIn(q) |-> NthOf(S, i + 1) - 1]
<1>1. m \in Nat /\ DOMAIN p = 1..m /\ \A k \in 1..m : p[k] \in Item
  BY LenProperties, ElementOfSeq
<1>2. S \subseteq 1..m
  BY <1>1
<1>3. q = [n \in 1..l |-> p[NthOf(S, n)]]
  BY DEF Without, Keeping
<1> HIDE DEF S, q
<1>4. l \in Nat /\ l <= m
  <2>1. IsFiniteSet(1..m) /\ Cardinality(1..m) = m
    BY <1>1, IntervalIs
  <2> HIDE DEF m
  <2>2. IsFiniteSet(S) /\ l <= m
    BY <1>2, <2>1, FS_Subset
  <2> QED BY <2>2, FS_CardinalityType
<1>5. \A n \in 1..l : NthOf(S, n) \in S /\ Cardinality({j \in S : j <= NthOf(S, n)}) = n
  BY <1>1, <1>2, NthIs
<1> HIDE DEF l
<1>6. \A n \in 1..l : NthOf(S, n) \in 1..m
  BY <1>2, <1>5
<1>7. q \in [1..l -> Item]
  BY <1>1, <1>3, <1>6
<1>8. q \in Seq(Item) /\ Len(q) = l
  BY <1>4, <1>7, ListFrom
<1>9. ValidIn(q) = {i \in 0..l - 1 : q[i + 1].valid} /\ ValidIn(p) = {i \in 0..m - 1 : p[i + 1].valid}
  BY <1>8 DEF ValidIn, Indices
<1>10. \A i \in ValidIn(q) : i + 1 \in 1..l /\ q[i + 1] = p[NthOf(S, i + 1)] /\ q[i + 1].valid
  <2>1. \A i \in 0..l - 1 : i + 1 \in 1..l
    BY <1>4
  <2> QED BY <1>3, <1>9, <2>1
<1>11. f \in [ValidIn(q) -> ValidIn(p)]
  <2>1. ASSUME NEW i \in ValidIn(q) PROVE NthOf(S, i + 1) - 1 \in ValidIn(p)
    <3> DEFINE k == NthOf(S, i + 1)
    <3>1. k \in 1..m /\ p[k].valid
      BY <1>6, <1>10
    <3> HIDE DEF k
    <3>2. k - 1 \in 0..m - 1 /\ (k - 1) + 1 = k
      BY <1>1, <3>1
    <3>3. k - 1 \in ValidIn(p)
      BY <1>9, <3>1, <3>2
    <3> QED BY <3>3 DEF k
  <2> QED BY <2>1
<1>12. ASSUME NEW a \in ValidIn(q), NEW b \in ValidIn(q), f[a] = f[b] PROVE a = b
  <2>1. NthOf(S, a + 1) - 1 = NthOf(S, b + 1) - 1
    BY <1>12
  <2>2. a + 1 \in 1..l /\ b + 1 \in 1..l /\ a \in Int /\ b \in Int
    BY <1>9, <1>10
  <2>3. NthOf(S, a + 1) \in Int /\ NthOf(S, b + 1) \in Int
    BY <1>6, <2>2
  <2>4. NthOf(S, a + 1) = NthOf(S, b + 1)
    BY <2>1, <2>3
  <2>5. a + 1 = b + 1
    BY <1>5, <2>2, <2>4
  <2> QED BY <2>2, <2>5
<1> HIDE DEF f
<1>13. IsFiniteSet(ValidIn(p))
  BY CountIs
<1>14. Cardinality(ValidIn(q)) <= Cardinality(ValidIn(p))
  BY <1>11, <1>12, <1>13, InjectionBounds
<1> QED BY <1>4, <1>8, <1>14 DEF q, Count

-----------------------------------------------------------------------------
(* What is played next                                                     *)

(* The first and the last of some places.                                  *)
LEMMA LeastIs ==
  ASSUME NEW S, S \subseteq Nat, S # {}
  PROVE  Least(S) \in S
<1>1. \E i \in S : \A j \in S : i <= j
  BY LeastOfNat
<1> QED BY <1>1 DEF Least

LEMMA GreatestIs ==
  ASSUME NEW m \in Nat, NEW S, S \subseteq 0..m, S # {}
  PROVE  Greatest(S) \in S
<1>1. PICK i \in S : \A j \in S : j <= i
  BY GreatestOfNat
<1>2. \A j \in S : i >= j
  <2>1. \A j \in S : j \in Int
    OBVIOUS
  <2> QED BY <1>1, <2>1
<1> QED BY <1>2 DEF Greatest

IsChoice(c) == /\ c.i \in {-1} \cup ValidIn(Current)
               /\ c.order \in Seq(Nat)
               /\ c.fault \in {"none", "assert", "ub", "spin"}

LEMMA CurrentIs ==
  ASSUME TypeOK
  PROVE  /\ Current \in Seq(Item) /\ Len(Current) \in Nat
         /\ ValidIn(Current) \subseteq Indices(Current) /\ Indices(Current) \subseteq Nat
         /\ ValidIn(Current) \subseteq 0..Len(Current)
         /\ Current = Listed(dir) /\ dir \in BOOLEAN
<1>1. Current \in Seq(Item) /\ Current = Listed(dir) /\ dir \in BOOLEAN
  BY DEF TypeOK, Current, Listed
<1> HIDE DEF Current
<1>2. Len(Current) \in Nat /\ ValidIn(Current) \subseteq Indices(Current) /\ Indices(Current) \subseteq Nat
  BY <1>1, CountIs
<1>3. ValidIn(Current) \subseteq 0..Len(Current)
  BY <1>2 DEF Indices
<1> QED BY <1>1, <1>2, <1>3

(* What holds of an index read past the end of the list, too.              *)
IsTyped(c) == /\ c.i \in Int /\ c.i >= -1
              /\ c.order \in Seq(Nat)
              /\ c.fault \in {"none", "assert", "ub", "spin"}

LEMMA ChoiceIsTyped ==
  ASSUME TypeOK, NEW c, IsChoice(c)
  PROVE  IsTyped(c)
BY CurrentIs DEF IsChoice, IsTyped

LEMMA ChoiceIs ==
  ASSUME NEW i \in {-1} \cup ValidIn(Current), NEW o \in Seq(Nat),
         NEW f \in {"none", "assert", "ub", "spin"}
  PROVE  IsChoice(Choice(i, o, f)) /\ Choice(i, o, f).fault = f /\ Choice(i, o, f).i = i
BY DEF IsChoice, Choice

LEMMA ChosenIs ==
  ASSUME NEW i \in ValidIn(Current), order \in Seq(Nat)
  PROVE  /\ IsChoice(Choice(i, order, "none")) /\ Choice(i, order, "none").fault = "none"
         /\ Choice(i, order, "none").i = i
BY ChoiceIs

LEMMA EndsAre ==
  ASSUME TypeOK
  PROVE  /\ IsChoice(FirstValid) /\ IsChoice(LastValid) /\ IsChoice(Nothing)
         /\ \A c \in Random : IsChoice(c)
         /\ Nothing.fault = "none"
         /\ ValidIn(Current) # {} => /\ FirstValid.fault = "none" /\ FirstValid.i # -1
                                     /\ LastValid.fault = "none"
<1>1. order \in Seq(Nat)
  BY DEF TypeOK
<1>2. ValidIn(Current) \subseteq Nat /\ ValidIn(Current) \subseteq 0..Len(Current) /\ Len(Current) \in Nat
  BY CurrentIs
<1>3. IsChoice(Nothing) /\ Nothing.fault = "none"
  BY <1>1, ChoiceIs DEF Nothing
<1>4. \A c \in Random : IsChoice(c)
  BY <1>1, ChoiceIs DEF Random
<1>5. CASE ValidIn(Current) = {}
  BY <1>1, <1>3, <1>4, <1>5, ChoiceIs DEF FirstValid, LastValid
<1>6. CASE ValidIn(Current) # {}
  <2>1. Least(ValidIn(Current)) \in ValidIn(Current)
    BY <1>2, <1>6, LeastIs
  <2>2. Greatest(ValidIn(Current)) \in ValidIn(Current)
    BY <1>2, <1>6, GreatestIs
  <2>3. IsChoice(FirstValid) /\ FirstValid.fault = "none" /\ FirstValid.i \in ValidIn(Current)
    <3>1. FirstValid = Choice(Least(ValidIn(Current)), order, "none")
      BY <1>6 DEF FirstValid
    <3> QED BY <1>1, <2>1, <3>1, ChosenIs
  <2>4. IsChoice(LastValid) /\ LastValid.fault = "none"
    <3>1. LastValid = Choice(Greatest(ValidIn(Current)), order, "none")
      BY <1>6 DEF LastValid
    <3> QED BY <1>1, <2>2, <3>1, ChosenIs
  <2>5. FirstValid.i # -1
    BY <1>2, <2>3
  <2> QED BY <1>3, <1>4, <2>3, <2>4, <2>5
<1> QED BY <1>5, <1>6

LEMMA InListIs ==
  ASSUME TypeOK, NEW force \in BOOLEAN
  PROVE  /\ IsChoice(NextInList(force))
         /\ ValidIn(Current) # {} => NextInList(force).fault = "none"
         /\ ValidIn(Current) # {} /\ repeat # "off" => NextInList(force).i # -1
<1>1. order \in Seq(Nat)
  BY DEF TypeOK
<1>2. CASE Later # {}
  <2>1. Later \subseteq ValidIn(Current) /\ ValidIn(Current) \subseteq Nat
    BY CurrentIs DEF Later
  <2> HIDE DEF Later
  <2>2. Least(Later) \in Later
    BY <1>2, <2>1, LeastIs
  <2>3. NextInList(force) = Choice(Least(Later), order, "none")
    BY <1>2 DEF NextInList
  <2>4. Least(Later) \in ValidIn(Current) /\ Least(Later) # -1
    BY <2>1, <2>2
  <2> HIDE DEF NextInList
  <2>5. IsChoice(NextInList(force)) /\ NextInList(force).fault = "none" /\ NextInList(force).i = Least(Later)
    BY <1>1, <2>3, <2>4, ChosenIs
  <2> QED BY <2>4, <2>5
<1>3. CASE Later = {}
  <2>1. NextInList(force) = IF EndsAtLast(force) THEN Nothing ELSE FirstValid
    BY <1>3 DEF NextInList
  <2>2. EndsAtLast(force) => repeat = "off"
    BY DEF EndsAtLast
  <2> HIDE DEF NextInList, EndsAtLast
  <2> QED BY <2>1, <2>2, EndsAre
<1> QED BY <1>2, <1>3

LEMMA FirstAfterIs ==
  ASSUME TypeOK, NEW o \in Seq(Nat), NEW k, Following(o, k) # {}
  PROVE  IsChoice(FirstAfter(o, k)) /\ FirstAfter(o, k).i \in ValidIn(Current)
<1> DEFINE S == Following(o, k)
<1>1. S \subseteq DOMAIN o /\ \A j \in S : o[j] \in ValidIn(Current)
  BY DEF Following
<1>2. S \subseteq Nat
  BY <1>1, LenProperties
<1>3. FirstAfter(o, k) = Choice(o[Least(S)], o, "none")
  BY DEF FirstAfter
<1>4. S # {}
  OBVIOUS
<1> HIDE DEF S
<1>5. Least(S) \in S
  BY <1>2, <1>4, LeastIs
<1> QED BY <1>1, <1>3, <1>5, ChoiceIs

LEMMA OrdersAre ==
  ASSUME TypeOK, NEW first
  PROVE  Orders(first) \subseteq Seq(Nat) /\ OrderNow \subseteq Seq(Nat)
<1>1. \A i : Orders(i) \subseteq Seq(Nat)
  <2> TAKE i
  <2>1. Orders(i) \subseteq [1..Len(Current) -> Indices(Current)]
    BY DEF Orders
  <2>2. Len(Current) \in Nat /\ Indices(Current) \subseteq Nat
    BY CurrentIs
  <2>3. [1..Len(Current) -> Indices(Current)] \subseteq [1..Len(Current) -> Nat]
    BY <2>2
  <2>4. [1..Len(Current) -> Nat] \subseteq Seq(Nat)
    BY <2>2, SeqDef
  <2> QED BY <2>1, <2>3, <2>4
<1>2. order \in Seq(Nat)
  BY DEF TypeOK
<1> QED BY <1>1, <1>2 DEF OrderNow

LEMMA ShuffledAre ==
  ASSUME TypeOK, NEW force \in BOOLEAN
  PROVE  \A c \in NextShuffled(force) : IsChoice(c)
<1>1. order \in Seq(Nat)
  BY DEF TypeOK
<1>2. \A c \in NewRound : IsChoice(c)
  <2>1. SUFFICES ASSUME NEW o \in Orders(i1)
                 PROVE  IsChoice(IF Following(o, 1) # {} THEN FirstAfter(o, 1) ELSE Choice(-1, o, "assert"))
    BY DEF NewRound
  <2>2. o \in Seq(Nat)
    BY OrdersAre
  <2> QED BY <2>2, FirstAfterIs, ChoiceIs
<1>3. IsChoice(Choice(-1, order, "ub"))
  BY <1>1, ChoiceIs
<1>4. ASSUME NEW o \in OrderNow
      PROVE  LET cs == IF Following(o, PlaceOf(o, i1)) # {}
                       THEN {FirstAfter(o, PlaceOf(o, i1))}
                       ELSE IF repeat = "off" /\ ~force THEN {Choice(-1, o, "none")}
                       ELSE NewRound
             IN \A c \in cs : IsChoice(c)
  <2>1. o \in Seq(Nat)
    BY OrdersAre
  <2>2. IsChoice(Choice(-1, o, "none"))
    BY <2>1, ChoiceIs
  <2> QED BY <1>2, <2>1, <2>2, FirstAfterIs
<1> QED BY <1>3, <1>4 DEF NextShuffled

(* Every choice of next() is of a valid item, or none.                     *)
LEMMA NextsAre ==
  ASSUME TypeOK, NEW force \in BOOLEAN, NEW c \in Nexts(force)
  PROVE  IsChoice(c)
<1>1. order \in Seq(Nat)
  BY DEF TypeOK
<1>2. HaveValid => IsChoice(Choice(i1, order, "none"))
  BY <1>1, ChoiceIs DEF HaveValid
<1>3. c \in {Nothing, FirstValid, NextInList(force)} \cup Random \cup NextShuffled(force)
           \cup (IF HaveValid THEN {Choice(i1, order, "none")} ELSE {})
  BY Zenon DEF Nexts
<1> QED BY <1>2, <1>3, EndsAre, InListIs, ShuffledAre

LEMMA PrevInListIs ==
  ASSUME TypeOK
  PROVE  /\ IsChoice(PrevInList)
         /\ ValidIn(Current) # {} => PrevInList.fault = "none"
<1>1. order \in Seq(Nat)
  BY DEF TypeOK
<1> DEFINE earlier == {i \in ValidIn(Current) : i < i1}
<1>2. earlier \subseteq ValidIn(Current)
  OBVIOUS
<1>3. PrevInList = IF earlier # {} THEN Choice(Greatest(earlier), order, "none") ELSE LastValid
  BY DEF PrevInList
<1> HIDE DEF earlier
<1>4. CASE earlier # {}
  <2>1. earlier \subseteq 0..Len(Current) /\ Len(Current) \in Nat
    BY <1>2, CurrentIs
  <2>2. Greatest(earlier) \in ValidIn(Current)
    BY <1>2, <1>4, <2>1, GreatestIs
  <2> QED BY <1>1, <1>3, <1>4, <2>2, ChosenIs
<1>5. CASE earlier = {}
  BY <1>3, <1>5, EndsAre
<1> QED BY <1>4, <1>5

LEMMA PrevsAre ==
  ASSUME TypeOK, ~PastEnd, NEW c \in Prevs
  PROVE  IsChoice(c)
<1>1. order \in Seq(Nat)
  BY DEF TypeOK
<1> DEFINE before == {k \in DOMAIN order : k < PlaceOf(order, i1) /\ order[k] \in ValidIn(Current)}
<1>2. c \in {Nothing, PrevInList} \cup Random
           \cup (IF before # {} THEN {Choice(order[Greatest(before)], order, "none")} ELSE {})
  BY Zenon DEF Prevs
<1>4. before \subseteq 1..Len(order) /\ \A k \in before : order[k] \in ValidIn(Current)
  BY <1>1, LenProperties
<1> HIDE DEF before
<1>6. before # {} => IsChoice(Choice(order[Greatest(before)], order, "none"))
  <2>1. before \subseteq 0..Len(order) /\ Len(order) \in Nat
    BY <1>1, <1>4, LenProperties
  <2>2. before # {} => Greatest(before) \in before
    BY <2>1, GreatestIs
  <2> QED BY <1>1, <1>4, <2>2, ChoiceIs
<1> QED BY <1>2, <1>6, EndsAre, PrevInListIs

(* Past the end of the list, prev() returns some index all the same.       *)
LEMMA PrevsAreTyped ==
  ASSUME TypeOK, NEW c \in Prevs
  PROVE  IsTyped(c) /\ (PastEnd => c.fault # "assert")
<1>1. order \in Seq(Nat) /\ i1 \in Int /\ Len(Current) \in Nat
  BY CurrentIs DEF TypeOK
<1>2. CASE ~PastEnd
  BY <1>2, PrevsAre, ChoiceIsTyped
<1>3. CASE PastEnd
  <2>1. c = Nothing \/ c \in ReadPastEnd
    BY Zenon, <1>3 DEF Prevs
  <2>2. ASSUME c \in ReadPastEnd
        PROVE  IsTyped(c) /\ c.fault # "assert"
    <3>1. PICK i \in {PrevInList.i} \cup Len(Current)..i1 - 1 : c = Choice(i, order, "ub")
      BY <2>2 DEF ReadPastEnd
    <3>2. PrevInList.i \in Int /\ PrevInList.i >= -1
      BY PrevInListIs, ChoiceIsTyped DEF IsTyped
    <3>3. i \in Int /\ i >= -1
      BY <1>1, <3>1, <3>2
    <3> QED BY <1>1, <3>1, <3>3 DEF IsTyped, Choice
  <2>3. IsTyped(Nothing) /\ Nothing.fault # "assert"
    BY EndsAre, ChoiceIsTyped
  <2> QED BY <2>1, <2>2, <2>3
<1> QED BY <1>2, <1>3

(* Without Shuffle, and with nv right, no assertion of next() fails, and   *)
(* with Repeat on it finds something to play.                              *)
LEMMA NextsInOrder ==
  ASSUME TypeOK, NvExact, ~shuffle, NEW force \in BOOLEAN, NEW c \in Nexts(force)
  PROVE  /\ c.fault = "none"
         /\ repeat # "off" /\ ValidIn(Current) # {} => c.i # -1
<1>1. order \in Seq(Nat)
  BY DEF TypeOK
<1>2. nv[dir] = 0 <=> ValidIn(Current) = {}
  BY CurrentIs, CountIs DEF NvExact
<1>3. HaveValid => /\ Choice(i1, order, "none").fault = "none"
                   /\ Choice(i1, order, "none").i # -1
  BY <1>1, CurrentIs, ChoiceIs DEF HaveValid
<1>4. \/ nv[dir] = 0 /\ c = Nothing
      \/ nv[dir] # 0 /\ HaveValid /\ c = Choice(i1, order, "none")
      \/ nv[dir] # 0 /\ c \in {FirstValid, NextInList(force)}
  BY Zenon DEF Nexts
<1> QED BY <1>2, <1>3, <1>4, EndsAre, InListIs

LEMMA PrevsInOrder ==
  ASSUME TypeOK, NvExact, ~shuffle, ~PastEnd, NEW c \in Prevs
  PROVE  c.fault = "none"
<1>1. nv[dir] = 0 <=> ValidIn(Current) = {}
  BY CurrentIs, CountIs DEF NvExact
<1>2. \/ nv[dir] = 0 /\ c = Nothing
      \/ nv[dir] # 0 /\ c = PrevInList
  BY Zenon DEF Prevs
<1> QED BY <1>1, <1>2, EndsAre, PrevInListIs

-----------------------------------------------------------------------------
(* Each operation keeps the types; what it does to nv                      *)

(* nv goes up and down with the valid items, or is counted anew.           *)
NvFollows == \A d \in BOOLEAN : \/ nv'[d] = Count(Listed(d)')
                                \/ nv'[d] + Count(Listed(d)) = nv[d] + Count(Listed(d)')

(* nv goes down by no more than the valid items do.                        *)
NvCovers == \A d \in BOOLEAN : \/ nv'[d] = Count(Listed(d)')
                               \/ nv'[d] + Count(Listed(d)) >= nv[d] + Count(Listed(d)')

LEMMA CountsAre ==
  ASSUME TypeOK
  PROVE  \A d \in BOOLEAN : Listed(d) \in Seq(Item) /\ Count(Listed(d)) \in Int /\ nv[d] \in Int
<1>1. \A d \in BOOLEAN : Listed(d) \in Seq(Item)
  BY DEF TypeOK, Listed
<1>2. \A d \in BOOLEAN : Count(Listed(d)) \in Nat
  BY <1>1, CountIs
<1>3. \A d \in BOOLEAN : nv[d] \in Int
  BY DEF TypeOK
<1> QED BY <1>1, <1>2, <1>3

LEMMA CountsAreThen ==
  ASSUME TypeOK'
  PROVE  \A d \in BOOLEAN : Listed(d)' \in Seq(Item) /\ Count(Listed(d)') \in Int /\ nv'[d] \in Int
<1>1. \A d \in BOOLEAN : Listed(d)' \in Seq(Item)
  BY DEF TypeOK, Listed
<1>2. \A d \in BOOLEAN : Count(Listed(d)') \in Nat
  BY <1>1, CountIs
<1>3. \A d \in BOOLEAN : nv'[d] \in Int
  BY DEF TypeOK
<1> QED BY <1>1, <1>2, <1>3

LEMMA FollowingCovers ==
  ASSUME TypeOK, TypeOK', NvFollows
  PROVE  NvCovers
<1>1. ASSUME NEW d \in BOOLEAN
      PROVE  \/ nv'[d] = Count(Listed(d)')
             \/ nv'[d] + Count(Listed(d)) >= nv[d] + Count(Listed(d)')
  <2>1. nv'[d] \in Int /\ nv[d] \in Int /\ Count(Listed(d)') \in Int /\ Count(Listed(d)) \in Int
    BY CountsAre, CountsAreThen
  <2>2. \/ nv'[d] = Count(Listed(d)')
        \/ nv'[d] + Count(Listed(d)) = nv[d] + Count(Listed(d)')
    BY DEF NvFollows
  <2> QED BY <2>1, <2>2
<1> QED BY <1>1 DEF NvCovers

LEMMA SameFollows ==
  ASSUME TypeOK, list' = list, dirList' = dirList, nv' = nv
  PROVE  NvFollows
<1>1. ASSUME NEW d \in BOOLEAN
      PROVE  nv'[d] + Count(Listed(d)) = nv[d] + Count(Listed(d)')
  <2>1. Listed(d)' = Listed(d)
    BY DEF Listed
  <2>2. nv[d] \in Int /\ Count(Listed(d)) \in Int
    BY CountsAre
  <2>3. Count(Listed(d)') = Count(Listed(d))
    BY <2>1
  <2> QED BY <2>2, <2>3
<1> QED BY <1>1 DEF NvFollows

LEMMA PlayIndexStep ==
  ASSUME TypeOK, NEW i \in Nat, PlayIndex(i)
  PROVE  TypeOK' /\ NvFollows /\ fault' = fault
<1>1. <<>> \in Seq(Nat)
  BY EmptySeq
<1>2. i1' = i /\ i \in Int /\ i >= -1 /\ dir' = FALSE
  BY DEF PlayIndex, Restart
<1>3. TypeOK'
  BY <1>1, <1>2 DEF TypeOK, PlayIndex, Restart, options
<1> QED BY <1>3, SameFollows DEF PlayIndex

LEMMA StopStep ==
  ASSUME TypeOK, Stop
  PROVE  TypeOK' /\ NvFollows /\ fault' = fault
<1>1. <<>> \in Seq(Nat)
  BY EmptySeq
<1>2. TypeOK'
  BY <1>1 DEF TypeOK, Stop, Restart, options
<1> QED BY <1>2, SameFollows DEF Stop

(* The place of a file in a list, if it has one.                           *)
LEMMA IndexOfIs ==
  ASSUME NEW p \in Seq(Item), NEW f
  PROVE  IndexOf(p, f) \in {-1} \cup Indices(p) /\ IndexOf(p, f) \in Int /\ IndexOf(p, f) >= -1
<1> DEFINE at == {i \in Indices(p) : p[i + 1].path = f}
<1>1. at \subseteq Indices(p) /\ at \subseteq Nat
  BY CountIs
<1>2. IndexOf(p, f) = IF at = {} THEN -1 ELSE Least(at)
  BY DEF IndexOf
<1> HIDE DEF at
<1>3. CASE at = {}
  BY <1>2, <1>3
<1>4. CASE at # {}
  <2>1. IndexOf(p, f) \in at
    BY <1>1, <1>2, <1>4, LeastIs
  <2>2. IndexOf(p, f) \in Nat /\ IndexOf(p, f) \in Indices(p)
    BY <1>1, <2>1
  <2> QED BY <2>2
<1> QED BY <1>3, <1>4

(* The directory, as it is listed.                                         *)
LEMMA DirectoryIs ==
  Items([k \in DOMAIN Directory |-> MaxItems + k], Directory) \in Seq(Item)
<1>1. Len(Directory) \in Nat /\ DOMAIN Directory = 1..Len(Directory)
  BY DirectoryAssumption, LenProperties
<1>2. Directory \in [1..Len(Directory) -> Path]
  <2>1. Directory \in [1..Len(Directory) -> Sound]
    BY DirectoryAssumption, LenProperties
  <2> QED BY <2>1, PathAssumption
<1>3. [k \in DOMAIN Directory |-> MaxItems + k] \in [1..Len(Directory) -> Ids]
  BY <1>1, IdsAre
<1> QED BY <1>1, <1>2, <1>3, ItemsAre

LEMMA PlayFileStep ==
  ASSUME TypeOK, NEW f, PlayFile(f)
  PROVE  TypeOK' /\ NvFollows /\ fault' = fault
<1>1. dirList' \in Seq(Item)
  BY DirectoryIs DEF PlayFile, TypeOK
<1>2. Count(dirList') \in Int
  BY <1>1, CountIs
<1>3. i1' \in Int /\ i1' >= -1
  <2>1. i1' = IndexOf(dirList', f)
    BY DEF PlayFile, Restart
  <2> QED BY <1>1, <2>1, IndexOfIs
<1>4. nv' \in [BOOLEAN -> Int] /\ nv'[FALSE] = nv[FALSE] /\ nv'[TRUE] = IF loaded THEN nv[TRUE] ELSE Count(dirList')
  BY <1>2 DEF PlayFile, TypeOK
<1>5. <<>> \in Seq(Nat)
  BY EmptySeq
<1>6. TypeOK'
  BY <1>1, <1>3, <1>4, <1>5 DEF TypeOK, PlayFile, Restart, options
<1>7. NvFollows
  <2>1. nv[FALSE] \in Int /\ nv[TRUE] \in Int
    BY DEF TypeOK
  <2>2. Count(list) \in Int /\ Count(dirList) \in Int
    BY CountsAre DEF Listed
  <2>3. Count(list') = Count(list)
    BY DEF PlayFile
  <2>4. nv'[FALSE] + Count(list) = nv[FALSE] + Count(list')
    BY <1>4, <2>3
  <2>5. \/ nv'[TRUE] = Count(dirList')
        \/ nv'[TRUE] + Count(dirList) = nv[TRUE] + Count(dirList')
    <3>1. CASE ~loaded
      BY <1>4, <3>1
    <3>2. CASE loaded
      <4>1. Count(dirList') = Count(dirList)
        BY <3>2 DEF PlayFile
      <4>2. nv'[TRUE] = nv[TRUE]
        BY <1>4, <3>2
      <4> QED BY <4>1, <4>2
    <3> QED BY <3>1, <3>2
  <2> QED BY <2>4, <2>5 DEF NvFollows, Listed
<1> QED BY <1>6, <1>7 DEF PlayFile

(* The paths that calls give.                                              *)
LEMMA PathsAre ==
  ASSUME NEW n \in Int, NEW paths \in PathLists(n)
  PROVE  \E k \in 1..n : k \in Nat /\ paths \in [1..k -> Path] /\ Len(paths) = k /\ DOMAIN paths = 1..k
<1>1. PICK k \in 1..n : paths \in [1..k -> Path]
  BY DEF PathLists
<1>2. k \in Nat
  OBVIOUS
<1>3. paths \in Seq(Path) /\ DOMAIN paths = 1..k
  BY <1>1, <1>2, SeqDef
<1>4. Len(paths) = k
  BY <1>2, <1>3, LenProperties
<1> QED BY <1>1, <1>2, <1>3, <1>4

LEMMA PlayListStep ==
  ASSUME TypeOK, NEW paths \in PathLists(MaxItems), NEW i, PlayList(paths, i)
  PROVE  TypeOK' /\ NvFollows /\ fault' = fault
<1>1. PICK n \in 1..MaxItems : n \in Nat /\ paths \in [1..n -> Path] /\ Len(paths) = n /\ DOMAIN paths = 1..n
  BY PathsAre, BoundAssumption
<1>2. list' \in Seq(Item) /\ Len(list') = n
  <2>1. [k \in DOMAIN paths |-> k] \in [1..n -> Ids]
    BY <1>1, IdsAre, BoundAssumption
  <2>2. list' = Items([k \in DOMAIN paths |-> k], paths)
    BY DEF PlayList
  <2> QED BY <1>1, <2>1, <2>2, ItemsAre
<1>3. Count(list') \in Int
  BY <1>2, CountIs
<1>4. i1' \in Int /\ i1' >= -1
  BY <1>1 DEF PlayList, Restart
<1>5. nv' \in [BOOLEAN -> Int] /\ nv'[TRUE] = nv[TRUE] /\ nv'[FALSE] = Count(list')
  BY <1>3 DEF PlayList, TypeOK
<1>6. <<>> \in Seq(Nat)
  BY EmptySeq
<1>7. Len(list') <= MaxItems
  BY <1>2, BoundAssumption
<1>8. TypeOK'
  BY <1>2, <1>4, <1>5, <1>6, <1>7 DEF TypeOK, PlayList, Restart, options
<1>9. NvFollows
  <2>1. Count(dirList') = Count(dirList)
    BY DEF PlayList
  <2>2. nv[TRUE] \in Int /\ Count(dirList) \in Int
    BY CountsAre DEF Listed
  <2>3. nv'[TRUE] + Count(dirList) = nv[TRUE] + Count(dirList')
    BY <1>5, <2>1
  <2> QED BY <1>5, <2>3 DEF NvFollows, Listed
<1> QED BY <1>8, <1>9 DEF PlayList

(* What a choice leaves.                                                   *)
LEMMA ChoiceLeaves ==
  ASSUME TypeOK, NEW c, IsTyped(c), Leaves(c)
  PROVE  /\ order' \in Seq(Nat) /\ fault' \in {"none", "assert", "ub", "spin"}
         /\ NvLeft(c) \in [BOOLEAN -> Int] /\ c.i \in Int /\ c.i >= -1
         /\ c.fault = "none" => NvLeft(c) = nv /\ fault' = fault
         /\ c.fault # "assert" => NvLeft(c) = nv
         /\ fault' = "none" => c.fault = "none"
<1>1. c.i \in Int /\ c.i >= -1
  BY DEF IsTyped
<1>2. NvLeft(c) \in [BOOLEAN -> Int]
  BY DEF NvLeft, TypeOK
<1>3. order' \in Seq(Nat) /\ fault' \in {"none", "assert", "ub", "spin"}
  BY DEF Leaves, IsTyped, TypeOK
<1>4. (c.fault = "none" => NvLeft(c) = nv /\ fault' = fault) /\ (c.fault # "assert" => NvLeft(c) = nv)
  BY DEF NvLeft, Leaves
<1>5. fault' = "none" => c.fault = "none"
  BY DEF Leaves
<1> QED BY <1>1, <1>2, <1>3, <1>4, <1>5

LEMMA PlayNextStep ==
  ASSUME TypeOK, NEW force \in BOOLEAN, PlayNext(force)
  PROVE  /\ TypeOK' /\ (fault' = "none" => NvFollows)
         /\ NvExact /\ ~shuffle => NvFollows /\ fault' = fault
<1>1. PICK c \in Nexts(force) : i1' = c.i /\ opening' = {} /\ nv' = NvLeft(c) /\ Leaves(c)
  BY DEF PlayNext
<1>2. IsTyped(c)
  BY NextsAre, ChoiceIsTyped
<1>3. /\ order' \in Seq(Nat) /\ fault' \in {"none", "assert", "ub", "spin"}
      /\ NvLeft(c) \in [BOOLEAN -> Int] /\ c.i \in Int /\ c.i >= -1
      /\ c.fault = "none" => NvLeft(c) = nv /\ fault' = fault
      /\ fault' = "none" => c.fault = "none"
  BY <1>1, <1>2, ChoiceLeaves
<1>4. TypeOK'
  BY <1>1, <1>3 DEF TypeOK, PlayNext, options
<1>5. c.fault = "none" => NvFollows /\ fault' = fault
  BY <1>1, <1>3, SameFollows DEF PlayNext
<1>6. NvExact /\ ~shuffle => c.fault = "none"
  BY NextsInOrder
<1> QED BY <1>3, <1>4, <1>5, <1>6

LEMMA PlayPrevStep ==
  ASSUME TypeOK, PlayPrev
  PROVE  /\ TypeOK' /\ (fault' = "none" => NvFollows)
         /\ NvExact /\ ~shuffle => NvFollows /\ (~PastEnd => fault' = fault)
<1>1. PICK c \in Prevs : i1' = c.i /\ opening' = {} /\ nv' = NvLeft(c) /\ Leaves(c)
  BY DEF PlayPrev
<1>2. IsTyped(c) /\ (PastEnd => c.fault # "assert")
  BY PrevsAreTyped
<1>3. /\ order' \in Seq(Nat) /\ fault' \in {"none", "assert", "ub", "spin"}
      /\ NvLeft(c) \in [BOOLEAN -> Int] /\ c.i \in Int /\ c.i >= -1
      /\ c.fault = "none" => NvLeft(c) = nv /\ fault' = fault
      /\ c.fault # "assert" => NvLeft(c) = nv
      /\ fault' = "none" => c.fault = "none"
  BY <1>1, <1>2, ChoiceLeaves
<1>4. TypeOK'
  BY <1>1, <1>3 DEF TypeOK, PlayPrev, options
<1>5. c.fault # "assert" => NvFollows
  BY <1>1, <1>3, SameFollows DEF PlayPrev
<1>6. NvExact /\ ~shuffle /\ ~PastEnd => c.fault = "none"
  BY PrevsInOrder
<1> QED BY <1>2, <1>3, <1>4, <1>5, <1>6

(* The paths of items are paths.                                           *)
LEMMA PathAtIs ==
  ASSUME TypeOK, NEW i
  PROVE  PathAt(i) \subseteq Path
<1>1. i \in ValidIn(Current) => Current[i + 1] \in Item
  BY CurrentIs, CountIs
<1> QED BY <1>1 DEF PathAt, Item

LEMMA LookNextStep ==
  ASSUME TypeOK, LookNext
  PROVE  /\ TypeOK' /\ (fault' = "none" => NvFollows)
         /\ NvExact /\ ~shuffle => NvFollows /\ fault' = fault
<1>1. PICK c \in Nexts(FALSE) : /\ nv' = NvLeft(c) /\ Leaves(c)
                                /\ opening' = PathAt(i1)
                                /\ caching' = IF HaveValid THEN PathAt(c.i) ELSE caching
  BY DEF LookNext
<1>2. IsTyped(c)
  BY NextsAre, ChoiceIsTyped
<1>3. /\ order' \in Seq(Nat) /\ fault' \in {"none", "assert", "ub", "spin"}
      /\ NvLeft(c) \in [BOOLEAN -> Int] /\ c.i \in Int /\ c.i >= -1
      /\ c.fault = "none" => NvLeft(c) = nv /\ fault' = fault
      /\ fault' = "none" => c.fault = "none"
  BY <1>1, <1>2, ChoiceLeaves
<1>4. opening' \subseteq Path /\ caching' \subseteq Path
  BY <1>1, PathAtIs DEF TypeOK
<1>5. TypeOK'
  BY <1>1, <1>3, <1>4 DEF TypeOK, LookNext
<1>6. c.fault = "none" => NvFollows /\ fault' = fault
  BY <1>1, <1>3, SameFollows DEF LookNext
<1>7. NvExact /\ ~shuffle => c.fault = "none"
  BY NextsInOrder
<1> QED BY <1>3, <1>5, <1>6, <1>7

LEMMA BothGoDown ==
  ASSUME NEW v \in Int, NEW c \in Int, NEW k \in Int
  PROVE  (v - k) + c = v + (c - k)
OBVIOUS

(* Making items of the current list invalid.                               *)
LEMMA SpoilHereIs ==
  ASSUME TypeOK, NEW S, S \subseteq ValidIn(Current), NEW n \in [BOOLEAN -> Int], SpoilHere(S, n)
  PROVE  /\ list' \in Seq(Item) /\ Len(list') = Len(list)
         /\ dirList' \in Seq(Item) /\ Len(dirList') = Len(dirList)
         /\ nv' \in [BOOLEAN -> Int]
         /\ n = nv => NvFollows
<1>1. list \in Seq(Item) /\ dirList \in Seq(Item) /\ dir \in BOOLEAN /\ Cardinality(S) \in Int
  <2>1. IsFiniteSet(S)
    <3>1. IsFiniteSet(ValidIn(Current))
      BY CurrentIs, CountIs
    <3> QED BY <3>1, FS_Subset
  <2>2. Cardinality(S) \in Nat
    BY <2>1, FS_CardinalityType
  <2> QED BY <2>2 DEF TypeOK
<1>2. nv' = [n EXCEPT ![dir] = n[dir] - Cardinality(S)]
  BY DEF SpoilHere
<1>3. nv' \in [BOOLEAN -> Int]
  BY <1>1, <1>2
<1>4. CASE dir
  <2>1. dirList' = Spoil(dirList, S) /\ list' = list
    BY <1>4 DEF SpoilHere
  <2>2. Current = dirList
    BY <1>4 DEF Current, Listed
  <2>3. /\ Spoil(dirList, S) \in Seq(Item) /\ Len(Spoil(dirList, S)) = Len(dirList)
        /\ Count(Spoil(dirList, S)) = Count(dirList) - Cardinality(S)
    BY <1>1, <2>2, SpoilCounts
  <2>4. ASSUME n = nv
        PROVE  nv'[TRUE] + Count(dirList) = nv[TRUE] + Count(dirList') /\ nv'[FALSE] = nv[FALSE]
    <3>1. nv'[TRUE] = nv[TRUE] - Cardinality(S) /\ nv'[FALSE] = nv[FALSE]
      BY <1>2, <1>4, <2>4
    <3>2. Count(dirList') = Count(dirList) - Cardinality(S)
      BY <2>1, <2>3
    <3>3. nv[TRUE] \in Int /\ Count(dirList) \in Int
      BY CountsAre DEF Listed
    <3>4. (nv[TRUE] - Cardinality(S)) + Count(dirList) = nv[TRUE] + (Count(dirList) - Cardinality(S))
      BY <1>1, <3>3, BothGoDown
    <3> QED BY <3>1, <3>2, <3>4
  <2>5. n = nv => NvFollows
    BY <2>1, <2>4 DEF NvFollows, Listed
  <2> QED BY <1>1, <1>3, <2>1, <2>3, <2>5
<1>5. CASE ~dir
  <2>1. list' = Spoil(list, S) /\ dirList' = dirList
    BY <1>5 DEF SpoilHere
  <2>2. Current = list
    BY <1>5 DEF Current, Listed
  <2>3. /\ Spoil(list, S) \in Seq(Item) /\ Len(Spoil(list, S)) = Len(list)
        /\ Count(Spoil(list, S)) = Count(list) - Cardinality(S)
    BY <1>1, <2>2, SpoilCounts
  <2>4. ASSUME n = nv
        PROVE  nv'[FALSE] + Count(list) = nv[FALSE] + Count(list') /\ nv'[TRUE] = nv[TRUE]
    <3>1. nv'[FALSE] = nv[FALSE] - Cardinality(S) /\ nv'[TRUE] = nv[TRUE]
      BY <1>1, <1>2, <1>5, <2>4
    <3>2. Count(list') = Count(list) - Cardinality(S)
      BY <2>1, <2>3
    <3>3. nv[FALSE] \in Int /\ Count(list) \in Int
      BY CountsAre DEF Listed
    <3>4. (nv[FALSE] - Cardinality(S)) + Count(list) = nv[FALSE] + (Count(list) - Cardinality(S))
      BY <1>1, <3>3, BothGoDown
    <3> QED BY <3>1, <3>2, <3>4
  <2>5. n = nv => NvFollows
    BY <2>1, <2>4 DEF NvFollows, Listed
  <2> QED BY <1>1, <1>3, <2>1, <2>3, <2>5
<1> QED BY <1>4, <1>5

LEMMA CarryingIs ==
  ASSUME NEW p \in Seq(Item), NEW f
  PROVE  /\ Spoil(p, Carrying(p, f)) \in Seq(Item) /\ Len(Spoil(p, Carrying(p, f))) = Len(p)
         /\ Count(Spoil(p, Carrying(p, f))) = Count(p) - Cardinality(Carrying(p, f))
         /\ Cardinality(Carrying(p, f)) \in Int
<1>1. Carrying(p, f) \subseteq ValidIn(p)
  BY DEF Carrying
<1>2. IsFiniteSet(Carrying(p, f))
  BY <1>1, CountIs, FS_Subset
<1>3. Cardinality(Carrying(p, f)) \in Int
  BY <1>2, FS_CardinalityType
<1> QED BY <1>1, <1>3, SpoilCounts

LEMMA CountsGoDown ==
  ASSUME NEW n \in [BOOLEAN -> Int], NEW a \in Int, NEW b \in Int
  PROVE  LET m == [n EXCEPT ![FALSE] = @ - a, ![TRUE] = @ - b]
         IN m \in [BOOLEAN -> Int] /\ m[FALSE] = n[FALSE] - a /\ m[TRUE] = n[TRUE] - b
<1> DEFINE n1 == [n EXCEPT ![FALSE] = @ - a]
           m == [n EXCEPT ![FALSE] = @ - a, ![TRUE] = @ - b]
<1>1. n[FALSE] - a \in Int /\ n[TRUE] - b \in Int
  <2>1. PICK v \in Int, w \in Int : n[FALSE] = v /\ n[TRUE] = w
    OBVIOUS
  <2>2. v - a \in Int /\ w - b \in Int
    OBVIOUS
  <2> QED BY <2>1, <2>2
<1>2. n1 \in [BOOLEAN -> Int] /\ n1[FALSE] = n[FALSE] - a /\ n1[TRUE] = n[TRUE]
  BY <1>1
<1>3. m = [n1 EXCEPT ![TRUE] = @ - b]
  OBVIOUS
<1> HIDE DEF n1
<1>4. m \in [BOOLEAN -> Int] /\ m[FALSE] = n[FALSE] - a /\ m[TRUE] = n[TRUE] - b
  BY <1>1, <1>2, <1>3
<1> QED BY <1>4

LEMMA SpoilEverywhereIs ==
  ASSUME TypeOK, NEW f, NEW n \in [BOOLEAN -> Int], SpoilEverywhere(f, n)
  PROVE  /\ list' \in Seq(Item) /\ Len(list') = Len(list)
         /\ dirList' \in Seq(Item) /\ Len(dirList') = Len(dirList)
         /\ nv' \in [BOOLEAN -> Int]
         /\ n = nv => NvFollows
<1>1. list \in Seq(Item) /\ dirList \in Seq(Item)
  BY DEF TypeOK
<1>2. PICK a \in Int : a = Cardinality(Carrying(list, f))
  BY <1>1, CarryingIs
<1>3. PICK b \in Int : b = Cardinality(Carrying(dirList, f))
  BY <1>1, CarryingIs
<1>4. list' \in Seq(Item) /\ Len(list') = Len(list) /\ Count(list') = Count(list) - a
  BY <1>1, <1>2, CarryingIs DEF SpoilEverywhere
<1>5. dirList' \in Seq(Item) /\ Len(dirList') = Len(dirList) /\ Count(dirList') = Count(dirList) - b
  BY <1>1, <1>3, CarryingIs DEF SpoilEverywhere
<1>6. nv' = [n EXCEPT ![FALSE] = @ - a, ![TRUE] = @ - b]
  BY <1>2, <1>3 DEF SpoilEverywhere
<1>7. nv'[FALSE] = n[FALSE] - a /\ nv'[TRUE] = n[TRUE] - b /\ nv' \in [BOOLEAN -> Int]
  BY <1>6, CountsGoDown
<1>8. nv[TRUE] \in Int /\ Count(dirList) \in Int /\ nv[FALSE] \in Int /\ Count(list) \in Int
  BY CountsAre DEF Listed
<1>9. n = nv => nv'[FALSE] + Count(list) = nv[FALSE] + Count(list')
  <2>1. PICK v \in Int, c \in Int : v = nv[FALSE] /\ c = Count(list)
    BY <1>8
  <2>2. (v - a) + c = v + (c - a)
    OBVIOUS
  <2> QED BY <1>4, <1>7, <2>1, <2>2
<1>10. n = nv => nv'[TRUE] + Count(dirList) = nv[TRUE] + Count(dirList')
  <2>1. PICK v \in Int, c \in Int : v = nv[TRUE] /\ c = Count(dirList)
    BY <1>8
  <2>2. (v - b) + c = v + (c - b)
    OBVIOUS
  <2> QED BY <1>5, <1>7, <2>1, <2>2
<1>11. n = nv => NvFollows
  BY <1>9, <1>10 DEF NvFollows, Listed
<1> QED BY <1>4, <1>5, <1>7, <1>11

LEMMA InvalidateStep ==
  ASSUME TypeOK, NEW f, Invalidate(f)
  PROVE  /\ TypeOK' /\ (fault' = "none" => NvFollows)
         /\ NvExact /\ ~shuffle => NvFollows
         /\ NvExact /\ ~shuffle /\ i1 \in {-1} \cup Indices(Current) => fault' = fault
         /\ Len(list') = Len(list)
         /\ Len(dirList') = Len(dirList)
<1>1. UNCHANGED <<loaded, i1, dir, repeat, shuffle, opening, caching>>
  BY DEF Invalidate, options, files
<1>2. CASE LooksAtCurrent /\ i1 \notin Indices(Current)
  <2>1. fault' = "ub" /\ UNCHANGED <<list, dirList, nv, order>>
    BY <1>2 DEF Invalidate
  <2>2. TypeOK'
    BY <1>1, <2>1 DEF TypeOK
  <2>3. ~(i1 \in {-1} \cup Indices(Current))
    BY <1>2 DEF LooksAtCurrent
  <2>4. NvFollows
    BY <2>1, SameFollows
  <2> QED BY <2>1, <2>2, <2>3, <2>4
<1>3. CASE ~(LooksAtCurrent /\ i1 \notin Indices(Current)) /\ LooksAtCurrent /\ IsValid(Current, i1, f)
  <2>1. SpoilHere({i1}, nv) /\ UNCHANGED <<order, fault>>
    BY <1>3 DEF Invalidate
  <2>2. {i1} \subseteq ValidIn(Current) /\ nv \in [BOOLEAN -> Int]
    BY <1>3 DEF IsValid, TypeOK
  <2>3. /\ list' \in Seq(Item) /\ Len(list') = Len(list)
        /\ dirList' \in Seq(Item) /\ Len(dirList') = Len(dirList)
        /\ nv' \in [BOOLEAN -> Int] /\ NvFollows
    BY <2>1, <2>2, SpoilHereIs
  <2>4. TypeOK'
    BY <1>1, <2>1, <2>3 DEF TypeOK
  <2> QED BY <2>1, <2>3, <2>4
<1>4. CASE ~(LooksAtCurrent /\ i1 \notin Indices(Current)) /\ ~(LooksAtCurrent /\ IsValid(Current, i1, f))
  <2>1. PICK c \in Nexts(TRUE) :
          /\ Leaves(c)
          /\ IF IsValid(Current, c.i, f) THEN SpoilHere({c.i}, NvLeft(c))
                                         ELSE SpoilEverywhere(f, NvLeft(c))
    BY <1>4 DEF Invalidate
  <2>2. IsTyped(c)
    BY NextsAre, ChoiceIsTyped
  <2>3. /\ order' \in Seq(Nat) /\ fault' \in {"none", "assert", "ub", "spin"}
        /\ NvLeft(c) \in [BOOLEAN -> Int] /\ c.i \in Int /\ c.i >= -1
        /\ c.fault = "none" => NvLeft(c) = nv /\ fault' = fault
        /\ fault' = "none" => c.fault = "none"
    BY <2>1, <2>2, ChoiceLeaves
  <2>4. /\ list' \in Seq(Item) /\ Len(list') = Len(list)
        /\ dirList' \in Seq(Item) /\ Len(dirList') = Len(dirList)
        /\ nv' \in [BOOLEAN -> Int]
        /\ NvLeft(c) = nv => NvFollows
    <3>1. CASE IsValid(Current, c.i, f)
      <4>1. {c.i} \subseteq ValidIn(Current)
        BY <3>1 DEF IsValid
      <4> QED BY <2>1, <2>3, <3>1, <4>1, SpoilHereIs
    <3>2. CASE ~IsValid(Current, c.i, f)
      BY <2>1, <2>3, <3>2, SpoilEverywhereIs
    <3> QED BY <3>1, <3>2
  <2>5. TypeOK'
    BY <1>1, <2>3, <2>4 DEF TypeOK
  <2>6. NvExact /\ ~shuffle => c.fault = "none"
    BY NextsInOrder
  <2> QED BY <2>3, <2>4, <2>5, <2>6
<1> QED BY <1>2, <1>3, <1>4

(* A change of the playlist alone that nv goes along with.                 *)
LEMMA ListFollows ==
  ASSUME TypeOK, dirList' = dirList, nv'[TRUE] = nv[TRUE],
         nv'[FALSE] + Count(list) = nv[FALSE] + Count(list')
  PROVE  NvFollows
<1>1. nv'[TRUE] + Count(dirList) = nv[TRUE] + Count(dirList')
  OBVIOUS
<1> QED BY <1>1 DEF NvFollows, Listed

LEMMA FewerCovers ==
  ASSUME TypeOK, list' \in Seq(Item), dirList' = dirList, nv' = nv, Count(list') <= Count(list)
  PROVE  NvCovers
<1>1. nv[TRUE] \in Int /\ Count(dirList) \in Int /\ nv[FALSE] \in Int /\ Count(list) \in Int
  BY CountsAre DEF Listed
<1>2. Count(list') \in Int
  BY CountIs
<1>3. nv'[TRUE] + Count(dirList) >= nv[TRUE] + Count(dirList')
  <2>1. PICK v \in Int, c \in Int : v = nv[TRUE] /\ c = Count(dirList)
    BY <1>1
  <2>2. v + c >= v + c
    OBVIOUS
  <2> QED BY <2>1, <2>2
<1>4. nv'[FALSE] + Count(list) >= nv[FALSE] + Count(list')
  <2>1. PICK v \in Int, c \in Int, k \in Int : v = nv[FALSE] /\ c = Count(list) /\ k = Count(list')
    BY <1>1, <1>2
  <2>2. k <= c
    BY <2>1
  <2>3. v + c >= v + k
    BY <2>2
  <2> QED BY <2>1, <2>3
<1> QED BY <1>3, <1>4 DEF NvCovers, Listed

(* The most that may be added.                                             *)
LEMMA RoomIs ==
  ASSUME TypeOK, NEW paths \in PathLists(Smaller(Room, 2))
  PROVE  \E n \in Nat : /\ paths \in [1..n -> Path] /\ Len(paths) = n /\ DOMAIN paths = 1..n
                        /\ n > 0 /\ Len(list) + n <= MaxItems
<1>1. Len(list) \in Nat /\ Room \in Int /\ Smaller(Room, 2) \in Int /\ Smaller(Room, 2) <= Room
  BY LenProperties, BoundAssumption DEF TypeOK, Room, Smaller
<1>2. PICK n \in 1..Smaller(Room, 2) : n \in Nat /\ paths \in [1..n -> Path] /\ Len(paths) = n /\ DOMAIN paths = 1..n
  BY <1>1, PathsAre
<1>3. n > 0 /\ n <= Room
  BY <1>1, <1>2
<1>4. Len(list) + n <= MaxItems
  BY <1>1, <1>2, <1>3, BoundAssumption DEF Room
<1> QED BY <1>2, <1>3, <1>4

(* New items.                                                              *)
LEMMA NewItemsAre ==
  ASSUME TypeOK, NEW n \in Nat, NEW paths \in [1..n -> Path], NEW ids \in FreshIds(n)
  PROVE  /\ Items(ids, paths) \in Seq(Item) /\ Len(Items(ids, paths)) = n
         /\ Count(Items(ids, paths)) = Cardinality({k \in DOMAIN paths : paths[k] \in Sound})
         /\ \A k \in 1..n : Items(ids, paths)[k].id = IF Tracked THEN ids[k] ELSE 0
         /\ ids \in [1..n -> 1..MaxItems \ IdsIn(list)]
         /\ \A j, k \in 1..n : j < k => ids[j] < ids[k]
<1>1. /\ ids \in [1..n -> 1..MaxItems \ IdsIn(list)]
      /\ \A j, k \in 1..n : j < k => ids[j] < ids[k]
  BY Zenon DEF FreshIds, IdsIn
<1>2. ids \in [1..n -> Ids]
  BY <1>1, IdsAre
<1> QED BY <1>1, <1>2, ItemsAre

LEMMA AddStep ==
  ASSUME TypeOK, NEW paths \in PathLists(Smaller(Room, 2)), NEW idx \in {-1} \cup Indices(list),
         Add(paths, idx)
  PROVE  TypeOK' /\ NvFollows /\ fault' = fault
<1>1. PICK n \in Nat : /\ paths \in [1..n -> Path] /\ Len(paths) = n /\ DOMAIN paths = 1..n
                       /\ n > 0 /\ Len(list) + n <= MaxItems
  BY RoomIs
<1>2. PICK ids \in FreshIds(n) : list' = Inserted(list, Items(ids, paths), idx)
  BY <1>1 DEF Add
<1>3. PICK c \in Int : c = Cardinality({k \in DOMAIN paths : paths[k] \in Sound})
                       /\ Count(Items(ids, paths)) = c
  <2>1. Items(ids, paths) \in Seq(Item)
        /\ Count(Items(ids, paths)) = Cardinality({k \in DOMAIN paths : paths[k] \in Sound})
    BY <1>1, NewItemsAre
  <2>2. Count(Items(ids, paths)) \in Int
    BY <2>1, CountIs
  <2> QED BY <2>1, <2>2
<1>4. list \in Seq(Item) /\ Len(list) \in Nat /\ idx \in -1..Len(list)
  BY CountIs DEF TypeOK, Indices
<1>5. list' \in Seq(Item) /\ Len(list') = Len(list) + n /\ Count(list') = Count(list) + c
  <2>1. Items(ids, paths) \in Seq(Item) /\ Len(Items(ids, paths)) = n
    BY <1>1, NewItemsAre
  <2>2. /\ Inserted(list, Items(ids, paths), idx) \in Seq(Item)
        /\ Len(Inserted(list, Items(ids, paths), idx)) = Len(list) + Len(Items(ids, paths))
        /\ Count(Inserted(list, Items(ids, paths), idx)) = Count(list) + Count(Items(ids, paths))
    BY Zenon, <1>4, <2>1, InsertedIs
  <2> QED BY <1>2, <1>3, <2>1, <2>2
<1>6. i1' \in Int /\ i1' >= -1
  BY <1>1 DEF Add, AfterInsert, TypeOK
<1>7. nv' = [nv EXCEPT ![FALSE] = @ + c]
  BY <1>3 DEF Add
<1>8. nv[FALSE] \in Int /\ Count(list) \in Int
  BY CountsAre DEF Listed
<1>9. PICK v \in Int : v = nv[FALSE]
  BY <1>8
<1>10. v + c \in Int
  OBVIOUS
<1>11. nv' = [nv EXCEPT ![FALSE] = v + c]
  BY <1>7, <1>9
<1>12. nv' \in [BOOLEAN -> Int] /\ nv'[FALSE] = v + c /\ nv'[TRUE] = nv[TRUE]
  BY <1>10, <1>11 DEF TypeOK
<1>13. TypeOK'
  BY <1>1, <1>5, <1>6, <1>12 DEF TypeOK, Add, options, files
<1>14. nv'[FALSE] + Count(list) = nv[FALSE] + Count(list')
  <2>1. PICK l \in Int : l = Count(list)
    BY <1>8
  <2>2. (v + c) + l = v + (l + c)
    OBVIOUS
  <2> QED BY <1>5, <1>9, <1>12, <2>1, <2>2
<1>15. NvFollows
  BY <1>12, <1>14, ListFollows DEF Add
<1> QED BY <1>13, <1>15 DEF Add

LEMMA RemoveStep ==
  ASSUME TypeOK, NEW i \in Indices(list), NEW n \in 1..MaxItems, RemoveItems(i, n)
  PROVE  TypeOK' /\ NvCovers /\ fault' = fault
<1>1. list \in Seq(Item) /\ n \in Nat \ {0} /\ Len(list) \in Nat /\ i \in Nat
  BY CountIs DEF TypeOK
<1>2. list' \in Seq(Item) /\ Len(list') <= Len(list) /\ Count(list') <= Count(list)
  BY <1>1, RemovedIs DEF RemoveItems
<1>3. i1' \in Int /\ i1' >= -1
  BY <1>1 DEF RemoveItems, AfterRemove, Smaller, TypeOK
<1>4. Len(list') <= MaxItems
  <2>1. Len(list') \in Nat /\ Len(list) <= MaxItems
    BY <1>2, LenProperties DEF TypeOK
  <2> QED BY <1>1, <1>2, <2>1, BoundAssumption
<1>5. TypeOK'
  BY <1>2, <1>3, <1>4 DEF TypeOK, RemoveItems, options, files
<1>6. NvCovers
  BY <1>2, FewerCovers DEF RemoveItems
<1> QED BY <1>5, <1>6 DEF RemoveItems

(* An edit that moves or renames items.                                    *)
LEMMA SameCountFollows ==
  ASSUME TypeOK, dirList' = dirList, nv' = nv, Count(list') = Count(list)
  PROVE  NvFollows
BY ListFollows

LEMMA MoveStep ==
  ASSUME TypeOK, NEW i \in Indices(list), NEW j \in Indices(list), Move(i, j)
  PROVE  TypeOK' /\ NvFollows /\ fault' = fault
<1>1. list \in Seq(Item) /\ i \in Nat /\ j \in Nat
  BY CountIs DEF TypeOK
<1>2. list' \in Seq(Item) /\ Len(list') = Len(list) /\ Count(list') = Count(list)
  BY <1>1, MovedIs DEF Move
<1>3. i1' \in Int /\ i1' >= -1
  BY <1>1 DEF Move, TypeOK
<1>4. TypeOK'
  BY <1>2, <1>3 DEF TypeOK, Move, options, files
<1>5. NvFollows
  BY <1>2, SameCountFollows DEF Move
<1> QED BY <1>4, <1>5 DEF Move

LEMMA RemoveFilesStep ==
  ASSUME TypeOK, NEW F, RemoveFiles(F)
  PROVE  TypeOK' /\ NvCovers /\ fault' = fault
<1>1. list \in Seq(Item) /\ Len(list) \in Nat
  BY CountIs DEF TypeOK
<1>2. list' \in Seq(Item) /\ Len(list') <= Len(list) /\ Count(list') <= Count(list)
  BY <1>1, WithoutIs DEF RemoveFiles
<1>3. Len(list') <= MaxItems
  <2>1. Len(list') \in Nat /\ Len(list) <= MaxItems
    BY <1>2, LenProperties DEF TypeOK
  <2> QED BY <1>1, <1>2, <2>1, BoundAssumption
<1>4. TypeOK'
  BY <1>2, <1>3 DEF TypeOK, RemoveFiles, options, files
<1>5. NvCovers
  BY <1>2, FewerCovers DEF RemoveFiles
<1> QED BY <1>4, <1>5 DEF RemoveFiles

LEMMA RenameStep ==
  ASSUME TypeOK, NEW f, NEW g \in Path, Rename(f, g)
  PROVE  TypeOK' /\ NvFollows /\ fault' = fault
<1>1. list \in Seq(Item)
  BY DEF TypeOK
<1>2. list' \in Seq(Item) /\ Len(list') = Len(list) /\ ValidIn(list') = ValidIn(list)
  <2>1. PICK q : q = list'
    OBVIOUS
  <2>2. q = [k \in DOMAIN list |-> IF list[k].path = f THEN [list[k] EXCEPT !.path = g] ELSE list[k]]
    BY <2>1 DEF Rename
  <2>3. q \in Seq(Item) /\ Len(q) = Len(list) /\ ValidIn(q) = ValidIn(list)
    BY <1>1, <2>2, RenamedIs
  <2> QED BY <2>1, <2>3
<1>3. TypeOK'
  BY <1>2 DEF TypeOK, Rename, options, files
<1>4. Count(list') = Count(list)
  BY <1>2 DEF Count
<1>5. NvFollows
  BY <1>4, SameCountFollows DEF Rename
<1> QED BY <1>3, <1>5 DEF Rename

LEMMA OptionStep ==
  ASSUME TypeOK, (\E r \in Repeats : SetRepeat(r)) \/ SetShuffle
  PROVE  TypeOK' /\ NvFollows /\ fault' = fault
<1>1. CASE \E r \in Repeats : SetRepeat(r)
  <2>1. TypeOK'
    BY <1>1, RepeatAssumption DEF TypeOK, SetRepeat, files
  <2> QED BY <1>1, <2>1, SameFollows DEF SetRepeat
<1>2. CASE SetShuffle
  <2>1. TypeOK'
    BY <1>2 DEF TypeOK, SetShuffle, files
  <2> QED BY <1>2, <2>1, SameFollows DEF SetShuffle
<1> QED BY <1>1, <1>2

LEMMA SameStep ==
  ASSUME TypeOK, UNCHANGED vars
  PROVE  TypeOK' /\ NvFollows /\ fault' = fault
<1>1. TypeOK'
  BY DEF TypeOK, vars
<1> QED BY <1>1, SameFollows DEF vars

-----------------------------------------------------------------------------
(* Every step                                                              *)

LEMMA EditStep ==
  ASSUME TypeOK, Edit
  PROVE  /\ TypeOK' /\ NvCovers /\ fault' = fault
         /\ Ops \cap {"remove", "removefiles"} = {} => NvFollows
<1>1. ASSUME NEW paths \in PathLists(Smaller(Room, 2)), NEW idx \in {-1} \cup Indices(list),
             Add(paths, idx)
      PROVE  TypeOK' /\ NvFollows /\ NvCovers /\ fault' = fault
  BY <1>1, AddStep, FollowingCovers
<1>2. ASSUME NEW i \in Indices(list), NEW n \in 1..MaxItems, RemoveItems(i, n)
      PROVE  TypeOK' /\ NvCovers /\ fault' = fault /\ "remove" \in Ops
  BY <1>2, RemoveStep DEF RemoveItems, Do
<1>3. ASSUME NEW i \in Indices(list), NEW j \in Indices(list), Move(i, j)
      PROVE  TypeOK' /\ NvFollows /\ NvCovers /\ fault' = fault
  BY <1>3, MoveStep, FollowingCovers
<1>4. ASSUME NEW f \in Path, RemoveFiles({f})
      PROVE  TypeOK' /\ NvCovers /\ fault' = fault /\ "removefiles" \in Ops
  BY <1>4, RemoveFilesStep DEF RemoveFiles, Do
<1>5. ASSUME NEW f \in Path, NEW g \in Path, Rename(f, g)
      PROVE  TypeOK' /\ NvFollows /\ NvCovers /\ fault' = fault
  BY <1>5, RenameStep, FollowingCovers
<1> QED BY <1>1, <1>2, <1>3, <1>4, <1>5 DEF Edit

LEMMA EveryStep ==
  ASSUME TypeOK, [Next]_vars
  PROVE  TypeOK' /\ (fault' = "none" => NvCovers /\ fault = "none")
<1>1. ASSUME TypeOK', fault' = "none" => NvFollows, fault # "none" => fault' # "none"
      PROVE  TypeOK' /\ (fault' = "none" => NvCovers /\ fault = "none")
  BY <1>1, FollowingCovers
<1>2. ASSUME NEW i \in 0..MaxItems - 1, PlayIndex(i)
      PROVE  TypeOK' /\ NvFollows /\ fault' = fault
  <2>1. i \in Nat
    BY BoundAssumption
  <2> QED BY <1>2, <2>1, PlayIndexStep
<1>3. ASSUME NEW f \in Sound, PlayFile(f)
      PROVE  TypeOK' /\ NvFollows /\ fault' = fault
  BY <1>3, PlayFileStep
<1>4. ASSUME NEW paths \in PathLists(MaxItems), NEW i \in -1..MaxItems - 1, PlayList(paths, i)
      PROVE  TypeOK' /\ NvFollows /\ fault' = fault
  BY <1>4, PlayListStep
<1>5. ASSUME NEW force \in BOOLEAN, PlayNext(force)
      PROVE  TypeOK' /\ (fault' = "none" => NvFollows) /\ (fault # "none" => fault' # "none")
  <2>1. \E c : Leaves(c)
    BY <1>5 DEF PlayNext
  <2> QED BY <1>5, <2>1, PlayNextStep DEF Leaves
<1>6. ASSUME PlayPrev
      PROVE  TypeOK' /\ (fault' = "none" => NvFollows) /\ (fault # "none" => fault' # "none")
  <2>1. \E c : Leaves(c)
    BY <1>6 DEF PlayPrev
  <2> QED BY <1>6, <2>1, PlayPrevStep DEF Leaves
<1>7. ASSUME LookNext
      PROVE  TypeOK' /\ (fault' = "none" => NvFollows) /\ (fault # "none" => fault' # "none")
  <2>1. \E c : Leaves(c)
    BY <1>7 DEF LookNext
  <2> QED BY <1>7, <2>1, LookNextStep DEF Leaves
<1>8. ASSUME NEW f \in Sound, Invalidate(f)
      PROVE  TypeOK' /\ (fault' = "none" => NvFollows) /\ (fault # "none" => fault' # "none")
  <2>1. fault' = "ub" \/ fault' = fault \/ \E c : Leaves(c)
    BY <1>8 DEF Invalidate
  <2> QED BY <1>8, <2>1, InvalidateStep DEF Leaves
<1> USE DEF Next
<1> QED BY <1>1, <1>2, <1>3, <1>4, <1>5, <1>6, <1>7, <1>8, StopStep, EditStep, OptionStep, SameStep

-----------------------------------------------------------------------------
(* The theorems                                                            *)

LEMMA InitIsTyped == Init => TypeOK
<1>1. <<>> \in Seq(Item) /\ <<>> \in Seq(Nat) /\ Len(<<>>) = 0
  BY EmptySeq
<1>2. 0 <= MaxItems
  BY BoundAssumption
<1>3. SUFFICES ASSUME Init PROVE TypeOK
  OBVIOUS
<1>4. list \in Seq(Item) /\ Len(list) <= MaxItems /\ dirList \in Seq(Item) /\ order \in Seq(Nat)
  BY <1>1, <1>2, <1>3 DEF Init
<1>5. i1 \in Int /\ i1 >= -1 /\ nv \in [BOOLEAN -> Int]
  BY <1>3 DEF Init
<1> QED BY <1>3, <1>4, <1>5 DEF Init, TypeOK

(* Whatever is called, in any order, every part of the playlist stays of   *)
(* its type: in particular the playlist holds items, and the order indices.*)
THEOREM TypeCorrect == Spec => []TypeOK
<1>1. TypeOK /\ [Next]_vars => TypeOK'
  BY EveryStep
<1> QED BY InitIsTyped, <1>1, PTL DEF Spec

LEMMA NoneCount == Count(<<>>) = 0
<1>1. <<>> \in Seq(Item) /\ Len(<<>>) = 0
  BY EmptySeq
<1>2. Indices(<<>>) = {}
  BY <1>1 DEF Indices
<1>3. ValidIn(<<>>) = {}
  BY <1>2 DEF ValidIn
<1> QED BY <1>1, <1>3, CountIs

(* A list with something to play is never taken for one without, whatever  *)
(* is called: where edits make nv wrong it is too high (playlist.cc's      *)
(* remove() is not told of the types of what it removes), until an assert  *)
(* fails.                                                                  *)
THEOREM NvIsNotLow == Spec => []NvNotLow
<1>1. Init => NvNotLow
  <2> SUFFICES ASSUME Init, NEW d \in BOOLEAN PROVE nv[d] >= Count(Listed(d))
    BY DEF NvNotLow
  <2>1. Listed(d) = <<>>
    BY DEF Init, Listed
  <2>2. Count(<<>>) = 0
    BY NoneCount
  <2>3. nv[d] = 0
    BY DEF Init
  <2>4. 0 >= 0
    OBVIOUS
  <2> QED BY <2>1, <2>2, <2>3, <2>4
<1>2. TypeOK /\ NvNotLow /\ [Next]_vars => TypeOK' /\ NvNotLow'
  <2> SUFFICES ASSUME TypeOK, NvNotLow, [Next]_vars PROVE TypeOK' /\ NvNotLow'
    OBVIOUS
  <2>1. TypeOK' /\ (fault' = "none" => NvCovers /\ fault = "none")
    BY EveryStep
  <2>2. ASSUME fault' = "none", NEW d \in BOOLEAN
        PROVE  nv'[d] >= Count(Listed(d)')
    <3>1. nv[d] >= Count(Listed(d))
      BY <2>1, <2>2 DEF NvNotLow
    <3>2. \/ nv'[d] = Count(Listed(d)')
          \/ nv'[d] + Count(Listed(d)) >= nv[d] + Count(Listed(d)')
      BY <2>1, <2>2 DEF NvCovers
    <3>3. nv'[d] \in Int /\ nv[d] \in Int /\ Count(Listed(d)') \in Int /\ Count(Listed(d)) \in Int
      BY <2>1, CountsAre, CountsAreThen
    <3> QED BY <3>1, <3>2, <3>3
  <2>3. NvNotLow'
    BY <2>2 DEF NvNotLow
  <2> QED BY <2>1, <2>3
<1> QED BY InitIsTyped, <1>1, <1>2, PTL DEF Spec

(* next() and prev() only ever return valid items, or none, however the    *)
(* list was edited, shuffled and played before (server_plist.h:60), but    *)
(* for a prev() that starts past the end of the list.                      *)
THEOREM ReturnsValid == Spec => NextIsValid
<1>1. TypeOK /\ [Next]_vars =>
        [(\E force \in BOOLEAN : PlayNext(force)) \/ (PlayPrev /\ ~PastEnd)
           => i1' = -1 \/ HaveValid']_vars
  <2> SUFFICES ASSUME TypeOK, (\E force \in BOOLEAN : PlayNext(force)) \/ (PlayPrev /\ ~PastEnd)
               PROVE  i1' = -1 \/ HaveValid'
    OBVIOUS
  <2>1. PICK c : IsChoice(c) /\ i1' = c.i
    <3>1. ASSUME NEW force \in BOOLEAN, PlayNext(force)
          PROVE  \E c : IsChoice(c) /\ i1' = c.i
      BY <3>1, NextsAre DEF PlayNext
    <3>2. ASSUME PlayPrev, ~PastEnd
          PROVE  \E c : IsChoice(c) /\ i1' = c.i
      BY <3>2, PrevsAre DEF PlayPrev
    <3> QED BY <3>1, <3>2
  <2>2. Current' = Current
    BY DEF PlayNext, PlayPrev, Current, Listed
  <2>3. ValidIn(Current') = ValidIn(Current)
    BY <2>2
  <2> QED BY <2>1, <2>3 DEF IsChoice, HaveValid
<1> QED BY InitIsTyped, <1>1, TypeCorrect, PTL DEF Spec, NextIsValid

(* The calls that change nv along with the list: all but those that remove *)
(* items, and Shuffle, whose assertion clears nv.                          *)
Counted == Ops \cap {"remove", "removefiles", "shuffle"} = {}

ExactInv == TypeOK /\ NvExact /\ ~shuffle

LEMMA InitIsExact == Init => ExactInv
<1> SUFFICES ASSUME Init PROVE ExactInv
  OBVIOUS
<1>1. TypeOK /\ ~shuffle
  BY InitIsTyped DEF Init
<1>2. Count(<<>>) = 0
  BY NoneCount
<1>3. NvExact
  BY <1>2 DEF Init, NvExact, Listed
<1> QED BY <1>1, <1>3 DEF ExactInv

LEMMA InsideEnd ==
  ASSUME TypeOK, i1 \in {-1} \cup Indices(Current)
  PROVE  ~PastEnd
<1>1. Len(Current) \in Nat
  BY CurrentIs
<1> QED BY <1>1 DEF PastEnd, Indices

LEMMA ExactStep ==
  ASSUME Counted, ExactInv, [Next]_vars
  PROVE  ExactInv' /\ (i1 \in {-1} \cup Indices(Current) => fault' = fault)
<1>1. TypeOK /\ NvExact /\ ~shuffle
  BY DEF ExactInv
<1>2. TypeOK'
  BY <1>1, EveryStep
<1>3. ~shuffle'
  <2>1. ~SetShuffle
    BY DEF SetShuffle, Do, Counted
  <2> QED BY <1>1, <2>1 DEF Next, vars, options, files, PlayIndex, Restart, PlayFile, PlayList, PlayNext,
             PlayPrev, LookNext, Stop, Invalidate, Edit, Add, RemoveItems, Move, RemoveFiles, Rename, SetRepeat
<1>4. NvFollows /\ (i1 \in {-1} \cup Indices(Current) => fault' = fault)
  <2>1. ASSUME NEW i \in 0..MaxItems - 1, PlayIndex(i)
        PROVE  NvFollows /\ fault' = fault
    <3>1. i \in Nat
      BY BoundAssumption
    <3> QED BY <1>1, <2>1, <3>1, PlayIndexStep
  <2>2. ASSUME NEW f \in Sound, PlayFile(f)
        PROVE  NvFollows /\ fault' = fault
    BY <1>1, <2>2, PlayFileStep
  <2>3. ASSUME NEW paths \in PathLists(MaxItems), NEW i \in -1..MaxItems - 1, PlayList(paths, i)
        PROVE  NvFollows /\ fault' = fault
    BY <1>1, <2>3, PlayListStep
  <2>4. ASSUME NEW force \in BOOLEAN, PlayNext(force)
        PROVE  NvFollows /\ fault' = fault
    BY <1>1, <2>4, PlayNextStep
  <2>5. LookNext \/ Stop => NvFollows /\ fault' = fault
    BY <1>1, LookNextStep, StopStep
  <2>9. PlayPrev => NvFollows /\ (i1 \in {-1} \cup Indices(Current) => fault' = fault)
    BY <1>1, PlayPrevStep, InsideEnd
  <2>6. ASSUME NEW f \in Sound, Invalidate(f)
        PROVE  NvFollows /\ (i1 \in {-1} \cup Indices(Current) => fault' = fault)
    BY <1>1, <2>6, InvalidateStep
  <2>7. Edit => NvFollows /\ fault' = fault
    BY <1>1, EditStep DEF Counted
  <2>8. (\E r \in Repeats : SetRepeat(r)) \/ SetShuffle \/ UNCHANGED vars
          => NvFollows /\ fault' = fault
    BY <1>1, OptionStep, SameStep
  <2> QED BY <2>1, <2>2, <2>3, <2>4, <2>5, <2>6, <2>7, <2>8, <2>9 DEF Next
<1>5. ASSUME NEW d \in BOOLEAN PROVE nv'[d] = Count(Listed(d)')
  <2>1. nv[d] = Count(Listed(d))
    BY <1>1 DEF NvExact
  <2>2. \/ nv'[d] = Count(Listed(d)')
        \/ nv'[d] + Count(Listed(d)) = nv[d] + Count(Listed(d)')
    BY <1>4 DEF NvFollows
  <2>3. nv'[d] \in Int /\ nv[d] \in Int /\ Count(Listed(d)') \in Int /\ Count(Listed(d)) \in Int
    BY <1>1, <1>2, CountsAre, CountsAreThen
  <2> QED BY <2>1, <2>2, <2>3
<1> QED BY <1>2, <1>3, <1>4, <1>5 DEF ExactInv, NvExact

(* As long as nothing is removed and the order is the list's, nv is the    *)
(* number of valid items, of the playlist and of the directory, through    *)
(* every insertion, move, renaming, invalidation and change of the song.   *)
THEOREM NvIsExact ==
  ASSUME Counted
  PROVE  Spec => []NvExact
<1>1. ExactInv /\ [Next]_vars => ExactInv'
  BY ExactStep
<1>2. ExactInv => NvExact
  BY DEF ExactInv
<1> QED BY InitIsExact, <1>1, <1>2, PTL DEF Spec

-----------------------------------------------------------------------------
(* That the music goes on                                                  *)

(* An order holds every item, as it holds as many and none twice.          *)
LEMMA OrderHoldsAll ==
  ASSUME TypeOK, NEW first, NEW o \in Orders(first), NEW v \in Indices(Current)
  PROVE  o[1] = first /\ o \in Seq(Nat) /\ \E k \in 1..Len(Current) : o[k] = v
<1> DEFINE n == Len(Current)
<1>1. n \in Nat /\ Indices(Current) = 0..n - 1
  BY CurrentIs DEF Indices
<1>2. /\ o \in [1..n -> 0..n - 1] /\ o[1] = first
      /\ \A j, k \in 1..n : o[j] = o[k] => j = k
  BY <1>1 DEF Orders
<1> HIDE DEF n
<1>3. o \in Injection(1..n, 0..n - 1)
  BY <1>2 DEF Injection, IsInjective
<1>4. IsFiniteSet(1..n) /\ Cardinality(1..n) = n
  BY <1>1, IntervalIs
<1>5. IsFiniteSet(0..n - 1) /\ Cardinality(0..n - 1) = n
  <2>1. 0 \in Int /\ n - 1 \in Int
    BY <1>1
  <2>2. /\ IsFiniteSet(0..n - 1)
        /\ Cardinality(0..n - 1) = IF 0 > n - 1 THEN 0 ELSE n - 1 - 0 + 1
    BY <2>1, FS_Interval
  <2> QED BY <1>1, <2>2
<1>6. o \in Surjection(1..n, 0..n - 1)
  BY <1>3, <1>4, <1>5, FS_Injection
<1>7. \E k \in 1..n : o[k] = v
  BY <1>1, <1>6 DEF Surjection
<1>8. o \in Seq(Nat)
  BY OrdersAre
<1> QED BY <1>2, <1>7, <1>8 DEF n

(* A new round plays whatever there is besides the current song.           *)
LEMMA NewRoundPlays ==
  ASSUME TypeOK, NEW o \in Orders(i1), ValidIn(Current) \ {i1} # {}
  PROVE  o \in Seq(Nat) /\ Following(o, 1) # {}
<1>1. PICK v \in ValidIn(Current) : v # i1
  OBVIOUS
<1>2. v \in Indices(Current) /\ Len(Current) \in Nat
  BY CurrentIs
<1>3. o[1] = i1 /\ o \in Seq(Nat) /\ \E k \in 1..Len(Current) : o[k] = v
  BY <1>2, OrderHoldsAll
<1>4. PICK k \in 1..Len(Current) : o[k] = v
  BY <1>3
<1>5. DOMAIN o = 1..Len(Current)
  BY DEF Orders
<1>6. k > 1
  BY <1>1, <1>2, <1>3, <1>4
<1>7. k \in Following(o, 1)
  BY <1>1, <1>4, <1>5, <1>6 DEF Following
<1> QED BY <1>3, <1>7

(* Each way next() chooses finds what is left to play.                     *)
LEMMA NextsPlayOn ==
  ASSUME TypeOK, nv[dir] >= Count(Current), repeat # "off", LeftToPlay # {}, NEW c \in Nexts(FALSE)
  PROVE  c.i # -1 \/ c.fault = "ub"
<1>1. order \in Seq(Nat) /\ repeat \in {"all", "one", "off"} /\ nv[dir] \in Int
  BY DEF TypeOK
<1>2. ValidIn(Current) # {} /\ \A i \in ValidIn(Current) : i # -1
  BY CurrentIs DEF LeftToPlay
<1>3. nv[dir] # 0
  <2>1. Count(Current) # 0 /\ Count(Current) \in Nat
    BY <1>2, CurrentIs, CountIs
  <2> QED BY <1>1, <2>1
<1>4. \A d \in Random : d.i # -1
  BY <1>1, <1>2, ChosenIs DEF Random
<1>5. FirstValid.i # -1 /\ NextInList(FALSE).i # -1
  BY <1>2, EndsAre, InListIs
<1>6. HaveValid => Choice(i1, order, "none").i # -1
  BY <1>1, <1>2, ChosenIs DEF HaveValid
<1>7. ASSUME shuffle, repeat # "one", HaveValid, NEW d \in NextShuffled(FALSE)
      PROVE  d.i # -1 \/ d.fault = "ub"
  <2>1. \A o : o \in Seq(Nat) => \A k : Following(o, k) # {} => FirstAfter(o, k).i # -1
    BY <1>2, FirstAfterIs
  <2>2. \A e \in NewRound : e.i # -1
    <3>1. SUFFICES ASSUME NEW o \in Orders(i1)
                   PROVE  (IF Following(o, 1) # {} THEN FirstAfter(o, 1)
                                                   ELSE Choice(-1, o, "assert")).i # -1
      BY DEF NewRound
    <3>2. ValidIn(Current) \ {i1} # {}
      BY <1>1, <1>7 DEF LeftToPlay
    <3>3. o \in Seq(Nat) /\ Following(o, 1) # {}
      BY <3>2, NewRoundPlays
    <3> QED BY <2>1, <3>3
  <2>3. OrderNow \subseteq Seq(Nat)
    BY OrdersAre
  <2>4. Choice(-1, order, "ub").fault = "ub"
    BY DEF Choice
  <2>5. ASSUME NEW o \in OrderNow,
               d \in IF Following(o, PlaceOf(o, i1)) # {} THEN {FirstAfter(o, PlaceOf(o, i1))} ELSE NewRound
        PROVE  d.i # -1
    BY <2>1, <2>2, <2>3, <2>5
  <2>6. \/ d = Choice(-1, order, "ub")
        \/ \E o \in OrderNow : d \in IF Following(o, PlaceOf(o, i1)) # {}
                                      THEN {FirstAfter(o, PlaceOf(o, i1))} ELSE NewRound
    BY Zenon DEF NextShuffled
  <2> QED BY <2>4, <2>5, <2>6
<1>8. \/ HaveValid /\ c = Choice(i1, order, "none")
      \/ c \in Random \cup {FirstValid, NextInList(FALSE)}
      \/ shuffle /\ repeat # "one" /\ HaveValid /\ c \in NextShuffled(FALSE)
  BY Zenon, <1>3 DEF Nexts
<1> QED BY <1>4, <1>5, <1>6, <1>7, <1>8

(* With Repeat on, and something left to play, there is always a next      *)
(* song, shuffled or not, whatever was edited, invalidated or played       *)
(* before, until an assertion fails.                                       *)
THEOREM RepeatIsEndless == Spec => RepeatPlaysOn
<1>1. TypeOK /\ NvNotLow /\ [Next]_vars =>
        [PlayNext(FALSE) /\ repeat # "off" /\ fault = "none" /\ LeftToPlay # {}
           => i1' # -1 \/ fault' = "ub"]_vars
  <2> SUFFICES ASSUME TypeOK, NvNotLow, PlayNext(FALSE), repeat # "off", fault = "none", LeftToPlay # {}
               PROVE  i1' # -1 \/ fault' = "ub"
    OBVIOUS
  <2>1. PICK c \in Nexts(FALSE) : i1' = c.i /\ Leaves(c)
    BY DEF PlayNext
  <2>2. nv[dir] >= Count(Current)
    BY CurrentIs DEF NvNotLow
  <2>3. c.i # -1 \/ c.fault = "ub"
    BY <2>2, NextsPlayOn
  <2> QED BY <2>1, <2>3 DEF Leaves
<1> QED BY <1>1, TypeCorrect, NvIsNotLow, PTL DEF Spec, RepeatPlaysOn

-----------------------------------------------------------------------------
(* That nothing goes wrong                                                 *)

(* The calls after which nothing does: those of Counted, but for playing   *)
(* by an index the list may not have, and without inserting into the       *)
(* playlist while a song of the directory is played, which moves that one. *)
Benign == Counted /\ "playstale" \notin Ops /\ ~({"playfile", "insert"} \subseteq Ops)

InPlace == i1 \in {-1} \cup Indices(Current)
OwnPlace == "insert" \in Ops => ~dir
CalmInv == ExactInv /\ InPlace /\ OwnPlace /\ NoFault

(* The current song of a list whose length has not changed.                *)
LEMMA SameLengths ==
  ASSUME TypeOK, Len(list') = Len(list), Len(dirList') = Len(dirList), dir' = dir
  PROVE  Indices(Current') = Indices(Current)
<1>1. Len(Current') = Len(Current)
  BY DEF Current, Listed
<1> QED BY <1>1 DEF Indices

(* The current song chosen anew, with the lists as they were.              *)
LEMMA ChosenInPlace ==
  ASSUME TypeOK, NEW c, IsChoice(c), i1' = c.i, UNCHANGED <<list, dirList, dir>>
  PROVE  InPlace'
<1>1. Indices(Current') = Indices(Current)
  BY SameLengths
<1>2. c.i \in {-1} \cup Indices(Current)
  BY CurrentIs DEF IsChoice
<1> QED BY <1>1, <1>2 DEF InPlace

LEMMA AddInPlace ==
  ASSUME CalmInv, NEW paths \in PathLists(Smaller(Room, 2)), NEW idx \in {-1} \cup Indices(list),
         Add(paths, idx)
  PROVE  InPlace'
<1>1. TypeOK /\ InPlace /\ OwnPlace
  BY DEF CalmInv, ExactInv
<1>2. dirList' = dirList /\ dir' = dir /\ i1' = AfterInsert(idx, Len(paths))
  BY DEF Add
<1>3. CASE dir
  <2>1. idx = -1
    BY <1>1, <1>3, CountIs DEF OwnPlace, Add, Do, TypeOK
  <2>2. i1' = i1
    BY <1>2, <2>1 DEF AfterInsert
  <2>3. Current' = Current
    BY <1>2, <1>3 DEF Current, Listed
  <2> QED BY <1>1, <2>2, <2>3 DEF InPlace
<1>4. CASE ~dir
  <2>1. PICK n \in Nat : /\ paths \in [1..n -> Path] /\ Len(paths) = n /\ DOMAIN paths = 1..n
                         /\ n > 0 /\ Len(list) + n <= MaxItems
    BY <1>1, RoomIs
  <2>2. PICK ids \in FreshIds(n) : list' = Inserted(list, Items(ids, paths), idx)
    BY <2>1 DEF Add
  <2>3. Items(ids, paths) \in Seq(Item) /\ Len(Items(ids, paths)) = n
    BY <1>1, <2>1, NewItemsAre
  <2>4. list \in Seq(Item) /\ Len(list) \in Nat /\ idx \in -1..Len(list)
    BY <1>1, CountIs DEF TypeOK, Indices
  <2>5. Len(Inserted(list, Items(ids, paths), idx)) = Len(list) + Len(Items(ids, paths))
    BY Zenon, <2>3, <2>4, InsertedIs
  <2>6. Len(list') = Len(list) + n
    BY <2>2, <2>3, <2>5
  <2>7. Current = list /\ Current' = list'
    BY <1>2, <1>4 DEF Current, Listed
  <2>8. i1 \in {-1} \cup 0..Len(list) - 1
    BY <1>1, <2>7 DEF InPlace, Indices
  <2>9. i1' \in {-1} \cup 0..Len(list) + n - 1
    BY <1>2, <2>1, <2>4, <2>8 DEF AfterInsert
  <2> QED BY <2>6, <2>7, <2>9 DEF InPlace, Indices
<1> QED BY <1>3, <1>4

LEMMA EditInPlace ==
  ASSUME Benign, CalmInv, Edit
  PROVE  InPlace' /\ dir' = dir
<1>1. TypeOK /\ InPlace
  BY DEF CalmInv, ExactInv
<1>2. ASSUME NEW paths \in PathLists(Smaller(Room, 2)), NEW idx \in {-1} \cup Indices(list),
             Add(paths, idx)
      PROVE  InPlace' /\ dir' = dir
  BY <1>2, AddInPlace DEF Add
<1>3. ASSUME NEW i, NEW n, RemoveItems(i, n)
      PROVE  FALSE
  BY <1>3 DEF RemoveItems, Do, Benign, Counted
<1>4. ASSUME NEW F, RemoveFiles(F)
      PROVE  FALSE
  BY <1>4 DEF RemoveFiles, Do, Benign, Counted
<1>5. ASSUME NEW i \in Indices(list), NEW j \in Indices(list), Move(i, j)
      PROVE  InPlace' /\ dir' = dir
  <2>1. list \in Seq(Item)
    BY <1>1 DEF TypeOK
  <2>2. Len(list') = Len(list)
    BY <1>5, <2>1, MovedIs DEF Move
  <2>3. Indices(Current') = Indices(Current)
    BY <1>1, <1>5, <2>2, SameLengths DEF Move
  <2>4. i1' = i1 \/ (~dir /\ i1' = j)
    BY <1>5 DEF Move
  <2>5. ~dir => Current = list
    BY DEF Current, Listed
  <2> QED BY <1>1, <1>5, <2>3, <2>4, <2>5 DEF InPlace, Move
<1>6. ASSUME NEW f \in Path, NEW g \in Path, Rename(f, g)
      PROVE  InPlace' /\ dir' = dir
  <2>1. PICK q : q = list'
    OBVIOUS
  <2>2. q = [k \in DOMAIN list |-> IF list[k].path = f THEN [list[k] EXCEPT !.path = g] ELSE list[k]]
    BY <1>6, <2>1 DEF Rename
  <2>3. Len(q) = Len(list)
    BY <1>1, <2>2, RenamedIs DEF TypeOK
  <2>4. Indices(Current') = Indices(Current)
    BY <1>1, <1>6, <2>1, <2>3, SameLengths DEF Rename
  <2> QED BY <1>1, <1>6, <2>4 DEF InPlace, Rename
<1> QED BY <1>2, <1>3, <1>4, <1>5, <1>6 DEF Edit

LEMMA CalmStep ==
  ASSUME Benign, CalmInv, [Next]_vars
  PROVE  CalmInv'
<1>1. TypeOK /\ ExactInv /\ InPlace /\ OwnPlace /\ NoFault
  BY DEF CalmInv, ExactInv
<1>2. ExactInv' /\ fault' = fault
  BY <1>1, ExactStep DEF Benign, InPlace
<1>3. ASSUME NEW i \in 0..MaxItems - 1, PlayIndex(i)
      PROVE  InPlace' /\ dir' = FALSE
  <2>1. i \in Indices(list)
    BY <1>3 DEF PlayIndex, Do, Benign
  <2> QED BY <1>3, <2>1 DEF PlayIndex, Restart, InPlace, Current, Listed
<1>4. ASSUME NEW f \in Sound, PlayFile(f)
      PROVE  InPlace' /\ "insert" \notin Ops
  <2>1. dirList' \in Seq(Item)
    BY <1>2 DEF ExactInv, TypeOK
  <2>2. IndexOf(dirList', f) \in {-1} \cup Indices(dirList')
    BY <2>1, IndexOfIs
  <2>3. i1' = IndexOf(dirList', f) /\ Current' = dirList'
    BY <1>4 DEF PlayFile, Restart, Current, Listed
  <2>4. "insert" \notin Ops
    BY <1>4 DEF PlayFile, Do, Benign
  <2> QED BY <2>2, <2>3, <2>4 DEF InPlace
<1>5. ASSUME NEW paths \in PathLists(MaxItems), NEW i \in -1..MaxItems - 1, PlayList(paths, i)
      PROVE  InPlace' /\ dir' = FALSE
  <2>1. PICK n \in 1..MaxItems : n \in Nat /\ paths \in [1..n -> Path] /\ Len(paths) = n /\ DOMAIN paths = 1..n
    BY PathsAre, BoundAssumption
  <2>2. [k \in DOMAIN paths |-> k] \in [1..n -> Ids]
    BY <2>1, IdsAre, BoundAssumption
  <2>3. list' = Items([k \in DOMAIN paths |-> k], paths)
    BY <1>5 DEF PlayList
  <2>4. Len(list') = n
    BY <2>1, <2>2, <2>3, ItemsAre
  <2>5. i1' = i /\ i \in -1..n - 1 /\ Current' = list' /\ dir' = FALSE
    BY <1>5, <2>1 DEF PlayList, Restart, Current, Listed
  <2>6. i \in {-1} \cup 0..n - 1
    BY <2>1, <2>5
  <2> QED BY <2>4, <2>5, <2>6 DEF InPlace, Indices
<1>6. ASSUME NEW force \in BOOLEAN, PlayNext(force)
      PROVE  InPlace' /\ dir' = dir
  BY <1>1, <1>6, NextsAre, ChosenInPlace DEF PlayNext
<1>7. ASSUME PlayPrev
      PROVE  InPlace' /\ dir' = dir
  BY <1>1, <1>7, InsideEnd, PrevsAre, ChosenInPlace DEF PlayPrev, InPlace
<1>8. ASSUME LookNext \/ UNCHANGED vars \/ SetShuffle \/ \E r \in Repeats : SetRepeat(r)
      PROVE  InPlace' /\ dir' = dir
  <2>1. UNCHANGED <<list, dirList, dir, i1>>
    BY <1>8 DEF LookNext, vars, SetShuffle, SetRepeat
  <2>2. Current' = Current
    BY <2>1 DEF Current, Listed
  <2> QED BY <1>1, <2>1, <2>2 DEF InPlace
<1>9. ASSUME Stop
      PROVE  InPlace' /\ dir' = dir
  BY <1>9 DEF Stop, Restart, InPlace
<1>10. ASSUME NEW f \in Sound, Invalidate(f)
       PROVE  InPlace' /\ dir' = dir
  <2>1. Len(list') = Len(list) /\ Len(dirList') = Len(dirList)
    BY <1>1, <1>10, InvalidateStep
  <2>2. dir' = dir /\ i1' = i1
    BY <1>10 DEF Invalidate
  <2>3. Indices(Current') = Indices(Current)
    BY <1>1, <2>1, <2>2, SameLengths
  <2> QED BY <1>1, <2>2, <2>3 DEF InPlace
<1>11. Edit => InPlace' /\ dir' = dir
  BY EditInPlace
<1>12. InPlace' /\ (dir' = dir \/ dir' = FALSE \/ "insert" \notin Ops)
  BY <1>3, <1>4, <1>5, <1>6, <1>7, <1>8, <1>9, <1>10, <1>11 DEF Next
<1>13. OwnPlace'
  BY <1>1, <1>12 DEF OwnPlace
<1> QED BY <1>1, <1>2, <1>12, <1>13 DEF CalmInv, NoFault

(* With these calls, in any order, no assert() fails, nothing outside an   *)
(* array is touched and no loop runs for ever.                             *)
THEOREM NothingFails ==
  ASSUME Benign
  PROVE  Spec => []NoFault
<1>1. Init => CalmInv
  <2> SUFFICES ASSUME Init PROVE CalmInv
    OBVIOUS
  <2>1. ExactInv
    BY InitIsExact
  <2> QED BY <2>1 DEF Init, CalmInv, InPlace, OwnPlace, NoFault
<1>2. CalmInv /\ [Next]_vars => CalmInv'
  BY CalmStep
<1>3. CalmInv => NoFault
  BY DEF CalmInv
<1> QED BY <1>1, <1>2, <1>3, PTL DEF Spec

-----------------------------------------------------------------------------
(* The current song                                                        *)

(* The items of a list are told apart, if they are tracked at all.         *)
Apart(p) == /\ Tracked => \A j, k \in 1..Len(p) : p[j].id = p[k].id => j = k
            /\ ~Tracked => \A k \in 1..Len(p) : p[k].id = 0

(* The calls that keep the current song: those but move() and the removal  *)
(* of files, which look after i1 only if it is i that moves, or not at all *)
(* (server_plist.cc:241-251).                                              *)
Steady == Ops \cap {"move", "removefiles"} = {}

KeptInv == TypeOK /\ Apart(list)

LEMMA SameIdsApart ==
  ASSUME NEW p, NEW q, Apart(p), Len(q) = Len(p), \A k \in 1..Len(p) : q[k].id = p[k].id
  PROVE  Apart(q)
BY DEF Apart

LEMMA SpoilKeepsIds ==
  ASSUME NEW p \in Seq(Item), NEW S
  PROVE  Len(Spoil(p, S)) = Len(p) /\ \A k \in 1..Len(p) : Spoil(p, S)[k].id = p[k].id
<1>1. Len(p) \in Nat /\ DOMAIN p = 1..Len(p) /\ \A k \in 1..Len(p) : p[k] \in Item
  BY LenProperties, ElementOfSeq
<1>2. Spoil(p, S) = [k \in 1..Len(p) |-> [p[k] EXCEPT !.valid = @ /\ k - 1 \notin S]]
  BY <1>1 DEF Spoil
<1>3. \A k \in 1..Len(p) : Spoil(p, S)[k] \in Item /\ Spoil(p, S)[k].id = p[k].id
  BY ZenonT(20), <1>1, <1>2 DEF Item
<1> QED BY <1>1, <1>2, <1>3, ListFrom

LEMMA InsertedApart ==
  ASSUME NEW p \in Seq(Item), NEW new \in Seq(Item), NEW idx, Apart(p), Apart(new),
         Tracked => \A j \in 1..Len(p), k \in 1..Len(new) : p[j].id # new[k].id,
         NEW q, q = Inserted(p, new, idx), Len(q) = Len(p) + Len(new)
  PROVE  Apart(q)
<1> DEFINE m == Len(p)  n == Len(new)
<1>1. m \in Nat /\ n \in Nat
  BY LenProperties
<1>2. PICK a \in 0..m :
        \A k \in 1..m + n : q[k] = IF k <= a THEN p[k] ELSE IF k <= a + n THEN new[k - a] ELSE p[k - n]
  <2>1. PICK a \in 0..m : Parted(q, p, new, a)
    BY InsertedPlaces
  <2> QED BY <2>1 DEF Parted
<1> HIDE DEF m, n
<1>3. \A k \in 1..m + n : \/ k <= a /\ k \in 1..m
                          \/ ~(k <= a) /\ k <= a + n /\ k - a \in 1..n
                          \/ ~(k <= a) /\ ~(k <= a + n) /\ k - n \in 1..m
  BY <1>1
<1>4. ASSUME ~Tracked, NEW k \in 1..m + n
      PROVE  q[k].id = 0
  <2>1. /\ \A j \in 1..m : p[j].id = 0
        /\ \A j \in 1..n : new[j].id = 0
    BY <1>4 DEF Apart, m, n
  <2> QED BY <1>2, <1>3, <2>1
<1>5. ASSUME Tracked, NEW j \in 1..m + n, NEW k \in 1..m + n, q[j].id = q[k].id
      PROVE  j = k
  <2>1. /\ \A x, y \in 1..m : p[x].id = p[y].id => x = y
        /\ \A x, y \in 1..n : new[x].id = new[y].id => x = y
        /\ \A x \in 1..m, y \in 1..n : p[x].id # new[y].id
    BY <1>5 DEF Apart, m, n
  <2>2. \A x \in 1..m + n :
          \/ x <= a /\ x \in 1..m /\ q[x] = p[x]
          \/ ~(x <= a) /\ x <= a + n /\ x - a \in 1..n /\ q[x] = new[x - a]
          \/ ~(x <= a) /\ ~(x <= a + n) /\ x - n \in 1..m /\ q[x] = p[x - n]
    BY <1>2, <1>3
  <2>3. CASE j <= a
    <3>1. j \in 1..m /\ q[j] = p[j]
      BY <2>2, <2>3
    <3>2. \/ k \in 1..m /\ q[k] = p[k]
          \/ k - a \in 1..n /\ q[k] = new[k - a]
          \/ ~(k <= a + n) /\ k - n \in 1..m /\ q[k] = p[k - n]
      BY <2>2
    <3>3. ~(k - a \in 1..n /\ q[k] = new[k - a])
      BY <1>5, <2>1, <3>1
    <3>4. ~(~(k <= a + n) /\ k - n \in 1..m /\ q[k] = p[k - n])
      <4> SUFFICES ASSUME ~(k <= a + n), k - n \in 1..m, q[k] = p[k - n] PROVE FALSE
        OBVIOUS
      <4>1. j = k - n
        BY <1>5, <2>1, <3>1
      <4> QED BY <1>1, <2>3, <4>1
    <3> QED BY <1>5, <2>1, <3>1, <3>2, <3>3, <3>4
  <2>4. CASE ~(j <= a) /\ j <= a + n
    <3>1. j - a \in 1..n /\ q[j] = new[j - a]
      BY <2>2, <2>4
    <3>2. ~\E x \in 1..m : q[k] = p[x]
      BY <1>5, <2>1, <3>1
    <3>3. k - a \in 1..n /\ q[k] = new[k - a]
      BY <2>2, <3>2
    <3>4. j - a = k - a
      BY <1>5, <2>1, <3>1, <3>3
    <3> QED BY <1>1, <3>4
  <2>5. CASE ~(j <= a) /\ ~(j <= a + n)
    <3>1. j - n \in 1..m /\ q[j] = p[j - n]
      BY <2>2, <2>5
    <3>2. ~\E x \in 1..n : q[k] = new[x]
      BY <1>5, <2>1, <3>1
    <3>3. \/ k <= a /\ k \in 1..m /\ q[k] = p[k]
          \/ k - n \in 1..m /\ q[k] = p[k - n]
      BY <2>2, <3>2
    <3>4. k - n \in 1..m /\ q[k] = p[k - n] => j = k
      <4> SUFFICES ASSUME k - n \in 1..m, q[k] = p[k - n] PROVE j = k
        OBVIOUS
      <4>1. j - n = k - n
        BY <1>5, <2>1, <3>1
      <4> QED BY <1>1, <4>1
    <3>5. ~(k <= a /\ k \in 1..m /\ q[k] = p[k])
      <4> SUFFICES ASSUME k <= a, k \in 1..m, q[k] = p[k] PROVE FALSE
        OBVIOUS
      <4>1. j - n = k
        BY <1>5, <2>1, <3>1
      <4> QED BY <1>1, <2>5, <4>1
    <3> QED BY <3>3, <3>4, <3>5
  <2> QED BY <2>3, <2>4, <2>5
<1> QED BY <1>4, <1>5 DEF Apart, m, n

LEMMA RemovedApart ==
  ASSUME NEW p \in Seq(Item), NEW i \in Indices(p), NEW n \in Nat \ {0}, Apart(p),
         NEW q, q = Removed(p, i, n)
  PROVE  Apart(q)
<1>1. Len(p) \in Nat /\ i \in 0..Len(p) - 1
  BY CountIs DEF Indices
<1>2. CASE i + n > Len(p)
  <2>1. q = p
    BY <1>2, RemovedIs
  <2> QED BY <2>1
<1>3. CASE i + n <= Len(p)
  <2> DEFINE l == Len(p) - n  From(k) == IF k <= i THEN k ELSE k + n
  <2>1. Len(q) = l
    BY <1>3, RemovedIs
  <2>2. \A k \in 1..i : q[k] = p[k]
    BY ZenonT(30), <1>3, RemovedIs
  <2>3. \A k \in i + 1..Len(p) - n : q[k] = p[k + n]
    BY ZenonT(30), <1>3, RemovedIs
  <2>4. \A k \in 1..l : /\ From(k) \in 1..Len(p)
                        /\ k <= i => k \in 1..i
                        /\ ~(k <= i) => k \in i + 1..Len(p) - n
    BY <1>1, <1>3
  <2>5. \A k \in 1..l : q[k] = p[From(k)]
    BY <2>2, <2>3, <2>4
  <2>6. \A j, k \in 1..l : From(j) = From(k) => j = k
    BY <1>1, <1>3
  <2>7. \A k \in 1..l : From(k) \in 1..Len(p)
    BY <2>4
  <2> HIDE DEF l, From
  <2> QED BY <2>1, <2>5, <2>6, <2>7 DEF Apart
<1> QED BY <1>1, <1>2, <1>3

(* New items are told apart, and from those of the list.                   *)
LEMMA NewItemsApart ==
  ASSUME TypeOK, NEW n \in Nat, NEW paths \in [1..n -> Path], NEW ids \in FreshIds(n)
  PROVE  /\ Apart(Items(ids, paths))
         /\ Tracked => \A j \in 1..Len(list), k \in 1..Len(Items(ids, paths)) :
                         list[j].id # Items(ids, paths)[k].id
<1>1. /\ Len(Items(ids, paths)) = n
      /\ \A k \in 1..n : Items(ids, paths)[k].id = IF Tracked THEN ids[k] ELSE 0
      /\ ids \in [1..n -> 1..MaxItems \ IdsIn(list)]
      /\ \A j, k \in 1..n : j < k => ids[j] < ids[k]
  BY NewItemsAre
<1>2. \A j, k \in 1..n : ids[j] = ids[k] => j = k
  <2> SUFFICES ASSUME NEW j \in 1..n, NEW k \in 1..n, ids[j] = ids[k] PROVE j = k
    OBVIOUS
  <2>1. ids[j] \in Int /\ ids[k] \in Int
    BY <1>1
  <2>2. ~(j < k) /\ ~(k < j)
    BY <1>1, <2>1
  <2> QED BY <2>2
<1>3. \A j \in 1..Len(list) : list[j].id \in IdsIn(list)
  BY LenProperties DEF IdsIn, TypeOK
<1>4. \A k \in 1..n : ids[k] \notin IdsIn(list)
  BY <1>1
<1> QED BY <1>1, <1>2, <1>3, <1>4 DEF Apart

LEMMA AddApart ==
  ASSUME KeptInv, NEW paths \in PathLists(Smaller(Room, 2)), NEW idx \in {-1} \cup Indices(list),
         Add(paths, idx)
  PROVE  /\ Apart(list')
         /\ ~dir => CurrentItem \in {0, CurrentItem'}
<1>0. TypeOK /\ Apart(list)
  BY DEF KeptInv
<1>1. PICK n \in Nat : /\ paths \in [1..n -> Path] /\ Len(paths) = n /\ DOMAIN paths = 1..n
                       /\ n > 0 /\ Len(list) + n <= MaxItems
  BY <1>0, RoomIs
<1>2. PICK ids \in FreshIds(n) : list' = Inserted(list, Items(ids, paths), idx)
  BY <1>1 DEF Add
<1>3. Items(ids, paths) \in Seq(Item) /\ Len(Items(ids, paths)) = n
  BY <1>0, <1>1, NewItemsAre
<1>4. list \in Seq(Item) /\ Len(list) \in Nat /\ idx \in -1..Len(list)
  BY <1>0, CountIs DEF TypeOK, Indices
<1>5. PICK new \in Seq(Item) : new = Items(ids, paths) /\ Len(new) = n
  BY <1>3
<1>6. /\ Apart(new)
      /\ Tracked => \A j \in 1..Len(list), k \in 1..Len(new) : list[j].id # new[k].id
  BY Zenon, <1>0, <1>1, <1>5, NewItemsApart
<1>7. PICK q : q = list' /\ q = Inserted(list, new, idx)
  BY <1>2, <1>5
<1>8. Len(q) = Len(list) + Len(new)
  BY ZenonT(30), <1>4, <1>7, InsertedIs
<1>9. Apart(q)
  BY <1>0, <1>4, <1>6, <1>7, <1>8, InsertedApart
<1>10. \A k \in 1..Len(list) : list[k] = q[IF idx >= 0 /\ k > idx THEN k + n ELSE k]
  <2>1. \A k \in 1..Len(list) :
          list[k] = Inserted(list, new, idx)[IF idx >= 0 /\ k > idx THEN k + Len(new) ELSE k]
    BY <1>4, InsertedIs
  <2> QED BY <1>5, <1>7, <2>1
<1>11. ASSUME ~dir PROVE CurrentItem \in {0, CurrentItem'}
  <2>1. Current = list /\ Current' = q
    BY <1>7, <1>11 DEF Current, Listed, Add
  <2>2. i1' = IF idx >= 0 /\ i1 >= idx THEN i1 + n ELSE i1
    BY <1>1 DEF Add, AfterInsert
  <2>3. CASE i1 \notin Indices(list)
    BY <2>1, <2>3 DEF CurrentItem
  <2>4. CASE i1 \in Indices(list)
    <3>1. i1 \in 0..Len(list) - 1 /\ i1 + 1 \in 1..Len(list)
      BY <1>4, <2>4 DEF Indices
    <3>2. /\ i1' + 1 = IF idx >= 0 /\ i1 + 1 > idx THEN (i1 + 1) + n ELSE i1 + 1
          /\ i1' \in 0..Len(list) + n - 1
      BY <1>1, <1>4, <2>2, <3>1
    <3>3. list[i1 + 1] = q[i1' + 1]
      <4>1. list[i1 + 1] = q[IF idx >= 0 /\ i1 + 1 > idx THEN (i1 + 1) + n ELSE i1 + 1]
        BY <1>10, <3>1
      <4> QED BY <3>2, <4>1
    <3>4. i1' \in Indices(q)
      BY <1>5, <1>8, <3>2 DEF Indices
    <3> QED BY <2>1, <2>4, <3>3, <3>4 DEF CurrentItem
  <2> QED BY <2>3, <2>4
<1> QED BY <1>7, <1>9, <1>11

(* A removal of items that reach past the end of the list: it removes none *)
(* of them, but the current song's index goes down (server_plist.cc:234).  *)
RemovesPastEnd ==
  \E i \in Indices(list), n \in 1..MaxItems : i + n > Len(list) /\ RemoveItems(i, n)

LEMMA RemoveApart ==
  ASSUME KeptInv, NEW i \in Indices(list), NEW n \in 1..MaxItems, RemoveItems(i, n)
  PROVE  /\ Apart(list')
         /\ ~dir /\ i + n <= Len(list)
              => CurrentItem \in {0, CurrentItem'} \cup (IdsIn(Current) \ IdsIn(Current'))
<1>1. list \in Seq(Item) /\ Apart(list) /\ Len(list) \in Nat /\ i \in Nat /\ i1 \in Int
  BY CountIs DEF KeptInv, TypeOK
<1>2. n \in Nat \ {0}
  OBVIOUS
<1>3. PICK q : q = list' /\ q = Removed(list, i, n)
  BY DEF RemoveItems
<1>4. Apart(q)
  BY <1>1, <1>2, <1>3, RemovedApart
<1>5. ASSUME ~dir, i + n <= Len(list)
      PROVE  CurrentItem \in {0, CurrentItem'} \cup (IdsIn(Current) \ IdsIn(Current'))
  <2>1. Current = list /\ Current' = q
    BY <1>3, <1>5 DEF Current, Listed, RemoveItems
  <2>2. i1' = IF i1 >= i THEN i1 - Smaller(n, i1 - i) ELSE i1
    BY <1>5 DEF RemoveItems, AfterRemove
  <2>3. CASE i1 \notin Indices(list)
    BY <2>1, <2>3 DEF CurrentItem
  <2>4. CASE i1 \in Indices(list)
    <3>1. Len(q) = Len(list) - n
      BY <1>1, <1>2, <1>3, <1>5, RemovedIs
    <3>2. \A k \in 1..i : Removed(list, i, n)[k] = list[k]
      BY Zenon, <1>1, <1>2, <1>5, RemovedIs
    <3>3. \A k \in i + 1..Len(list) - n : Removed(list, i, n)[k] = list[k + n]
      BY Zenon, <1>1, <1>2, <1>5, RemovedIs
    <3>4. i1 \in 0..Len(list) - 1 /\ CurrentItem = list[i1 + 1].id
      BY <2>1, <2>4 DEF CurrentItem, Indices
    <3>5. CASE i1 < i
      <4>1. i1' = i1 /\ i1 + 1 \in 1..i /\ i1 \in 0..Len(list) - n - 1
        BY <1>1, <1>2, <1>5, <2>2, <3>4, <3>5
      <4>2. q[i1' + 1] = list[i1 + 1] /\ i1' \in Indices(q)
        BY <1>3, <3>1, <3>2, <4>1 DEF Indices
      <4> QED BY <2>1, <3>4, <4>2 DEF CurrentItem
    <3>6. CASE i1 >= i + n
      <4>1. i1' = i1 - n
        BY <1>1, <1>2, <2>2, <3>4, <3>6 DEF Smaller
      <4>2. /\ (i1 - n) + 1 \in i + 1..Len(list) - n /\ (i1 - n) + 1 + n = i1 + 1
            /\ i1 - n \in 0..Len(list) - n - 1
        BY <1>1, <1>2, <3>4, <3>6
      <4>3. q[i1' + 1] = list[i1 + 1] /\ i1' \in Indices(q)
        BY <1>3, <3>1, <3>3, <4>1, <4>2 DEF Indices
      <4> QED BY <2>1, <3>4, <4>3 DEF CurrentItem
    <3>7. CASE i <= i1 /\ i1 < i + n
      <4>1. CASE ~Tracked
        <5>1. i1 + 1 \in 1..Len(list)
          BY <1>1, <3>4
        <5> QED BY <1>1, <3>4, <4>1, <5>1 DEF Apart
      <4>2. CASE Tracked
        <5>1. i1 + 1 \in 1..Len(list) /\ DOMAIN list = 1..Len(list) /\ DOMAIN q = 1..Len(q)
          BY <1>1, <1>2, <1>3, <3>4, LenProperties, RemovedIs
        <5>2. CurrentItem \in IdsIn(Current)
          BY <2>1, <3>4, <5>1 DEF IdsIn
        <5>3. ASSUME NEW k \in 1..Len(q) PROVE q[k].id # list[i1 + 1].id
          <6>1. PICK j \in 1..Len(list) : q[k] = list[j] /\ j # i1 + 1
            <7>1. CASE k <= i
              <8>1. k \in 1..i /\ k \in 1..Len(list) /\ k # i1 + 1
                BY <1>1, <1>2, <3>1, <3>4, <3>7, <7>1
              <8> QED BY <1>3, <3>2, <8>1
            <7>2. CASE ~(k <= i)
              <8>1. k \in i + 1..Len(list) - n /\ k + n \in 1..Len(list) /\ k + n # i1 + 1
                BY <1>1, <1>2, <3>1, <3>4, <3>7, <7>2
              <8> QED BY <1>3, <3>3, <8>1
            <7> QED BY <7>1, <7>2
          <6> QED BY <1>1, <4>2, <5>1, <6>1 DEF Apart
        <5>4. CurrentItem \notin IdsIn(Current')
          BY <2>1, <3>4, <5>1, <5>3 DEF IdsIn
        <5> QED BY <5>2, <5>4
      <4> QED BY <4>1, <4>2
    <3>8. i1 < i \/ i1 >= i + n \/ (i <= i1 /\ i1 < i + n)
      BY <1>1, <1>2
    <3> QED BY <3>5, <3>6, <3>7, <3>8
  <2> QED BY <2>3, <2>4
<1> QED BY <1>3, <1>4, <1>5

LEMMA RenameApart ==
  ASSUME KeptInv, NEW f, NEW g \in Path, Rename(f, g)
  PROVE  Apart(list') /\ (~dir => CurrentItem = CurrentItem')
<1>1. list \in Seq(Item) /\ Apart(list)
  BY DEF KeptInv, TypeOK
<1>2. PICK q : q = list'
  OBVIOUS
<1>3. q = [k \in DOMAIN list |-> IF list[k].path = f THEN [list[k] EXCEPT !.path = g] ELSE list[k]]
  BY <1>2 DEF Rename
<1>4. Len(q) = Len(list) /\ \A k \in 1..Len(list) : q[k].id = list[k].id
  BY <1>1, <1>3, RenamedIs
<1>5. Apart(q)
  BY <1>1, <1>4, SameIdsApart
<1>6. ASSUME ~dir PROVE CurrentItem = CurrentItem'
  <2>1. Current = list /\ Current' = q /\ i1' = i1
    BY <1>2, <1>6 DEF Current, Listed, Rename
  <2>2. Indices(q) = Indices(list) /\ \A i \in Indices(list) : i + 1 \in 1..Len(list)
    BY <1>1, <1>4, CountIs DEF Indices
  <2> QED BY <1>4, <2>1, <2>2 DEF CurrentItem
<1> QED BY <1>2, <1>5, <1>6

LEMMA KeptEdit ==
  ASSUME Steady, KeptInv, Edit
  PROVE  /\ Apart(list')
         /\ ~dir /\ ~RemovesPastEnd
              => CurrentItem \in {0, CurrentItem'} \cup (IdsIn(Current) \ IdsIn(Current'))
<1> DEFINE Keeps == CurrentItem \in {0, CurrentItem'} \cup (IdsIn(Current) \ IdsIn(Current'))
<1>1. ASSUME NEW paths \in PathLists(Smaller(Room, 2)), NEW idx \in {-1} \cup Indices(list),
             Add(paths, idx)
      PROVE  Apart(list') /\ (~dir => Keeps)
  BY <1>1, AddApart
<1>2. ASSUME NEW i \in Indices(list), NEW n \in 1..MaxItems, RemoveItems(i, n)
      PROVE  Apart(list') /\ (~dir /\ ~RemovesPastEnd => Keeps)
  <2>1. Apart(list') /\ (~dir /\ i + n <= Len(list) => Keeps)
    BY <1>2, RemoveApart
  <2>2. ~RemovesPastEnd => ~(i + n > Len(list))
    BY <1>2 DEF RemovesPastEnd
  <2>3. i + n > Len(list) \/ i + n <= Len(list)
    <3>1. Len(list) \in Nat /\ i \in Nat
      BY CountIs DEF KeptInv, TypeOK
    <3> QED BY <3>1
  <2> QED BY <2>1, <2>2, <2>3
<1>3. ASSUME NEW i, NEW j, Move(i, j)
      PROVE  FALSE
  BY <1>3 DEF Move, Do, Steady
<1>4. ASSUME NEW F, RemoveFiles(F)
      PROVE  FALSE
  BY <1>4 DEF RemoveFiles, Do, Steady
<1>5. ASSUME NEW f \in Path, NEW g \in Path, Rename(f, g)
      PROVE  Apart(list') /\ (~dir => Keeps)
  BY <1>5, RenameApart
<1> HIDE DEF Keeps
<1>6. Apart(list') /\ (~dir /\ ~RemovesPastEnd => Keeps)
  BY <1>1, <1>2, <1>3, <1>4, <1>5 DEF Edit
<1> QED BY <1>6 DEF Keeps

LEMMA KeptStep ==
  ASSUME Steady, KeptInv, [Next]_vars
  PROVE  KeptInv'
<1>1. list \in Seq(Item) /\ Apart(list) /\ TypeOK
  BY DEF KeptInv, TypeOK
<1>2. TypeOK'
  BY <1>1, EveryStep
<1>3. Edit => Apart(list')
  BY KeptEdit
<1>4. ASSUME NEW paths \in PathLists(MaxItems), NEW i \in -1..MaxItems - 1, PlayList(paths, i)
      PROVE  Apart(list')
  <2>1. PICK n \in 1..MaxItems : n \in Nat /\ paths \in [1..n -> Path] /\ Len(paths) = n /\ DOMAIN paths = 1..n
    BY PathsAre, BoundAssumption
  <2>2. PICK ids : ids = [k \in DOMAIN paths |-> k] /\ list' = Items(ids, paths)
    BY <1>4 DEF PlayList
  <2>3. ids \in [1..n -> Ids] /\ \A k \in 1..n : ids[k] = k
    BY <2>1, <2>2, IdsAre, BoundAssumption
  <2>4. Len(list') = n /\ \A k \in 1..n : list'[k].id = IF Tracked THEN ids[k] ELSE 0
    <3>1. n \in Nat /\ paths \in [1..n -> Path] /\ ids \in [1..n -> Ids]
      BY <2>1, <2>3
    <3>2. Len(Items(ids, paths)) = n /\ \A k \in 1..n : Items(ids, paths)[k].id = IF Tracked THEN ids[k] ELSE 0
      BY <3>1, ItemsAre
    <3> QED BY <2>2, <3>2
  <2> QED BY <2>3, <2>4 DEF Apart
<1>5. ASSUME NEW f \in Sound, Invalidate(f)
      PROVE  Apart(list')
  <2>1. list' = list \/ \E S : list' = Spoil(list, S)
    BY <1>5 DEF Invalidate, SpoilHere, SpoilEverywhere
  <2>2. ASSUME NEW S, list' = Spoil(list, S) PROVE Apart(list')
    <3>1. PICK q : q = list' /\ q = Spoil(list, S)
      BY <2>2
    <3>2. Len(q) = Len(list) /\ \A k \in 1..Len(list) : q[k].id = list[k].id
      BY <1>1, <3>1, SpoilKeepsIds
    <3>3. Apart(q)
      BY <1>1, <3>2, SameIdsApart
    <3> QED BY <3>1, <3>3
  <2> QED BY <1>1, <2>1, <2>2
<1>6. ASSUME NEW i, PlayIndex(i) PROVE list' = list
  BY <1>6 DEF PlayIndex
<1>7. ASSUME NEW f, PlayFile(f) PROVE list' = list
  BY <1>7 DEF PlayFile
<1>8. ASSUME NEW force, PlayNext(force) PROVE list' = list
  BY <1>8 DEF PlayNext
<1>9. PlayPrev \/ LookNext \/ Stop \/ SetShuffle \/ (\E r : SetRepeat(r)) \/ UNCHANGED vars => list' = list
  BY DEF PlayPrev, LookNext, Stop, SetShuffle, SetRepeat, vars
<1>10. Apart(list')
  BY <1>1, <1>3, <1>4, <1>5, <1>6, <1>7, <1>8, <1>9 DEF Next
<1> QED BY <1>2, <1>10 DEF KeptInv

LEMMA InitIsKept == Init => KeptInv
<1> SUFFICES ASSUME Init PROVE KeptInv
  OBVIOUS
<1>1. list = <<>> /\ Len(list) = 0
  BY EmptySeq DEF Init
<1>2. \A k : k \notin 1..Len(list)
  BY <1>1
<1> QED BY <1>2, InitIsTyped DEF KeptInv, Apart

(* While songs of the playlist are played, additions, insertions, removals *)
(* and renamings, in any order, keep the current song, unless they remove  *)
(* it; but for removals that reach past the end of the list.               *)
THEOREM EditsKeepCurrent ==
  ASSUME Steady
  PROVE  Spec => [][Edit /\ ~dir /\ ~RemovesPastEnd
                    => CurrentItem \in {0, CurrentItem'} \cup (IdsIn(Current) \ IdsIn(Current'))]_vars
<1>1. KeptInv /\ [Next]_vars => KeptInv'
  BY KeptStep
<1>2. KeptInv /\ [Next]_vars =>
        [Edit /\ ~dir /\ ~RemovesPastEnd
         => CurrentItem \in {0, CurrentItem'} \cup (IdsIn(Current) \ IdsIn(Current'))]_vars
  BY KeptEdit
<1> QED BY InitIsKept, <1>1, <1>2, PTL DEF Spec

(* So they do where no items are removed by their indices.                 *)
THEOREM CurrentIsKept ==
  ASSUME Steady, "remove" \notin Ops
  PROVE  Spec => CurrentKept
<1>1. ~RemovesPastEnd
  BY DEF RemovesPastEnd, RemoveItems, Do
<1>2. KeptInv /\ [Next]_vars => KeptInv'
  BY KeptStep
<1>3. KeptInv /\ [Next]_vars =>
        [Edit /\ ~dir => CurrentItem \in {0, CurrentItem'} \cup (IdsIn(Current) \ IdsIn(Current'))]_vars
  BY <1>1, KeptEdit
<1> QED BY InitIsKept, <1>2, <1>3, PTL DEF Spec, CurrentKept
=============================================================================
