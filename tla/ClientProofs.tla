--------------------------- MODULE ClientProofs ------------------------------
(***************************************************************************)
(* Proofs about the terminal client.                                       *)
(*                                                                         *)
(* Of Interface, for any songs, playlists and panels, and any keys, clicks *)
(* and events: its types, that what is on the screen is what a command is  *)
(* about, that a dialog keeps the items it was opened for, and that the    *)
(* mark and the selection stay on their items.  Nearly every lemma says    *)
(* what one part of a turn does to the state of the client: Good is what   *)
(* each keeps, ShownInv what the panels on the screen have to do with it.  *)
(*                                                                         *)
(* Of PlistSync, for any number of clients, any files and lists, and any   *)
(* actions of the users: that a client which follows the server's list has *)
(* it once it has read what is on its way.                                 *)
(***************************************************************************)
EXTENDS Interface, PlistSync, SequenceLemmas

(* The n-th of some places.                                                *)
LEMMA NthIs ==
  ASSUME NEW m \in Nat, NEW S, S \subseteq 1..m, NEW n \in 1..Cardinality(S)
  PROVE  NthOf(S, n) \in S /\ Cardinality({j \in S : j <= NthOf(S, n)}) = n
<1>1. \E k \in S : Cardinality(NotAbove(S, k)) = n
  BY NthExists
<1> QED BY <1>1 DEF NthOf, NotAbove

-----------------------------------------------------------------------------
(* Lists                                                                   *)

LEMMA SeqFrom ==
  ASSUME NEW S, NEW n \in Nat, NEW f \in [1..n -> S]
  PROVE  f \in Seq(S) /\ Len(f) = n
<1>1. f \in Seq(S)
  BY SeqDef
<1>2. DOMAIN f = 1..n /\ DOMAIN f = 1..Len(f) /\ Len(f) \in Nat
  BY <1>1, LenProperties
<1> QED BY <1>1, <1>2

LEMMA KeepingIn ==
  ASSUME NEW S, NEW p \in Seq(S), NEW K, K \subseteq 1..Len(p)
  PROVE  Keeping(p, K) \in Seq(S)
<1> DEFINE m == Len(p)  l == Cardinality(K)
<1>1. m \in Nat /\ \A k \in 1..m : p[k] \in S
  BY LenProperties, ElementOfSeq
<1>2. IsFiniteSet(1..m)
  BY <1>1, IntervalIs
<1>3. l \in Nat
  <2>1. IsFiniteSet(K)
    BY <1>2, FS_Subset
  <2> QED BY <2>1, FS_CardinalityType
<1>4. \A n \in 1..l : NthOf(K, n) \in K
  BY <1>1, NthIs
<1>5. Keeping(p, K) = [n \in 1..l |-> p[NthOf(K, n)]]
  BY DEF Keeping
<1> HIDE DEF l
<1>6. Keeping(p, K) \in [1..l -> S]
  BY <1>1, <1>4, <1>5
<1> QED BY <1>3, <1>6, SeqFrom

(* How many items insert() leaves before the new ones.                     *)
Before(p, idx) == IF idx \in Indices(p) THEN idx ELSE Len(p)

LEMMA InsertedIn ==
  ASSUME NEW S, NEW p \in Seq(S), NEW new \in Seq(S), NEW idx
  PROVE  /\ Inserted(p, new, idx) \in Seq(S) /\ Len(Inserted(p, new, idx)) = Len(p) + Len(new)
         /\ \A k \in 1..Len(p) + Len(new) :
              Inserted(p, new, idx)[k] = IF k <= Before(p, idx) THEN p[k]
                                         ELSE IF k <= Before(p, idx) + Len(new)
                                              THEN new[k - Before(p, idx)]
                                         ELSE p[k - Len(new)]
<1> DEFINE m == Len(p)  n == Len(new)  r == Inserted(p, new, idx)
<1>1. m \in Nat /\ n \in Nat /\ Indices(p) = 0..m - 1
  BY LenProperties DEF Indices
<1>2. CASE idx \notin Indices(p)
  <2>1. r = p \o new
    BY <1>2 DEF Inserted
  <2>2. /\ r \in Seq(S) /\ Len(r) = m + n
        /\ \A k \in 1..m + n : r[k] = IF k <= m THEN p[k] ELSE new[k - m]
    BY <2>1, ConcatProperties
  <2> HIDE DEF r, m, n
  <2>3. \A k \in 1..m + n : k <= m + n
    BY <1>1
  <2> QED BY <1>2, <2>2, <2>3 DEF r, m, n, Before
<1>3. CASE idx \in Indices(p)
  <2> DEFINE u == SubSeq(p, 1, idx)  v == SubSeq(p, idx + 1, m)  w == u \o new
  <2>1. r = w \o v
    BY <1>3 DEF Inserted
  <2>2. idx \in 0..m /\ idx \in Nat
    BY <1>1, <1>3
  <2>3. /\ u \in Seq(S) /\ Len(u) = idx /\ \A k \in 1..idx : u[k] = p[k]
        /\ v \in Seq(S) /\ Len(v) = m - idx /\ \A k \in 1..m - idx : v[k] = p[idx + k]
    BY <2>2, SplitSeq
  <2> HIDE DEF u, v, r
  <2>4. /\ w \in Seq(S) /\ Len(w) = idx + n
        /\ \A k \in 1..idx + n : w[k] = IF k <= idx THEN u[k] ELSE new[k - idx]
    BY ZenonT(20), <2>3, ConcatProperties
  <2> HIDE DEF w
  <2> DEFINE l == idx + n  h == m - idx
  <2>a. Len(w) = l /\ Len(v) = h
    BY <2>3, <2>4
  <2> HIDE DEF l, h
  <2>5. /\ r \in Seq(S) /\ Len(r) = l + h
        /\ \A k \in 1..l + h : r[k] = IF k <= l THEN w[k] ELSE v[k - l]
    <3>1. w \in Seq(S) /\ v \in Seq(S) /\ Len(w) = l /\ Len(v) = h
      BY <2>3, <2>4, <2>a
    <3>2. /\ w \o v \in Seq(S) /\ Len(w \o v) = l + h
          /\ \A k \in 1..l + h : (w \o v)[k] = IF k <= l THEN w[k] ELSE v[k - l]
      BY <3>1, JoinIs
    <3> QED BY Zenon, <2>1, <3>2
  <2> HIDE DEF m, n
  <2>6. l + h = m + n
    BY <1>1, <2>2 DEF l, h
  <2>7. ASSUME NEW k \in 1..m + n
        PROVE  r[k] = IF k <= idx THEN p[k] ELSE IF k <= idx + n THEN new[k - idx] ELSE p[k - n]
    <3>0. r[k] = IF k <= idx + n THEN w[k] ELSE v[k - (idx + n)]
      BY <2>5, <2>6 DEF l
    <3>1. CASE k <= idx
      <4>1. k \in 1..idx /\ k \in 1..idx + n /\ k <= idx + n
        BY <1>1, <2>2, <3>1
      <4> QED BY <2>3, <2>4, <3>0, <3>1, <4>1
    <3>2. CASE ~(k <= idx) /\ k <= idx + n
      <4>1. k \in 1..idx + n
        BY <3>2
      <4> QED BY <2>4, <3>0, <3>2, <4>1
    <3>3. CASE ~(k <= idx) /\ ~(k <= idx + n)
      <4>1. k - (idx + n) \in 1..m - idx /\ idx + (k - (idx + n)) = k - n
        BY <1>1, <2>2, <3>3
      <4> QED BY <2>3, <3>0, <3>3, <4>1
    <3> QED BY <3>1, <3>2, <3>3
  <2> QED BY <1>3, <2>5, <2>6, <2>7 DEF r, m, n, Before
<1> QED BY <1>2, <1>3

LEMMA RemovedIn ==
  ASSUME NEW S, NEW p \in Seq(S), NEW i \in Int, NEW n \in Int
  PROVE  /\ Removed(p, i, n) \in Seq(S)
         /\ i >= 0 /\ n > 0 /\ i + n <= Len(p) =>
              /\ Len(Removed(p, i, n)) = Len(p) - n
              /\ \A k \in 1..Len(p) - n : Removed(p, i, n)[k] = IF k <= i THEN p[k] ELSE p[k + n]
<1> DEFINE m == Len(p)  r == Removed(p, i, n)
<1>1. m \in Nat
  BY LenProperties
<1>2. CASE ~(i >= 0 /\ n > 0 /\ i + n <= m)
  BY <1>2 DEF Removed
<1>3. CASE i >= 0 /\ n > 0 /\ i + n <= m
  <2> DEFINE t == i + n  u == SubSeq(p, 1, i)  v == SubSeq(p, t + 1, m)
  <2>1. r = u \o v
    BY <1>3 DEF Removed
  <2>2. i \in 0..m /\ t \in 0..m /\ i \in Nat
    BY <1>1, <1>3
  <2> HIDE DEF t
  <2>3. u \in Seq(S) /\ Len(u) = i /\ \A k \in 1..i : u[k] = p[k]
    BY <2>2, SplitSeq
  <2>4. v \in Seq(S) /\ Len(v) = m - t /\ \A k \in 1..m - t : v[k] = p[t + k]
    BY <2>2, SplitSeq
  <2> HIDE DEF u, v, r
  <2>5. /\ r \in Seq(S) /\ Len(r) = i + (m - t)
        /\ \A k \in 1..i + (m - t) : r[k] = IF k <= i THEN u[k] ELSE v[k - i]
    BY <2>1, <2>3, <2>4, ConcatProperties
  <2> HIDE DEF m
  <2>6. i + (m - t) = m - n
    BY <1>1 DEF t
  <2>7. ASSUME NEW k \in 1..m - n PROVE r[k] = IF k <= i THEN p[k] ELSE p[k + n]
    <3>1. CASE k <= i
      <4>1. k \in 1..i
        BY <1>1, <3>1
      <4> QED BY <2>3, <2>5, <2>6, <3>1, <4>1
    <3>2. CASE ~(k <= i)
      <4>1. k - i \in 1..m - t /\ t + (k - i) = k + n
        BY <1>1, <3>2 DEF t
      <4> QED BY <2>4, <2>5, <2>6, <3>2, <4>1
    <3> QED BY <3>1, <3>2
  <2> QED BY <2>5, <2>6, <2>7 DEF r, m
<1> QED BY <1>2, <1>3

LEMMA MovedIn ==
  ASSUME NEW S, NEW p \in Seq(S), NEW i \in Indices(p), NEW j \in Indices(p), i # j
  PROVE  /\ Moved(p, i, j) \in Seq(S) /\ Len(Moved(p, i, j)) = Len(p)
         /\ \A k \in 1..Len(p) :
              Moved(p, i, j)[k] = IF k = j + 1 THEN p[i + 1]
                                  ELSE IF (k <= i /\ k <= j) \/ (k > i + 1 /\ k > j + 1) THEN p[k]
                                  ELSE IF i < j THEN p[k + 1] ELSE p[k - 1]
<1> DEFINE m == Len(p)  q == Removed(p, i, 1)  e == <<p[i + 1]>>  r == Inserted(q, e, j)
<1>1. m \in Nat /\ i \in 0..m - 1 /\ j \in 0..m - 1 /\ \A k \in 1..m : p[k] \in S
  BY LenProperties, ElementOfSeq DEF Indices
<1>2. Moved(p, i, j) = r
  BY DEF Moved
<1>3. i \in Int /\ i >= 0 /\ 1 > 0 /\ i + 1 <= m /\ 1 \in Int
  BY <1>1
<1>4. /\ q \in Seq(S) /\ Len(q) = m - 1
      /\ \A k \in 1..m - 1 : q[k] = IF k <= i THEN p[k] ELSE p[k + 1]
  <2> HIDE DEF q
  <2>1. /\ Removed(p, i, 1) \in Seq(S)
        /\ i >= 0 /\ 1 > 0 /\ i + 1 <= Len(p) =>
             /\ Len(Removed(p, i, 1)) = Len(p) - 1
             /\ \A k \in 1..Len(p) - 1 : Removed(p, i, 1)[k] = IF k <= i THEN p[k] ELSE p[k + 1]
    <3>1. p \in Seq(S) /\ i \in Int /\ 1 \in Int
      BY <1>3
    <3> QED BY ONLY <3>1, RemovedIn
  <2>2. q = Removed(p, i, 1)
    BY DEF q
  <2>3. i >= 0 /\ 1 > 0 /\ i + 1 <= Len(p)
    BY <1>3
  <2> QED BY Zenon, <2>1, <2>2, <2>3
<1>5. e \in Seq(S) /\ Len(e) = 1 /\ e[1] = p[i + 1]
  <2>1. p[i + 1] \in S
    BY <1>1
  <2> QED BY <2>1
<1> HIDE DEF q, e
<1>6. Before(q, j) = j
  <2>1. Indices(q) = 0..(m - 1) - 1
    BY <1>4 DEF Indices
  <2> HIDE DEF m
  <2> QED BY <1>1, <1>4, <2>1 DEF Before
<1>7. /\ r \in Seq(S) /\ Len(r) = (m - 1) + 1
      /\ \A k \in 1..(m - 1) + 1 : r[k] = IF k <= j THEN q[k] ELSE IF k <= j + 1 THEN e[k - j] ELSE q[k - 1]
  <2>0. q \in Seq(S) /\ e \in Seq(S)
    BY <1>4, <1>5
  <2> HIDE DEF m
  <2>2. /\ r \in Seq(S) /\ Len(r) = Len(q) + Len(e)
        /\ \A k \in 1..Len(q) + Len(e) :
             r[k] = IF k <= j THEN q[k]
                    ELSE IF k <= j + Len(e) THEN e[k - j] ELSE q[k - Len(e)]
    <3> HIDE DEF r
    <3>1. /\ Inserted(q, e, j) \in Seq(S) /\ Len(Inserted(q, e, j)) = Len(q) + Len(e)
          /\ \A k \in 1..Len(q) + Len(e) :
               Inserted(q, e, j)[k] = IF k <= Before(q, j) THEN q[k]
                                      ELSE IF k <= Before(q, j) + Len(e) THEN e[k - Before(q, j)]
                                      ELSE q[k - Len(e)]
      BY <2>0, InsertedIn
    <3>2. r = Inserted(q, e, j)
      BY DEF r
    <3> QED BY Zenon, <1>6, <3>1, <3>2
  <2> QED BY <1>4, <1>5, <2>2
<1> HIDE DEF r, m
<1>8. (m - 1) + 1 = m
  BY <1>1
<1>9. ASSUME NEW k \in 1..m
      PROVE  r[k] = IF k = j + 1 THEN p[i + 1]
                    ELSE IF (k <= i /\ k <= j) \/ (k > i + 1 /\ k > j + 1) THEN p[k]
                    ELSE IF i < j THEN p[k + 1] ELSE p[k - 1]
  <2>0. r[k] = IF k <= j THEN q[k] ELSE IF k <= j + 1 THEN e[k - j] ELSE q[k - 1]
    BY <1>7, <1>8
  <2>1. CASE k <= j
    <3>1. k \in 1..m - 1 /\ k # j + 1 /\ ~(k > j + 1)
      BY <1>1, <2>1
    <3>2. r[k] = IF k <= i THEN p[k] ELSE p[k + 1]
      BY <1>4, <2>0, <2>1, <3>1
    <3>3. CASE k <= i
      BY <2>1, <3>1, <3>2, <3>3
    <3>4. CASE ~(k <= i)
      <4>1. i < j
        BY <1>1, <2>1, <3>4
      <4> QED BY <3>1, <3>2, <3>4, <4>1
    <3> QED BY <3>3, <3>4
  <2>2. CASE k = j + 1
    <3>1. ~(k <= j) /\ k <= j + 1 /\ k - j = 1
      BY <1>1, <2>2
    <3> QED BY <1>5, <2>0, <2>2, <3>1
  <2>3. CASE k > j + 1
    <3>1. ~(k <= j) /\ ~(k <= j + 1) /\ k # j + 1 /\ k - 1 \in 1..m - 1 /\ (k - 1) + 1 = k
      BY <1>1, <2>3
    <3>2. r[k] = IF k - 1 <= i THEN p[k - 1] ELSE p[k]
      BY <1>4, <2>0, <3>1
    <3>3. k - 1 <= i <=> ~(k > i + 1)
      BY <1>1
    <3>4. CASE k - 1 <= i
      <4>1. ~(i < j)
        BY <1>1, <2>3, <3>4
      <4> QED BY <3>1, <3>2, <3>3, <3>4, <4>1
    <3>5. CASE ~(k - 1 <= i)
      BY <2>3, <3>1, <3>2, <3>3, <3>5
    <3> QED BY <3>4, <3>5
  <2> QED BY <1>1, <2>1, <2>2, <2>3
<1> QED BY <1>2, <1>7, <1>8, <1>9 DEF m

(* What a sequence of sequences flattens to, without recursion over it.    *)
LEMMA FlattenIn ==
  ASSUME NEW S, NEW s \in Seq(Seq(S))
  PROVE  FlattenSeq(s) \in Seq(S)
<1> DEFINE n == Len(s)
           Step(f, i) == IF i = 1 THEN s[i] ELSE f[i - 1] \o s[i]
           Flattens(f, m) == \A i \in 1..m : f[i] = Step(f, i)
<1>1. n \in Nat /\ \A i \in 1..n : s[i] \in Seq(S)
  BY LenProperties, ElementOfSeq
<1>2. CASE n = 0
  <2>1. FlattenSeq(s) = s
    BY <1>2 DEF FlattenSeq
  <2>2. s = <<>>
    BY <1>2, EmptySeq
  <2>3. <<>> \in Seq(S)
    BY EmptySeq
  <2> QED BY <2>1, <2>2, <2>3
<1>3. CASE n # 0
  <2> DEFINE T == {m \in 1..n : ~\E f \in [1..m -> Seq(S)] : Flattens(f, m)}
  <2>1. T = {}
    <3> SUFFICES ASSUME T # {} PROVE FALSE
      OBVIOUS
    <3>1. T \subseteq Nat
      OBVIOUS
    <3>2. PICK m \in T : \A l \in T : m <= l
      <4> HIDE DEF T
      <4> QED BY <3>1, LeastOfNat
    <3>3. m \in 1..n /\ ~\E f \in [1..m -> Seq(S)] : Flattens(f, m)
      BY <3>2
    <3>4. CASE m = 1
      <4> DEFINE f == [i \in 1..1 |-> s[1]]
      <4>1. s[1] \in Seq(S)
        BY <1>1, <3>3, <3>4
      <4>2. f \in [1..1 -> Seq(S)] /\ f[1] = s[1]
        BY <4>1
      <4>3. Flattens(f, 1)
        BY <4>2
      <4> HIDE DEF f, Flattens
      <4> QED BY <3>3, <3>4, <4>2, <4>3
    <3>5. CASE m # 1
      <4>1. m - 1 \in 1..n /\ ~(m <= m - 1) /\ m - 1 \in 1..m - 1
        BY <1>1, <3>3, <3>5
      <4>2. m - 1 \notin T
        BY <3>2, <4>1
      <4>3. PICK f \in [1..m - 1 -> Seq(S)] : Flattens(f, m - 1)
        BY <4>1, <4>2
      <4> DEFINE x == f[m - 1] \o s[m]
                 g == [i \in 1..m |-> IF i = m THEN x ELSE f[i]]
      <4>4. x \in Seq(S)
        <5>1. f[m - 1] \in Seq(S) /\ s[m] \in Seq(S)
          BY <1>1, <3>3, <4>1
        <5> QED BY <5>1, ConcatProperties
      <4>5. \A i \in 1..m : i # m => i \in 1..m - 1 /\ g[i] = f[i]
        BY <3>3
      <4>6. g[m] = x
        <5> HIDE DEF x
        <5>1. m \in 1..m
          BY <3>3
        <5> QED BY <5>1
      <4>7. g \in [1..m -> Seq(S)]
        <5> HIDE DEF x
        <5> QED BY <4>4, <4>5
      <4> HIDE DEF g
      <4>8. ASSUME NEW i \in 1..m PROVE g[i] = Step(g, i)
        <5>1. CASE i = m
          <6>1. m - 1 \in 1..m /\ m - 1 # m
            BY <3>3, <4>1
          <6>2. g[m - 1] = f[m - 1]
            BY <4>5, <6>1
          <6> QED BY <3>5, <4>6, <5>1, <6>2
        <5>2. CASE i # m
          <6>1. i \in 1..m - 1 /\ g[i] = f[i]
            BY <4>5, <5>2
          <6>2. f[i] = Step(f, i)
            BY <4>3, <6>1
          <6>3. i # 1 => i - 1 \in 1..m /\ i - 1 # m
            BY <3>3, <5>2
          <6>4. i # 1 => g[i - 1] = f[i - 1]
            BY <4>5, <6>3
          <6> QED BY <6>1, <6>2, <6>4
        <5> QED BY <5>1, <5>2
      <4>9. Flattens(g, m)
        BY <4>8
      <4> HIDE DEF Flattens
      <4> QED BY <3>3, <4>7, <4>9
    <3> QED BY <3>4, <3>5
  <2>2. n \in 1..n
    BY <1>1, <1>3
  <2>3. \E f \in [1..n -> Seq(S)] : Flattens(f, n)
    <3> HIDE DEF Flattens
    <3>1. n \notin T
      BY <2>1
    <3> QED BY <2>2, <3>1
  <2> DEFINE IsF(f) == f = [i \in 1..n |-> Step(f, i)]
             F == CHOOSE f : IsF(f)
  <2>4. FlattenSeq(s) = F[n]
    BY <1>3 DEF FlattenSeq
  <2>5. \E f : IsF(f)
    <3>1. PICK f \in [1..n -> Seq(S)] : Flattens(f, n)
      BY <2>3
    <3>2. f = [i \in 1..n |-> Step(f, i)]
      BY <3>1
    <3> QED BY <3>2
  <2>6. IsF(F)
    BY <2>5
  <2> HIDE DEF F
  <2>7. \A i \in 1..n : F[i] = Step(F, i)
    BY <2>6
  <2> DEFINE U == {i \in 1..n : F[i] \notin Seq(S)}
  <2>8. U = {}
    <3> SUFFICES ASSUME U # {} PROVE FALSE
      OBVIOUS
    <3>1. U \subseteq Nat
      OBVIOUS
    <3>2. PICK m \in U : \A l \in U : m <= l
      <4> HIDE DEF U
      <4> QED BY <3>1, LeastOfNat
    <3>3. m \in 1..n /\ F[m] \notin Seq(S) /\ F[m] = Step(F, m)
      BY <2>7, <3>2
    <3>4. m # 1
      BY <1>1, <3>3
    <3>5. m - 1 \in 1..n /\ ~(m <= m - 1)
      BY <1>1, <3>3, <3>4
    <3>6. F[m - 1] \in Seq(S)
      BY <3>2, <3>5
    <3>7. s[m] \in Seq(S)
      BY <1>1, <3>3
    <3>8. F[m - 1] \o s[m] \in Seq(S)
      BY <3>6, <3>7, ConcatProperties
    <3> QED BY <3>3, <3>4, <3>8
  <2> QED BY <2>2, <2>4, <2>8
<1> QED BY <1>2, <1>3

-----------------------------------------------------------------------------
(* The client                                                              *)

(* The mark of the playlist is on the current song, if there is one.       *)
MarkOk(s) == s.view.right.mark \in {-1, s.cur.idx} \/ s.cur.idx = -1

(* What t changes of the panels of s, it asks to be drawn.                 *)
SamePanels(s, t) == /\ t.list = s.list /\ t.view = s.view
                    /\ t.active = s.active /\ t.layout = s.layout
Quiet(s, t) == ~t.redraw /\ ~t.missed => ~s.redraw /\ ~s.missed /\ SamePanels(s, t)
Keeps(s, t) == /\ t \in Client /\ t.dialog = s.dialog /\ t.moving = s.moving
               /\ MarkOk(s) => MarkOk(t)
Passes(s, t) == Keeps(s, t) /\ Quiet(s, t)

LEMMA PassesItself ==
  ASSUME NEW s \in Client
  PROVE  Passes(s, s)
BY DEF Passes, Keeps, Quiet, SamePanels

LEMMA PassesOn ==
  ASSUME NEW s, NEW t, NEW u, Passes(s, t), Passes(t, u)
  PROVE  Passes(s, u)
BY DEF Passes, Keeps, Quiet, SamePanels

LEMMA KeepsOn ==
  ASSUME NEW s, NEW t, NEW u, Keeps(s, t), Keeps(t, u)
  PROVE  Keeps(s, u)
BY DEF Keeps

LEMMA ClientIs ==
  ASSUME NEW s \in Client
  PROVE  /\ s.list \in [Side -> Seq(Item)] /\ s.view \in [Side -> View]
         /\ s.list.left \in Seq(Item) /\ s.list.right \in Seq(Item)
         /\ s.view.left \in View /\ s.view.right \in View
         /\ s.active \in Side /\ s.layout \in Layout /\ s.files \subseteq Song
         /\ s.cur.file \in Item \cup {None} /\ s.cur.idx \in Int
         /\ \A d \in Side : /\ Size(s, d) \in Nat /\ s.list[d] \in Seq(Item)
                            /\ s.view[d] \in View
<1>1. /\ s.list \in [Side -> Seq(Item)] /\ s.view \in [Side -> View]
      /\ s.active \in Side /\ s.layout \in Layout /\ s.files \subseteq Song
      /\ s.cur.file \in Item \cup {None} /\ s.cur.idx \in Int
  BY DEF Client
<1>2. "left" \in Side /\ "right" \in Side
  BY DEF Side
<1> QED BY <1>1, <1>2, LenProperties DEF Size

LEMMA ViewIs ==
  ASSUME NEW v \in View
  PROVE  /\ v.top \in Int /\ v.sel \in Int /\ v.xsel \in Int /\ v.mark \in Int
         /\ v = [top |-> v.top, sel |-> v.sel, xsel |-> v.xsel, mark |-> v.mark]
BY DEF View

Fields(v, top, sel, xsel, mark) ==
  v \in View /\ v.top = top /\ v.sel = sel /\ v.xsel = xsel /\ v.mark = mark

LEMMA ViewChanges ==
  ASSUME NEW v \in View, NEW i \in Int, NEW j \in Int
  PROVE  /\ Fields([v EXCEPT !.sel = i, !.xsel = j], v.top, i, j, v.mark)
         /\ Fields([v EXCEPT !.sel = i], v.top, i, v.xsel, v.mark)
         /\ Fields([v EXCEPT !.xsel = i], v.top, v.sel, i, v.mark)
         /\ Fields([v EXCEPT !.top = i], i, v.sel, v.xsel, v.mark)
         /\ Fields([v EXCEPT !.mark = i], v.top, v.sel, v.xsel, i)
<1>1. Fields([v EXCEPT !.sel = i, !.xsel = j], v.top, i, j, v.mark)
  BY DEF View, Fields
<1>2. Fields([v EXCEPT !.sel = i], v.top, i, v.xsel, v.mark)
  BY DEF View, Fields
<1>3. Fields([v EXCEPT !.xsel = i], v.top, v.sel, i, v.mark)
  BY DEF View, Fields
<1>4. Fields([v EXCEPT !.top = i], i, v.sel, v.xsel, v.mark)
  BY DEF View, Fields
<1>5. Fields([v EXCEPT !.mark = i], v.top, v.sel, v.xsel, i)
  BY DEF View, Fields
<1> QED BY <1>1, <1>2, <1>3, <1>4, <1>5

LEMMA SameView ==
  ASSUME NEW v \in View, NEW w \in View, Fields(w, v.top, v.sel, v.xsel, v.mark)
  PROVE  v = w
BY DEF View, Fields

LEMMA SelectionIs ==
  ASSUME NEW v \in View
  PROVE  /\ Selection(v) \in Int \X Int /\ Selection(v)[1] <= Selection(v)[2]
         /\ v.sel < 0 => Selection(v) = <<-1, -1>>
         /\ v.sel >= 0 => Selection(v)[1] <= v.sel /\ v.sel <= Selection(v)[2]
BY ViewIs DEF Selection, Least, Most

LEMMA ItemsAtIn ==
  ASSUME NEW S, NEW p \in Seq(S), NEW r \in Int \X Int
  PROVE  ItemsAt(p, r) \in Seq(S)
<1>1. Len(p) \in Nat /\ \A k \in 1..Len(p) : p[k] \in S
  BY LenProperties, ElementOfSeq
<1>2. <<>> \in Seq(S)
  BY EmptySeq
<1>3. CASE InList(r, p)
  <2>1. 0 <= r[1] /\ r[2] < Len(p) /\ r[1] \in Int /\ r[2] \in Int
    BY <1>3 DEF InList
  <2>2. \A k \in r[1] + 1..r[2] + 1 : p[k] \in S
    BY <1>1, <2>1
  <2>3. SubSeq(p, r[1] + 1, r[2] + 1) \in Seq(S)
    BY <1>1, <2>1, <2>2, SubSeqProperties
  <2> QED BY <1>3, <2>3 DEF ItemsAt
<1> QED BY <1>2, <1>3 DEF ItemsAt

LEMMA FindPathIn ==
  ASSUME NEW S, NEW p \in Seq(S), NEW f
  PROVE  FindPath(p, f) \in -1..Len(p) - 1
<1> DEFINE T == {i \in Indices(p) : p[i + 1] = f}
<1>1. Len(p) \in Nat /\ Indices(p) = 0..Len(p) - 1
  BY LenProperties DEF Indices
<1>2. CASE T = {}
  <2>1. ~\E i \in Indices(p) : p[i + 1] = f
    BY <1>2
  <2> QED BY <1>1, <2>1 DEF FindPath
<1>3. CASE T # {}
  <2>1. T \subseteq Nat
    BY <1>1
  <2>2. PICK i \in T : \A j \in T : i <= j
    <3> HIDE DEF T
    <3> QED BY <1>3, <2>1, LeastOfNat
  <2>3. i \in Indices(p) /\ p[i + 1] = f
    BY <2>2
  <2>4. ASSUME NEW j \in 0..i - 1 PROVE p[j + 1] # f
    <3>1. j \in Indices(p) /\ ~(i <= j)
      BY <1>1, <2>3
    <3> QED BY <2>2, <3>1
  <2>5. \E k \in Indices(p) : p[k + 1] = f /\ \A j \in 0..k - 1 : p[j + 1] # f
    BY <2>3, <2>4
  <2>6. FindPath(p, f) = CHOOSE k \in Indices(p) : p[k + 1] = f /\ \A j \in 0..k - 1 : p[j + 1] # f
    BY <2>3 DEF FindPath
  <2>7. FindPath(p, f) \in Indices(p)
    BY <2>5, <2>6
  <2> QED BY <1>1, <2>7
<1> QED BY <1>2, <1>3

LEMMA SongsAre ==
  ASSUME InterfaceAssumption
  PROVE  /\ Songs \in Seq(Item) /\ Loaded \in Seq(Item) /\ Playlists \subseteq Seq(Item)
         /\ Song \subseteq Item /\ OnDisk \subseteq Song /\ {"top", "sub", ListFile} \subseteq Item
         /\ None \notin Item
<1>1. Track \subseteq Item /\ Song \subseteq Item
  BY DEF Item, Track
<1>2. \A p \in Seq(Track) : p \in Seq(Item)
  BY <1>1
<1> QED BY <1>1, <1>2 DEF InterfaceAssumption, Item

LEMMA InOrderIn ==
  ASSUME InterfaceAssumption, NEW present
  PROVE  InOrder(present) \in Seq(Item)
<1> DEFINE K == {k \in DOMAIN Songs : Songs[k] \in present}
<1>1. Songs \in Seq(Item) /\ DOMAIN Songs = 1..Len(Songs)
  BY SongsAre, LenProperties
<1>2. K \subseteq 1..Len(Songs)
  BY <1>1
<1> HIDE DEF K
<1>3. Keeping(Songs, K) \in Seq(Item)
  BY <1>1, <1>2, KeepingIn
<1> QED BY <1>3 DEF InOrder, K

LEMMA ListingIn ==
  ASSUME InterfaceAssumption, NEW dir, NEW present
  PROVE  Listing(dir, present) \in Seq(Item)
<1>1. <<"top">> \in Seq(Item) /\ <<"sub">> \in Seq(Item) /\ <<ListFile>> \in Seq(Item)
  BY SongsAre
<1>2. <<"sub">> \o InOrder(present) \in Seq(Item)
  BY <1>1, InOrderIn, ConcatProperties
<1>3. (<<"sub">> \o InOrder(present)) \o <<ListFile>> \in Seq(Item)
  BY <1>1, <1>2, ConcatProperties
<1> QED BY <1>1, <1>3 DEF Listing

-----------------------------------------------------------------------------
(* What commands and events are made of                                    *)

LEMMA RedrawPasses ==
  ASSUME NEW s \in Client
  PROVE  Passes(s, Redraw(s)) /\ SamePanels(s, Redraw(s)) /\ Redraw(s).redraw
         /\ Redraw(s).cur = s.cur /\ Redraw(s).fault = s.fault /\ Redraw(s).synced = s.synced
         /\ Redraw(s).cwd = s.cwd /\ Redraw(s).files = s.files
BY DEF Passes, Keeps, Quiet, SamePanels, Redraw, Client, MarkOk

(* A redraw makes up for what was changed.                                 *)
LEMMA LoudPasses ==
  ASSUME NEW s, NEW t, Keeps(s, t)
  PROVE  Passes(s, Redraw(t)) /\ Redraw(t).redraw /\ SamePanels(t, Redraw(t))
<1>1. t \in Client
  BY DEF Keeps
<1>2. Passes(t, Redraw(t)) /\ Redraw(t).redraw /\ SamePanels(t, Redraw(t))
  BY <1>1, RedrawPasses
<1> QED BY <1>2 DEF Passes, Keeps, Quiet

LEMMA ActivePasses ==
  ASSUME NEW s \in Client, NEW d \in Side
  PROVE  Keeps(s, [s EXCEPT !.active = d])
BY DEF Keeps, Client, MarkOk

LEMMA GoToDirPlistPasses ==
  ASSUME NEW s \in Client
  PROVE  Passes(s, GoToDirPlist(s))
<1>1. Keeps(s, [s EXCEPT !.active = "left"])
  BY ActivePasses DEF Side
<1> QED BY <1>1, LoudPasses, PassesItself DEF GoToDirPlist

(* A panel's view is changed, but for its mark.                            *)
LEMMA ViewKeeps ==
  ASSUME NEW s \in Client, NEW d \in Side, NEW v \in View, v.mark = s.view[d].mark
  PROVE  /\ Keeps(s, [s EXCEPT !.view[d] = v])
         /\ [s EXCEPT !.view[d] = v].view = [s.view EXCEPT ![d] = v]
         /\ v = s.view[d] => [s EXCEPT !.view[d] = v].view = s.view
<1> DEFINE t == [s EXCEPT !.view[d] = v]
<1>1. /\ t \in Client /\ t.dialog = s.dialog /\ t.moving = s.moving
      /\ t.view = [s.view EXCEPT ![d] = v] /\ t.cur = s.cur
  BY ClientIs DEF Client
<1>2. s.view \in [Side -> View] /\ "right" \in Side
  BY ClientIs DEF Side
<1>3. t.view.right.mark = s.view.right.mark
  BY <1>1, <1>2
<1>4. v = s.view[d] => t.view = s.view
  BY <1>1, <1>2
<1> QED BY <1>1, <1>3, <1>4 DEF Keeps, MarkOk

LEMMA RowSelected ==
  ASSUME NEW s \in Client, NEW d \in Side, NEW i \in Int, NEW v, v = [s.view[d] EXCEPT !.sel = i, !.xsel = 0]
  PROVE  Passes(s, RedrawIf(<<s.view[d].sel, s.view[d].xsel>> # <<i, 0>>, [s EXCEPT !.view[d] = v]))
<1> DEFINE t == [s EXCEPT !.view[d] = v]
<1>1. v \in View /\ v.mark = s.view[d].mark /\ v.sel = i /\ v.xsel = 0 /\ v.top = s.view[d].top
  <2>1. s.view[d] \in View
    BY ClientIs
  <2>0. PICK w \in View, z \in Int : w = s.view[d] /\ z = 0
    BY <2>1
  <2>2. Fields([w EXCEPT !.sel = i, !.xsel = z], w.top, i, z, w.mark)
    BY ViewChanges
  <2>3. Fields([s.view[d] EXCEPT !.sel = i, !.xsel = 0], s.view[d].top, i, 0, s.view[d].mark)
    BY <2>0, <2>2
  <2> QED BY <2>3 DEF Fields
<1>2. Keeps(s, t) /\ (v = s.view[d] => t.view = s.view)
  BY <1>1, ViewKeeps
<1>3. CASE <<s.view[d].sel, s.view[d].xsel>> # <<i, 0>>
  <2> HIDE DEF t
  <2>1. Passes(s, Redraw(t))
    BY <1>2, LoudPasses
  <2>2. RedrawIf(<<s.view[d].sel, s.view[d].xsel>> # <<i, 0>>, t) = Redraw(t)
    BY Zenon, <1>3 DEF RedrawIf
  <2> QED BY <2>1, <2>2 DEF t
<1>4. CASE <<s.view[d].sel, s.view[d].xsel>> = <<i, 0>>
  <2>1. v = s.view[d]
    <3>1. s.view[d] \in View
      BY ClientIs
    <3>2. Fields(v, s.view[d].top, s.view[d].sel, s.view[d].xsel, s.view[d].mark)
      BY <1>1, <1>4 DEF Fields
    <3> QED BY <1>1, <3>1, <3>2, SameView
  <2>2. t.list = s.list /\ t.active = s.active /\ t.layout = s.layout /\ t.redraw = s.redraw
        /\ t.missed = s.missed
    BY DEF Client
  <2>3. Quiet(s, t)
    BY <1>2, <2>1, <2>2 DEF Quiet, SamePanels
  <2> QED BY <1>2, <1>4, <2>3 DEF Passes, RedrawIf
<1> QED BY <1>3, <1>4

LEMMA SelectItemPasses ==
  ASSUME NEW s \in Client, NEW d \in Side, NEW i \in Int
  PROVE  Passes(s, SelectItem(s, d, i))
<1> DEFINE k == Least(i, Size(s, d) - 1)
           v == [s.view[d] EXCEPT !.sel = k, !.xsel = 0]
<1>1. k \in Int
  BY ClientIs DEF Least
<1>2. SelectItem(s, d, i) = RedrawIf(<<s.view[d].sel, s.view[d].xsel>> # <<k, 0>>, [s EXCEPT !.view[d] = v])
  BY DEF SelectItem, Reselects, ItemSelected
<1> HIDE DEF k, v
<1>3. v = [s.view[d] EXCEPT !.sel = k, !.xsel = 0]
  BY DEF v
<1>4. Passes(s, RedrawIf(<<s.view[d].sel, s.view[d].xsel>> # <<k, 0>>, [s EXCEPT !.view[d] = v]))
  BY <1>1, <1>3, RowSelected
<1> QED BY Zenon, <1>2, <1>4

LEMMA SelectPathPasses ==
  ASSUME NEW s \in Client, NEW f
  PROVE  Passes(s, SelectPath(s, f))
<1> DEFINE g == GoToDirPlist(s)
           i == FindPath(g.list.left, f)
<1>1. Passes(s, g) /\ g \in Client
  BY GoToDirPlistPasses DEF Passes, Keeps
<1>2. i \in Int
  <2>1. g.list.left \in Seq(Item)
    BY <1>1, ClientIs
  <2> HIDE DEF g
  <2>2. i \in -1..Len(g.list.left) - 1
    BY <2>1, FindPathIn
  <2> QED BY <2>2
<1>3. SelectPath(s, f) = IF i >= 0 THEN SelectItem(g, "left", i) ELSE g
  BY DEF SelectPath
<1> HIDE DEF g, i
<1>4. Passes(g, SelectItem(g, "left", i))
  BY <1>1, <1>2, SelectItemPasses DEF Side
<1> QED BY <1>1, <1>3, <1>4, PassesOn

LEMMA GoToDirPasses ==
  ASSUME InterfaceAssumption, NEW s \in Client, NEW dir \in {"top", "sub"}
  PROVE  Passes(s, GoToDir(s, dir))
<1> DEFINE a == [s EXCEPT !.cwd = dir, !.list.left = Listing(dir, s.files)]
           at == Redraw(a)
           b == [at EXCEPT !.view.left.top = 0]
<1>1. Keeps(s, a)
  <2>1. Listing(dir, s.files) \in Seq(Item)
    BY ListingIn
  <2> QED BY <2>1, ClientIs DEF Keeps, Client, MarkOk, Side
<1>2. Passes(s, at) /\ at.redraw /\ at \in Client
  <2> HIDE DEF a
  <2>1. Passes(s, at) /\ at.redraw
    BY <1>1, LoudPasses
  <2> QED BY <2>1 DEF Passes, Keeps
<1> HIDE DEF at
<1>3. Passes(at, b) /\ b \in Client
  <2> DEFINE v == [at.view.left EXCEPT !.top = 0]
  <2>1. at.view.left \in View /\ at.view \in [Side -> View] /\ "left" \in Side
    BY <1>2, ClientIs DEF Side
  <2>2. v \in View /\ v.mark = at.view["left"].mark
    <3>0. PICK w \in View, z \in Int : w = at.view.left /\ z = 0
      BY <2>1
    <3>2. Fields([w EXCEPT !.top = z], z, w.sel, w.xsel, w.mark)
      BY ViewChanges
    <3>1. Fields(v, 0, at.view.left.sel, at.view.left.xsel, at.view.left.mark)
      BY <3>0, <3>2
    <3> QED BY <3>1 DEF Fields
  <2>3. b = [at EXCEPT !.view["left"] = v]
    OBVIOUS
  <2> HIDE DEF v, b
  <2>4. Keeps(at, b)
    BY <1>2, <2>1, <2>2, <2>3, ViewKeeps
  <2>5. b.redraw
    BY <1>2, <2>3 DEF Client
  <2> QED BY <2>4, <2>5 DEF Passes, Keeps, Quiet
<1>4. Passes(s, b)
  BY <1>2, <1>3, PassesOn
<1>5. Passes(b, SelectPath(b, s.cwd))
  BY <1>3, SelectPathPasses
<1>6. GoToDir(s, dir) = IF dir = s.cwd THEN at ELSE SelectPath(b, s.cwd)
  BY DEF GoToDir, at
<1> HIDE DEF b
<1> QED BY <1>2, <1>4, <1>5, <1>6, PassesOn

LEMMA ReloadPasses ==
  ASSUME InterfaceAssumption, NEW s \in Client
  PROVE  Passes(s, Reload(s))
<1>1. s.cwd \in {"top", "sub"}
  BY DEF Client
<1> QED BY <1>1, GoToDirPasses DEF Reload

LEMMA LoadPlaylistPasses ==
  ASSUME InterfaceAssumption, NEW s \in Client
  PROVE  Passes(s, LoadPlaylist(s))
<1> DEFINE a == [s EXCEPT !.list.right = Loaded, !.synced = FALSE]
<1>1. Keeps(s, a)
  BY ClientIs, SongsAre DEF Keeps, Client, MarkOk, Side
<1> HIDE DEF a
<1> QED BY <1>1, LoudPasses DEF LoadPlaylist, a

LEMMA DropSyncPasses ==
  ASSUME NEW s \in Client
  PROVE  Passes(s, DropSync(s)) /\ ~DropSync(s).synced
<1> DEFINE t == [s EXCEPT !.synced = FALSE, !.cur.idx = -1]
<1>1. t \in Client /\ t.cur.idx = -1 /\ t.dialog = s.dialog /\ t.moving = s.moving /\ ~t.synced
      /\ t.list = s.list /\ t.view = s.view /\ t.active = s.active /\ t.layout = s.layout
      /\ t.redraw = s.redraw /\ t.missed = s.missed
  <2>1. s.cur \in [file : Item \cup {None}, idx : Int]
    BY DEF Client
  <2>2. [s.cur EXCEPT !.idx = -1] \in [file : Item \cup {None}, idx : Int] /\ [s.cur EXCEPT !.idx = -1].idx = -1
    BY <2>1
  <2> QED BY <2>2 DEF Client
<1>2. Passes(s, t)
  BY <1>1 DEF Passes, Keeps, Quiet, SamePanels, MarkOk
<1>3. DropSync(s) = RedrawIf(s.cur.idx # -1, t)
  BY DEF DropSync
<1> HIDE DEF t
<1>4. Passes(t, Redraw(t)) /\ Redraw(t).synced = t.synced
  BY <1>1, RedrawPasses
<1> QED BY <1>1, <1>2, <1>3, <1>4, PassesOn DEF RedrawIf

(* The index of the song that is played is changed, after its list was.     *)
LEMMA IndexUpdated ==
  ASSUME NEW s, NEW t, Keeps(s, t), NEW i \in Int
  PROVE  LET u == UpdateIndex(t, i) IN
         /\ Passes(s, Redraw(u)) /\ u \in Client /\ Keeps(s, u)
         /\ u.cur.idx = i /\ u.list = t.list /\ u.synced = t.synced /\ u.files = t.files
         /\ u.view.right.sel = t.view.right.sel /\ u.view.right.xsel = t.view.right.xsel
<1>1. t \in Client
  BY DEF Keeps
<1>2. CASE i = t.cur.idx
  <2>1. UpdateIndex(t, i) = t
    BY <1>2 DEF UpdateIndex
  <2> QED BY <1>1, <1>2, <2>1, LoudPasses
<1>3. CASE i # t.cur.idx
  <2> DEFINE c == [t.cur EXCEPT !.idx = i]
             w == [t.view.right EXCEPT !.mark = i]
             x == [t.view EXCEPT !.right = w]
             u == [t EXCEPT !.cur = c, !.view = x]
  <2>1. t.view \in [Side -> View] /\ t.view.right \in View /\ "right" \in Side
        /\ t.cur \in [file : Item \cup {None}, idx : Int]
    BY <1>1, ClientIs DEF Side, Client
  <2>2. w \in View /\ w.mark = i /\ w.sel = t.view.right.sel /\ w.xsel = t.view.right.xsel
    BY ZenonT(20), <2>1, ViewChanges DEF Fields
  <2>3. UpdateIndex(t, i) = Redraw(u)
    BY <1>3 DEF UpdateIndex
  <2>4. c \in [file : Item \cup {None}, idx : Int] /\ c.idx = i
    BY <2>1
  <2> HIDE DEF c, w
  <2>5. x \in [Side -> View] /\ x.right = w
    BY <2>1, <2>2
  <2> HIDE DEF x
  <2>6. /\ u \in Client /\ u.dialog = t.dialog /\ u.moving = t.moving /\ u.cur = c /\ u.view = x
        /\ u.list = t.list /\ u.synced = t.synced /\ u.files = t.files
    BY <1>1, <2>4, <2>5 DEF Client
  <2> HIDE DEF u
  <2>7. Keeps(t, u)
    BY <2>2, <2>4, <2>5, <2>6 DEF Keeps, MarkOk
  <2>8. Keeps(s, u)
    BY <2>7, KeepsOn
  <2>9. Passes(s, Redraw(u)) /\ Keeps(s, Redraw(u)) /\ Redraw(u) \in Client
    BY <2>8, LoudPasses DEF Passes, Keeps
  <2>10. Passes(s, Redraw(Redraw(u)))
    BY <2>9, LoudPasses
  <2>11. /\ Redraw(u).cur = c /\ Redraw(u).view = x /\ Redraw(u).list = t.list
         /\ Redraw(u).synced = t.synced /\ Redraw(u).files = t.files
    BY <2>6, RedrawPasses DEF SamePanels
  <2> QED BY <2>2, <2>3, <2>4, <2>5, <2>9, <2>10, <2>11
<1> QED BY <1>2, <1>3

(* The list of the playlist is changed, and where the selection is.        *)
LEMMA ListPut ==
  ASSUME NEW s \in Client, NEW p \in Seq(Item)
  PROVE  LET t == [s EXCEPT !.list.right = p] IN
         /\ Keeps(s, t) /\ t \in Client /\ t.list.right = p /\ t.cur = s.cur
         /\ t.synced = s.synced /\ t.files = s.files /\ t.view = s.view
BY ClientIs DEF Keeps, Client, MarkOk, Side

ListAndSel(s, p, k) == [s EXCEPT !.list.right = p, !.view.right.sel = k]

LEMMA ListAndSelPut ==
  ASSUME NEW s \in Client, NEW p \in Seq(Item), NEW k \in Int,
         NEW t, t = ListAndSel(s, p, k)
  PROVE  /\ Keeps(s, t) /\ t \in Client /\ t.list.right = p /\ t.cur = s.cur
         /\ t.synced = s.synced /\ t.files = s.files
         /\ t.view.right.sel = k /\ t.view.right.xsel = s.view.right.xsel
<1> DEFINE w == [s.view.right EXCEPT !.sel = k]
           x == [s.list EXCEPT !.right = p]
           y == [s.view EXCEPT !.right = w]
<1>1. /\ s.list.right \in Seq(Item) /\ s.list \in [Side -> Seq(Item)]
      /\ s.view \in [Side -> View] /\ s.view.right \in View /\ "right" \in Side
  BY ClientIs DEF Side
<1>2. w \in View /\ w.mark = s.view.right.mark /\ w.sel = k /\ w.xsel = s.view.right.xsel
  BY ZenonT(20), <1>1, ViewChanges DEF Fields
<1>3. t = [s EXCEPT !.list = x, !.view = y]
  BY DEF ListAndSel
<1> HIDE DEF w
<1>4. x \in [Side -> Seq(Item)] /\ y \in [Side -> View] /\ y.right = w /\ x.right = p
  BY <1>1, <1>2
<1> HIDE DEF x, y
<1>5. /\ t \in Client /\ t.dialog = s.dialog /\ t.moving = s.moving /\ t.cur = s.cur
      /\ t.view = y /\ t.list = x /\ t.synced = s.synced /\ t.files = s.files
  BY <1>3, <1>4 DEF Client
<1>6. Keeps(s, t)
  BY <1>2, <1>4, <1>5 DEF Keeps, MarkOk
<1> QED BY <1>2, <1>4, <1>5, <1>6

-----------------------------------------------------------------------------
(* The commands of the user                                                *)

LEMMA RowsAre ==
  ASSUME InterfaceAssumption, NEW s \in Client, NEW d \in Side
  PROVE  Rows(s, d) \in Nat \ {0}
<1>1. s.layout \in Layout
  BY ClientIs
<1> QED BY <1>1 DEF InterfaceAssumption, Rows

LEMMA MovingIs ==
  ASSUME NEW v \in View, NEW req \in Requests, NEW n \in Nat, NEW h \in Nat
  PROVE  Moving(v, req, n, h) \in View /\ Moving(v, req, n, h).mark = v.mark
<1> DEFINE half == (h - 1) \div 2
           To(i) == [v EXCEPT !.sel = i, !.xsel = 0]
           Up(t, i) == [To(i) EXCEPT !.top = t]
<1>1. /\ v.top \in Int /\ v.sel \in Int /\ v.xsel \in Int /\ half \in Int
      /\ Lowest(v) \in Int /\ Highest(v) \in Int
  BY ViewIs DEF Lowest, Highest, Least, Most
<1>2. /\ Most(0, v.top - half) \in Int /\ Most(0, v.top - (h - 1)) \in Int
      /\ ScrolledDown(v.top, half, n, h) \in Int /\ ScrolledDown(v.top, h - 1, n, h) \in Int
  BY <1>1 DEF Most, ScrolledDown
<1> HIDE DEF half
<1>3. ASSUME NEW i \in Int PROVE To(i) \in View /\ To(i).mark = v.mark
  <2>1. PICK z \in Int : z = 0
    OBVIOUS
  <2>2. Fields([v EXCEPT !.sel = i, !.xsel = z], v.top, i, z, v.mark)
    BY ViewChanges
  <2> QED BY <2>1, <2>2 DEF Fields
<1>4. ASSUME NEW t \in Int, NEW i \in Int PROVE Up(t, i) \in View /\ Up(t, i).mark = v.mark
  <2>1. PICK w \in View : w = To(i) /\ w.mark = v.mark
    BY <1>3
  <2>2. Fields([w EXCEPT !.top = t], t, w.sel, w.xsel, w.mark)
    BY ViewChanges
  <2> QED BY <2>1, <2>2 DEF Fields
<1> HIDE DEF To
<1>5. Moving(v, req, n, h) =
        CASE req = "collapse" -> [v EXCEPT !.xsel = 0]
          [] req = "up" -> To(IF Lowest(v) < 0 THEN n - 1 ELSE Lowest(v) - 1)
          [] req = "down" -> To(IF Highest(v) < 0 THEN 0 ELSE Highest(v) + 1)
          [] req = "scroll_up" -> Up(Most(0, v.top - half), Lowest(v) - half)
          [] req = "pgup" -> Up(Most(0, v.top - (h - 1)), Lowest(v) - (h - 1))
          [] req = "scroll_down" -> Up(ScrolledDown(v.top, half, n, h), Highest(v) + half)
          [] req = "pgdown" -> Up(ScrolledDown(v.top, h - 1, n, h), Highest(v) + h - 1)
          [] req = "top" -> To(0)
          [] req = "bottom" -> To(n - 1)
          [] req = "xup" -> IF v.sel > 0 THEN [v EXCEPT !.sel = @ - 1, !.xsel = @ + 1] ELSE v
          [] req = "xdown" -> IF v.sel >= 0 /\ v.sel + 1 < n
                              THEN [v EXCEPT !.sel = @ + 1, !.xsel = @ - 1] ELSE v
  BY DEF Moving, To, half
<1> HIDE DEF Up
<1>6. CASE req \in {"collapse", "xup", "xdown"}
  <2>1. PICK z \in Int : z = 0
    OBVIOUS
  <2>2. Fields([v EXCEPT !.xsel = z], v.top, v.sel, z, v.mark)
    BY ViewChanges
  <2>3. PICK a \in Int, b \in Int : a = v.sel - 1 /\ b = v.xsel + 1
    BY <1>1
  <2>4. Fields([v EXCEPT !.sel = a, !.xsel = b], v.top, a, b, v.mark)
    BY ViewChanges
  <2>5. PICK c \in Int, d \in Int : c = v.sel + 1 /\ d = v.xsel - 1
    BY <1>1
  <2>6. Fields([v EXCEPT !.sel = c, !.xsel = d], v.top, c, d, v.mark)
    BY ViewChanges
  <2>7. CASE req = "collapse"
    BY <1>5, <2>1, <2>2, <2>7 DEF Fields
  <2>8. CASE req = "xup"
    BY <1>5, <2>3, <2>4, <2>8 DEF Fields
  <2>9. CASE req = "xdown"
    BY <1>5, <2>5, <2>6, <2>9 DEF Fields
  <2> QED BY <1>6, <2>7, <2>8, <2>9
<1>7. CASE req \in {"up", "down", "top", "bottom"}
  <2>1. /\ (IF Lowest(v) < 0 THEN n - 1 ELSE Lowest(v) - 1) \in Int
        /\ (IF Highest(v) < 0 THEN 0 ELSE Highest(v) + 1) \in Int /\ 0 \in Int /\ n - 1 \in Int
    BY <1>1
  <2>2. CASE req = "up"
    BY <1>3, <1>5, <2>1, <2>2
  <2>3. CASE req = "down"
    BY <1>3, <1>5, <2>1, <2>3
  <2>4. CASE req = "top"
    BY <1>3, <1>5, <2>1, <2>4
  <2>5. CASE req = "bottom"
    BY <1>3, <1>5, <2>1, <2>5
  <2> QED BY <1>7, <2>2, <2>3, <2>4, <2>5
<1>8. CASE req \in {"scroll_up", "pgup", "scroll_down", "pgdown"}
  <2>1. /\ Lowest(v) - half \in Int /\ Lowest(v) - (h - 1) \in Int
        /\ Highest(v) + half \in Int /\ Highest(v) + h - 1 \in Int
    BY <1>1
  <2>2. CASE req = "scroll_up"
    BY <1>2, <1>4, <1>5, <2>1, <2>2
  <2>3. CASE req = "pgup"
    BY <1>2, <1>4, <1>5, <2>1, <2>3
  <2>4. CASE req = "scroll_down"
    BY <1>2, <1>4, <1>5, <2>1, <2>4
  <2>5. CASE req = "pgdown"
    BY <1>2, <1>4, <1>5, <2>1, <2>5
  <2> QED BY <1>8, <2>2, <2>3, <2>4, <2>5
<1> QED BY <1>6, <1>7, <1>8 DEF Requests

LEMMA SelectionMovedIs ==
  ASSUME NEW v \in View, NEW req \in Requests, NEW n \in Nat, NEW h \in Nat
  PROVE  SelectionMoved(v, req, n, h) \in View /\ SelectionMoved(v, req, n, h).mark = v.mark
<1>1. FromMark(v, n) \in View /\ FromMark(v, n).mark = v.mark
  <2>1. PICK i \in Int, z \in Int : i = (IF v.mark \in 0..n - 1 THEN v.mark ELSE v.sel) /\ z = 0
    BY ViewIs
  <2>2. Fields([v EXCEPT !.sel = i, !.xsel = z], v.top, i, z, v.mark)
    BY ViewChanges
  <2>3. FromMark(v, n) = IF v.sel >= 0 THEN v ELSE [v EXCEPT !.sel = i, !.xsel = z]
    <3>1. [v EXCEPT !.xsel = 0, !.sel = IF v.mark \in 0..n - 1 THEN v.mark ELSE @]
            = [v EXCEPT !.sel = i, !.xsel = z]
      BY <2>1 DEF View
    <3> QED BY <3>1 DEF FromMark
  <2> QED BY <2>2, <2>3 DEF Fields
<1>2. CASE n = 0
  BY <1>2 DEF SelectionMoved
<1>3. CASE n # 0
  <2>1. PICK w \in View : w = Moving(FromMark(v, n), req, n, h) /\ w.mark = v.mark
    BY <1>1, MovingIs
  <2>2. PICK i \in Int : i = Clamped(w.sel, n)
    BY ViewIs DEF Clamped, Least, Most
  <2>3. Fields([w EXCEPT !.sel = i], w.top, i, w.xsel, w.mark)
    BY ViewChanges
  <2>4. SelectionMoved(v, req, n, h) = [w EXCEPT !.sel = i]
    BY <1>3, <2>1, <2>2 DEF SelectionMoved
  <2> QED BY <2>1, <2>3, <2>4 DEF Fields
<1> QED BY <1>2, <1>3

LEMMA MoveSelectionKeeps ==
  ASSUME InterfaceAssumption, NEW s \in Client, NEW d \in Side, NEW req \in Requests
  PROVE  Keeps(s, MoveSelection(s, d, req)) /\ Passes(s, Redraw(MoveSelection(s, d, req)))
<1> DEFINE v == SelectionMoved(s.view[d], req, Size(s, d), Rows(s, d))
           t == [s EXCEPT !.view[d] = v]
<1>1. s.view[d] \in View /\ Size(s, d) \in Nat /\ Rows(s, d) \in Nat
  BY ClientIs, RowsAre
<1>2. v \in View /\ v.mark = s.view[d].mark
  BY <1>1, SelectionMovedIs
<1>3. MoveSelection(s, d, req) = t
  BY DEF MoveSelection
<1> HIDE DEF v
<1>4. Keeps(s, t)
  BY <1>2, ViewKeeps
<1> HIDE DEF t
<1> QED BY <1>3, <1>4, LoudPasses

(* A record with only its fields missed or moving changed.                 *)
LEMMA MissedKeeps ==
  ASSUME NEW s, NEW t, Keeps(s, t), NEW b \in BOOLEAN, b = (t.missed \/ ~t.redraw)
  PROVE  Passes(s, [t EXCEPT !.missed = b])
BY DEF Passes, Keeps, Quiet, Client, MarkOk

LEMMA ContentsIn ==
  ASSUME InterfaceAssumption, NEW s \in Client
  PROVE  Contents(s) \in Seq(Item)
<1> DEFINE p == ItemsAt(s.list.left, ActiveRange(s))
           c == [k \in DOMAIN p |-> Content(s, p[k])]
<1>1. p \in Seq(Item)
  <2>1. s.view[s.active] \in View
    BY ClientIs
  <2>2. ActiveRange(s) \in Int \X Int
    BY <2>1, SelectionIs DEF ActiveRange
  <2> QED BY <2>2, ClientIs, ItemsAtIn
<1> HIDE DEF p
<1>2. DOMAIN p = 1..Len(p) /\ Len(p) \in Nat /\ \A k \in 1..Len(p) : p[k] \in Item
  BY <1>1, LenProperties, ElementOfSeq
<1>3. ASSUME NEW f \in Item PROVE Content(s, f) \in Seq(Item)
  <2>1. <<f>> \in Seq(Item) /\ <<>> \in Seq(Item) /\ Loaded \in Seq(Item) /\ InOrder(s.files) \in Seq(Item)
    BY SongsAre, InOrderIn
  <2> QED BY <2>1 DEF Content
<1>4. c \in [1..Len(p) -> Seq(Item)]
  BY <1>2, <1>3
<1>5. c \in Seq(Seq(Item))
  BY <1>2, <1>4, SeqFrom
<1>6. Contents(s) = FlattenSeq(c)
  BY DEF Contents, p
<1> HIDE DEF c
<1> QED BY <1>5, <1>6, FlattenIn

LEMMA OnSelectionPasses ==
  ASSUME NEW s \in Client, NEW t, Passes(s, t)
  PROVE  Passes(s, OnSelection(s, t))
<1>1. Passes(s, s)
  BY PassesItself
<1>2. Passes(s, Fault(s))
  BY DEF Passes, Keeps, Quiet, SamePanels, Fault, Client, MarkOk
<1> QED BY <1>1, <1>2 DEF OnSelection

LEMMA AddToPlistPasses ==
  ASSUME InterfaceAssumption, NEW s \in Client, NEW atEnd \in BOOLEAN
  PROVE  Passes(s, AddToPlist(s, atEnd))
<1> DEFINE new == Contents(s)
           pos == IF atEnd THEN -1 ELSE s.cur.idx + 1
           size == Size(s, "right")
           ins == [s EXCEPT !.list.right = Inserted(@, new, pos)]
           there == IF s.synced
                    THEN SelectItem(s, "right", IF atEnd THEN size ELSE pos)
                    ELSE Redraw(SelectItem(ins, "right", IF atEnd THEN size - 1 ELSE pos))
           moved == MoveSelection(there, "left", "down")
           b == moved.missed \/ ~moved.redraw
           last == [moved EXCEPT !.missed = b]
<1>1. pos \in Int /\ size \in Nat /\ "right" \in Side /\ "left" \in Side
  BY ClientIs DEF Side
<1>2. Keeps(s, ins) /\ ins \in Client
  <2>1. Inserted(s.list.right, new, pos) \in Seq(Item)
    BY ClientIs, ContentsIn, InsertedIn
  <2> HIDE DEF new, pos
  <2> QED BY <2>1, ClientIs DEF Keeps, Client, MarkOk, Side
<1> HIDE DEF ins, size, pos
<1>3. Keeps(s, there) /\ there \in Client
  <2>1. CASE s.synced
    <3>1. (IF atEnd THEN size ELSE pos) \in Int
      BY <1>1
    <3>2. Passes(s, SelectItem(s, "right", IF atEnd THEN size ELSE pos))
      BY <1>1, <3>1, SelectItemPasses
    <3> QED BY <2>1, <3>2 DEF Passes, Keeps
  <2>2. CASE ~s.synced
    <3>1. (IF atEnd THEN size - 1 ELSE pos) \in Int
      BY <1>1
    <3>2. Keeps(ins, SelectItem(ins, "right", IF atEnd THEN size - 1 ELSE pos))
      BY <1>1, <1>2, <3>1, SelectItemPasses DEF Passes
    <3>3. Keeps(s, SelectItem(ins, "right", IF atEnd THEN size - 1 ELSE pos))
      BY <1>2, <3>2, KeepsOn
    <3>4. Keeps(s, there)
      BY <2>2, <3>3, LoudPasses DEF Passes
    <3> QED BY <3>4 DEF Keeps
  <2> QED BY <2>1, <2>2
<1> HIDE DEF there
<1>4. Keeps(s, moved) /\ b \in BOOLEAN
  <2>1. "down" \in Requests
    BY DEF Requests
  <2>2. Keeps(there, moved)
    BY <1>1, <1>3, <2>1, MoveSelectionKeeps
  <2>3. Keeps(s, moved)
    BY <1>3, <2>2, KeepsOn
  <2>4. moved \in Client
    BY <2>3 DEF Keeps
  <2> QED BY <2>3, <2>4 DEF Client
<1> HIDE DEF moved
<1>5. Passes(s, last)
  <2>1. b = (moved.missed \/ ~moved.redraw)
    OBVIOUS
  <2> HIDE DEF b
  <2> QED BY <1>4, <2>1, MissedKeeps
<1>6. AddToPlist(s, atEnd) = IF s.active = "right" THEN s
                             ELSE OnSelection(s, IF new = <<>> THEN s ELSE last)
  BY DEF AddToPlist, moved, there, ins, size, pos
<1>7. Passes(s, s)
  BY PassesItself
<1>8. Passes(s, IF new = <<>> THEN s ELSE last)
  BY <1>5, <1>7
<1> HIDE DEF last, new
<1>9. Passes(s, OnSelection(s, IF new = <<>> THEN s ELSE last))
  BY <1>8, OnSelectionPasses
<1> QED BY <1>6, <1>7, <1>9

LEMMA RangeIs ==
  ASSUME NEW s \in Client
  PROVE  /\ ActiveRange(s) \in Int \X Int /\ ActiveRange(s)[1] \in Int /\ ActiveRange(s)[2] \in Int
         /\ ActiveRange(s)[1] <= ActiveRange(s)[2]
<1>1. s.view[s.active] \in View
  BY ClientIs
<1>2. ActiveRange(s) = Selection(s.view[s.active])
  BY DEF ActiveRange
<1>3. ActiveRange(s) \in Int \X Int /\ ActiveRange(s)[1] <= ActiveRange(s)[2]
  BY <1>1, <1>2, SelectionIs
<1> QED BY <1>3

LEMMA DeleteItemPasses ==
  ASSUME NEW s \in Client
  PROVE  Passes(s, DeleteItem(s))
<1> DEFINE r == ActiveRange(s)
           cut == [s EXCEPT !.list.right = Removed(@, r[1], r[2] - r[1] + 1)]
           t == IF s.synced THEN s ELSE Redraw(cut)
<1>1. r[1] \in Int /\ r[2] \in Int
  BY RangeIs
<1> HIDE DEF r
<1>2. Keeps(s, cut)
  <2>1. r[2] - r[1] + 1 \in Int /\ s.list.right \in Seq(Item)
    BY <1>1, ClientIs
  <2>2. Removed(s.list.right, r[1], r[2] - r[1] + 1) \in Seq(Item)
    BY <1>1, <2>1, RemovedIn
  <2> QED BY <2>2, ClientIs DEF Keeps, Client, MarkOk, Side
<1> HIDE DEF cut
<1>3. Passes(s, t) /\ t \in Client
  <2>1. Passes(s, Redraw(cut)) /\ Passes(s, s)
    BY <1>2, LoudPasses, PassesItself
  <2> QED BY <2>1 DEF Passes, Keeps
<1> HIDE DEF t
<1>4. Passes(t, SelectItem(t, "right", r[1]))
  BY <1>1, <1>3, SelectItemPasses DEF Side
<1>5. DeleteItem(s) = IF s.active = "left" \/ r[1] < 0 THEN s ELSE SelectItem(t, "right", r[1])
  BY DEF DeleteItem, t, cut, r
<1> QED BY <1>3, <1>4, <1>5, PassesOn, PassesItself

LEMMA ClearPlistPasses ==
  ASSUME InterfaceAssumption, NEW s \in Client, NEW t \in ClearPlist(s)
  PROVE  Passes(s, t)
<1>1. \A p \in Playlists : p \in Seq(Item)
  BY SongsAre
<1>2. <<>> \in Seq(Item)
  OBVIOUS
<1>3. CASE s.synced
  <2> DEFINE u == DropSync(s)  a == [u EXCEPT !.list.right = <<>>]
  <2>1. t = Redraw(a)
    BY <1>3 DEF ClearPlist
  <2>2. Passes(s, u) /\ u \in Client
    BY DropSyncPasses DEF Passes, Keeps
  <2> HIDE DEF u
  <2>3. Keeps(u, a)
    BY <1>2, <2>2, ClientIs DEF Keeps, Client, MarkOk, Side
  <2>4. Keeps(s, a)
    BY <2>2, <2>3, KeepsOn DEF Passes
  <2> HIDE DEF a
  <2> QED BY <2>1, <2>4, LoudPasses
<1>4. CASE ~s.synced /\ s.list.right # <<>>
  <2> DEFINE a == [s EXCEPT !.list.right = <<>>]
  <2>1. t = Redraw(a)
    BY <1>4 DEF ClearPlist
  <2>2. Keeps(s, a)
    BY <1>2, ClientIs DEF Keeps, Client, MarkOk, Side
  <2> HIDE DEF a
  <2> QED BY <2>1, <2>2, LoudPasses
<1>5. CASE ~s.synced /\ s.list.right = <<>>
  <2>1. PICK p \in Playlists : t = Redraw([s EXCEPT !.list.right = p, !.synced = TRUE, !.ask = TRUE])
    BY <1>5 DEF ClearPlist
  <2> DEFINE a == [s EXCEPT !.list.right = p, !.synced = TRUE, !.ask = TRUE]
  <2>2. p \in Seq(Item)
    BY <1>1
  <2>3. Keeps(s, a)
    BY <2>2, ClientIs DEF Keeps, Client, MarkOk, Side
  <2>4. t = Redraw(a)
    BY <2>1
  <2> HIDE DEF a
  <2> QED BY <2>3, <2>4, LoudPasses
<1> QED BY <1>3, <1>4, <1>5

LEMMA SyncPasses ==
  ASSUME NEW s \in Client, NEW b \in BOOLEAN
  PROVE  Passes(s, [s EXCEPT !.synced = b])
BY DEF Passes, Keeps, Quiet, SamePanels, Client, MarkOk

LEMMA GoPasses ==
  ASSUME InterfaceAssumption, NEW s \in Client
  PROVE  Passes(s, Go(s))
<1> DEFINE v == s.view[s.active]
           f == ActiveList(s)[v.sel + 1]
           synced == [s EXCEPT !.synced = TRUE]
<1>1. Passes(s, s) /\ Passes(s, LoadPlaylist(s))
  BY PassesItself, LoadPlaylistPasses
<1>2. Passes(s, synced)
  <2>1. TRUE \in BOOLEAN
    OBVIOUS
  <2> QED BY SyncPasses
<1>3. Type(f) = "dir" => Passes(s, GoToDir(s, f))
  <2>1. Type(f) = "dir" => f \in {"top", "sub"}
    BY DEF Type
  <2> HIDE DEF f
  <2> QED BY <2>1, GoToDirPasses
<1>4. Go(s) = IF v.xsel # 0 \/ v.sel \notin Indices(ActiveList(s)) THEN s
              ELSE CASE Type(f) = "song" -> IF s.active = "left" THEN s ELSE synced
                     [] Type(f) = "dir" -> GoToDir(s, f)
                     [] OTHER -> LoadPlaylist(s)
  BY DEF Go
<1>5. Type(f) \in {"song", "dir", "list"}
  BY DEF Type
<1> HIDE DEF f, v, synced
<1> QED BY <1>1, <1>2, <1>3, <1>4, <1>5

LEMMA GoToPlayingFilePasses ==
  ASSUME InterfaceAssumption, NEW s \in Client
  PROVE  Passes(s, GoToPlayingFile(s))
<1> DEFINE a == GoToDir(s, "top")  b == SelectPath(a, s.cur.file)
<1>1. Passes(s, a) /\ a \in Client
  BY GoToDirPasses DEF Passes, Keeps
<1> HIDE DEF a
<1>2. Passes(s, b) /\ b \in Client
  <2>1. Passes(a, b)
    BY <1>1, SelectPathPasses
  <2>2. Passes(s, b)
    BY <1>1, <2>1, PassesOn
  <2> QED BY <2>2 DEF Passes, Keeps
<1> HIDE DEF b
<1>3. Passes(s, GoToDirPlist(b))
  BY <1>2, GoToDirPlistPasses, PassesOn
<1>4. Passes(s, SelectItem(s, "right", s.cur.idx))
  BY ClientIs, SelectItemPasses DEF Side
<1> QED BY <1>3, <1>4, PassesItself DEF GoToPlayingFile, a, b

LEMMA GoDirUpPasses ==
  ASSUME InterfaceAssumption, NEW s \in Client
  PROVE  Passes(s, GoDirUp(s))
BY GoToDirPasses, PassesItself DEF GoDirUp

LEMMA SwitchesPass ==
  ASSUME NEW s \in Client
  PROVE  /\ Passes(s, Redraw([s EXCEPT !.active = Other(@)]))
         /\ Passes(s, Redraw([s EXCEPT !.layout = NextLayout[@]]))
<1>1. Other(s.active) \in Side
  <2>1. \E t \in Side : t # s.active
    BY DEF Side
  <2> QED BY <2>1 DEF Other
<1>2. Keeps(s, [s EXCEPT !.active = Other(@)])
  <2>1. PICK d \in Side : d = Other(s.active)
    BY <1>1
  <2> QED BY <2>1, ActivePasses
<1>3. NextLayout[s.layout] \in Layout
  BY ClientIs DEF NextLayout, Layout
<1>4. Keeps(s, [s EXCEPT !.layout = NextLayout[@]])
  BY <1>3 DEF Keeps, Client, MarkOk
<1> QED BY <1>2, <1>4, LoudPasses

-----------------------------------------------------------------------------
(* What holds of the client between its steps                              *)

(* A dialog that no event and no drag touched is about the same items.     *)
About(s) == s.dialog.fn # None /\ ~s.dialog.touched /\ s.dialog.fn # "save"
DialogOk(s) ==
  About(s) => /\ InList(s.dialog.range, ActiveList(s))
              /\ s.dialog.range[1] <= s.dialog.range[2]
              /\ DialogItems(s) = s.dialog.about

(* A move that is not reported yet is about the items still selected.      *)
MoveOk(s) ==
  LET r == Selection(s.view.right)
      m == s.moving
  IN m # NoMove =>
       /\ s.active = "right" /\ r[1] >= 0 /\ r[2] < Size(s, "right")
       /\ m.i \in Indices(s.list.right)
       /\ (m.i = r[2] + 1 /\ m.j = r[1]) \/ (m.i = r[1] - 1 /\ m.j = r[2])

Good(s) == s \in Client /\ MarkOk(s) /\ DialogOk(s) /\ MoveOk(s)

(* What commands start from: nothing is moved, and a dialog was touched.   *)
Ready(s) == Good(s) /\ ~About(s) /\ s.moving = NoMove

LEMMA PassesGood ==
  ASSUME NEW s, NEW t, Ready(s), Passes(s, t)
  PROVE  Good(t) /\ Quiet(s, t)
BY DEF Ready, Passes, Keeps, Good, About, DialogOk, MoveOk

(* The view of the playlist, its list and the active panel are all that a  *)
(* move and a dialog rest on.                                              *)
LEMMA OpenedIs ==
  ASSUME NEW s, Ready(s), NEW fn \in {"tag", "mv", "rm"},
         ActiveRange(s)[1] >= 0, InList(ActiveRange(s), ActiveList(s))
  PROVE  Good(Opened(s, fn)) /\ Quiet(s, Opened(s, fn))
<1> DEFINE d == [fn |-> fn, range |-> ActiveRange(s), about |-> ActiveItems(s),
                 asks |-> fn = "rm", touched |-> FALSE]
           a == [s EXCEPT !.dialog = d]  t == Redraw(a)
<1>1. s \in Client
  BY DEF Ready, Good
<1>2. ActiveRange(s) \in Int \X Int /\ ActiveRange(s)[1] <= ActiveRange(s)[2]
  BY <1>1, RangeIs
<1>3. ActiveItems(s) \in Seq(Item)
  <2>1. ActiveList(s) \in Seq(Item)
    BY <1>1, ClientIs DEF ActiveList
  <2> QED BY <1>2, <2>1, ItemsAtIn DEF ActiveItems
<1>4. /\ d \in [fn : {None, "tag", "mv", "rm", "save"}, range : Int \X Int,
                about : Seq(Item), asks : BOOLEAN, touched : BOOLEAN]
      /\ d.range = ActiveRange(s) /\ d.about = ActiveItems(s)
  BY <1>2, <1>3
<1>5. Opened(s, fn) = t
  BY DEF Opened
<1> HIDE DEF d
<1>6. /\ t \in Client /\ t.dialog = d /\ t.list = s.list /\ t.view = s.view /\ t.active = s.active
      /\ t.moving = s.moving /\ t.cur = s.cur /\ t.redraw
  BY <1>1, <1>4 DEF Client, Redraw
<1> HIDE DEF t
<1>7. ActiveList(t) = ActiveList(s)
  BY <1>6 DEF ActiveList
<1>8. DialogOk(t)
  <2>1. DialogItems(t) = ActiveItems(s)
    BY <1>4, <1>6, <1>7 DEF DialogItems, ActiveItems
  <2>2. InList(t.dialog.range, ActiveList(t)) /\ t.dialog.range[1] <= t.dialog.range[2]
    BY <1>2, <1>4, <1>6, <1>7
  <2>3. t.dialog.about = ActiveItems(s)
    BY <1>4, <1>6
  <2> QED BY <2>1, <2>2, <2>3 DEF DialogOk
<1>9. MarkOk(t) /\ MoveOk(t) /\ Quiet(s, t)
  BY <1>6 DEF Ready, Good, MarkOk, MoveOk, Quiet
<1> QED BY <1>5, <1>6, <1>8, <1>9 DEF Good

LEMMA OpenDialogGood ==
  ASSUME NEW s, Ready(s), NEW fn \in {"tag", "mv", "rm"}
  PROVE  Good(OpenDialog(s, fn)) /\ Quiet(s, OpenDialog(s, fn))
<1>1. s \in Client
  BY DEF Ready, Good
<1>2. Passes(s, s)
  BY <1>1, PassesItself
<1>3. Passes(s, Fault(s))
  BY <1>1 DEF Passes, Keeps, Quiet, SamePanels, Fault, Client, MarkOk
<1>4. Good(s) /\ Quiet(s, s) /\ Good(Fault(s)) /\ Quiet(s, Fault(s))
  BY <1>2, <1>3, PassesGood
<1>5. CASE ActiveRange(s)[1] >= 0 /\ InList(ActiveRange(s), ActiveList(s))
  <2>1. Good(Opened(s, fn)) /\ Quiet(s, Opened(s, fn))
    BY <1>5, OpenedIs
  <2>2. OpenDialog(s, fn) \in {Opened(s, fn), s, Fault(s)}
    BY DEF OpenDialog, OnSelection
  <2> QED BY <1>4, <2>1, <2>2
<1>6. CASE ActiveRange(s)[1] < 0 \/ ~InList(ActiveRange(s), ActiveList(s))
  <2>1. OpenDialog(s, fn) \in {s, Fault(s)}
    BY <1>6 DEF OpenDialog, OnSelection
  <2> QED BY <1>4, <2>1
<1>7. ActiveRange(s)[1] \in Int
  BY <1>1, RangeIs
<1> QED BY <1>5, <1>6, <1>7

(* A dialog that is about no items is put, or taken away.                  *)
LEMMA DialogPut ==
  ASSUME NEW s \in Client, MarkOk(s), MoveOk(s),
         NEW d \in [fn : {None, "tag", "mv", "rm", "save"}, range : Int \X Int,
                    about : Seq(Item), asks : BOOLEAN, touched : BOOLEAN],
         d.fn \in {None, "save"}, NEW t, t = Redraw([s EXCEPT !.dialog = d])
  PROVE  Good(t) /\ t.redraw
<1>1. /\ t \in Client /\ t.dialog = d /\ t.list = s.list /\ t.view = s.view /\ t.active = s.active
      /\ t.moving = s.moving /\ t.cur = s.cur /\ t.redraw
  BY DEF Client, Redraw
<1>2. DialogOk(t)
  BY <1>1 DEF DialogOk, About
<1>3. MarkOk(t) /\ MoveOk(t)
  BY <1>1 DEF MarkOk, MoveOk, Size
<1> QED BY <1>1, <1>2, <1>3 DEF Good

LEMMA NoDialogIs ==
  /\ NoDialog \in [fn : {None, "tag", "mv", "rm", "save"}, range : Int \X Int,
                   about : Seq(Item), asks : BOOLEAN, touched : BOOLEAN]
  /\ [NoDialog EXCEPT !.fn = "save"]
       \in [fn : {None, "tag", "mv", "rm", "save"}, range : Int \X Int,
            about : Seq(Item), asks : BOOLEAN, touched : BOOLEAN]
  /\ NoDialog.fn = None /\ [NoDialog EXCEPT !.fn = "save"].fn = "save"
<1>1. <<>> \in Seq(Item) /\ -1 \in Int
  OBVIOUS
<1> DEFINE D == [fn : {None, "tag", "mv", "rm", "save"}, range : Int \X Int,
                 about : Seq(Item), asks : BOOLEAN, touched : BOOLEAN]
<1>2. NoDialog \in D /\ NoDialog.fn = None
  BY <1>1 DEF NoDialog
<1>3. \A d \in D : [d EXCEPT !.fn = "save"] \in D /\ [d EXCEPT !.fn = "save"].fn = "save"
  OBVIOUS
<1> HIDE DEF D
<1>4. [NoDialog EXCEPT !.fn = "save"] \in D /\ [NoDialog EXCEPT !.fn = "save"].fn = "save"
  BY Zenon, <1>2, <1>3
<1> QED BY <1>2, <1>4 DEF D

LEMMA SavePlistGood ==
  ASSUME NEW s, Ready(s)
  PROVE  Good(SavePlist(s)) /\ Quiet(s, SavePlist(s))
<1>1. s \in Client /\ MarkOk(s) /\ MoveOk(s)
  BY DEF Ready, Good
<1> DEFINE d == [NoDialog EXCEPT !.fn = "save"]  t == Redraw([s EXCEPT !.dialog = d])
<1>2. d \in [fn : {None, "tag", "mv", "rm", "save"}, range : Int \X Int,
             about : Seq(Item), asks : BOOLEAN, touched : BOOLEAN] /\ d.fn \in {None, "save"}
  BY NoDialogIs
<1> HIDE DEF d
<1>3. Good(t) /\ t.redraw
  BY <1>1, <1>2, DialogPut
<1>4. Good(s) /\ Quiet(s, s)
  BY <1>1, PassesItself, PassesGood
<1>5. SavePlist(s) = IF s.list.right = <<>> THEN s ELSE t
  BY DEF SavePlist, d
<1> HIDE DEF t
<1> QED BY <1>3, <1>4, <1>5 DEF Quiet

LEMMA MoveItemGood ==
  ASSUME NEW s, Ready(s), NEW dir \in {1, -1}
  PROVE  Good(MoveItem(s, dir)) /\ Quiet(s, MoveItem(s, dir))
<1> DEFINE r == ActiveRange(s)
           i == IF dir > 0 THEN r[2] + 1 ELSE r[1] - 1
           j == IF dir > 0 THEN r[1] ELSE r[2]
           out == s.active = "left" \/ r[1] < 0 \/ r[2] >= Size(s, "right")
                  \/ i \notin Indices(s.list.right)
           m == [i |-> i, j |-> j]
           a == [s EXCEPT !.moving = m]
           b == [s EXCEPT !.list.right = Moved(@, i, j), !.view.right.sel = @ + dir]
<1>1. s \in Client /\ dir \in Int
  BY DEF Ready, Good
<1>2. r[1] \in Int /\ r[2] \in Int /\ r[1] <= r[2]
  BY <1>1, RangeIs
<1>3. MoveItem(s, dir) = IF out THEN s ELSE IF s.synced THEN a ELSE Redraw(b)
  BY DEF MoveItem
<1>4. CASE out
  <2>1. Passes(s, s)
    BY <1>1, PassesItself
  <2> QED BY <1>3, <1>4, <2>1, PassesGood
<1>5. CASE ~out
  <2>1. /\ s.active = "right" /\ ~(r[1] < 0) /\ ~(r[2] >= Size(s, "right"))
        /\ i \in Indices(s.list.right)
    BY <1>1, <1>5, ClientIs DEF Side
  <2>2. r = Selection(s.view.right) /\ Size(s, "right") \in Nat /\ i \in Int /\ j \in Int
    BY <1>1, <1>2, <2>1, ClientIs DEF ActiveRange, Side
  <2>3. CASE s.synced
    <3>1. (i = r[2] + 1 /\ j = r[1]) \/ (i = r[1] - 1 /\ j = r[2])
      OBVIOUS
    <3>2. m \in [i : Int, j : Int] /\ m.i = i /\ m.j = j
      BY <2>2
    <3> HIDE DEF m, i, j
    <3>3. /\ a \in Client /\ a.dialog = s.dialog /\ a.list = s.list /\ a.view = s.view
          /\ a.active = s.active /\ a.layout = s.layout /\ a.cur = s.cur
          /\ a.redraw = s.redraw /\ a.missed = s.missed /\ a.moving = m
      BY <1>1, <3>2 DEF Client
    <3>4. MarkOk(a) /\ DialogOk(a) /\ Quiet(s, a)
      BY <3>3 DEF Ready, Good, MarkOk, DialogOk, About, Quiet, SamePanels
    <3>5. MoveOk(a)
      <4>1. r[1] >= 0 /\ r[2] < Size(s, "right")
        BY <1>2, <2>1, <2>2
      <4>2. Selection(a.view.right) = r /\ Size(a, "right") = Size(s, "right")
        BY <2>2, <3>3 DEF Size
      <4> HIDE DEF r, a
      <4> QED BY <2>1, <3>1, <3>2, <3>3, <4>1, <4>2 DEF MoveOk
    <3> HIDE DEF a, out
    <3> QED BY <1>3, <1>5, <2>3, <3>3, <3>4, <3>5 DEF Good
  <2>4. CASE ~s.synced
    <3>1. s.list.right \in Seq(Item) /\ s.list \in [Side -> Seq(Item)]
          /\ s.view \in [Side -> View] /\ s.view.right \in View /\ "right" \in Side
      BY <1>1, ClientIs DEF Side
    <3>2. Moved(s.list.right, i, j) \in Seq(Item)
      <4>1. j \in Indices(s.list.right)
        <5>1. r[1] >= 0 /\ r[2] < Size(s, "right") /\ r[1] < Size(s, "right")
          BY <1>2, <2>1, <2>2
        <5>2. j \in {r[1], r[2]}
          OBVIOUS
        <5> HIDE DEF r, j
        <5> QED BY <1>2, <2>2, <5>1, <5>2 DEF Indices, Size
      <4> HIDE DEF i, j
      <4>2. CASE i = j
        BY <3>1, <4>2 DEF Moved
      <4>3. CASE i # j
        BY <2>1, <3>1, <4>1, <4>3, MovedIn
      <4> QED BY <4>2, <4>3
    <3> DEFINE q == Moved(s.list.right, i, j)
               k == s.view.right.sel + dir
    <3>3. k \in Int
      BY <1>1, <3>1, ViewIs
    <3>4. b = ListAndSel(s, q, k)
      BY DEF ListAndSel
    <3> HIDE DEF q, k, i, j, m, b
    <3>9. Keeps(s, b)
      BY <1>1, <3>2, <3>3, <3>4, ListAndSelPut DEF q
    <3>10. Passes(s, Redraw(b))
      BY <3>9, LoudPasses
    <3> HIDE DEF out, a
    <3> QED BY <1>3, <1>5, <2>4, <3>10, PassesGood
  <2> QED BY <2>3, <2>4
<1> QED BY <1>4, <1>5

LEMMA CommandGood ==
  ASSUME InterfaceAssumption, NEW s, Ready(s), NEW k \in Keys, NEW t \in Commands(s)[k]
  PROVE  Good(t) /\ Quiet(s, t)
<1>1. s \in Client
  BY DEF Ready, Good
<1>2. k \in {"move", "panel", "layout", "go", "add", "delete", "shift", "clear", "desync", "dialog"}
  BY DEF InterfaceAssumption
<1>3. CASE k = "move"
  <2>1. t \in {Redraw(MoveSelection(s, s.active, req)) : req \in Requests \ {"collapse"}}
    BY <1>3 DEF Commands
  <2>2. PICK req \in Requests : t = Redraw(MoveSelection(s, s.active, req))
    BY <2>1
  <2>3. Passes(s, t)
    BY <1>1, <2>2, ClientIs, MoveSelectionKeeps
  <2> QED BY <2>3, PassesGood
<1>4. CASE k = "panel"
  <2>1. t = Redraw([s EXCEPT !.active = Other(@)])
    BY <1>4 DEF Commands
  <2> QED BY <1>1, <2>1, SwitchesPass, PassesGood
<1>5. CASE k = "layout"
  <2>1. t = Redraw([s EXCEPT !.layout = NextLayout[@]])
    BY <1>5 DEF Commands
  <2> QED BY <1>1, <2>1, SwitchesPass, PassesGood
<1>6. CASE k = "go"
  <2>1. t \in {Go(s), GoDirUp(s), GoToPlayingFile(s), Reload(s)}
    BY <1>6 DEF Commands
  <2>2. Passes(s, t)
    BY <1>1, <2>1, GoPasses, GoDirUpPasses, GoToPlayingFilePasses, ReloadPasses
  <2> QED BY <2>2, PassesGood
<1>7. CASE k = "add"
  <2>1. t \in {AddToPlist(s, TRUE), AddToPlist(s, FALSE)}
    BY <1>7 DEF Commands
  <2>2. PICK b \in BOOLEAN : t = AddToPlist(s, b)
    BY <2>1
  <2> QED BY <1>1, <2>2, AddToPlistPasses, PassesGood
<1>8. CASE k = "delete"
  <2>1. t = DeleteItem(s)
    BY <1>8 DEF Commands
  <2> QED BY <1>1, <2>1, DeleteItemPasses, PassesGood
<1>9. CASE k = "shift"
  <2>1. t \in {MoveItem(s, 1), MoveItem(s, -1)}
    BY <1>9 DEF Commands
  <2>2. PICK dir \in {1, -1} : t = MoveItem(s, dir)
    BY <2>1
  <2> QED BY <2>2, MoveItemGood
<1>10. CASE k = "clear"
  <2>1. t \in ClearPlist(s)
    BY <1>10 DEF Commands
  <2> QED BY <1>1, <2>1, ClearPlistPasses, PassesGood
<1>11. CASE k = "desync"
  <2>1. t = IF s.synced THEN DropSync(s) ELSE s
    BY <1>11 DEF Commands
  <2> QED BY <1>1, <2>1, DropSyncPasses, PassesItself, PassesGood
<1>12. CASE k = "dialog"
  <2>1. t \in {SavePlist(s)} \cup {OpenDialog(s, fn) : fn \in {"tag", "mv", "rm"}}
    BY <1>12 DEF Commands
  <2>2. CASE t = SavePlist(s)
    BY <2>2, SavePlistGood
  <2>3. CASE t # SavePlist(s)
    <3>1. PICK fn \in {"tag", "mv", "rm"} : t = OpenDialog(s, fn)
      BY <2>1, <2>3
    <3> QED BY <3>1, OpenDialogGood
  <2> QED BY <2>2, <2>3
<1> QED BY <1>2, <1>3, <1>4, <1>5, <1>6, <1>7, <1>8, <1>9, <1>10, <1>11, <1>12

-----------------------------------------------------------------------------
(* The events of the server                                                *)

LEMMA ReloadIs ==
  ASSUME InterfaceAssumption, NEW s, NEW t, Keeps(s, t)
  PROVE  Passes(s, Reload(t)) /\ Reload(t).redraw /\ Reload(t).files = t.files
<1> DEFINE a == [t EXCEPT !.cwd = t.cwd, !.list.left = Listing(t.cwd, t.files)]
<1>1. t \in Client
  BY DEF Keeps
<1>2. Reload(t) = Redraw(a)
  BY DEF Reload, GoToDir
<1>3. Keeps(t, a) /\ a.files = t.files
  <2>1. Listing(t.cwd, t.files) \in Seq(Item)
    BY ListingIn
  <2> QED BY <1>1, <2>1, ClientIs DEF Keeps, Client, MarkOk, Side
<1> HIDE DEF a
<1>4. Keeps(s, a) /\ a \in Client
  BY <1>3, KeepsOn DEF Keeps
<1> QED BY <1>2, <1>3, <1>4, LoudPasses, RedrawPasses

LEMMA EvAddIs ==
  ASSUME NEW s \in Client, NEW f \in s.files, InterfaceAssumption, NEW idx \in Int
  PROVE  /\ Passes(s, EvAdd(s, <<f>>, idx))
         /\ EvAdd(s, <<f>>, idx).list.right = Inserted(s.list.right, <<f>>, idx)
         /\ EvAdd(s, <<f>>, idx).cur.idx = IndexAfterAdd(s.cur.idx, <<f>>, idx)
         /\ EvAdd(s, <<f>>, idx).synced = s.synced
<1> DEFINE q == Inserted(s.list.right, <<f>>, idx)
           t == [s EXCEPT !.list.right = q]
           i == IndexAfterAdd(s.cur.idx, <<f>>, idx)
           u == UpdateIndex(t, i)
<1>1. s.list.right \in Seq(Item) /\ s.cur.idx \in Int /\ <<f>> \in Seq(Item) /\ Len(<<f>>) = 1
  BY ClientIs, SongsAre
<1>2. q \in Seq(Item)
  BY <1>1, InsertedIn
<1>3. i \in Int
  BY <1>1 DEF IndexAfterAdd
<1>4. EvAdd(s, <<f>>, idx) = Redraw(u)
  <2>1. [s EXCEPT !.list.right = Inserted(@, <<f>>, idx)] = t
    OBVIOUS
  <2> HIDE DEF t
  <2> QED BY <2>1 DEF EvAdd
<1>a. q = Inserted(s.list.right, <<f>>, idx) /\ i = IndexAfterAdd(s.cur.idx, <<f>>, idx)
  OBVIOUS
<1> HIDE DEF q, i
<1>5. Keeps(s, t) /\ t.list.right = q /\ t.synced = s.synced
  BY <1>2, ListPut
<1> HIDE DEF t
<1>6. Passes(s, Redraw(u)) /\ u \in Client /\ u.cur.idx = i /\ u.list = t.list /\ u.synced = t.synced
  BY <1>3, <1>5, IndexUpdated
<1> HIDE DEF u
<1> QED BY <1>4, <1>5, <1>6, <1>a, RedrawPasses DEF SamePanels

LEMMA EvDelIs ==
  ASSUME NEW s \in Client, NEW at \in Int, NEW n \in Int
  PROVE  /\ Passes(s, EvDel(s, at, n))
         /\ EvDel(s, at, n).list.right = Removed(s.list.right, at, n)
         /\ EvDel(s, at, n).cur.idx = IndexAfterDel(s.cur.idx, at, n)
         /\ EvDel(s, at, n).synced = s.synced
<1> DEFINE q == Removed(s.list.right, at, n)
           t == [s EXCEPT !.list.right = q]
           i == IndexAfterDel(s.cur.idx, at, n)
           u == UpdateIndex(t, i)
<1>1. s.list.right \in Seq(Item) /\ s.cur.idx \in Int
  BY ClientIs
<1>2. q \in Seq(Item)
  BY <1>1, RemovedIn
<1>3. i \in Int
  BY <1>1 DEF IndexAfterDel, Most
<1>4. EvDel(s, at, n) = Redraw(u)
  <2>1. [s EXCEPT !.list.right = Removed(@, at, n)] = t
    OBVIOUS
  <2> HIDE DEF t
  <2> QED BY <2>1 DEF EvDel
<1>a. q = Removed(s.list.right, at, n) /\ i = IndexAfterDel(s.cur.idx, at, n)
  OBVIOUS
<1> HIDE DEF q, i
<1>5. Keeps(s, t) /\ t.list.right = q /\ t.synced = s.synced
  BY <1>2, ListPut
<1> HIDE DEF t
<1>6. Passes(s, Redraw(u)) /\ u \in Client /\ u.cur.idx = i /\ u.list = t.list /\ u.synced = t.synced
  BY <1>3, <1>5, IndexUpdated
<1> HIDE DEF u
<1> QED BY <1>4, <1>5, <1>6, <1>a, RedrawPasses DEF SamePanels

LEMMA EvMoveIs ==
  ASSUME NEW s \in Client, NEW a \in Indices(s.list.right), NEW b \in Indices(s.list.right)
  PROVE  LET t == EvMove(s, a, b) IN
         /\ Passes(s, t)
         /\ t.list.right = Moved(s.list.right, a, b)
         /\ t.cur.idx = IndexAfterMove(s.cur.idx, a, b)
         /\ t.synced = s.synced
         /\ t.view.right.sel = s.view.right.sel + Along(s, a, b)
         /\ t.view.right.xsel = s.view.right.xsel
<1> DEFINE q == Moved(s.list.right, a, b)
           k == s.view.right.sel + Along(s, a, b)
           t == [s EXCEPT !.list.right = q, !.view.right.sel = k]
           i == IndexAfterMove(s.cur.idx, a, b)
           u == UpdateIndex(t, i)
<1>1. s.list.right \in Seq(Item) /\ s.cur.idx \in Int /\ s.view.right.sel \in Int
  BY ClientIs, ViewIs
<1>2. q \in Seq(Item)
  <2>1. CASE a = b
    BY <1>1, <2>1 DEF Moved
  <2>2. CASE a # b
    BY <1>1, <2>2, MovedIn
  <2> QED BY <2>1, <2>2
<1>3. i \in Int /\ k \in Int
  <2>1. a \in Int /\ b \in Int
    BY <1>1, LenProperties DEF Indices
  <2>2. Along(s, a, b) \in {0, 1, -1}
    BY DEF Along
  <2> QED BY <1>1, <2>1, <2>2 DEF IndexAfterMove
<1>4. EvMove(s, a, b) = Redraw(u)
  <2>1. [s EXCEPT !.list.right = Moved(@, a, b), !.view.right.sel = @ + Along(s, a, b)] = t
    OBVIOUS
  <2> HIDE DEF t
  <2> QED BY <2>1 DEF EvMove
<1>a. q = Moved(s.list.right, a, b) /\ i = IndexAfterMove(s.cur.idx, a, b)
      /\ k = s.view.right.sel + Along(s, a, b)
  OBVIOUS
<1>b. t = ListAndSel(s, q, k)
  BY DEF ListAndSel
<1> HIDE DEF q, i, k, t
<1>5. Keeps(s, t) /\ t.list.right = q /\ t.synced = s.synced
      /\ t.view.right.sel = k /\ t.view.right.xsel = s.view.right.xsel
  BY <1>2, <1>3, <1>b, ListAndSelPut
<1>6. Passes(s, Redraw(u)) /\ u \in Client /\ u.cur.idx = i /\ u.list = t.list /\ u.synced = t.synced
      /\ u.view.right.sel = t.view.right.sel /\ u.view.right.xsel = t.view.right.xsel
  BY <1>3, <1>5, IndexUpdated
<1> HIDE DEF u
<1> QED BY <1>4, <1>5, <1>6, <1>a, RedrawPasses DEF SamePanels

ListAndFiles(s, p, F) == [s EXCEPT !.list.right = p, !.files = F]

LEMMA FilesPut ==
  ASSUME NEW s \in Client, NEW p \in Seq(Item), NEW F, F \subseteq Song,
         NEW t, t = ListAndFiles(s, p, F)
  PROVE  Keeps(s, t) /\ t \in Client /\ t.files = F /\ t.cur = s.cur
BY ClientIs DEF ListAndFiles, Keeps, Client, MarkOk, Side

LEMMA EvRmIs ==
  ASSUME InterfaceAssumption, NEW s \in Client, NEW F
  PROVE  Passes(s, EvRm(s, F)) /\ EvRm(s, F).files = s.files \ F
<1> DEFINE p == s.list.right
           K == Staying(p, F)
           q == Without(p, F)
           G == s.files \ F
           t == [s EXCEPT !.list.right = q, !.files = G]
           i == IndexAfterRm(p, F, s.cur.idx)
           u == UpdateIndex(t, i)
<1>1. p \in Seq(Item) /\ s.cur.idx \in Int /\ G \subseteq Song /\ Len(p) \in Nat /\ DOMAIN p = 1..Len(p)
  BY ClientIs, LenProperties
<1> HIDE DEF p, G
<1>2. K \subseteq 1..Len(p)
  BY <1>1 DEF Staying
<1>3. q \in Seq(Item)
  BY <1>1, <1>2, KeepingIn DEF Without
<1>4. i \in Int
  <2> DEFINE B(k) == Cardinality({j \in K : j < k})
             C == {k \in K : s.cur.idx - B(k) > k - 1}
  <2>1. i = s.cur.idx - Cardinality(C)
    BY DEF IndexAfterRm
  <2>2. C \subseteq 1..Len(p)
    BY <1>2
  <2> HIDE DEF C, K
  <2>3. IsFiniteSet(1..Len(p))
    BY <1>1, IntervalIs
  <2>4. IsFiniteSet(C)
    BY <2>2, <2>3, FS_Subset
  <2>5. Cardinality(C) \in Nat
    BY <2>4, FS_CardinalityType
  <2> HIDE DEF i
  <2> QED BY <1>1, <2>1, <2>5
<1>5. EvRm(s, F) = Reload(u)
  <2>1. [s EXCEPT !.list.right = Without(@, F), !.files = @ \ F] = t
    BY DEF p, G
  <2> HIDE DEF t, i
  <2> QED BY <2>1 DEF EvRm, p, i
<1>b. t = ListAndFiles(s, q, G)
  BY DEF ListAndFiles
<1> HIDE DEF q, i, t
<1>6. Keeps(s, t) /\ t.files = G
  BY <1>1, <1>3, <1>b, FilesPut
<1>7. Keeps(s, u) /\ u.files = G
  BY <1>4, <1>6, IndexUpdated
<1> HIDE DEF u
<1> QED BY <1>5, <1>7, ReloadIs DEF G

LEMMA EvModIs ==
  ASSUME InterfaceAssumption, NEW s \in Client, NEW f \in s.files, NEW g \in Song \ s.files
  PROVE  Passes(s, EvMod(s, f, g)) /\ EvMod(s, f, g).files # s.files
<1> DEFINE q == ReplaceAll(s.list.right, f, g)
           G == (s.files \ {f}) \cup {g}
           t == [s EXCEPT !.list.right = q, !.files = G]
<1>1. /\ s.list.right \in Seq(Item) /\ s.files \subseteq Song /\ Len(s.list.right) \in Nat
      /\ \A k \in 1..Len(s.list.right) : s.list.right[k] \in Item
  BY ClientIs, LenProperties, ElementOfSeq
<1>2. g \in Item /\ G \subseteq Song
  BY <1>1, SongsAre
<1>3. q \in [1..Len(s.list.right) -> Item]
  BY <1>1, <1>2 DEF ReplaceAll
<1>4. q \in Seq(Item)
  BY <1>1, <1>3, SeqFrom
<1>5. EvMod(s, f, g) = Reload(t)
  <2>1. [s EXCEPT !.list.right = ReplaceAll(@, f, g), !.files = (@ \ {f}) \cup {g}] = t
    OBVIOUS
  <2> HIDE DEF t
  <2> QED BY <2>1 DEF EvMod
<1>6. G # s.files
  OBVIOUS
<1>b. t = ListAndFiles(s, q, G)
  BY DEF ListAndFiles
<1> HIDE DEF q, G, t
<1>7. Keeps(s, t) /\ t.files = G
  BY <1>2, <1>4, <1>b, FilesPut
<1> QED BY <1>5, <1>6, <1>7, ReloadIs

(* The events, in the client's words.                                      *)
LEMMA EventIs ==
  ASSUME NEW s, NEW t \in Events(s)
  PROVE  \/ /\ Follows(s)
            /\ \/ \E f \in s.files, idx \in -1..Size(s, "right") : t = EvAdd(s, <<f>>, idx)
               \/ \E i \in Indices(s.list.right) : \E n \in 1..Size(s, "right") - i : t = EvDel(s, i, n)
               \/ \E i, j \in Indices(s.list.right) : t = EvMove(s, i, j)
         \/ \E F \in (SUBSET s.files) \ {{}} : t = EvRm(s, F)
         \/ \E f \in s.files, g \in Song \ s.files : t = EvMod(s, f, g)
         \/ t = [s EXCEPT !.want = @ \/ s.synced]
         \/ t = [s EXCEPT !.ask = TRUE]
<1> DEFINE A == {EvAdd(s, <<f>>, idx) : f \in s.files, idx \in -1..Size(s, "right")}
           D == UNION {{EvDel(s, i, n) : n \in 1..Size(s, "right") - i} : i \in Indices(s.list.right)}
           M == {EvMove(s, i, j) : i, j \in Indices(s.list.right)}
           R == {EvRm(s, F) : F \in (SUBSET s.files) \ {{}}}
           X == {EvMod(s, f, g) : f \in s.files, g \in Song \ s.files}
           v == [s EXCEPT !.want = @ \/ s.synced]
           w == [s EXCEPT !.ask = TRUE]
           W == {v, w}
<1>1. t \in (IF ~Follows(s) THEN {} ELSE A \cup D \cup M) \cup R \cup X \cup W
  BY DEF Events
<1>2. t \in A => \E f \in s.files, idx \in -1..Size(s, "right") : t = EvAdd(s, <<f>>, idx)
  <2> DEFINE I == -1..Size(s, "right")
  <2> HIDE DEF I
  <2>1. t \in {EvAdd(s, <<f>>, idx) : f \in s.files, idx \in I}
          => \E f \in s.files, idx \in I : t = EvAdd(s, <<f>>, idx)
    OBVIOUS
  <2> QED BY <2>1 DEF I
<1>3. t \in D => \E i \in Indices(s.list.right) : \E n \in 1..Size(s, "right") - i : t = EvDel(s, i, n)
  OBVIOUS
<1>4. t \in M => \E i, j \in Indices(s.list.right) : t = EvMove(s, i, j)
  OBVIOUS
<1>5. t \in R => \E F \in (SUBSET s.files) \ {{}} : t = EvRm(s, F)
  OBVIOUS
<1>6. t \in X => \E f \in s.files, g \in Song \ s.files : t = EvMod(s, f, g)
  OBVIOUS
<1>7. t \in W => t = v \/ t = w
  <2> HIDE DEF v, w
  <2> QED OBVIOUS
<1> HIDE DEF A, D, M, R, X, W
<1> QED BY <1>1, <1>2, <1>3, <1>4, <1>5, <1>6, <1>7

LEMMA EventPasses ==
  ASSUME InterfaceAssumption, NEW s \in Client, NEW t \in Events(s)
  PROVE  Passes(s, t)
<1>1. Size(s, "right") \in Nat /\ \A i \in Indices(s.list.right) : i \in Int
  BY ClientIs, LenProperties DEF Indices, Size
<1>2. CASE \E f \in s.files, idx \in -1..Size(s, "right") : t = EvAdd(s, <<f>>, idx)
  <2>1. PICK f \in s.files, idx \in -1..Size(s, "right") : t = EvAdd(s, <<f>>, idx)
    BY <1>2
  <2>2. idx \in Int
    BY <1>1
  <2> QED BY <2>1, <2>2, EvAddIs
<1>3. CASE \E i \in Indices(s.list.right) : \E n \in 1..Size(s, "right") - i : t = EvDel(s, i, n)
  <2>1. PICK i \in Indices(s.list.right) : \E n \in 1..Size(s, "right") - i : t = EvDel(s, i, n)
    BY <1>3
  <2>2. PICK n \in 1..Size(s, "right") - i : t = EvDel(s, i, n)
    BY <2>1
  <2>3. i \in Int /\ n \in Int
    BY <1>1
  <2> QED BY <2>2, <2>3, EvDelIs
<1>4. CASE \E i, j \in Indices(s.list.right) : t = EvMove(s, i, j)
  BY <1>4, EvMoveIs
<1>5. CASE \E F \in (SUBSET s.files) \ {{}} : t = EvRm(s, F)
  BY <1>5, EvRmIs
<1>6. CASE \E f \in s.files, g \in Song \ s.files : t = EvMod(s, f, g)
  BY <1>6, EvModIs
<1>7. CASE t = [s EXCEPT !.want = @ \/ s.synced] \/ t = [s EXCEPT !.ask = TRUE]
  <2>1. \A b \in BOOLEAN : Passes(s, [s EXCEPT !.want = b]) /\ Passes(s, [s EXCEPT !.ask = b])
    BY ZenonT(20) DEF Passes, Keeps, Quiet, SamePanels, Client, MarkOk
  <2>2. (s.want \/ s.synced) \in BOOLEAN /\ TRUE \in BOOLEAN
    BY DEF Client
  <2> QED BY <1>7, <2>1, <2>2
<1> QED BY <1>2, <1>3, <1>4, <1>5, <1>6, <1>7, EventIs

-----------------------------------------------------------------------------
(* The keyboard, the mouse and the events                                  *)

ShownInv ==
  ~client.redraw /\ ~client.missed /\ ~client.fault
    => /\ shown = Picture(client) /\ PanelFor(client) = client.active
       /\ \A d \in Drawn(client) : Seen(d)

(* TypeOK says client \in Client, that is Good(client) but for the rest.    *)
IInv == TypeOK /\ Good(client) /\ ShownInv

(* A step that asks to be drawn, or leaves the panels as they are.         *)
LEMMA ShownStays ==
  ASSUME ShownInv, ~client.fault, Quiet(client, client'), shown' = shown
  PROVE  ShownInv'
<1> SUFFICES ASSUME ~client'.redraw, ~client'.missed, ~client'.fault
             PROVE  /\ shown' = Picture(client') /\ PanelFor(client') = client'.active
                    /\ \A d \in Drawn(client') : Seen(d)'
  BY DEF ShownInv
<1>1. /\ client'.list = client.list /\ client'.view = client.view
      /\ client'.active = client.active /\ client'.layout = client.layout
      /\ ~client.redraw /\ ~client.missed
  BY DEF Quiet, SamePanels
<1>2. /\ shown = Picture(client) /\ PanelFor(client) = client.active
      /\ \A d \in Drawn(client) : Seen(d)
  BY <1>1 DEF ShownInv
<1>3. Drawn(client') = Drawn(client)
  BY <1>1 DEF Drawn
<1>4. Picture(client') = Picture(client)
  BY <1>1, <1>3 DEF Picture
<1>5. PanelFor(client') = PanelFor(client)
  BY <1>1 DEF PanelFor, ActiveList
<1>6. ASSUME NEW d, Seen(d) PROVE Seen(d)'
  BY <1>1, <1>6 DEF Seen, Size, Rows
<1> QED BY <1>1, <1>2, <1>3, <1>4, <1>5, <1>6

LEMMA ActsStep ==
  ASSUME IInv, ~client.fault, shown' = shown,
         menu' \in BOOLEAN, dragging' \in BOOLEAN, keys' \in Nat, events' \in Nat,
         Good(client'), Quiet(client, client')
  PROVE  IInv'
<1>1. ShownInv'
  BY ShownStays DEF IInv
<1>2. client' \in Client /\ shown' \in [Side -> {<<>>} \cup (Seq(Item) \X View)]
  BY DEF IInv, TypeOK, Good
<1> QED BY <1>1, <1>2 DEF IInv, TypeOK, Good, MarkOk, DialogOk, MoveOk, About, DialogItems,
          ActiveList, InList, ItemsAt, Selection, Size, Indices

LEMMA RestIs ==
  ASSUME Good(client)
  PROVE  /\ Good(AtRest) /\ AtRest.moving = NoMove /\ SamePanels(client, AtRest)
         /\ AtRest.redraw = client.redraw /\ AtRest.missed = client.missed
         /\ AtRest.dialog = client.dialog /\ AtRest.fault = client.fault
         /\ AtRest.cur = client.cur /\ AtRest.synced = client.synced
         /\ AtRest.files = client.files /\ AtRest.want = client.want
<1> DEFINE s == AtRest
<1>1. NoMove \in [i : Int, j : Int]
  BY DEF NoMove
<1>2. /\ s \in Client /\ s.moving = NoMove /\ SamePanels(client, s)
      /\ s.redraw = client.redraw /\ s.missed = client.missed
      /\ s.dialog = client.dialog /\ s.fault = client.fault
      /\ s.cur = client.cur /\ s.synced = client.synced
      /\ s.files = client.files /\ s.want = client.want
  BY <1>1 DEF Good, Client, SamePanels, AtRest
<1> HIDE DEF s
<1>3. MarkOk(s) /\ MoveOk(s)
  BY <1>2 DEF Good, MarkOk, MoveOk, SamePanels
<1>4. DialogOk(s)
  BY <1>2 DEF Good, DialogOk, SamePanels, About, DialogItems, ActiveList
<1> QED BY <1>2, <1>3, <1>4 DEF Good, s

LEMMA QuietFrom ==
  ASSUME NEW a, NEW s, NEW t, SamePanels(a, s), s.redraw = a.redraw, s.missed = a.missed,
         Quiet(s, t)
  PROVE  Quiet(a, t)
BY DEF Quiet, SamePanels

LEMMA RedrawGood ==
  ASSUME NEW s, Good(s)
  PROVE  Good(Redraw(s)) /\ Quiet(s, Redraw(s)) /\ Redraw(s).dialog = s.dialog
<1>1. /\ Redraw(s) \in Client /\ Redraw(s).redraw /\ SamePanels(s, Redraw(s))
      /\ Redraw(s).dialog = s.dialog /\ Redraw(s).moving = s.moving /\ Redraw(s).cur = s.cur
  BY RedrawPasses DEF Good, Passes, Keeps
<1>2. MarkOk(Redraw(s)) /\ MoveOk(Redraw(s)) /\ DialogOk(Redraw(s))
  BY <1>1 DEF Good, MarkOk, MoveOk, DialogOk, SamePanels, About, DialogItems, ActiveList, Size
<1> QED BY <1>1, <1>2 DEF Good, Quiet

LEMMA GoodQuiet ==
  ASSUME NEW s, Good(s)
  PROVE  Quiet(s, s)
BY DEF Quiet, SamePanels

(* The dialog's question is answered; an item outside of a list is met.    *)
LEMMA AsksGood ==
  ASSUME NEW s, Good(s), NEW b \in BOOLEAN, NEW t, t = [s EXCEPT !.dialog.asks = b]
  PROVE  Good(Redraw(t)) /\ Quiet(s, Redraw(t))
<1> DEFINE d == [s.dialog EXCEPT !.asks = b]
           D == [fn : {None, "tag", "mv", "rm", "save"}, range : Int \X Int,
                 about : Seq(Item), asks : BOOLEAN, touched : BOOLEAN]
<1>1. s \in Client /\ s.dialog \in D
  BY DEF Good, Client
<1>2. /\ d \in D /\ d.fn = s.dialog.fn /\ d.range = s.dialog.range /\ d.about = s.dialog.about
      /\ d.touched = s.dialog.touched
  BY <1>1
<1>3. t = [s EXCEPT !.dialog = d]
  OBVIOUS
<1> HIDE DEF d
<1>4. /\ t \in Client /\ t.dialog = d /\ SamePanels(s, t) /\ t.moving = s.moving /\ t.cur = s.cur
  BY <1>1, <1>2, <1>3 DEF Client, SamePanels
<1>5. Good(t)
  <2>1. MarkOk(t) /\ MoveOk(t)
    BY <1>4 DEF Good, MarkOk, MoveOk, SamePanels, Size
  <2>2. DialogOk(t)
    BY <1>2, <1>4 DEF Good, DialogOk, SamePanels, About, DialogItems, ActiveList
  <2> QED BY <1>4, <2>1, <2>2 DEF Good
<1>6. Good(Redraw(t))
  BY <1>5, RedrawGood
<1>7. Redraw(t).redraw
  BY <1>4, RedrawPasses
<1> QED BY <1>6, <1>7 DEF Quiet

LEMMA FaultGood ==
  ASSUME NEW s, Good(s)
  PROVE  Good(Fault(s)) /\ Quiet(s, Fault(s))
<1>1. /\ Fault(s) \in Client /\ SamePanels(s, Fault(s)) /\ Fault(s).dialog = s.dialog
      /\ Fault(s).moving = s.moving /\ Fault(s).cur = s.cur
      /\ Fault(s).redraw = s.redraw /\ Fault(s).missed = s.missed
  BY DEF Good, Client, Fault, SamePanels
<1>2. MarkOk(Fault(s)) /\ MoveOk(Fault(s)) /\ DialogOk(Fault(s))
  BY <1>1 DEF Good, MarkOk, MoveOk, DialogOk, SamePanels, About, DialogItems, ActiveList, Size
<1> QED BY <1>1, <1>2 DEF Good, Quiet, SamePanels

LEMMA ClosedGood ==
  ASSUME NEW s, Good(s), s.moving = NoMove, NEW u, Keeps(s, u)
  PROVE  Good(Closed(u)) /\ Quiet(s, Closed(u))
<1>1. Closed(u) = Redraw([u EXCEPT !.dialog = NoDialog])
  BY DEF Closed
<1>2. u \in Client /\ MarkOk(u) /\ MoveOk(u)
  BY DEF Good, Keeps, MoveOk
<1>3. NoDialog.fn \in {None, "save"}
  BY NoDialogIs
<1>4. Good(Closed(u)) /\ Closed(u).redraw
  BY <1>1, <1>2, <1>3, NoDialogIs, DialogPut
<1> QED BY <1>4 DEF Quiet

LEMMA AnswerGood ==
  ASSUME InterfaceAssumption, NEW s, Good(s), s.moving = NoMove, s.dialog.fn # None,
         NEW t \in Accepted(s) \cup {Refused(s), Closed(s)}
  PROVE  Good(t) /\ Quiet(s, t)
<1>1. s \in Client /\ Keeps(s, s) /\ s.active \in Side
  BY PassesItself, ClientIs DEF Good, Passes
<1>2. Good(Closed(s)) /\ Quiet(s, Closed(s))
  BY <1>1, ClosedGood
<1>3. Good(Closed(Reload(s))) /\ Quiet(s, Closed(Reload(s)))
  <2>1. Keeps(s, Reload(s))
    BY <1>1, ReloadPasses DEF Passes
  <2> QED BY <2>1, ClosedGood
<1>4. Good(Closed(Deselected(s))) /\ Quiet(s, Closed(Deselected(s)))
  <2>1. "collapse" \in Requests
    BY DEF Requests
  <2>2. Keeps(s, Deselected(s))
    BY <1>1, <2>1, MoveSelectionKeeps DEF Deselected, Passes
  <2> QED BY <2>2, ClosedGood
<1>5. Good(Fault(s)) /\ Quiet(s, Fault(s))
  BY FaultGood
<1> DEFINE yes == [s EXCEPT !.dialog.asks = TRUE]  no == [s EXCEPT !.dialog.asks = FALSE]
<1>6. Good(Redraw(yes)) /\ Quiet(s, Redraw(yes)) /\ Good(Redraw(no)) /\ Quiet(s, Redraw(no))
  <2>1. \A b \in BOOLEAN : LET u == [s EXCEPT !.dialog.asks = b] IN Good(Redraw(u)) /\ Quiet(s, Redraw(u))
    BY AsksGood
  <2> QED BY Zenon, <2>1
<1>7. t \in {Closed(s), Closed(Reload(s)), Closed(Deselected(s)), Fault(s), Redraw(yes), Redraw(no)}
  <2>1. s.dialog.fn \in {"tag", "mv", "rm", "save"}
    BY <1>1 DEF Client
  <2>2. Refused(s) \in {Redraw(no), Closed(s)}
    BY DEF Refused
  <2>3. Accepted(s) \subseteq {Closed(s), Closed(Reload(s)), Closed(Deselected(s)), Fault(s), Redraw(yes)}
    <3> HIDE DEF yes
    <3>1. Accepted(s) =
            IF s.dialog.fn = "save" THEN {Closed(s), Closed(Reload(s)), Redraw(yes)}
            ELSE IF ~InList(s.dialog.range, ActiveList(s)) THEN {Fault(s)}
            ELSE CASE s.dialog.fn = "tag" -> {Closed(s)}
                   [] s.dialog.fn = "mv" -> {Closed(s)} \cup (IF HasDir(s) THEN {} ELSE {Closed(Deselected(s))})
                   [] s.dialog.fn = "rm" -> {IF HasDir(s) THEN Closed(s) ELSE Closed(Deselected(s))}
      BY DEF Accepted, yes
    <3>2. CASE s.dialog.fn = "save"
      BY <3>1, <3>2
    <3>3. CASE s.dialog.fn # "save" /\ ~InList(s.dialog.range, ActiveList(s))
      BY <3>1, <3>3
    <3>4. CASE s.dialog.fn # "save" /\ InList(s.dialog.range, ActiveList(s))
      <4>1. CASE s.dialog.fn = "tag"
        BY <3>1, <3>4, <4>1
      <4>2. CASE s.dialog.fn = "mv"
        BY <3>1, <3>4, <4>2
      <4>3. CASE s.dialog.fn = "rm"
        BY <3>1, <3>4, <4>3
      <4> QED BY <2>1, <3>4, <4>1, <4>2, <4>3
    <3> QED BY <3>2, <3>3, <3>4
  <2> HIDE DEF yes, no
  <2> QED BY <2>2, <2>3
<1> HIDE DEF yes, no
<1> QED BY <1>2, <1>3, <1>4, <1>5, <1>6, <1>7

(* The mouse *)
LEMMA RowClickedPasses ==
  ASSUME NEW s \in Client, NEW d \in Side, NEW row \in Int
  PROVE  Passes(s, RowClicked(s, d, row))
<1> DEFINE a == [s EXCEPT !.active = d]
           t == RedrawIf(s.active # d, a)
           i == Most(0, Least(t.view[d].top + row, Size(t, d) - 1))
           v == [t.view[d] EXCEPT !.sel = i, !.xsel = 0]
<1>1. Keeps(s, a)
  BY ActivePasses
<1>2. Passes(s, t)
  <2>1. CASE s.active # d
    <3> HIDE DEF a
    <3> QED BY <1>1, <2>1, LoudPasses DEF RedrawIf
  <2>2. CASE s.active = d
    <3>1. a.list = s.list /\ a.view = s.view /\ a.layout = s.layout /\ a.active = s.active
          /\ a.redraw = s.redraw /\ a.missed = s.missed
      BY <2>2 DEF Client
    <3> HIDE DEF a
    <3> QED BY <1>1, <2>2, <3>1 DEF RedrawIf, Passes, Quiet, SamePanels
  <2> QED BY <2>1, <2>2
<1> HIDE DEF t
<1>3. t \in Client
  BY <1>2 DEF Passes, Keeps
<1>4. i \in Int
  BY <1>3, ClientIs, ViewIs DEF Least, Most
<1>5. RowClicked(s, d, row)
        = RedrawIf(<<t.view[d].sel, t.view[d].xsel>> # <<i, 0>>, [t EXCEPT !.view[d] = v])
  BY DEF RowClicked, t
<1>6. v = [t.view[d] EXCEPT !.sel = i, !.xsel = 0]
  OBVIOUS
<1> HIDE DEF i, v
<1>7. Passes(t, RedrawIf(<<t.view[d].sel, t.view[d].xsel>> # <<i, 0>>, [t EXCEPT !.view[d] = v]))
  BY <1>3, <1>4, <1>6, RowSelected
<1>8. Passes(t, RowClicked(s, d, row))
  BY Zenon, <1>5, <1>7
<1> QED BY <1>2, <1>8, PassesOn

LEMMA TouchGood ==
  ASSUME NEW s, Good(s), NEW b \in BOOLEAN, s.dialog.fn # None => b,
         NEW t, t = [s EXCEPT !.dialog.touched = b]
  PROVE  /\ Good(t) /\ ~About(t) /\ SamePanels(s, t) /\ t.moving = s.moving /\ t.cur = s.cur
         /\ t.redraw = s.redraw /\ t.missed = s.missed /\ t.files = s.files
         /\ t.synced = s.synced /\ t.want = s.want /\ t.fault = s.fault /\ t.ask = s.ask
<1> DEFINE d == [s.dialog EXCEPT !.touched = b]
           D == [fn : {None, "tag", "mv", "rm", "save"}, range : Int \X Int,
                 about : Seq(Item), asks : BOOLEAN, touched : BOOLEAN]
<1>1. s \in Client /\ s.dialog \in D
  BY DEF Good, Client
<1>2. d \in D /\ d.fn = s.dialog.fn /\ d.touched = b
  BY <1>1
<1>3. t = [s EXCEPT !.dialog = d]
  OBVIOUS
<1> HIDE DEF d
<1>4. /\ t \in Client /\ t.dialog = d /\ SamePanels(s, t) /\ t.moving = s.moving /\ t.cur = s.cur
      /\ t.redraw = s.redraw /\ t.missed = s.missed /\ t.files = s.files
      /\ t.synced = s.synced /\ t.want = s.want /\ t.fault = s.fault /\ t.ask = s.ask
  BY <1>1, <1>2, <1>3 DEF Client, SamePanels
<1>5. MarkOk(t) /\ MoveOk(t)
  BY <1>4 DEF Good, MarkOk, MoveOk, SamePanels, Size
<1>6. ~About(t) /\ DialogOk(t)
  BY <1>2, <1>4 DEF DialogOk, About
<1> QED BY <1>4, <1>5, <1>6 DEF Good

LEMMA TouchedIs ==
  ASSUME NEW s, Good(s)
  PROVE  LET t == Touched(s) IN
         /\ Good(t) /\ ~About(t) /\ SamePanels(s, t) /\ t.moving = s.moving /\ t.cur = s.cur
         /\ t.redraw = s.redraw /\ t.missed = s.missed /\ t.files = s.files
         /\ t.synced = s.synced /\ t.want = s.want /\ t.fault = s.fault /\ t.ask = s.ask
<1>1. s.dialog.touched \in BOOLEAN
  BY DEF Good, Client
<1>2. PICK b \in BOOLEAN : b = (s.dialog.touched \/ s.dialog.fn # None)
  BY <1>1
<1>3. Touched(s) = [s EXCEPT !.dialog.touched = b]
  BY <1>2 DEF Touched
<1>4. s.dialog.fn # None => b
  BY <1>2
<1> QED BY <1>3, <1>4, TouchGood

-----------------------------------------------------------------------------
(* The actions                                                             *)

LEMMA PressedIs ==
  ASSUME Pressed, IInv
  PROVE  /\ ~client.fault /\ shown' = shown /\ keys' \in Nat /\ events' \in Nat
         /\ menu \in BOOLEAN /\ dragging \in BOOLEAN /\ Good(client)
BY DEF Pressed, IInv, TypeOK

(* What the client becomes from AtRest, or from a state that shows the same. *)
LEMMA FromRest ==
  ASSUME IInv, NEW s, SamePanels(AtRest, s), s.redraw = AtRest.redraw, s.missed = AtRest.missed,
         Good(client'), Quiet(s, client')
  PROVE  Quiet(client, client')
<1>1. SamePanels(client, AtRest) /\ AtRest.redraw = client.redraw /\ AtRest.missed = client.missed
  BY RestIs DEF IInv
<1>2. SamePanels(client, s) /\ s.redraw = client.redraw /\ s.missed = client.missed
  BY <1>1 DEF SamePanels
<1> QED BY <1>2, QuietFrom

LEMMA AtRestReady ==
  ASSUME Good(client), ~HasDialog
  PROVE  Ready(AtRest)
BY RestIs DEF Ready, About, HasDialog

LEMMA KeyStep ==
  ASSUME InterfaceAssumption, IInv, Key \/ MenuKey
  PROVE  IInv'
<1>1. Pressed /\ ~HasDialog /\ Command(AtRest)
  BY DEF Key, MenuKey
<1>2. menu' \in BOOLEAN /\ dragging' \in BOOLEAN
  BY <1>1, PressedIs DEF Key, MenuKey
<1>3. Ready(AtRest)
  BY AtRestReady, <1>1 DEF IInv
<1>4. PICK k \in Keys : client' \in Commands(AtRest)[k]
  BY <1>1 DEF Command
<1>5. Good(client') /\ Quiet(AtRest, client')
  BY <1>3, <1>4, CommandGood
<1>6. Quiet(client, client')
  BY <1>5, FromRest DEF SamePanels
<1> QED BY <1>1, <1>2, <1>5, <1>6, PressedIs, ActsStep

LEMMA ToggleMenuStep ==
  ASSUME IInv, ToggleMenu
  PROVE  IInv'
<1>1. Pressed /\ client' = Redraw(AtRest) /\ menu' \in BOOLEAN /\ dragging' \in BOOLEAN
  BY PressedIs DEF ToggleMenu
<1>2. Good(AtRest)
  BY RestIs DEF IInv
<1>3. Good(client') /\ Quiet(AtRest, client')
  BY <1>1, <1>2, RedrawGood
<1>4. Quiet(client, client')
  BY <1>3, FromRest DEF SamePanels
<1> QED BY <1>1, <1>3, <1>4, PressedIs, ActsStep

LEMMA DialogKeyStep ==
  ASSUME InterfaceAssumption, IInv, DialogKey
  PROVE  IInv'
<1>1. /\ Pressed /\ HasDialog /\ menu' \in BOOLEAN /\ dragging' \in BOOLEAN
      /\ client' \in Accepted(AtRest) \cup {Refused(AtRest), Closed(AtRest)}
  BY PressedIs DEF DialogKey
<1>2. Good(AtRest) /\ AtRest.moving = NoMove /\ AtRest.dialog.fn # None
  BY <1>1, RestIs DEF IInv, HasDialog
<1>3. Good(client') /\ Quiet(AtRest, client')
  BY <1>1, <1>2, AnswerGood
<1>4. Quiet(client, client')
  BY <1>3, FromRest DEF SamePanels
<1> QED BY <1>1, <1>3, <1>4, PressedIs, ActsStep

LEMMA PressStep ==
  ASSUME IInv, Press
  PROVE  IInv'
<1>1. /\ Pressed /\ client' \in {AtRest, Redraw(AtRest)}
      /\ menu' = (menu \/ ~HasDialog) /\ dragging' = ~HasDialog
  BY DEF Press
<1>2. menu' \in BOOLEAN /\ dragging' \in BOOLEAN
  BY <1>1, PressedIs
<1>3. Good(AtRest) /\ Quiet(AtRest, AtRest)
  BY RestIs, GoodQuiet DEF IInv
<1>4. Good(client') /\ Quiet(AtRest, client')
  BY <1>1, <1>3, RedrawGood
<1>5. Quiet(client, client')
  BY <1>4, FromRest DEF SamePanels
<1> QED BY <1>1, <1>2, <1>4, <1>5, PressedIs, ActsStep

LEMMA ReleaseStep ==
  ASSUME InterfaceAssumption, IInv, Release
  PROVE  IInv'
<1> DEFINE s == [AtRest EXCEPT !.dialog.touched = HasDialog]
<1>1. Pressed /\ menu' \in BOOLEAN /\ dragging' \in BOOLEAN
      /\ (client' = Redraw(s) \/ \E k \in Keys : client' \in Commands(s)[k])
  BY DEF Release, Command
<1>2. Good(AtRest) /\ AtRest.moving = NoMove /\ HasDialog \in BOOLEAN
      /\ (AtRest.dialog.fn # None => HasDialog)
  BY RestIs DEF IInv, HasDialog
<1>3. s = [AtRest EXCEPT !.dialog.touched = HasDialog]
  OBVIOUS
<1> HIDE DEF s
<1>4. /\ Good(s) /\ ~About(s) /\ s.moving = NoMove /\ SamePanels(AtRest, s)
      /\ s.redraw = AtRest.redraw /\ s.missed = AtRest.missed
  <2>1. PICK b \in BOOLEAN : b = HasDialog
    BY <1>2
  <2>2. s = [AtRest EXCEPT !.dialog.touched = b]
    BY <1>3, <2>1
  <2> QED BY <1>2, <2>1, <2>2, TouchGood
<1>5. Good(client') /\ Quiet(s, client')
  <2>1. CASE client' = Redraw(s)
    BY <1>4, <2>1, RedrawGood
  <2>2. CASE \E k \in Keys : client' \in Commands(s)[k]
    <3>1. Ready(s)
      BY <1>4 DEF Ready
    <3> QED BY <2>2, <3>1, CommandGood
  <2> QED BY <1>1, <2>1, <2>2
<1>6. Quiet(client, client')
  BY <1>4, <1>5, FromRest
<1> QED BY <1>1, <1>5, <1>6, PressedIs, ActsStep

LEMMA DrawnIs ==
  ASSUME NEW s \in Client
  PROVE  Drawn(s) \subseteq Side
BY ClientIs DEF Drawn

LEMMA ClickStep ==
  ASSUME InterfaceAssumption, IInv, Click
  PROVE  IInv'
<1>1. Pressed /\ ~HasDialog /\ menu' \in BOOLEAN /\ dragging' \in BOOLEAN
  BY PressedIs DEF Click, DialogTakesClick
<1>2. PICK d \in Drawn(client), twice \in BOOLEAN : \E row \in 0..Rows(client, d) - 1 :
         LET s == RowClicked(AtRest, d, row)
             hit == AtRest.view[d].top + row < Size(s, d)
         IN client' = IF twice /\ hit THEN Go(s) ELSE s
  BY DEF Click
<1>3. PICK row \in 0..Rows(client, d) - 1 :
         client' \in {RowClicked(AtRest, d, row), Go(RowClicked(AtRest, d, row))}
  BY <1>2
<1>4. client \in Client /\ d \in Side /\ row \in Int
  <2>1. client \in Client
    BY DEF IInv, Good
  <2>2. d \in Side
    BY <2>1, DrawnIs
  <2>3. Rows(client, d) \in Nat
    BY <2>1, <2>2, RowsAre
  <2> QED BY <2>1, <2>2, <2>3
<1>5. Ready(AtRest) /\ AtRest \in Client
  BY <1>1, AtRestReady DEF IInv, Ready, Good
<1> DEFINE s == RowClicked(AtRest, d, row)
<1>6. Passes(AtRest, s) /\ s \in Client
  BY <1>4, <1>5, RowClickedPasses DEF Passes, Keeps
<1> HIDE DEF s
<1>7. Passes(AtRest, Go(s))
  BY <1>6, GoPasses, PassesOn
<1>8. Passes(AtRest, client')
  BY <1>3, <1>6, <1>7 DEF s
<1>9. Good(client') /\ Quiet(AtRest, client')
  BY <1>5, <1>8, PassesGood
<1>10. Quiet(client, client')
  BY <1>9, FromRest DEF SamePanels
<1> QED BY <1>1, <1>9, <1>10, PressedIs, ActsStep

LEMMA ScrollStep ==
  ASSUME InterfaceAssumption, IInv, Scroll
  PROVE  IInv'
<1>1. Pressed /\ ~HasDialog /\ menu' \in BOOLEAN /\ dragging' \in BOOLEAN
  BY PressedIs DEF Scroll
<1>2. PICK d \in Drawn(client), req \in {"scroll_up", "scroll_down"} :
         client' = Redraw(MoveSelection([AtRest EXCEPT !.active = d], d, req))
  BY DEF Scroll
<1>3. Ready(AtRest) /\ AtRest \in Client /\ d \in Side /\ req \in Requests
  BY <1>1, AtRestReady, DrawnIs DEF IInv, Ready, Good, Requests
<1> DEFINE s == [AtRest EXCEPT !.active = d]
<1>4. Keeps(AtRest, s) /\ s \in Client
  BY <1>3, ActivePasses DEF Keeps
<1> HIDE DEF s
<1>5. Keeps(AtRest, MoveSelection(s, d, req))
  BY <1>3, <1>4, MoveSelectionKeeps, KeepsOn
<1>6. Passes(AtRest, client')
  BY <1>2, <1>5, LoudPasses DEF s
<1>7. Good(client') /\ Quiet(AtRest, client')
  BY <1>3, <1>6, PassesGood
<1>8. Quiet(client, client')
  BY <1>7, FromRest DEF SamePanels
<1> QED BY <1>1, <1>7, <1>8, PressedIs, ActsStep

LEMMA EventStep ==
  ASSUME InterfaceAssumption, IInv, ServerEvent
  PROVE  IInv'
<1>1. /\ ~client.fault /\ shown' = shown /\ menu' \in BOOLEAN /\ dragging' \in BOOLEAN
      /\ keys' \in Nat /\ events' \in Nat /\ client' \in Events(Touched(AtRest))
  BY DEF ServerEvent, Noticed, IInv, TypeOK
<1>2. Good(AtRest) /\ AtRest.moving = NoMove
  BY RestIs DEF IInv
<1> DEFINE s == Touched(AtRest)
<1>3. /\ Good(s) /\ ~About(s) /\ s.moving = NoMove /\ SamePanels(AtRest, s)
      /\ s.redraw = AtRest.redraw /\ s.missed = AtRest.missed
  BY <1>2, TouchedIs
<1> HIDE DEF s
<1>4. Passes(s, client') /\ Ready(s)
  BY <1>1, <1>3, EventPasses DEF s, Ready, Good
<1>5. Good(client') /\ Quiet(s, client')
  BY <1>4, PassesGood
<1>6. Quiet(client, client')
  BY <1>3, <1>5, FromRest
<1> QED BY <1>1, <1>5, <1>6, ActsStep

-----------------------------------------------------------------------------
(* The end of a turn: what is fetched, and what is drawn                   *)

LEMMA FetchedIs ==
  ASSUME InterfaceAssumption, Good(client), NEW f \in Fetched(client)
  PROVE  /\ Good(f) /\ f.fault = client.fault /\ f.redraw = client.redraw /\ f.view = client.view
         /\ f.redraw \/ f.missed \/ (SamePanels(client, f) /\ f.missed = client.missed)
<1>1. CASE client.want /\ client.synced
  <2> DEFINE t == Touched(client)  m == client.missed \/ ~client.redraw
  <2>1. PICK p \in Playlists : f = [t EXCEPT !.list.right = p, !.want = FALSE, !.moving = NoMove,
                                             !.missed = @ \/ ~client.redraw]
    BY <1>1 DEF Fetched
  <2>2. /\ Good(t) /\ ~About(t) /\ SamePanels(client, t) /\ t.cur = client.cur
        /\ t.redraw = client.redraw /\ t.missed = client.missed /\ t.fault = client.fault
    BY TouchedIs
  <2>3. p \in Seq(Item) /\ t \in Client /\ m \in BOOLEAN /\ NoMove \in [i : Int, j : Int]
    <3>1. p \in Seq(Item)
      BY SongsAre
    <3>2. t \in Client
      BY <2>2 DEF Good
    <3>3. client.missed \in BOOLEAN
      BY DEF Good, Client
    <3>4. NoMove \in [i : Int, j : Int]
      BY DEF NoMove
    <3> HIDE DEF t
    <3> QED BY <3>1, <3>2, <3>3, <3>4
  <2>4. [t EXCEPT !.list.right = p, !.want = FALSE, !.moving = NoMove, !.missed = @ \/ ~client.redraw]
          = [t EXCEPT !.list = [@ EXCEPT !.right = p], !.want = FALSE, !.moving = NoMove, !.missed = m]
    BY <2>2
  <2> HIDE DEF t, m
  <2> DEFINE x == [t.list EXCEPT !.right = p]
  <2>5. x \in [Side -> Seq(Item)]
    BY <2>3, ClientIs
  <2>6. f = [t EXCEPT !.list = x, !.want = FALSE, !.moving = NoMove, !.missed = m]
    BY <2>1, <2>4
  <2> HIDE DEF x
  <2>7. /\ f \in Client /\ f.view = t.view /\ f.dialog = t.dialog /\ f.moving = NoMove /\ f.cur = t.cur
        /\ f.fault = t.fault /\ f.redraw = t.redraw /\ f.missed = m
    BY <2>3, <2>5, <2>6 DEF Client
  <2>8. MarkOk(f) /\ DialogOk(f) /\ MoveOk(f)
    BY <2>2, <2>7 DEF Good, MarkOk, DialogOk, About, MoveOk
  <2> QED BY <2>2, <2>7, <2>8 DEF Good, SamePanels, m
<1>2. CASE ~(client.want /\ client.synced)
  <2>1. f = [client EXCEPT !.want = FALSE]
    BY <1>2 DEF Fetched
  <2>2. /\ f \in Client /\ SamePanels(client, f) /\ f.dialog = client.dialog
        /\ f.moving = client.moving /\ f.cur = client.cur
        /\ f.fault = client.fault /\ f.redraw = client.redraw /\ f.missed = client.missed
    BY <2>1 DEF Good, Client, SamePanels
  <2>3. MarkOk(f) /\ DialogOk(f) /\ MoveOk(f)
    BY <2>2 DEF Good, MarkOk, DialogOk, About, MoveOk, SamePanels, DialogItems, ActiveList, Size
  <2> QED BY <2>2, <2>3 DEF Good, SamePanels
<1> QED BY <1>1, <1>2

LEMMA PlaysIs ==
  ASSUME InterfaceAssumption, NEW insync \in BOOLEAN, NEW song \in Plays(insync)
  PROVE  song \in [file : Item \cup {None}, idx : Int]
<1>1. Playing \subseteq [file : Item, idx : Int]
  BY DEF InterfaceAssumption, Item
<1>2. CASE song = NoSong
  BY <1>2 DEF NoSong
<1>3. CASE \E t \in Playing : song = [t EXCEPT !.idx = IF insync THEN @ ELSE -1]
  BY <1>1, <1>3
<1> QED BY <1>2, <1>3 DEF Plays

LEMMA UpdatedIs ==
  ASSUME InterfaceAssumption, NEW f, Good(f), NEW u \in UpdatedState(f)
  PROVE  /\ u \in Client /\ DialogOk(u) /\ MoveOk(u) /\ SamePanels(f, u)
         /\ u.fault = f.fault /\ u.missed = f.missed /\ (f.redraw => u.redraw)
         /\ u.redraw \/ u.cur = f.cur
         /\ u.moving = NoMove \/ u.cur = f.cur
<1>1. CASE f.ask
  <2>1. PICK song \in Plays(f.synced) :
           u = RedrawIf(song # f.cur, [f EXCEPT !.cur = song, !.ask = FALSE, !.moving = NoMove])
    BY <1>1 DEF UpdatedState
  <2>2. f.list.right \in Seq(Item) /\ f.synced \in BOOLEAN /\ f \in Client
        /\ NoMove \in [i : Int, j : Int]
    <3>1. f \in Client
      BY DEF Good
    <3>2. f.list.right \in Seq(Item)
      BY <3>1, ClientIs
    <3>3. f.synced \in BOOLEAN
      BY <3>1 DEF Client
    <3>4. NoMove \in [i : Int, j : Int]
      BY DEF NoMove
    <3> QED BY <3>1, <3>2, <3>3, <3>4
  <2>3. song \in [file : Item \cup {None}, idx : Int]
    BY <2>2, PlaysIs
  <2> DEFINE t == [f EXCEPT !.cur = song, !.ask = FALSE, !.moving = NoMove]
  <2>4. /\ t \in Client /\ SamePanels(f, t) /\ t.dialog = f.dialog /\ t.moving = NoMove
        /\ t.cur = song /\ t.fault = f.fault /\ t.missed = f.missed /\ t.redraw = f.redraw
    BY <2>2, <2>3 DEF Client, SamePanels
  <2>5. u = IF song # f.cur THEN Redraw(t) ELSE t
    BY <2>1 DEF RedrawIf
  <2> HIDE DEF t
  <2>6. /\ Redraw(t) \in Client /\ SamePanels(t, Redraw(t)) /\ Redraw(t).dialog = t.dialog
        /\ Redraw(t).moving = t.moving /\ Redraw(t).fault = t.fault
        /\ Redraw(t).missed = t.missed /\ Redraw(t).redraw
    BY <2>4 DEF Redraw, Client, SamePanels
  <2>7. /\ u \in Client /\ SamePanels(f, u) /\ u.dialog = f.dialog /\ u.moving = NoMove
        /\ u.fault = f.fault /\ u.missed = f.missed /\ (f.redraw => u.redraw)
        /\ u.redraw \/ u.cur = f.cur
    BY <2>4, <2>5, <2>6 DEF SamePanels
  <2>8. DialogOk(u) /\ MoveOk(u)
    BY <2>7 DEF Good, DialogOk, About, MoveOk, SamePanels, DialogItems, ActiveList
  <2> QED BY <2>7, <2>8
<1>2. CASE ~f.ask
  BY <1>2 DEF UpdatedState, Good, SamePanels
<1> QED BY <1>1, <1>2

LEMMA PanelForIs ==
  ASSUME NEW s \in Client
  PROVE  /\ PanelFor(s) \in Side
         /\ ActiveList(s) # <<>> => PanelFor(s) = s.active
         /\ s.list[PanelFor(s)] = <<>> => PanelFor(s) = s.active /\ s.list.left = <<>> /\ s.list.right = <<>>
<1>1. s.active \in Side /\ Side = {"left", "right"}
  BY ClientIs DEF Side
<1> QED BY <1>1 DEF PanelFor, ActiveList

LEMMA WithSelectionIs ==
  ASSUME NEW u \in Client, DialogOk(u), MoveOk(u)
  PROVE  LET w == WithSelection(u) IN
         /\ w \in Client /\ DialogOk(w) /\ MoveOk(w) /\ PanelFor(w) = w.active
         /\ w.active = PanelFor(u) /\ w.list = u.list /\ w.layout = u.layout /\ w.cur = u.cur
         /\ w.fault = u.fault /\ w.missed = u.missed /\ w.redraw = u.redraw
         /\ w.moving = u.moving /\ (MarkOk(u) <=> MarkOk(w))
<1> DEFINE d == PanelFor(u)  v == u.view[d]
           k == IF v.sel = -1 /\ v.mark = -1 /\ u.list[d] # <<>> THEN 0 ELSE v.sel
           x == [v EXCEPT !.sel = k]
           y == [u.view EXCEPT ![d] = x]
           w == [u EXCEPT !.active = d, !.view = y]
<1>1. /\ d \in Side
      /\ ActiveList(u) # <<>> => d = u.active
      /\ u.list[d] = <<>> => d = u.active /\ u.list.left = <<>> /\ u.list.right = <<>>
  BY PanelForIs
<1>2. WithSelection(u) = w
  BY DEF WithSelection
<1> HIDE DEF d
<1>3. u.view \in [Side -> View] /\ v \in View /\ "right" \in Side
  BY <1>1, ClientIs DEF Side
<1>4. k \in Int
  BY <1>3, ViewIs
<1>5. v.sel # -1 => k = v.sel
  OBVIOUS
<1> HIDE DEF k
<1>6. Fields(x, v.top, k, v.xsel, v.mark)
  <2> HIDE DEF v
  <2> QED BY <1>3, <1>4, ViewChanges
<1> HIDE DEF x
<1>7. y \in [Side -> View] /\ y[d] = x /\ \A e \in Side : e # d => y[e] = u.view[e]
  BY <1>1, <1>3, <1>6 DEF Fields
<1> HIDE DEF y
<1>8. /\ w \in Client /\ w.active = d /\ w.view = y /\ w.list = u.list /\ w.layout = u.layout
      /\ w.cur = u.cur /\ w.fault = u.fault /\ w.missed = u.missed /\ w.redraw = u.redraw
      /\ w.moving = u.moving /\ w.dialog = u.dialog
  BY <1>1, <1>7 DEF Client
<1> HIDE DEF w
<1>9. y.right.mark = u.view.right.mark
  BY <1>3, <1>6, <1>7 DEF Fields
<1>10. MarkOk(u) <=> MarkOk(w)
  BY <1>8, <1>9 DEF MarkOk
<1>11. PanelFor(w) = w.active
  <2>1. CASE u.list[d] # <<>>
    BY <1>8, <2>1 DEF PanelFor, ActiveList
  <2>2. CASE u.list[d] = <<>>
    BY <1>1, <1>8, <2>2 DEF PanelFor, ActiveList
  <2> QED BY <2>1, <2>2
<1>12. DialogOk(w)
  <2> SUFFICES ASSUME About(w) PROVE DialogOk(w)
    BY DEF DialogOk
  <2>1. About(u) /\ InList(u.dialog.range, ActiveList(u)) /\ u.dialog.range[1] <= u.dialog.range[2]
    BY <1>8 DEF About, DialogOk
  <2>2. ActiveList(u) # <<>>
    <3>1. u.dialog.range[1] \in Int /\ u.dialog.range[2] \in Int
      <4>1. u.dialog.range \in Int \X Int
        BY DEF Client
      <4> QED BY <4>1
    <3>2. Len(ActiveList(u)) > 0
      <4>1. Len(ActiveList(u)) \in Nat
        BY ClientIs, LenProperties DEF ActiveList
      <4> QED BY <2>1, <3>1, <4>1 DEF InList
    <3>3. Len(<<>>) = 0
      BY EmptySeq
    <3> QED BY <3>2, <3>3
  <2>3. ActiveList(w) = ActiveList(u)
    BY <1>1, <1>8, <2>2 DEF ActiveList
  <2> QED BY <1>8, <2>1, <2>3 DEF DialogOk, DialogItems
<1>13. MoveOk(w)
  <2> SUFFICES ASSUME w.moving # NoMove PROVE MoveOk(w)
    BY DEF MoveOk
  <2>1. u.active = "right" /\ Selection(u.view.right)[1] >= 0 /\ u.moving.i \in Indices(u.list.right)
    BY <1>8 DEF MoveOk
  <2>2. u.list.right # <<>>
    <3>1. Len(u.list.right) > 0
      BY <2>1, ClientIs, LenProperties DEF Indices
    <3>2. Len(<<>>) = 0
      BY EmptySeq
    <3> QED BY <3>1, <3>2
  <2>3. d = "right"
    BY <1>1, <2>1, <2>2 DEF ActiveList
  <2>4. v.sel # -1
    <3>1. v = u.view.right
      BY <2>3
    <3> HIDE DEF v
    <3>2. v.sel < 0 => Selection(v) = <<-1, -1>>
      BY <1>3, SelectionIs
    <3>3. v.sel \in Int
      BY <1>3, ViewIs
    <3> QED BY <2>1, <3>1, <3>2, <3>3
  <2>5. x = v
    <3> HIDE DEF v
    <3> QED BY <1>3, <1>5, <1>6, <2>4, SameView DEF Fields
  <2>6. w.view.right = u.view.right
    BY <1>7, <1>8, <2>3, <2>5
  <2>7. w.active = "right" /\ Size(w, "right") = Size(u, "right")
    BY <1>8, <2>3 DEF Size
  <2> QED BY <1>8, <2>6, <2>7 DEF MoveOk
<1>14. w.active = PanelFor(u)
  BY <1>8 DEF d
<1> QED BY Zenon, <1>2, <1>8, <1>10, <1>11, <1>12, <1>13, <1>14

(* Panel::draw() brings the selection into the list, and into sight.       *)
LEMMA PanelDrawnIs ==
  ASSUME NEW v \in View, NEW n \in Nat, NEW h \in Nat \ {0}
  PROVE  LET w == PanelDrawn(v, n, h) IN
         /\ w \in View /\ w.top \in 0..Most(0, n - h) /\ w.mark \in {-1, v.mark}
         /\ w.sel >= 0 /\ n > 0 => w.sel \in w.top..Least(w.top + h, n) - 1
         /\ v.sel \in 0..n - 1 => w.sel = v.sel /\ w.xsel = v.xsel
<1> DEFINE a == IF v.sel < 0 THEN 0 ELSE v.xsel
           b == IF v.sel < 0 THEN -1 ELSE IF v.sel >= n THEN Most(0, n - 1) ELSE v.sel
           c == IF v.mark \in 0..n - 1 THEN v.mark ELSE -1
           w == InRange(v, n)
           t == TopFor(w, n, h)
<1>1. v.top \in Int /\ v.sel \in Int /\ v.xsel \in Int /\ v.mark \in Int
  BY ViewIs
<1>2. a \in Int /\ b \in Int /\ c \in Int /\ (n > 0 => b \in -1..n - 1) /\ c \in {-1, v.mark}
      /\ (v.sel \in 0..n - 1 => b = v.sel /\ a = v.xsel)
  BY <1>1 DEF Most
<1>3. w = [v EXCEPT !.xsel = a, !.sel = b, !.mark = c]
  BY DEF InRange
<1> HIDE DEF a, b, c
<1>4. Fields(w, v.top, b, a, c)
  <2>1. Fields([v EXCEPT !.xsel = a, !.sel = b, !.mark = c], v.top, b, a, c)
    BY <1>2 DEF View, Fields
  <2> QED BY <1>3, <2>1
<1> HIDE DEF w
<1>5. w \in View /\ w.top = v.top /\ w.sel = b /\ w.xsel = a /\ w.mark = c
  BY <1>4 DEF Fields
<1>6. Lookahead(h) \in Nat /\ Lookahead(h) <= h - 1
  <2>1. h \div 4 \in Nat /\ h \div 4 <= h - 1
    BY Z3
  <2> QED BY <2>1 DEF Lookahead, Least
<1> DEFINE l == Lookahead(h)
           above == IF b >= 0 /\ n > 0 /\ b - l < v.top THEN b - l ELSE v.top
           below == IF b >= 0 /\ n > 0 /\ b + l > above + h - 1 THEN b + l - (h - 1) ELSE above
           last == IF below + h > n THEN n - h ELSE below
<1>7. t = Most(0, last)
  BY <1>5 DEF TopFor
<1> HIDE DEF l, t
<1>8. l \in Nat /\ l <= h - 1
  BY <1>6 DEF l
<1>9. above \in Int /\ (b >= 0 /\ n > 0 => above <= b - l)
  BY <1>1, <1>2, <1>8
<1> HIDE DEF above
<1>10. below \in Int /\ (b >= 0 /\ n > 0 => below <= b /\ b <= below + h - 1)
  BY <1>2, <1>8, <1>9
<1> HIDE DEF below
<1>11. last \in Int /\ last <= n - h /\ (b >= 0 /\ n > 0 => last <= b /\ b <= last + h - 1)
  BY <1>2, <1>10
<1> HIDE DEF last
<1>12. /\ t \in 0..Most(0, n - h)
       /\ b >= 0 /\ n > 0 => b \in t..Least(t + h, n) - 1
  BY <1>2, <1>7, <1>11 DEF Most, Least
<1>13. Fields([w EXCEPT !.top = t], t, w.sel, w.xsel, w.mark)
  <2>1. t \in Int
    BY <1>7, <1>11 DEF Most
  <2> QED BY <1>5, <2>1, ViewChanges
<1>14. PanelDrawn(v, n, h) = [w EXCEPT !.top = t]
  BY DEF PanelDrawn, w, t
<1> QED BY <1>2, <1>5, <1>12, <1>13, <1>14 DEF Fields

LEMMA MarkedIs ==
  ASSUME NEW v \in View, NEW i \in Int
  PROVE  LET w == Marked(v, i) IN
         /\ w \in View /\ w.mark = i /\ w.xsel = v.xsel
         /\ v.mark \in {-1, i} \/ i = -1 => w.sel = v.sel
<1> DEFINE along == v.sel >= 0 /\ v.sel = v.mark /\ v.xsel = 0 /\ i >= 0
           k == IF along THEN i ELSE v.sel
<1>1. v.sel \in Int /\ v.mark \in Int
  BY ViewIs
<1>2. k \in Int /\ (v.mark \in {-1, i} \/ i = -1 => k = v.sel)
  BY <1>1
<1>3. Marked(v, i) = [v EXCEPT !.mark = i, !.sel = k]
  BY DEF Marked
<1> HIDE DEF k
<1>4. Fields([v EXCEPT !.mark = i, !.sel = k], v.top, k, v.xsel, i)
  BY <1>2 DEF View, Fields
<1> QED BY <1>2, <1>3, <1>4 DEF Fields

SeenIn(s, d) ==
  LET v == s.view[d] IN
    /\ v.top \in 0..Most(0, Size(s, d) - Rows(s, d))
    /\ v.sel >= 0 /\ Size(s, d) > 0
         => v.sel \in v.top..Least(v.top + Rows(s, d), Size(s, d)) - 1

LEMMA PanelsDrawnIs ==
  ASSUME InterfaceAssumption, NEW s \in Client, DialogOk(s), MoveOk(s), PanelFor(s) = s.active,
         s.moving # NoMove => MarkOk(s)
  PROVE  LET z == PanelsDrawn(s) IN
         /\ Good(z) /\ PanelFor(z) = z.active /\ z.fault = s.fault
         /\ \A d \in Drawn(z) : SeenIn(z, d)
<1> DEFINE L == Marked(s.view.left, FindPath(s.list.left, s.cur.file))
           R == Marked(s.view.right, s.cur.idx)
           x == [[s.view EXCEPT !.left = L] EXCEPT !.right = R]
           t == WithMarks(s)
           y == [d \in Side |-> IF d \in Drawn(t) THEN PanelDrawn(t.view[d], Size(t, d), Rows(t, d))
                                ELSE t.view[d]]
           z == [t EXCEPT !.view = y, !.redraw = FALSE, !.missed = FALSE]
<1>1. /\ s.view \in [Side -> View] /\ s.view.left \in View /\ s.view.right \in View
      /\ s.list.left \in Seq(Item) /\ s.cur.idx \in Int /\ Side = {"left", "right"}
  BY ClientIs DEF Side
<1>2. L \in View
  <2>1. FindPath(s.list.left, s.cur.file) \in -1..Len(s.list.left) - 1
    BY <1>1, FindPathIn
  <2>2. FindPath(s.list.left, s.cur.file) \in Int
    BY <2>1
  <2> QED BY <1>1, <2>2, MarkedIs
<1>3. /\ R \in View /\ R.mark = s.cur.idx /\ R.xsel = s.view.right.xsel
      /\ MarkOk(s) => R.sel = s.view.right.sel
  BY <1>1, MarkedIs DEF MarkOk
<1>4. t = [s EXCEPT !.view = x]
  BY DEF WithMarks
<1> HIDE DEF L, R
<1>5. x \in [Side -> View] /\ x.left = L /\ x.right = R
  BY <1>1, <1>2, <1>3
<1> HIDE DEF x, t
<1>6. /\ t \in Client /\ t.view = x /\ t.list = s.list /\ t.active = s.active /\ t.layout = s.layout
      /\ t.cur = s.cur /\ t.dialog = s.dialog /\ t.moving = s.moving /\ t.fault = s.fault
  BY <1>4, <1>5 DEF Client
<1>7. ASSUME NEW d \in Side
      PROVE  /\ t.view[d] \in View /\ Size(t, d) \in Nat /\ Rows(t, d) \in Nat \ {0}
             /\ PanelDrawn(t.view[d], Size(t, d), Rows(t, d)) \in View
  BY <1>6, ClientIs, RowsAre, PanelDrawnIs
<1>8. y \in [Side -> View]
  BY <1>7
<1>9. PanelsDrawn(s) = z
  BY DEF PanelsDrawn, t
<1>10. \A d \in Side : y[d] = IF d \in Drawn(t) THEN PanelDrawn(t.view[d], Size(t, d), Rows(t, d))
                              ELSE t.view[d]
  OBVIOUS
<1> HIDE DEF y
<1>11. /\ z \in Client /\ z.view = y /\ z.list = s.list /\ z.active = s.active /\ z.layout = s.layout
       /\ z.cur = s.cur /\ z.dialog = s.dialog /\ z.moving = s.moving /\ z.fault = s.fault
  BY ZenonT(20), <1>6, <1>8 DEF Client
<1> HIDE DEF z
<1>12. PanelFor(z) = z.active
  BY <1>11 DEF PanelFor, ActiveList
<1>13. DialogOk(z)
  BY <1>11 DEF DialogOk, About, DialogItems, ActiveList
<1>14. /\ y.right.mark \in {-1, s.cur.idx}
       /\ R.sel \in 0..Size(s, "right") - 1 => y.right.sel = R.sel /\ y.right.xsel = R.xsel
  <2>0. "right" \in Side /\ t.view["right"] = R /\ Size(t, "right") = Size(s, "right")
    BY <1>1, <1>5, <1>6 DEF Size
  <2>1. CASE "right" \in Drawn(t)
    <3>1. y["right"] = PanelDrawn(R, Size(s, "right"), Rows(t, "right"))
      BY <1>10, <2>0, <2>1
    <3>2. R \in View /\ Size(s, "right") \in Nat /\ Rows(t, "right") \in Nat \ {0}
      BY <1>7, <2>0
    <3>3. PICK w \in View :
             /\ w = PanelDrawn(R, Size(s, "right"), Rows(t, "right"))
             /\ w.mark \in {-1, R.mark}
             /\ R.sel \in 0..Size(s, "right") - 1 => w.sel = R.sel /\ w.xsel = R.xsel
      BY ZenonT(20), <3>2, PanelDrawnIs
    <3> QED BY <1>3, <3>1, <3>3
  <2>2. CASE "right" \notin Drawn(t)
    <3>1. y["right"] = R
      BY <1>10, <2>0, <2>2
    <3> QED BY <1>3, <3>1
  <2> QED BY <2>1, <2>2
<1>15. MarkOk(z)
  BY <1>11, <1>14 DEF MarkOk
<1>16. MoveOk(z)
  <2> SUFFICES ASSUME z.moving # NoMove PROVE MoveOk(z)
    BY DEF MoveOk
  <2>1. /\ s.active = "right" /\ Selection(s.view.right)[1] >= 0
        /\ Selection(s.view.right)[2] < Size(s, "right") /\ MarkOk(s)
    BY <1>11 DEF MoveOk
  <2>2. R.sel = s.view.right.sel
    BY <1>3, <2>1
  <2>3. R.sel \in 0..Size(s, "right") - 1
    <3>1. /\ Selection(s.view.right) \in Int \X Int
          /\ s.view.right.sel < 0 => Selection(s.view.right) = <<-1, -1>>
          /\ s.view.right.sel >= 0 => s.view.right.sel <= Selection(s.view.right)[2]
      BY <1>1, SelectionIs
    <3>2. s.view.right.sel \in Int /\ Size(s, "right") \in Nat
      BY <1>1, ClientIs, ViewIs
    <3> QED BY <2>1, <2>2, <3>1, <3>2
  <2>4. y.right.sel = s.view.right.sel /\ y.right.xsel = s.view.right.xsel
    BY <1>3, <1>14, <2>2, <2>3
  <2>5. Selection(z.view.right) = Selection(s.view.right)
    BY <1>11, <2>4 DEF Selection
  <2>6. Size(z, "right") = Size(s, "right")
    BY <1>11 DEF Size
  <2> QED BY <1>11, <2>5, <2>6 DEF MoveOk
<1>17. ASSUME NEW d \in Drawn(z) PROVE SeenIn(z, d)
  <2>1. d \in Side /\ d \in Drawn(t)
    BY <1>6, <1>11, DrawnIs DEF Drawn
  <2>2. z.view[d] = PanelDrawn(t.view[d], Size(t, d), Rows(t, d))
    BY <1>10, <1>11, <2>1
  <2>3. Size(z, d) = Size(t, d) /\ Rows(z, d) = Rows(t, d)
    BY <1>6, <1>11 DEF Size, Rows
  <2>4. t.view[d] \in View /\ Size(t, d) \in Nat /\ Rows(t, d) \in Nat \ {0}
    BY <1>7, <2>1
  <2> DEFINE w == PanelDrawn(t.view[d], Size(t, d), Rows(t, d))
  <2>5. /\ w.top \in 0..Most(0, Size(t, d) - Rows(t, d))
        /\ w.sel >= 0 /\ Size(t, d) > 0
             => w.sel \in w.top..Least(w.top + Rows(t, d), Size(t, d)) - 1
    BY <2>4, PanelDrawnIs
  <2> HIDE DEF w
  <2>6. z.view[d] = w
    BY <2>2 DEF w
  <2> QED BY <2>3, <2>5, <2>6 DEF SeenIn
<1> QED BY <1>9, <1>11, <1>12, <1>13, <1>15, <1>16, <1>17 DEF Good

LEMMA TurnStep ==
  ASSUME InterfaceAssumption, IInv, Turn
  PROVE  IInv'
<1>1. /\ ~client.fault /\ menu' \in BOOLEAN /\ dragging' \in BOOLEAN
      /\ keys' \in Nat /\ events' \in Nat /\ Good(client)
  BY DEF Turn, IInv, TypeOK
<1>2. PICK f \in Fetched(client) : \E u \in UpdatedState(f) :
         LET s == WithSelection(u) IN
           IF s.redraw THEN client' = PanelsDrawn(s) /\ shown' = Picture(client')
                       ELSE client' = OthersDrawn(s) /\ UNCHANGED shown
  BY DEF Turn
<1>3. PICK u \in UpdatedState(f) :
         LET s == WithSelection(u) IN
           IF s.redraw THEN client' = PanelsDrawn(s) /\ shown' = Picture(client')
                       ELSE client' = OthersDrawn(s) /\ UNCHANGED shown
  BY <1>2
<1> DEFINE s == WithSelection(u)
<1>4. /\ Good(f) /\ f.fault = client.fault /\ f.redraw = client.redraw /\ f.view = client.view
      /\ f.redraw \/ f.missed \/ (SamePanels(client, f) /\ f.missed = client.missed)
  BY <1>1, FetchedIs
<1>5. /\ u \in Client /\ DialogOk(u) /\ MoveOk(u) /\ SamePanels(f, u)
      /\ u.fault = f.fault /\ u.missed = f.missed /\ (f.redraw => u.redraw)
      /\ u.redraw \/ u.cur = f.cur
      /\ u.moving = NoMove \/ u.cur = f.cur
  BY <1>4, UpdatedIs
<1>6. /\ s \in Client /\ DialogOk(s) /\ MoveOk(s) /\ PanelFor(s) = s.active
      /\ s.active = PanelFor(u) /\ s.list = u.list /\ s.layout = u.layout /\ s.cur = u.cur
      /\ s.fault = u.fault /\ s.missed = u.missed /\ s.redraw = u.redraw
      /\ s.moving = u.moving /\ (MarkOk(u) <=> MarkOk(s))
  BY <1>5, WithSelectionIs
<1>7. u.cur = f.cur => MarkOk(s)
  BY <1>4, <1>5, <1>6 DEF Good, MarkOk, SamePanels
<1> HIDE DEF s
<1>8. CASE s.redraw
  <2>1. client' = PanelsDrawn(s) /\ shown' = Picture(client')
    BY <1>3, <1>8 DEF s
  <2>2. s.moving # NoMove => MarkOk(s)
    BY <1>5, <1>6, <1>7
  <2>3. /\ Good(client') /\ PanelFor(client') = client'.active
        /\ \A d \in Drawn(client') : SeenIn(client', d)
    BY <1>6, <2>1, <2>2, PanelsDrawnIs
  <2>4. shown' \in [Side -> {<<>>} \cup (Seq(Item) \X View)]
    <3>1. \A d \in Side : client'.list[d] \in Seq(Item) /\ client'.view[d] \in View
      BY <2>3, ClientIs DEF Good
    <3>2. \A d \in Side : <<client'.list[d], client'.view[d]>> \in Seq(Item) \X View
      BY <3>1
    <3> QED BY <2>1, <3>2 DEF Picture
  <2>5. ShownInv'
    BY <2>1, <2>3 DEF ShownInv, SeenIn, Seen, Picture, PanelFor, ActiveList, Drawn, Size, Rows
  <2>6. TypeOK'
    BY <1>1, <2>3, <2>4 DEF TypeOK, Good
  <2>7. Good(client)'
    BY <2>3 DEF Good, MarkOk, DialogOk, MoveOk, About, DialogItems, ActiveList, InList, ItemsAt,
                Selection, Size, Indices
  <2> QED BY <2>5, <2>6, <2>7 DEF IInv
<1>9. CASE ~s.redraw
  <2> DEFINE b == s.missed \/ s.view # client.view
  <2>1. client' = [s EXCEPT !.missed = b] /\ shown' = shown
    BY <1>3, <1>9 DEF s, OthersDrawn
  <2>2. s.missed \in BOOLEAN
    BY <1>6 DEF Client
  <2>3. b \in BOOLEAN /\ (~b => ~s.missed /\ s.view = client.view)
    BY <2>2
  <2> HIDE DEF b
  <2>4. /\ client' \in Client /\ SamePanels(s, client') /\ client'.redraw = s.redraw
        /\ client'.missed = b /\ client'.fault = s.fault /\ client'.cur = s.cur
        /\ client'.moving = s.moving /\ client'.dialog = s.dialog
    BY <1>6, <2>1, <2>3 DEF Client, SamePanels
  <2>5. MarkOk(s)
    BY <1>5, <1>6, <1>7, <1>9
  <2>6. Good(client')
    BY <1>6, <2>4, <2>5 DEF Good, MarkOk, DialogOk, MoveOk, SamePanels, About, DialogItems,
                            ActiveList, Size
  <2>7. ShownInv'
    <3> SUFFICES ASSUME ~client'.missed PROVE ShownInv'
      BY DEF ShownInv
    <3>1. ~s.missed /\ s.view = client.view /\ ~f.missed /\ ~f.redraw
      BY <1>5, <1>6, <1>9, <2>3, <2>4
    <3>2. SamePanels(client, f) /\ ~client.missed /\ ~client.redraw
      BY <1>4, <3>1
    <3>3. PanelFor(client) = client.active
      BY <1>1, <3>2 DEF IInv, ShownInv
    <3>4. PanelFor(u) = PanelFor(client)
      BY <1>5, <3>2 DEF SamePanels, PanelFor, ActiveList
    <3>5. SamePanels(client, client')
      BY <1>5, <1>6, <2>4, <3>1, <3>2, <3>3, <3>4 DEF SamePanels
    <3>6. Quiet(client, client')
      BY <3>2, <3>5 DEF Quiet
    <3> QED BY <1>1, <2>1, <3>6, ShownStays DEF IInv
  <2>8. TypeOK'
    BY <1>1, <2>1, <2>6 DEF TypeOK, Good, IInv
  <2>9. Good(client)'
    BY <2>6 DEF Good, MarkOk, DialogOk, MoveOk, About, DialogItems, ActiveList, InList, ItemsAt,
                Selection, Size, Indices
  <2> QED BY <2>7, <2>8, <2>9 DEF IInv
<1> QED BY <1>8, <1>9

LEMMA InterfaceStarts ==
  ASSUME InterfaceAssumption, Init
  PROVE  IInv
<1>1. PICK p \in Playlists, insync \in BOOLEAN :
         \E song \in Plays(insync) : client = Started(p, insync, song)
  BY DEF Init
<1>2. PICK song \in Plays(insync) : client = Started(p, insync, song)
  BY <1>1
<1>3. /\ p \in Seq(Item) /\ Listing("top", OnDisk) \in Seq(Item)
      /\ song \in [file : Item \cup {None}, idx : Int] /\ OnDisk \subseteq Song
  BY SongsAre, ListingIn, PlaysIs
<1> DEFINE w == [NewView EXCEPT !.sel = Least(song.idx, Len(p) - 1)]
           x == [left |-> Listing("top", OnDisk), right |-> p]
           y == [left |-> NewView, right |-> w]
<1>4. NewView \in View /\ NewView.mark = -1
  BY DEF NewView, View
<1>a. Least(song.idx, Len(p) - 1) \in Int
  BY <1>3, LenProperties DEF Least
<1>5. w \in View /\ w.mark = -1
  BY ZenonT(20), <1>a, <1>4, ViewChanges DEF Fields
<1>6. client = [list |-> x, view |-> y,
         active |-> "right", layout |-> "hsplit", cwd |-> "top", files |-> OnDisk,
         synced |-> insync, want |-> FALSE, ask |-> FALSE, cur |-> song, dialog |-> NoDialog,
         redraw |-> TRUE, missed |-> FALSE, moving |-> NoMove, fault |-> FALSE]
  BY <1>2 DEF Started
<1> HIDE DEF w
<1>7. x \in [Side -> Seq(Item)] /\ y \in [Side -> View] /\ y.right = w
  BY <1>3, <1>4, <1>5 DEF Side
<1>8. NoMove \in [i : Int, j : Int]
  BY DEF NoMove
<1> HIDE DEF x, y
<1>9. client \in Client
  BY <1>3, <1>6, <1>7, <1>8, NoDialogIs DEF Client, Side, Layout
<1>10. /\ client.redraw /\ client.moving = NoMove /\ client.dialog = NoDialog /\ client.view = y
  BY <1>6
<1>11. MarkOk(client) /\ MoveOk(client) /\ DialogOk(client)
  BY <1>5, <1>7, <1>10, NoDialogIs DEF MarkOk, MoveOk, DialogOk, About
<1>12. TypeOK
  BY <1>9 DEF TypeOK, Init, Side
<1> QED BY <1>9, <1>10, <1>11, <1>12 DEF IInv, Good, ShownInv

LEMMA InterfaceInvariant ==
  ASSUME InterfaceAssumption, IInv, [Next]_vars
  PROVE  IInv'
<1>1. CASE UNCHANGED vars
  BY <1>1 DEF vars, IInv, TypeOK, Good, MarkOk, DialogOk, MoveOk, About, DialogItems, ActiveList,
              InList, ItemsAt, Selection, Size, Indices, ShownInv, Picture, PanelFor, Drawn, Seen, Rows
<1>2. CASE Next
  BY <1>2, KeyStep, ToggleMenuStep, DialogKeyStep, PressStep, ReleaseStep, ClickStep, ScrollStep,
     EventStep, TurnStep DEF Next
<1> QED BY <1>1, <1>2

(* The variables keep their types, whatever the user and the server do:    *)
(* indices are numbers, lists hold songs, directories and playlist files.  *)
THEOREM InterfaceTypes == Spec => []TypeOK
<1>1. Init => IInv
  BY InterfaceAssumption, InterfaceStarts
<1>2. IInv /\ [Next]_vars => IInv'
  BY InterfaceAssumption, InterfaceInvariant
<1>3. IInv => TypeOK
  BY DEF IInv
<1> QED BY <1>1, <1>2, <1>3, PTL DEF Spec

(* A command acts on what the user sees selected: whatever commands, clicks*)
(* and events come between two drawings, the panels on the screen are those*)
(* of the client, unless a redraw is due or one of the three steps that ask*)
(* for none was taken (interface.cc:326-386, interface.h:22-26).           *)
THEOREM WhatIsShownIsSelected == Spec => []ShownIsSelected
<1>1. Init => IInv
  BY InterfaceAssumption, InterfaceStarts
<1>2. IInv /\ [Next]_vars => IInv'
  BY InterfaceAssumption, InterfaceInvariant
<1>3. IInv => ShownIsSelected
  BY DEF IInv, ShownInv, ShownIsSelected
<1> QED BY <1>1, <1>2, <1>3, PTL DEF Spec

(* The items a dialog was opened for are the items its range stands for    *)
(* when it is accepted, unless an event came or a drag in the menu that    *)
(* began before it (Dialog.cc:140-240, Dialog.h:24-27).                    *)
THEOREM DialogsKeepItems == Spec => []DialogKeepsItems
<1>1. Init => IInv
  BY InterfaceAssumption, InterfaceStarts
<1>2. IInv /\ [Next]_vars => IInv'
  BY InterfaceAssumption, InterfaceInvariant
<1>3. IInv => DialogKeepsItems
  BY DEF IInv, Good, DialogOk, About, DialogKeepsItems, HasDialog
<1> QED BY <1>1, <1>2, <1>3, PTL DEF Spec

-----------------------------------------------------------------------------
(* The marked song, while other clients edit the list                      *)

LEMMA OnceIs ==
  ASSUME NEW p \in Seq(Item), NEW f, Once(p, f)
  PROVE  \E a \in 1..Len(p) : p[a] = f /\ \A b \in 1..Len(p) : p[b] = f => b = a
<1> DEFINE S == {k \in 1..Len(p) : p[k] = f}
<1>1. Len(p) \in Nat /\ DOMAIN p = 1..Len(p)
  BY LenProperties
<1>2. Cardinality(S) = 1
  BY <1>1 DEF Once
<1>3. IsFiniteSet(1..Len(p))
  BY <1>1, IntervalIs
<1>4. IsFiniteSet(S)
  <2>1. S \subseteq 1..Len(p)
    OBVIOUS
  <2> HIDE DEF S
  <2> QED BY <1>3, <2>1, FS_Subset
<1> HIDE DEF S
<1>5. \E a : S = {a}
  BY <1>2, <1>4, FS_Singleton
<1>6. PICK a : S = {a}
  BY <1>5
<1>7. a \in 1..Len(p) /\ p[a] = f
  BY <1>6 DEF S
<1>8. ASSUME NEW b \in 1..Len(p), p[b] = f PROVE b = a
  <2>1. b \in S
    BY <1>8 DEF S
  <2> QED BY <1>6, <2>1
<1> QED BY <1>7, <1>8

MarkedIn(s) == IF s.synced /\ s.cur.idx \in Indices(s.list.right)
               THEN s.list.right[s.cur.idx + 1] ELSE None

LEMMA MarkedOnce ==
  ASSUME InterfaceAssumption, NEW s \in Client, Once(s.list.right, MarkedIn(s))
  PROVE  /\ s.synced /\ s.cur.idx \in 0..Len(s.list.right) - 1
         /\ MarkedIn(s) = s.list.right[s.cur.idx + 1]
         /\ \A b \in 1..Len(s.list.right) : s.list.right[b] = MarkedIn(s) => b = s.cur.idx + 1
<1>0. PICK p : p = s.list.right
  OBVIOUS
<1>a. PICK f : f = MarkedIn(s)
  OBVIOUS
<1>b. PICK c : c = s.cur.idx
  OBVIOUS
<1>1. p \in Seq(Item) /\ Len(p) \in Nat /\ c \in Int /\ \A k \in 1..Len(p) : p[k] \in Item
  <2>1. s.list.right \in Seq(Item) /\ s.cur.idx \in Int
    BY ClientIs
  <2> QED BY <1>0, <1>b, <2>1, LenProperties, ElementOfSeq
<1>c. Once(p, f)
  BY <1>0, <1>a
<1>d. f = IF s.synced /\ c \in Indices(p) THEN p[c + 1] ELSE None
  BY <1>0, <1>a, <1>b DEF MarkedIn
<1>2. PICK a \in 1..Len(p) : p[a] = f /\ \A b \in 1..Len(p) : p[b] = f => b = a
  BY <1>1, <1>c, OnceIs
<1>3. f \in Item /\ None \notin Item
  BY <1>1, <1>2, SongsAre
<1>4. s.synced /\ c \in Indices(p) /\ f = p[c + 1]
  <2>1. f # None
    BY <1>3
  <2> QED BY <1>d, <2>1
<1>5. c \in 0..Len(p) - 1 /\ c + 1 \in 1..Len(p)
  BY <1>1, <1>4 DEF Indices
<1>6. c + 1 = a
  BY <1>2, <1>4, <1>5
<1> QED BY <1>0, <1>a, <1>b, <1>2, <1>4, <1>5, <1>6

LEMMA AddKeepsMark ==
  ASSUME NEW p \in Seq(Item), NEW e \in Seq(Item), Len(e) = 1,
         NEW idx \in -1..Len(p), NEW c \in 0..Len(p) - 1,
         NEW q, q = Inserted(p, e, idx), NEW i, i = IndexAfterAdd(c, e, idx)
  PROVE  i \in Indices(q) /\ q[i + 1] = p[c + 1]
<1>1. Len(p) \in Nat /\ Indices(p) = 0..Len(p) - 1
  BY LenProperties DEF Indices
<1>2. /\ Len(q) = Len(p) + 1
      /\ \A k \in 1..Len(p) + 1 :
           q[k] = IF k <= Before(p, idx) THEN p[k]
                  ELSE IF k <= Before(p, idx) + 1 THEN e[k - Before(p, idx)]
                  ELSE p[k - 1]
  <2> DEFINE r == Inserted(p, e, idx)
  <2>1. p \in Seq(Item) /\ e \in Seq(Item)
    OBVIOUS
  <2>2. /\ r \in Seq(Item) /\ Len(r) = Len(p) + Len(e)
        /\ \A k \in 1..Len(p) + Len(e) :
             r[k] = IF k <= Before(p, idx) THEN p[k]
                    ELSE IF k <= Before(p, idx) + Len(e) THEN e[k - Before(p, idx)]
                    ELSE p[k - Len(e)]
    BY ONLY <2>1, InsertedIn
  <2> HIDE DEF r
  <2>3. q = r
    BY DEF r
  <2>4. PICK n : n = Len(e)
    OBVIOUS
  <2>5. n = 1
    BY <2>4
  <2> QED BY Zenon, <2>2, <2>3, <2>4, <2>5
<1>3. i = IF idx >= 0 /\ c >= idx THEN c + 1 ELSE c
  BY <1>1 DEF IndexAfterAdd
<1>4. Indices(q) = 0..(Len(p) + 1) - 1
  BY <1>2 DEF Indices
<1>5. idx \in Int /\ Before(p, idx) = IF idx >= 0 THEN idx ELSE Len(p)
  BY <1>1 DEF Before
<1>6. CASE idx >= 0 /\ c >= idx
  <2>1. i = c + 1 /\ c + 2 \in 1..Len(p) + 1 /\ ~(c + 2 <= Before(p, idx) + 1)
        /\ ~(c + 2 <= Before(p, idx)) /\ (c + 2) - 1 = c + 1 /\ i + 1 = c + 2
    BY <1>1, <1>3, <1>5, <1>6
  <2>2. q[c + 2] = p[(c + 2) - 1]
    BY <1>2, <2>1
  <2> QED BY <1>1, <1>4, <2>1, <2>2
<1>7. CASE ~(idx >= 0 /\ c >= idx)
  <2>1. i = c /\ c + 1 \in 1..Len(p) + 1 /\ c + 1 <= Before(p, idx)
    BY <1>1, <1>3, <1>5, <1>7
  <2>2. q[c + 1] = p[c + 1]
    BY <1>2, <2>1
  <2> QED BY <1>1, <1>4, <2>1, <2>2
<1> QED BY <1>6, <1>7

LEMMA DelKeepsMark ==
  ASSUME NEW p \in Seq(Item), NEW at \in Indices(p), NEW n \in 1..Len(p) - at,
         NEW c \in 0..Len(p) - 1, NEW q, q = Removed(p, at, n),
         NEW i, i = IndexAfterDel(c, at, n),
         \A b \in 1..Len(p) : p[b] = p[c + 1] => b = c + 1,
         Once(q, p[c + 1])
  PROVE  i \in Indices(q) /\ q[i + 1] = p[c + 1]
<1>1. /\ Len(p) \in Nat /\ at \in 0..Len(p) - 1 /\ at >= 0 /\ n > 0 /\ at + n <= Len(p)
      /\ at \in Int /\ n \in Int
  BY LenProperties DEF Indices
<1>2. /\ q \in Seq(Item) /\ Len(q) = Len(p) - n
      /\ \A k \in 1..Len(p) - n : q[k] = IF k <= at THEN p[k] ELSE p[k + n]
  BY <1>1, RemovedIn
<1>3. Indices(q) = 0..(Len(p) - n) - 1
  BY <1>2 DEF Indices
<1>4. i = IF c > at THEN Most(at, c - n) ELSE c
  BY DEF IndexAfterDel
<1>5. CASE c < at
  <2>1. i = c /\ c + 1 \in 1..Len(p) - n /\ c + 1 <= at
    BY <1>1, <1>4, <1>5
  <2>2. q[c + 1] = p[c + 1]
    BY <1>2, <2>1
  <2> QED BY <1>1, <1>3, <2>1, <2>2
<1>6. CASE c >= at + n
  <2>1. /\ i = c - n /\ (c - n) + 1 \in 1..Len(p) - n /\ ~((c - n) + 1 <= at)
        /\ ((c - n) + 1) + n = c + 1
    BY <1>1, <1>4, <1>6 DEF Most
  <2>2. q[(c - n) + 1] = p[((c - n) + 1) + n]
    BY <1>2, <2>1
  <2> QED BY <1>1, <1>3, <2>1, <2>2
<1>7. CASE at <= c /\ c < at + n
  <2>a. PICK f : f = p[c + 1]
    OBVIOUS
  <2>b. Once(q, f)
    BY <2>a
  <2>1. PICK k \in 1..Len(q) : q[k] = p[c + 1]
    BY <1>2, <2>a, <2>b, OnceIs
  <2>2. k \in 1..Len(p) - n
    BY <1>2, <2>1
  <2>3. CASE k <= at
    <3>1. p[k] = p[c + 1] /\ k \in 1..Len(p)
      BY <1>1, <1>2, <2>1, <2>2, <2>3
    <3>2. k = c + 1
      BY <3>1
    <3> QED BY <1>1, <1>7, <2>3, <3>2
  <2>4. CASE ~(k <= at)
    <3>1. p[k + n] = p[c + 1] /\ k + n \in 1..Len(p)
      BY <1>1, <1>2, <2>1, <2>2, <2>4
    <3>2. k + n = c + 1
      BY <3>1
    <3> QED BY <1>1, <1>7, <2>2, <2>4, <3>2
  <2> QED BY <2>3, <2>4
<1> QED BY <1>1, <1>5, <1>6, <1>7

LEMMA MoveKeepsMark ==
  ASSUME NEW p \in Seq(Item), NEW a \in Indices(p), NEW b \in Indices(p),
         NEW c \in 0..Len(p) - 1, NEW q, q = Moved(p, a, b),
         NEW i, i = IndexAfterMove(c, a, b)
  PROVE  i \in Indices(q) /\ q[i + 1] = p[c + 1]
<1>1. Len(p) \in Nat /\ a \in 0..Len(p) - 1 /\ b \in 0..Len(p) - 1
  BY LenProperties DEF Indices
<1>2. i = CASE c = a -> b
            [] c # a /\ a < b /\ a < c /\ c <= b -> c - 1
            [] c # a /\ a > b /\ c < a /\ b <= c -> c + 1
            [] OTHER -> c
  BY DEF IndexAfterMove
<1>3. CASE a = b
  <2>1. q = p
    BY <1>3 DEF Moved
  <2>2. i = c
    BY <1>1, <1>2, <1>3
  <2> QED BY <1>1, <2>1, <2>2 DEF Indices
<1>4. CASE a # b
  <2>1. /\ Len(q) = Len(p)
        /\ \A k \in 1..Len(p) :
             q[k] = IF k = b + 1 THEN p[a + 1]
                    ELSE IF (k <= a /\ k <= b) \/ (k > a + 1 /\ k > b + 1) THEN p[k]
                    ELSE IF a < b THEN p[k + 1] ELSE p[k - 1]
    BY <1>4, MovedIn
  <2>2. Indices(q) = 0..Len(p) - 1
    BY <2>1 DEF Indices
  <2>3. CASE c = a
    <3>1. i = b /\ b + 1 \in 1..Len(p)
      BY <1>1, <1>2, <2>3
    <3> QED BY <1>1, <2>1, <2>2, <2>3, <3>1
  <2>4. CASE c # a /\ a < b /\ a < c /\ c <= b
    <3>1. i = c - 1 /\ c \in 1..Len(p) /\ i + 1 = c /\ c # b + 1
          /\ ~((c <= a /\ c <= b) \/ (c > a + 1 /\ c > b + 1))
      BY <1>1, <1>2, <2>4
    <3>2. q[c] = p[c + 1]
      BY <2>1, <2>4, <3>1
    <3> QED BY <1>1, <2>2, <3>1, <3>2
  <2>5. CASE c # a /\ a > b /\ c < a /\ b <= c
    <3>1. i = c + 1 /\ c + 2 \in 1..Len(p) /\ i + 1 = c + 2 /\ c + 2 # b + 1 /\ (c + 2) - 1 = c + 1
          /\ ~((c + 2 <= a /\ c + 2 <= b) \/ (c + 2 > a + 1 /\ c + 2 > b + 1)) /\ ~(a < b)
      BY <1>1, <1>2, <2>5
    <3>2. q[c + 2] = p[(c + 2) - 1]
      BY <2>1, <3>1
    <3> QED BY <1>1, <2>2, <3>1, <3>2
  <2>6. CASE /\ c # a /\ ~(a < b /\ a < c /\ c <= b) /\ ~(a > b /\ c < a /\ b <= c)
    <3>1. i = c /\ c + 1 \in 1..Len(p) /\ c + 1 # b + 1
          /\ ((c + 1 <= a /\ c + 1 <= b) \/ (c + 1 > a + 1 /\ c + 1 > b + 1))
      BY <1>1, <1>2, <1>4, <2>6
    <3>2. q[c + 1] = p[c + 1]
      BY <2>1, <3>1
    <3> QED BY <1>1, <2>2, <3>1, <3>2
  <2> QED BY <2>3, <2>4, <2>5, <2>6
<1> QED BY <1>3, <1>4

LEMMA EventKeepsMark ==
  ASSUME InterfaceAssumption, NEW s \in Client, NEW t \in Events(s),
         t.files = s.files, t.list # s.list,
         Once(s.list.right, MarkedIn(s)), Once(t.list.right, MarkedIn(s))
  PROVE  MarkedIn(t) = MarkedIn(s)
<1> DEFINE p == s.list.right  q == t.list.right  c == s.cur.idx  i == t.cur.idx
<1>1. /\ s.synced /\ c \in 0..Len(p) - 1 /\ MarkedIn(s) = p[c + 1]
      /\ \A b \in 1..Len(p) : p[b] = p[c + 1] => b = c + 1
  BY MarkedOnce
<1>2. p \in Seq(Item) /\ Len(p) \in Nat /\ s.files \subseteq Item
  <2>1. s.files \subseteq Song /\ Song \subseteq Item
    BY ClientIs, SongsAre
  <2> QED BY <2>1, ClientIs, LenProperties
<1>3. Once(q, p[c + 1])
  BY <1>1
<1>4. SUFFICES t.synced /\ i \in Indices(q) /\ q[i + 1] = p[c + 1]
  BY <1>1 DEF MarkedIn
<1>5. CASE \E f \in s.files, idx \in -1..Len(p) : t = EvAdd(s, <<f>>, idx)
  <2>1. PICK f \in s.files, idx \in -1..Len(p) : t = EvAdd(s, <<f>>, idx)
    BY <1>5
  <2>2. idx \in Int /\ f \in Item
    BY <1>2, <2>1 DEF Indices
  <2>3. q = Inserted(p, <<f>>, idx) /\ i = IndexAfterAdd(c, <<f>>, idx) /\ t.synced = s.synced
    BY <2>1, <2>2, EvAddIs
  <2>5. PICK pp, qq, cc, ii : pp = p /\ qq = q /\ cc = c /\ ii = i
    OBVIOUS
  <2> HIDE DEF p, q, c, i
  <2>6. pp \in Seq(Item) /\ cc \in 0..Len(pp) - 1 /\ idx \in -1..Len(pp)
    BY <1>1, <1>2, <2>1, <2>5
  <2>7. PICK e : e = <<f>>
    OBVIOUS
  <2>9. /\ qq = Inserted(pp, e, idx) /\ ii = IndexAfterAdd(cc, e, idx)
        /\ e \in Seq(Item) /\ Len(e) = 1
    BY <2>2, <2>3, <2>5, <2>7
  <2>8. ii \in Indices(qq) /\ qq[ii + 1] = pp[cc + 1]
    BY <2>6, <2>9, AddKeepsMark
  <2>4. i \in Indices(q) /\ q[i + 1] = p[c + 1]
    BY <2>5, <2>8
  <2> QED BY <1>1, <2>3, <2>4
<1>6. CASE \E a \in Indices(p) : \E n \in 1..Size(s, "right") - a : t = EvDel(s, a, n)
  <2>1. PICK a \in Indices(p) : \E n \in 1..Size(s, "right") - a : t = EvDel(s, a, n)
    BY <1>6
  <2>2. PICK n \in 1..Len(p) - a : t = EvDel(s, a, n)
    BY <2>1 DEF Size
  <2>3. a \in Int /\ n \in Int
    BY <1>2 DEF Indices
  <2>4. q = Removed(p, a, n) /\ i = IndexAfterDel(c, a, n) /\ t.synced = s.synced
    BY <2>2, <2>3, EvDelIs
  <2> HIDE DEF p, q, c, i
  <2> QED BY <1>1, <1>2, <1>3, <2>2, <2>4, DelKeepsMark
<1>7. CASE \E a, b \in Indices(p) : t = EvMove(s, a, b)
  <2>1. PICK a \in Indices(p), b \in Indices(p) : t = EvMove(s, a, b)
    BY <1>7
  <2>2. q = Moved(p, a, b) /\ i = IndexAfterMove(c, a, b) /\ t.synced = s.synced
    BY <2>1, EvMoveIs
  <2> HIDE DEF p, q, c, i
  <2> QED BY <1>1, <1>2, <2>2, MoveKeepsMark
<1>8. CASE \E F \in (SUBSET s.files) \ {{}} : t = EvRm(s, F)
  <2>1. PICK F \in (SUBSET s.files) \ {{}} : t = EvRm(s, F)
    BY <1>8
  <2>2. t.files = s.files \ F
    BY <2>1, EvRmIs
  <2> QED BY <2>2
<1>9. CASE \E f \in s.files, g \in Song \ s.files : t = EvMod(s, f, g)
  BY <1>9, EvModIs
<1>10. CASE t = [s EXCEPT !.want = @ \/ s.synced] \/ t = [s EXCEPT !.ask = TRUE]
  <2>1. t.list = s.list
    BY <1>10 DEF Client
  <2> QED BY <2>1
<1> QED BY <1>5, <1>6, <1>7, <1>8, <1>9, <1>10, EventIs DEF Size

LEMMA OnlyEventsCount ==
  ASSUME IInv, Next, events' > events
  PROVE  ServerEvent
<1>1. events \in Nat
  BY DEF IInv, TypeOK
<1>2. events' # events
  BY <1>1
<1> QED BY <1>2 DEF Next, Key, MenuKey, ToggleMenu, DialogKey, Press, Release, Click, Scroll,
            Turn, Pressed

(* Whatever other clients add, delete and move in a list of songs, the     *)
(* song that is marked as the one being played stays the one marked, but   *)
(* where the list has the song more than once (client.cc:855-911).         *)
THEOREM MarkedSongStays == Spec => MarkStays
<1> DEFINE Others == events' > events /\ client'.files = client.files /\ client'.list # client.list
                     /\ Once(client.list.right, MarkedSong) /\ Once(client'.list.right, MarkedSong)
                     => MarkedSong' = MarkedSong
<1>1. Init => IInv
  BY InterfaceAssumption, InterfaceStarts
<1>2. IInv /\ [Next]_vars => IInv'
  BY InterfaceAssumption, InterfaceInvariant
<1>3. IInv /\ [Next]_vars => [Others]_vars
  <2> SUFFICES ASSUME IInv, Next, events' > events, client'.files = client.files,
                      client'.list # client.list,
                      Once(client.list.right, MarkedSong), Once(client'.list.right, MarkedSong)
               PROVE  MarkedSong' = MarkedSong
    OBVIOUS
  <2> DEFINE s == Touched(AtRest)
  <2>1. client' \in Events(s)
    BY OnlyEventsCount DEF ServerEvent
  <2>2. /\ Good(AtRest) /\ SamePanels(client, AtRest) /\ AtRest.cur = client.cur
        /\ AtRest.synced = client.synced /\ AtRest.files = client.files
    BY RestIs DEF IInv
  <2>3. /\ s \in Client /\ s.list = client.list /\ s.cur = client.cur /\ s.synced = client.synced
        /\ s.files = client.files
    BY <2>2, TouchedIs DEF Good, SamePanels
  <2> HIDE DEF s
  <2>4. MarkedIn(s) = MarkedSong
    BY <2>3 DEF MarkedIn, MarkedSong
  <2>5. MarkedIn(client') = MarkedIn(s)
    BY <2>1, <2>3, <2>4, InterfaceAssumption, EventKeepsMark
  <2> QED BY <2>4, <2>5 DEF MarkedIn, MarkedSong
<1>4. MarkStays <=> [][Others]_vars
  BY PTL DEF MarkStays
<1> QED BY <1>1, <1>2, <1>3, <1>4, PTL DEF Spec

-----------------------------------------------------------------------------
(* The items a user moves stay selected                                    *)

(* Items low..high of a list, when the one after them is moved before them,*)
(* or the one before them after them.                                      *)
LEMMA PassedItems ==
  ASSUME NEW p \in Seq(Item), NEW low \in Nat, NEW high \in Nat, low <= high, high < Len(p),
         NEW i \in Indices(p), NEW j \in Indices(p), NEW by,
         \/ i = high + 1 /\ j = low /\ by = 1
         \/ i = low - 1 /\ j = high /\ by = -1,
         NEW q, q = Moved(p, i, j)
  PROVE  /\ InList(<<low + by, high + by>>, q)
         /\ ItemsAt(q, <<low + by, high + by>>) = ItemsAt(p, <<low, high>>)
<1>1. Len(p) \in Nat /\ i \in 0..Len(p) - 1 /\ j \in 0..Len(p) - 1 /\ by \in Int /\ i # j
  BY LenProperties DEF Indices
<1>2. /\ q \in Seq(Item) /\ Len(q) = Len(p)
      /\ \A k \in 1..Len(p) :
           q[k] = IF k = j + 1 THEN p[i + 1]
                  ELSE IF (k <= i /\ k <= j) \/ (k > i + 1 /\ k > j + 1) THEN p[k]
                  ELSE IF i < j THEN p[k + 1] ELSE p[k - 1]
  BY <1>1, MovedIn
<1>3. low + by \in Nat /\ high + by \in Nat /\ high + by < Len(p)
  BY <1>1
<1>4. InList(<<low + by, high + by>>, q) /\ InList(<<low, high>>, p)
  BY <1>1, <1>2, <1>3 DEF InList
<1> DEFINE a == low + 1  b == high + 1  c == low + by + 1  d == high + by + 1
           s == SubSeq(p, a, b)  t == SubSeq(q, c, d)
<1>5. ItemsAt(q, <<low + by, high + by>>) = t /\ ItemsAt(p, <<low, high>>) = s
  BY <1>4 DEF ItemsAt
<1>6. /\ a \in Nat \ {0} /\ b \in 0..Len(p) /\ a <= b + 1 /\ b - a + 1 = high - low + 1
      /\ c \in Nat \ {0} /\ d \in 0..Len(q) /\ c <= d + 1 /\ d - c + 1 = high - low + 1
      /\ high - low + 1 \in Nat
  BY <1>1, <1>2, <1>3
<1> HIDE DEF a, b, c, d
<1>7. /\ s \in Seq(Item) /\ Len(s) = high - low + 1
      /\ \A k \in 1..high - low + 1 : s[k] = p[a + k - 1]
  BY <1>6, Piece
<1>8. /\ t \in Seq(Item) /\ Len(t) = high - low + 1
      /\ \A k \in 1..high - low + 1 : t[k] = q[c + k - 1]
  BY SMTT(20), <1>2, <1>6, Piece
<1> HIDE DEF s, t
<1>9. ASSUME NEW k \in 1..high - low + 1 PROVE s[k] = t[k]
  <2>1. s[k] = p[low + k] /\ t[k] = q[low + by + k]
    <3>1. a + k - 1 = low + k /\ c + k - 1 = low + by + k
      BY <1>1 DEF a, c
    <3> QED BY <1>7, <1>8, <3>1
  <2>2. CASE i = high + 1 /\ j = low /\ by = 1
    <3>1. /\ low + by + k = low + k + 1 /\ low + k + 1 \in 1..Len(p) /\ low + k + 1 # j + 1
          /\ ~((low + k + 1 <= i /\ low + k + 1 <= j) \/ (low + k + 1 > i + 1 /\ low + k + 1 > j + 1))
          /\ ~(i < j) /\ (low + k + 1) - 1 = low + k
      BY <1>1, <2>2
    <3>2. q[low + k + 1] = p[(low + k + 1) - 1]
      BY <1>2, <3>1
    <3> QED BY <2>1, <3>1, <3>2
  <2>3. CASE i = low - 1 /\ j = high /\ by = -1
    <3>1. /\ low + by + k = low + k - 1 /\ low + k - 1 \in 1..Len(p) /\ low + k - 1 # j + 1
          /\ ~((low + k - 1 <= i /\ low + k - 1 <= j) \/ (low + k - 1 > i + 1 /\ low + k - 1 > j + 1))
          /\ i < j /\ (low + k - 1) + 1 = low + k
      BY <1>1, <2>3
    <3>2. q[low + k - 1] = p[(low + k - 1) + 1]
      BY <1>2, <3>1
    <3> QED BY <2>1, <3>1, <3>2
  <2> QED BY <2>2, <2>3
<1>10. s = t
  <2>1. PICK n \in Nat : n = high - low + 1
    BY <1>6
  <2>2. Len(s) = n /\ Len(t) = n /\ \A k \in 1..n : s[k] = t[k]
    BY <1>7, <1>8, <1>9, <2>1
  <2> QED BY <1>7, <1>8, <2>1, <2>2, SeqEqual
<1> QED BY <1>4, <1>5, <1>10

LEMMA SelectionAfterMove ==
  ASSUME NEW s \in Client, NEW i \in Indices(s.list.right), NEW j \in Indices(s.list.right),
         s.active = "right",
         LET r == Selection(s.view.right) IN
           /\ r[1] >= 0 /\ r[2] < Size(s, "right")
           /\ (i = r[2] + 1 /\ j = r[1]) \/ (i = r[1] - 1 /\ j = r[2])
  PROVE  LET t == EvMove(s, i, j) IN
         ItemsAt(t.list.right, Selection(t.view.right))
           = ItemsAt(s.list.right, Selection(s.view.right))
<1> DEFINE p == s.list.right  v == s.view.right  r == Selection(v)  by == Along(s, i, j)
           t == EvMove(s, i, j)  w == t.view.right
<1>1. p \in Seq(Item) /\ Len(p) \in Nat /\ v.sel \in Int /\ v.xsel \in Int
  BY ClientIs, LenProperties DEF View
<1>2. /\ t.list.right = Moved(p, i, j) /\ w.sel = v.sel + by /\ w.xsel = v.xsel
  BY EvMoveIs
<1>3. /\ v.sel >= 0 /\ r = <<Least(v.sel, v.sel + v.xsel), Most(v.sel, v.sel + v.xsel)>>
      /\ r[1] = Least(v.sel, v.sel + v.xsel) /\ r[2] = Most(v.sel, v.sel + v.xsel)
  <2>1. CASE v.sel < 0
    <3>1. r[1] = -1
      BY <2>1 DEF Selection
    <3> QED BY <3>1
  <2>2. CASE ~(v.sel < 0)
    BY <1>1, <2>2 DEF Selection
  <2> QED BY <2>1, <2>2
<1>4. PICK low, high : low = r[1] /\ high = r[2]
  OBVIOUS
<1>5. /\ low \in Nat /\ high \in Nat /\ low <= high /\ high < Len(p) /\ r = <<low, high>>
      /\ low = Least(v.sel, v.sel + v.xsel) /\ high = Most(v.sel, v.sel + v.xsel)
  <2>1. low >= 0 /\ high < Len(p)
    BY <1>4 DEF Size
  <2>2. low \in Int /\ high \in Int /\ low <= high
    BY <1>1, <1>3, <1>4 DEF Least, Most
  <2> QED BY <1>3, <1>4, <2>1, <2>2
<1>6. (i = high + 1 /\ j = low) \/ (i = low - 1 /\ j = high)
  BY <1>4
<1>7. by = IF i + 1 = low /\ j = high THEN -1 ELSE IF i = high + 1 /\ j = low THEN 1 ELSE 0
  BY <1>4, <1>5 DEF Along
<1>8. i \in Int /\ j \in Int
  BY DEF Indices
<1> HIDE DEF p, v, r, by, t, w
<1>9. \/ i = high + 1 /\ j = low /\ by = 1
      \/ i = low - 1 /\ j = high /\ by = -1
  BY <1>5, <1>6, <1>7, <1>8
<1>10. Selection(w) = <<low + by, high + by>>
  <2>1. low + by >= 0
    BY <1>5, <1>8, <1>9, i \in Indices(p) DEF Indices, p
  <2>2. by \in Int /\ low <= v.sel /\ w.sel = v.sel + by /\ w.xsel = v.xsel
    BY <1>1, <1>2, <1>5, <1>9 DEF Least
  <2>3. ~(w.sel < 0)
    BY <1>1, <1>5, <2>1, <2>2
  <2>4. /\ Least(v.sel + by, v.sel + by + v.xsel) = low + by
        /\ Most(v.sel + by, v.sel + by + v.xsel) = high + by
    <3>1. PICK a, x : a = v.sel /\ x = v.xsel
      OBVIOUS
    <3>2. PICK n : n = by
      OBVIOUS
    <3>3. /\ a \in Int /\ x \in Int /\ n \in Int
          /\ low = Least(a, a + x) /\ high = Most(a, a + x)
      BY <1>1, <1>5, <2>2, <3>1, <3>2
    <3>4. Least(a + n, a + n + x) = low + n /\ Most(a + n, a + n + x) = high + n
      BY <3>3 DEF Least, Most
    <3> QED BY Zenon, <3>1, <3>2, <3>4
  <2> QED BY <2>2, <2>3, <2>4 DEF Selection
<1>11. ItemsAt(Moved(p, i, j), <<low + by, high + by>>) = ItemsAt(p, <<low, high>>)
  <2>1. i \in Indices(p) /\ j \in Indices(p)
    BY DEF p
  <2>2. PICK q, n : q = Moved(p, i, j) /\ n = by
    OBVIOUS
  <2>3. ItemsAt(q, <<low + n, high + n>>) = ItemsAt(p, <<low, high>>)
    BY <1>1, <1>5, <1>9, <2>1, <2>2, PassedItems
  <2> QED BY <2>2, <2>3
<1>12. ItemsAt(t.list.right, Selection(w)) = ItemsAt(p, r)
  BY <1>2, <1>5, <1>10, <1>11
<1> QED BY <1>12 DEF t, w, p, r, v

(* The songs a user moves up or down are the songs selected when the server*)
(* reports the move, for selections of any length, made from either end    *)
(* (client.cc:488-517, 887-911).                                           *)
THEOREM MovedItemsStaySelected == Spec => SelectionFollowsMove
<1> DEFINE Follow == client.moving # NoMove /\ Follows(client)
              /\ client' = EvMove(Touched(AtRest), client.moving.i, client.moving.j)
              => ItemsAt(client.list.right, Selection(client.view.right))
                   = ItemsAt(client'.list.right, Selection(client'.view.right))
<1>1. Init => IInv
  BY InterfaceAssumption, InterfaceStarts
<1>2. IInv /\ [Next]_vars => IInv'
  BY InterfaceAssumption, InterfaceInvariant
<1>3. IInv /\ [Next]_vars => [Follow]_vars
  <2> SUFFICES ASSUME IInv, client.moving # NoMove,
                      client' = EvMove(Touched(AtRest), client.moving.i, client.moving.j)
               PROVE  ItemsAt(client.list.right, Selection(client.view.right))
                        = ItemsAt(client'.list.right, Selection(client'.view.right))
    OBVIOUS
  <2> DEFINE s == Touched(AtRest)  i == client.moving.i  j == client.moving.j
  <2>1. Good(AtRest) /\ SamePanels(client, AtRest)
    BY RestIs DEF IInv
  <2>2. s \in Client /\ s.list = client.list /\ s.view = client.view /\ s.active = client.active
    BY <2>1, TouchedIs DEF Good, SamePanels
  <2>3. LET r == Selection(client.view.right) IN
        /\ client.active = "right" /\ r[1] >= 0 /\ r[2] < Size(client, "right")
        /\ i \in Indices(client.list.right)
        /\ (i = r[2] + 1 /\ j = r[1]) \/ (i = r[1] - 1 /\ j = r[2])
    BY DEF IInv, Good, MoveOk
  <2>4. j \in Indices(client.list.right)
    <3>1. /\ client.list.right \in Seq(Item) /\ client.view.right.sel \in Int
          /\ client.view.right.xsel \in Int
      BY ClientIs DEF IInv, TypeOK, View
    <3>2. Selection(client.view.right)[1] \in Int /\ Selection(client.view.right)[2] \in Int
          /\ Selection(client.view.right)[1] <= Selection(client.view.right)[2]
      <4>1. PICK v : v = client.view.right
        OBVIOUS
      <4>2. CASE v.sel < 0
        <5>1. Selection(v) = <<-1, -1>>
          BY <4>2 DEF Selection
        <5> QED BY <4>1, <5>1
      <4>3. CASE ~(v.sel < 0)
        <5>1. Selection(v) = <<Least(v.sel, v.sel + v.xsel), Most(v.sel, v.sel + v.xsel)>>
          BY <4>3 DEF Selection
        <5>2. v.sel \in Int /\ v.xsel \in Int
          BY <3>1, <4>1
        <5> QED BY <4>1, <5>1, <5>2 DEF Least, Most
      <4> QED BY <4>2, <4>3
    <3> QED BY <2>3, <3>1, <3>2, LenProperties DEF Indices, Size
  <2> HIDE DEF s, i, j
  <2>5. Size(s, "right") = Size(client, "right")
    BY <2>2 DEF Size
  <2>6. LET r == Selection(s.view.right) IN
          /\ r[1] >= 0 /\ r[2] < Size(s, "right")
          /\ (i = r[2] + 1 /\ j = r[1]) \/ (i = r[1] - 1 /\ j = r[2])
    BY Zenon, <2>2, <2>3, <2>5
  <2>7. LET t == EvMove(s, i, j) IN
        ItemsAt(t.list.right, Selection(t.view.right))
          = ItemsAt(s.list.right, Selection(s.view.right))
    BY <2>2, <2>3, <2>4, <2>6, SelectionAfterMove
  <2>8. client' = EvMove(s, i, j)
    BY DEF s, i, j
  <2> QED BY Zenon, <2>2, <2>7, <2>8
<1>4. SelectionFollowsMove <=> [][Follow]_vars
  BY PTL DEF SelectionFollowsMove
<1> QED BY <1>1, <1>2, <1>3, <1>4, PTL DEF Spec

-----------------------------------------------------------------------------
(* The clients' copies of the playlist (PlistSync)                         *)

-----------------------------------------------------------------------------
(* The messages                                                            *)

RmMsg == [op : {"rm"}, files : SUBSET Path]
ModMsg == [op : {"mod"}, change : UNION {[F -> Path] : F \in SUBSET Path}]
ListMsg == [op : {"add"}, items : Seq(Path), pos : Int] \cup [op : {"del"}, i : Int, n : Int]
           \cup [op : {"move"}, i : Int, j : Int]
Edits == ListMsg \cup RmMsg \cup ModMsg
NewMsg == [op : {"new"}]
DataMsg == [op : {"data"}, list : Seq(Path)]
Sent == Edits \cup NewMsg
Got == Sent \cup DataMsg

LEMMA EditedAdd ==
  ASSUME NEW p, NEW e, e.op = "add"
  PROVE  Edited(p, e) = Inserted(p, e.items, e.pos)
BY Zenon DEF Edited

LEMMA EditedDel ==
  ASSUME NEW p, NEW e, e.op = "del"
  PROVE  Edited(p, e) = Removed(p, e.i, e.n)
BY Zenon DEF Edited

LEMMA EditedMove ==
  ASSUME NEW p, NEW e, e.op = "move"
  PROVE  Edited(p, e) = Moved(p, e.i, e.j)
BY Zenon DEF Edited

LEMMA EditedRm ==
  ASSUME NEW p, NEW e, e.op = "rm"
  PROVE  Edited(p, e) = WithoutFiles(p, e.files)
BY Zenon DEF Edited

LEMMA EditedMod ==
  ASSUME NEW p, NEW e, e.op = "mod"
  PROVE  Edited(p, e) = Renamed(p, e.change)
BY Zenon DEF Edited

LEMMA AfterNew ==
  ASSUME NEW s, NEW e, e.op = "new"
  PROVE  AfterEvent(s, e) = [s EXCEPT !.want = WantsAfterNew(s)]
BY Zenon DEF AfterEvent

LEMMA AfterList ==
  ASSUME NEW s, NEW e, e.op \in {"add", "del", "move"}
  PROVE  AfterEvent(s, e) = IF FollowsServer(s) THEN [s EXCEPT !.list = Edited(s.list, e)]
                            ELSE s
BY Zenon DEF AfterEvent

LEMMA AfterFiles ==
  ASSUME NEW s, NEW e, e.op \in {"rm", "mod"}
  PROVE  AfterEvent(s, e) = [s EXCEPT !.list = Edited(s.list, e)]
BY Zenon DEF AfterEvent

LEMMA AfterData ==
  ASSUME NEW s, NEW e, e.op = "data"
  PROVE  AfterEvent(s, e) = [s EXCEPT !.list = e.list, !.synced = TRUE,
                                      !.want = WantsAfterData(s), !.waits = "no"]
BY Zenon DEF AfterEvent

LEMMA OpsAre ==
  ASSUME NEW e
  PROVE  /\ e \in NewMsg => e.op = "new"
         /\ e \in DataMsg => e.op = "data" /\ e.list \in Seq(Path)
         /\ e \in RmMsg => e.op = "rm" /\ e.files \subseteq Path
         /\ e \in ModMsg => e.op = "mod" /\ e.change \in UNION {[F -> Path] : F \in SUBSET Path}
         /\ e \in ListMsg => \/ e.op = "add" /\ e.items \in Seq(Path) /\ e.pos \in Int
                             \/ e.op = "del" /\ e.i \in Int /\ e.n \in Int
                             \/ e.op = "move" /\ e.i \in Int /\ e.j \in Int
BY DEF NewMsg, DataMsg, RmMsg, ModMsg, ListMsg

LEMMA EventKinds ==
  ASSUME NEW e \in Got
  PROVE  /\ e.op \in {"new", "data", "rm", "mod", "add", "del", "move"}
         /\ e.op = "new" <=> e \in NewMsg
         /\ e.op = "data" <=> e \in DataMsg
         /\ e.op = "rm" <=> e \in RmMsg
         /\ e.op = "mod" <=> e \in ModMsg
         /\ e.op \in {"add", "del", "move"} <=> e \in ListMsg
         /\ e \in Sent <=> e.op # "data"
BY OpsAre DEF Got, Sent, Edits

LEMMA WithoutIn ==
  ASSUME NEW p \in Seq(Path), NEW F
  PROVE  WithoutFiles(p, F) \in Seq(Path)
<1> DEFINE K == {k \in DOMAIN p : p[k] \notin F}
<1>1. K \subseteq 1..Len(p)
  BY LenProperties
<1>2. Keeping(p, K) \in Seq(Path)
  BY <1>1, KeepingIn
<1> QED BY <1>2 DEF WithoutFiles

LEMMA RenamedIn ==
  ASSUME NEW p \in Seq(Path), NEW change \in UNION {[F -> Path] : F \in SUBSET Path}
  PROVE  Renamed(p, change) \in Seq(Path)
<1> DEFINE m == Len(p)
<1>1. m \in Nat /\ DOMAIN p = 1..m /\ \A k \in 1..m : p[k] \in Path
  BY LenProperties, ElementOfSeq
<1>2. \A f \in DOMAIN change : change[f] \in Path
  OBVIOUS
<1>3. Renamed(p, change) \in [1..m -> Path]
  BY <1>1, <1>2 DEF Renamed
<1> QED BY <1>1, <1>3, SeqFrom

LEMMA MovedAlways ==
  ASSUME NEW S, NEW p \in Seq(S), NEW i, NEW j
  PROVE  Moved(p, i, j) \in Seq(S)
<1>1. CASE i # j /\ {i, j} \subseteq Indices(p)
  BY <1>1, MovedIn
<1>2. CASE ~(i # j /\ {i, j} \subseteq Indices(p))
  BY <1>2 DEF Moved
<1> QED BY <1>1, <1>2

LEMMA EditedIn ==
  ASSUME NEW p \in Seq(Path), NEW e \in Edits
  PROVE  Edited(p, e) \in Seq(Path)
<1>1. CASE e \in RmMsg
  BY <1>1, OpsAre, EditedRm, WithoutIn
<1>2. CASE e \in ModMsg
  BY <1>2, OpsAre, EditedMod, RenamedIn
<1>3. CASE e \in ListMsg
  <2>1. CASE e.op = "add" /\ e.items \in Seq(Path) /\ e.pos \in Int
    BY <2>1, EditedAdd, InsertedIn
  <2>2. CASE e.op = "del" /\ e.i \in Int /\ e.n \in Int
    BY <2>2, EditedDel, RemovedIn
  <2>3. CASE e.op = "move" /\ e.i \in Int /\ e.j \in Int
    BY <2>3, EditedMove, MovedAlways
  <2> QED BY <1>3, <2>1, <2>2, <2>3, OpsAre
<1> QED BY <1>1, <1>2, <1>3 DEF Edits

(* What reading an event makes of a client                                 *)
LEMMA AfterEventIs ==
  ASSUME NEW s \in ClientState, NEW e \in Got, NEW t, t = AfterEvent(s, e)
  PROVE  /\ t \in ClientState
         /\ e.op # "data" => t.synced = s.synced /\ t.waits = s.waits /\ (s.want => t.want)
         /\ e.op = "new" => t.list = s.list /\ t.want = (s.want \/ s.synced)
         /\ e.op \in {"rm", "mod"} => t.list = Edited(s.list, e) /\ t.want = s.want
         /\ e.op \in {"add", "del", "move"} =>
              /\ t.want = s.want
              /\ t.list = IF s.synced /\ ~s.want THEN Edited(s.list, e) ELSE s.list
         /\ e.op = "data" => t.list = e.list /\ t.synced /\ t.waits = "no"
<1>0. /\ s.list \in Seq(Path) /\ s.synced \in BOOLEAN /\ s.want \in BOOLEAN
      /\ s.waits \in {"no", "update", "fetch"}
  BY DEF ClientState
<1>1. CASE e.op = "new"
  <2>1. t = [s EXCEPT !.want = WantsAfterNew(s)]
    BY <1>1, AfterNew
  <2>2. WantsAfterNew(s) \in BOOLEAN /\ WantsAfterNew(s) = (s.want \/ s.synced)
    BY <1>0 DEF WantsAfterNew
  <2> QED BY <1>1, <2>1, <2>2 DEF ClientState
<1>2. CASE e.op = "data"
  <2>1. t = [s EXCEPT !.list = e.list, !.synced = TRUE, !.want = WantsAfterData(s),
                      !.waits = "no"]
    BY <1>2, AfterData
  <2>2. WantsAfterData(s) \in BOOLEAN
    BY <1>0 DEF WantsAfterData
  <2>3. e.list \in Seq(Path)
    BY <1>2, EventKinds, OpsAre
  <2> QED BY <1>2, <2>1, <2>2, <2>3 DEF ClientState
<1>3. CASE e.op \in {"rm", "mod"}
  <2>1. t = [s EXCEPT !.list = Edited(s.list, e)]
    BY <1>3, AfterFiles
  <2>2. PICK q : q = Edited(s.list, e)
    OBVIOUS
  <2>3. e \in Edits
    BY <1>3, EventKinds DEF Edits
  <2>4. q \in Seq(Path)
    BY <1>0, <2>2, <2>3, EditedIn
  <2> QED BY <1>3, <2>1, <2>2, <2>4 DEF ClientState
<1>4. CASE e.op \in {"add", "del", "move"}
  <2>1. t = IF FollowsServer(s) THEN [s EXCEPT !.list = Edited(s.list, e)] ELSE s
    BY <1>4, AfterList
  <2>2. PICK q : q = Edited(s.list, e)
    OBVIOUS
  <2>3. e \in Edits
    BY <1>4, EventKinds DEF Edits
  <2>4. q \in Seq(Path)
    BY <1>0, <2>2, <2>3, EditedIn
  <2> QED BY <1>4, <2>1, <2>2, <2>4 DEF ClientState, FollowsServer
<1> QED BY <1>1, <1>2, <1>3, <1>4, EventKinds

-----------------------------------------------------------------------------
(* Reading one event after the other                                       *)

(* What holds of 0 and of each next number holds up to the end.            *)
LEMMA UpTo ==
  ASSUME NEW m \in Nat, NEW T, 0 \in T, \A k \in 1..m : k - 1 \in T => k \in T
  PROVE  \A k \in 0..m : k \in T
<1> DEFINE D == {k \in 0..m : k \notin T}
<1>1. ASSUME D # {} PROVE FALSE
  <2>1. D \subseteq Nat
    OBVIOUS
  <2>2. PICK x \in D : \A y \in D : x <= y
    BY <1>1, <2>1, LeastOfNat
  <2>3. x \in 1..m /\ x - 1 \in 0..m /\ x - 1 \notin D
    BY <2>2
  <2> QED BY <2>2, <2>3
<1> QED BY <1>1

(* f is the client's state after each of the events e, from s on.          *)
Steps(f, s, e) == f[0] = s /\ \A k \in 1..Len(e) : f[k] = AfterEvent(f[k - 1], e[k])
Runs(f, s, e) == f \in [0..Len(e) -> ClientState] /\ Steps(f, s, e)

LEMMA RunExists ==
  ASSUME NEW s \in ClientState, NEW e \in Seq(Got)
  PROVE  \E f : Runs(f, s, e)
<1> DEFINE m == Len(e)
           RunTo(n, f) == /\ f \in [0..n -> ClientState] /\ f[0] = s
                          /\ \A k \in 1..n : f[k] = AfterEvent(f[k - 1], e[k])
           T == {n \in 0..m : \E f : RunTo(n, f)}
<1>1. m \in Nat /\ \A k \in 1..m : e[k] \in Got
  BY LenProperties, ElementOfSeq
<1>2. 0 \in T
  <2>1. RunTo(0, [k \in 0..0 |-> s])
    OBVIOUS
  <2>2. \E f : RunTo(0, f)
    BY <2>1
  <2> HIDE DEF RunTo
  <2> QED BY <1>1, <2>2
<1>3. ASSUME NEW n \in 1..m, n - 1 \in T PROVE n \in T
  <2>1. PICK f : RunTo(n - 1, f)
    BY <1>3
  <2>2. f[n - 1] \in ClientState
    BY <2>1, <1>1
  <2>3. PICK t : t = AfterEvent(f[n - 1], e[n])
    OBVIOUS
  <2>4. t \in ClientState
    BY <1>1, <2>2, <2>3, AfterEventIs
  <2>5. PICK g : g = [k \in 0..n |-> IF k = n THEN t ELSE f[k]]
    OBVIOUS
  <2>6. g \in [0..n -> ClientState] /\ g[0] = s
    BY <1>1, <2>1, <2>4, <2>5
  <2>7. ASSUME NEW k \in 1..n PROVE g[k] = AfterEvent(g[k - 1], e[k])
    <3>1. CASE k = n
      <4>1. g[k] = t /\ g[k - 1] = f[n - 1]
        BY <1>1, <2>5, <3>1
      <4> QED BY <2>3, <3>1, <4>1
    <3>2. CASE k # n
      <4>1. k \in 1..n - 1 /\ g[k] = f[k] /\ g[k - 1] = f[k - 1]
        BY <1>1, <2>5, <3>2
      <4> QED BY <2>1, <4>1
    <3> QED BY <3>1, <3>2
  <2>8. RunTo(n, g)
    BY <2>6, <2>7
  <2> QED BY <1>1, <2>8
<1> HIDE DEF T
<1>4. \A n \in 0..m : n \in T
  BY <1>1, <1>2, <1>3, UpTo
<1>5. m \in T
  BY <1>1, <1>4
<1> QED BY <1>5 DEF T, Runs, Steps

LEMMA RunIsOne ==
  ASSUME NEW s, NEW e, Len(e) \in Nat, NEW f, NEW g, Steps(f, s, e), Steps(g, s, e)
  PROVE  \A k \in 0..Len(e) : f[k] = g[k]
<1> DEFINE m == Len(e)
           T == {k \in 0..m : f[k] = g[k]}
<1>1. 0 \in T
  BY DEF Steps
<1>2. ASSUME NEW k \in 1..m, k - 1 \in T PROVE k \in T
  <2>1. f[k - 1] = g[k - 1]
    BY <1>2
  <2>2. f[k] = AfterEvent(f[k - 1], e[k]) /\ g[k] = AfterEvent(g[k - 1], e[k])
    BY DEF Steps
  <2>3. f[k] = g[k]
    BY <2>1, <2>2
  <2> QED BY <2>3
<1> HIDE DEF T
<1>3. \A k \in 0..m : k \in T
  BY <1>1, <1>2, UpTo
<1> QED BY <1>3 DEF T

LEMMA RunIsView ==
  ASSUME NEW s \in ClientState, NEW e \in Seq(Got), NEW f, Runs(f, s, e)
  PROVE  AfterEvents(s, e) = f[Len(e)]
<1> DEFINE m == Len(e)
           F(h) == [k \in 0..m |-> IF k = 0 THEN s ELSE AfterEvent(h[k - 1], e[k])]
           a == CHOOSE h : h = F(h)
<1>1. m \in Nat
  BY LenProperties
<1>2. f = F(f)
  <2>1. /\ f \in [0..m -> ClientState] /\ f[0] = s
        /\ \A k \in 1..m : f[k] = AfterEvent(f[k - 1], e[k])
    BY DEF Runs, Steps
  <2>2. \A k \in 0..m : f[k] = F(f)[k]
    BY <1>1, <2>1
  <2>3. f = [k \in 0..m |-> f[k]]
    BY <2>1
  <2> QED BY <2>2, <2>3
<1>3. a = F(a)
  BY <1>2
<1>4. AfterEvents(s, e) = a[m]
  BY DEF AfterEvents
<1>5. Steps(a, s, e)
  <2> HIDE DEF a
  <2> QED BY <1>1, <1>3 DEF Steps
<1>6. Steps(f, s, e)
  BY DEF Runs
<1> HIDE DEF a
<1>7. \A k \in 0..m : f[k] = a[k]
  BY <1>1, <1>5, <1>6, RunIsOne
<1> QED BY <1>1, <1>4, <1>7

LEMMA ViewIn ==
  ASSUME NEW s \in ClientState, NEW e \in Seq(Got)
  PROVE  AfterEvents(s, e) \in ClientState
<1>1. PICK f : Runs(f, s, e)
  BY RunExists
<1>2. AfterEvents(s, e) = f[Len(e)] /\ Len(e) \in Nat
  BY <1>1, RunIsView, LenProperties
<1> QED BY <1>1, <1>2 DEF Runs

(* One more event at the end                                               *)
LEMMA ViewOfAppend ==
  ASSUME NEW s \in ClientState, NEW e \in Seq(Got), NEW x \in Got
  PROVE  AfterEvents(s, Append(e, x)) = AfterEvent(AfterEvents(s, e), x)
<1> DEFINE m == Len(e)
<1>1. PICK b : b = Append(e, x)
  OBVIOUS
<1>2. m \in Nat /\ b \in Seq(Got) /\ Len(b) = m + 1 /\ b[m + 1] = x /\ \A k \in 1..m : b[k] = e[k]
  BY <1>1, AppendProperties, LenProperties
<1>3. PICK g : Runs(g, s, b)
  BY <1>2, RunExists
<1>4. PICK f : f = [k \in 0..m |-> g[k]]
  OBVIOUS
<1>5. Runs(f, s, e)
  <2>1. \A k \in 1..m : /\ k \in 1..Len(b) /\ k - 1 \in 0..m /\ k \in 0..m
                        /\ b[k] = e[k]
    BY <1>2
  <2>2. f[0] = s
    BY <1>2, <1>3, <1>4 DEF Runs, Steps
  <2>3. f \in [0..m -> ClientState]
    BY <1>2, <1>3, <1>4 DEF Runs
  <2>4. \A k \in 1..m : f[k] = AfterEvent(f[k - 1], e[k])
    <3>1. ASSUME NEW k \in 1..m PROVE f[k] = AfterEvent(f[k - 1], e[k])
      <4>1. g[k] = AfterEvent(g[k - 1], b[k])
        BY <1>3, <2>1 DEF Runs, Steps
      <4>2. f[k] = g[k] /\ f[k - 1] = g[k - 1] /\ b[k] = e[k]
        BY <1>4, <2>1
      <4> QED BY <4>1, <4>2
    <3> QED BY <3>1
  <2> QED BY <2>2, <2>3, <2>4 DEF Runs, Steps
<1>6. AfterEvents(s, e) = f[m]
  BY <1>5, RunIsView
<1>7. AfterEvents(s, b) = g[m + 1]
  BY <1>2, <1>3, RunIsView
<1>8. g[m + 1] = AfterEvent(g[m], x)
  <2>1. m + 1 \in 1..Len(b) /\ (m + 1) - 1 = m
    BY <1>2
  <2>2. g[m + 1] = AfterEvent(g[(m + 1) - 1], b[m + 1])
    BY <1>3, <2>1 DEF Runs, Steps
  <2> QED BY <1>2, <2>1, <2>2
<1>9. f[m] = g[m]
  BY <1>2, <1>4
<1> QED BY <1>1, <1>6, <1>7, <1>8, <1>9

(* The first event                                                         *)
LEMMA ViewOfHead ==
  ASSUME NEW s \in ClientState, NEW e \in Seq(Got), e # <<>>
  PROVE  AfterEvents(s, e) = AfterEvents(AfterEvent(s, Head(e)), Tail(e))
<1> DEFINE m == Len(e)
<1>1. PICK b : b = Tail(e)
  OBVIOUS
<1>2. /\ m \in Nat \ {0} /\ b \in Seq(Got) /\ Len(b) = m - 1 /\ Head(e) = e[1]
      /\ \A k \in 1..m - 1 : b[k] = e[k + 1]
  BY <1>1, HeadTailProperties, LenProperties, EmptySeq
<1>3. PICK g : Runs(g, s, e)
  BY RunExists
<1>4. PICK f : f = [k \in 0..m - 1 |-> g[k + 1]]
  OBVIOUS
<1>5. PICK t : t = AfterEvent(s, Head(e))
  OBVIOUS
<1>6. f[0] = t
  <2>1. g[1] = AfterEvent(g[1 - 1], e[1]) /\ 1 - 1 = 0 /\ g[0] = s
    BY <1>2, <1>3 DEF Runs, Steps
  <2>2. f[0] = g[1]
    BY <1>2, <1>4
  <2> QED BY <1>2, <1>5, <2>1, <2>2
<1>7. Runs(f, t, b)
  <2>1. f \in [0..m - 1 -> ClientState]
    BY <1>2, <1>3, <1>4 DEF Runs
  <2>2. ASSUME NEW k \in 1..m - 1 PROVE f[k] = AfterEvent(f[k - 1], b[k])
    <3>1. /\ k + 1 \in 1..m /\ (k + 1) - 1 = k /\ k - 1 \in 0..m - 1 /\ k \in 0..m - 1
          /\ (k - 1) + 1 = k
      BY <1>2
    <3>2. g[k + 1] = AfterEvent(g[k], e[k + 1])
      BY <1>3, <3>1 DEF Runs, Steps
    <3>3. f[k] = g[k + 1] /\ f[k - 1] = g[k]
      BY <1>4, <3>1
    <3> QED BY <1>2, <3>2, <3>3
  <2> QED BY <1>2, <1>6, <2>1, <2>2 DEF Runs, Steps
<1>8. t \in ClientState
  BY <1>6, <1>7, <1>2 DEF Runs
<1>9. AfterEvents(t, b) = f[m - 1]
  BY <1>2, <1>7, <1>8, RunIsView
<1>10. AfterEvents(s, e) = g[m]
  BY <1>3, RunIsView
<1>11. f[m - 1] = g[m]
  BY <1>2, <1>4
<1> QED BY <1>1, <1>5, <1>9, <1>10, <1>11

(* Nothing but an answer ends a wait or makes a list the server's.         *)
LEMMA ViewWithoutAnswer ==
  ASSUME NEW s \in ClientState, NEW e \in Seq(Got), \A k \in 1..Len(e) : e[k].op # "data"
  PROVE  AfterEvents(s, e).synced = s.synced /\ AfterEvents(s, e).waits = s.waits
<1> DEFINE m == Len(e)
<1>1. m \in Nat /\ \A k \in 1..m : e[k] \in Got
  BY LenProperties, ElementOfSeq
<1>2. PICK f : Runs(f, s, e)
  BY RunExists
<1> DEFINE T == {k \in 0..m : f[k].synced = s.synced /\ f[k].waits = s.waits}
<1>3. 0 \in T
  BY <1>1, <1>2 DEF Runs, Steps
<1>4. ASSUME NEW k \in 1..m, k - 1 \in T PROVE k \in T
  <2>1. PICK q, t, x : q = f[k - 1] /\ t = f[k] /\ x = e[k]
    OBVIOUS
  <2>2. q \in ClientState /\ x \in Got /\ x.op # "data"
    BY <1>1, <1>2, <2>1 DEF Runs
  <2>3. t = AfterEvent(q, x)
    BY <1>1, <1>2, <2>1 DEF Runs, Steps
  <2>4. t.synced = q.synced /\ t.waits = q.waits
    BY ONLY <2>2, <2>3, AfterEventIs
  <2> QED BY <1>4, <2>1, <2>4
<1> HIDE DEF T
<1>5. \A k \in 0..m : k \in T
  BY <1>1, <1>3, <1>4, UpTo
<1>6. m \in T
  BY <1>1, <1>5
<1> QED BY <1>2, <1>6, RunIsView DEF T

(* Some events, and then others                                            *)
LEMMA ViewOfBoth ==
  ASSUME NEW s \in ClientState, NEW a \in Seq(Got), NEW b \in Seq(Got)
  PROVE  AfterEvents(s, a \o b) = AfterEvents(AfterEvents(s, a), b)
<1> DEFINE m == Len(a)  l == Len(b)
<1>1. PICK e : e = a \o b
  OBVIOUS
<1>2. /\ m \in Nat /\ l \in Nat /\ e \in Seq(Got) /\ Len(e) = m + l
      /\ \A k \in 1..m + l : e[k] = IF k <= m THEN a[k] ELSE b[k - m]
  BY <1>1, JoinIs, LenProperties
<1>3. PICK g : Runs(g, s, e)
  BY <1>2, RunExists
<1>4. PICK f, h : f = [k \in 0..m |-> g[k]] /\ h = [k \in 0..l |-> g[m + k]]
  OBVIOUS
<1>5. \A k \in 0..m + l : g[k] \in ClientState
  BY <1>2, <1>3 DEF Runs
<1>6. g[0] = s /\ \A k \in 1..m + l : g[k] = AfterEvent(g[k - 1], e[k])
  BY <1>2, <1>3 DEF Runs, Steps
<1>7. Runs(f, s, a)
  <2>1. f \in [0..m -> ClientState] /\ f[0] = s
    BY <1>2, <1>4, <1>5, <1>6
  <2>2. ASSUME NEW k \in 1..m PROVE f[k] = AfterEvent(f[k - 1], a[k])
    <3>1. f[k] = g[k] /\ f[k - 1] = g[k - 1] /\ k \in 1..m + l /\ e[k] = a[k]
      BY <1>2, <1>4
    <3> QED BY <1>6, <3>1
  <2> QED BY <2>1, <2>2 DEF Runs, Steps
<1>8. AfterEvents(s, a) = g[m]
  <2>1. AfterEvents(s, a) = f[m]
    BY <1>7, RunIsView
  <2> QED BY <1>2, <1>4, <2>1
<1>9. PICK t : t = g[m]
  OBVIOUS
<1>10. t \in ClientState
  BY <1>2, <1>5, <1>9
<1>11. Runs(h, t, b)
  <2>1. h \in [0..l -> ClientState] /\ h[0] = t
    BY <1>2, <1>4, <1>5, <1>9
  <2>2. ASSUME NEW k \in 1..l PROVE h[k] = AfterEvent(h[k - 1], b[k])
    <3>1. PICK j : j = m + k
      OBVIOUS
    <3>2. /\ j \in 1..m + l /\ ~(j <= m) /\ j - m = k /\ h[k] = g[j]
          /\ m + (k - 1) = j - 1 /\ k - 1 \in 0..l
      BY <1>2, <1>4, <3>1
    <3>3. h[k - 1] = g[j - 1] /\ e[j] = b[k]
      BY <1>2, <1>4, <3>2
    <3> QED BY <1>6, <3>2, <3>3
  <2> QED BY <2>1, <2>2 DEF Runs, Steps
<1>12. AfterEvents(t, b) = h[l]
  BY <1>10, <1>11, RunIsView
<1>13. AfterEvents(s, e) = g[m + l]
  <2>1. AfterEvents(s, e) = g[Len(e)]
    BY <1>2, <1>3, RunIsView
  <2> QED BY <1>2, <2>1
<1>14. h[l] = g[m + l]
  BY <1>2, <1>4
<1> QED BY <1>1, <1>8, <1>9, <1>12, <1>13, <1>14

LEMMA KeepingAll ==
  ASSUME NEW p \in Seq(Path)
  PROVE  Keeping(p, 1..Len(p)) = p
<1> DEFINE m == Len(p)
<1>1. m \in Nat /\ Cardinality(1..m) = m /\ p = [n \in 1..m |-> p[n]]
  BY LenProperties, IntervalIs
<1>2. ASSUME NEW n \in 1..m PROVE NthOf(1..m, n) = n
  <2>1. PICK k : k = NthOf(1..m, n)
    OBVIOUS
  <2>2. PICK S : S = 1..m
    OBVIOUS
  <2>3. NthOf(S, n) \in S /\ Cardinality({j \in S : j <= NthOf(S, n)}) = n
    BY <1>1, <2>2, NthIs
  <2>4. k \in 1..m /\ {j \in S : j <= k} = 1..k
    BY <1>1, <2>1, <2>2, <2>3
  <2>5. Cardinality(1..k) = n
    BY <2>1, <2>2, <2>3, <2>4
  <2>6. Cardinality(1..k) = k
    BY <1>1, <2>4, IntervalIs
  <2> QED BY <2>1, <2>5, <2>6
<1>3. Keeping(p, 1..m) = [n \in 1..Cardinality(1..m) |-> p[NthOf(1..m, n)]]
  BY DEF Keeping
<1>4. Keeping(p, 1..m) = [n \in 1..m |-> p[n]]
  BY <1>1, <1>2, <1>3
<1> QED BY <1>1, <1>4

LEMMA WithoutNone ==
  ASSUME NEW p \in Seq(Path), NEW F, \A k \in 1..Len(p) : p[k] \notin F
  PROVE  WithoutFiles(p, F) = p
<1>1. DOMAIN p = 1..Len(p)
  BY LenProperties
<1>2. {k \in DOMAIN p : p[k] \notin F} = 1..Len(p)
  BY <1>1
<1> QED BY <1>2, KeepingAll DEF WithoutFiles

LEMMA WithoutAvoids ==
  ASSUME NEW p \in Seq(Path), NEW F, NEW G
  PROVE  LET q == WithoutFiles(p, F) IN
         \A k \in 1..Len(q) : /\ q[k] \notin F
                              /\ (\A j \in 1..Len(p) : p[j] \notin G) => q[k] \notin G
<1> DEFINE K == {k \in DOMAIN p : p[k] \notin F}  l == Cardinality(K)
<1>1. Len(p) \in Nat /\ DOMAIN p = 1..Len(p)
  BY LenProperties
<1>2. K \subseteq 1..Len(p)
  BY <1>1
<1>3. PICK q : q = WithoutFiles(p, F)
  OBVIOUS
<1>4. q = Keeping(p, K)
  BY <1>3 DEF WithoutFiles
<1>5. l \in Nat
  <2>1. IsFiniteSet(1..Len(p))
    BY <1>1, IntervalIs
  <2>2. IsFiniteSet(K)
    BY <1>2, <2>1, FS_Subset
  <2> QED BY <2>2, FS_CardinalityType
<1> HIDE DEF l, K
<1>6. q = [n \in 1..l |-> p[NthOf(K, n)]]
  BY <1>4 DEF Keeping, l
<1>7. q \in Seq(Path)
  BY <1>3, WithoutIn
<1>8. Len(q) = l
  <2>1. DOMAIN q = 1..Len(q) /\ Len(q) \in Nat
    BY <1>7, LenProperties
  <2>2. DOMAIN q = 1..l
    BY <1>6
  <2>3. PICK n : n = Len(q)
    OBVIOUS
  <2>4. n \in Nat /\ 1..n = 1..l
    BY <2>1, <2>2, <2>3
  <2>5. n = l
    BY <1>5, <2>4
  <2> QED BY <2>3, <2>5
<1>9. ASSUME NEW k \in 1..Len(q)
      PROVE /\ q[k] \notin F
            /\ (\A j \in 1..Len(p) : p[j] \notin G) => q[k] \notin G
  <2>1. PICK j : j = NthOf(K, k)
    OBVIOUS
  <2>2. k \in 1..Cardinality(K)
    BY <1>8 DEF l
  <2>3. j \in K
    BY <1>1, <1>2, <2>1, <2>2, NthIs
  <2>4. q[k] = p[j]
    BY <1>6, <1>8, <2>1
  <2>5. j \in 1..Len(p) /\ p[j] \notin F
    BY <1>1, <2>3 DEF K
  <2> QED BY <2>4, <2>5
<1> QED BY <1>3, <1>9

LEMMA RenamedNone ==
  ASSUME NEW p \in Seq(Path), NEW change, DOMAIN change = {}
  PROVE  Renamed(p, change) = p
<1>1. p = [k \in DOMAIN p |-> p[k]]
  BY LenProperties
<1> QED BY <1>1 DEF Renamed

LEMMA SentIsGot ==
  ASSUME NEW e \in Seq(Sent)
  PROVE  e \in Seq(Got)
<1>1. Len(e) \in Nat /\ DOMAIN e = 1..Len(e) /\ e \in [1..Len(e) -> Sent]
  BY LenProperties
<1>2. e \in [1..Len(e) -> Got]
  BY <1>1 DEF Got
<1> QED BY <1>1, <1>2, SeqDef

(* An item the server removed the file of is not in its list again if only *)
(* removals are still to be sent after that one.                           *)
Gone(e, p) ==
  \A k \in 1..Len(e) : (\A j \in k..Len(e) : e[j].op = "rm")
                         => \A i \in 1..Len(p) : p[i] \notin e[k].files

(* A list fetched while only removals and new lists are still to be sent   *)
LEMMA ViewOfFetch ==
  ASSUME NEW p \in Seq(Path), NEW s \in ClientState, s.list = p, s.synced,
         NEW e \in Seq(Sent), \A k \in 1..Len(e) : e[k].op \in {"new", "rm"}, Gone(e, p)
  PROVE  AfterEvents(s, e).want \/ AfterEvents(s, e).list = p
<1> DEFINE m == Len(e)
<1>1. m \in Nat /\ e \in Seq(Got) /\ \A k \in 1..m : e[k] \in Got
  BY SentIsGot, LenProperties, ElementOfSeq
<1>2. PICK f : Runs(f, s, e)
  BY <1>1, RunExists
<1>3. AfterEvents(s, e) = f[m]
  BY <1>1, <1>2, RunIsView
<1>4. ASSUME NEW n \in 1..m, e[n].op = "new" PROVE f[m].want
  <2> DEFINE T == {k \in 0..m : f[k].synced /\ (k >= n => f[k].want)}
  <2>1. 0 \in T
    BY <1>1, <1>2 DEF Runs, Steps
  <2>2. ASSUME NEW k \in 1..m, k - 1 \in T PROVE k \in T
    <3>1. PICK q, t, x : q = f[k - 1] /\ t = f[k] /\ x = e[k]
      OBVIOUS
    <3>2. q \in ClientState /\ x \in Got /\ x.op \in {"new", "rm"}
      BY <1>1, <1>2, <3>1 DEF Runs
    <3>3. t = AfterEvent(q, x)
      BY <1>1, <1>2, <3>1 DEF Runs, Steps
    <3>4. /\ t.synced = q.synced /\ (q.want => t.want)
          /\ x.op = "new" => t.want = (q.want \/ q.synced)
      BY ONLY <3>2, <3>3, AfterEventIs
    <3>5. q.synced /\ (k - 1 >= n => q.want)
      BY <2>2, <3>1
    <3>6. k >= n => k - 1 >= n \/ x.op = "new"
      BY <1>4, <3>1
    <3>7. t.synced /\ (k >= n => t.want)
      BY <3>4, <3>5, <3>6
    <3> QED BY <3>1, <3>7
  <2> HIDE DEF T
  <2>3. \A k \in 0..m : k \in T
    BY <1>1, <2>1, <2>2, UpTo
  <2> QED BY <1>1, <1>4, <2>3 DEF T
<1>5. ASSUME \A n \in 1..m : e[n].op = "rm" PROVE f[m].list = p
  <2> DEFINE T == {k \in 0..m : f[k].list = p}
  <2>1. 0 \in T
    BY <1>1, <1>2 DEF Runs, Steps
  <2>2. ASSUME NEW k \in 1..m, k - 1 \in T PROVE k \in T
    <3>1. PICK q, t, x : q = f[k - 1] /\ t = f[k] /\ x = e[k]
      OBVIOUS
    <3>2. q \in ClientState /\ x \in Got /\ x.op = "rm"
      BY <1>1, <1>2, <1>5, <3>1 DEF Runs
    <3>3. t = AfterEvent(q, x)
      BY <1>1, <1>2, <3>1 DEF Runs, Steps
    <3>4. t.list = Edited(q.list, x)
      BY ONLY <3>2, <3>3, AfterEventIs
    <3>5. q.list = p
      BY <2>2, <3>1
    <3>6. \A i \in 1..Len(p) : p[i] \notin x.files
      BY <1>5, <3>1 DEF Gone
    <3>7. t.list = WithoutFiles(p, x.files)
      BY <3>2, <3>4, <3>5, EditedRm
    <3>8. t.list = p
      BY <3>6, <3>7, WithoutNone
    <3> QED BY <3>1, <3>8
  <2> HIDE DEF T
  <2>3. \A k \in 0..m : k \in T
    BY <1>1, <2>1, <2>2, UpTo
  <2> QED BY <1>1, <2>3 DEF T
<1> QED BY <1>3, <1>4, <1>5

-----------------------------------------------------------------------------
(* The inductive invariant                                                 *)

Asked == Edits \cup [op : {"play"}, list : Seq(Path)] \cup [op : {"get"}]

Typed == /\ plist \in Seq(Path) /\ files \subseteq Path
         /\ outbox \in [Clients -> Seq(Sent)] /\ down \in [Clients -> Seq(Got)]
         /\ up \in [Clients -> Seq(Asked)]
         /\ cli \in [Clients -> ClientState] /\ overtaken \in [Clients -> BOOLEAN]

(* A client that waits has one request or one answer on its way.           *)
Waits(c) ==
  /\ \A k \in 1..Len(up[c]) : up[c][k].op = "get" => k = Len(up[c]) /\ cli[c].waits # "no"
  /\ \A k \in 1..Len(down[c]) : down[c][k].op = "data" =>
       /\ cli[c].waits # "no"
       /\ \A j \in 1..Len(down[c]) : down[c][j].op = "data" => j = k
       /\ \A j \in 1..Len(up[c]) : up[c][j].op # "get"

Agrees(c) ==
  LET v == Settled(c) IN
    v.synced /\ ~v.want /\ v.waits = "no" /\ ~Sends(c, "play") /\ ~overtaken[c]
      => v.list = plist

SyncInv == Typed /\ \A c \in Clients : Waits(c) /\ Gone(outbox[c], plist) /\ Agrees(c)

(* Queues with one message more or less                                    *)

LEMMA AppendedIs ==
  ASSUME NEW S, NEW e \in Seq(S), NEW x \in S
  PROVE  /\ Append(e, x) \in Seq(S) /\ Len(Append(e, x)) = Len(e) + 1
         /\ Append(e, x)[Len(e) + 1] = x
         /\ \A k \in 1..Len(e) : Append(e, x)[k] = e[k]
BY AppendProperties

LEMMA TailIs ==
  ASSUME NEW S, NEW e \in Seq(S), e # <<>>
  PROVE  /\ Tail(e) \in Seq(S) /\ Len(e) \in Nat \ {0} /\ Len(Tail(e)) = Len(e) - 1
         /\ Head(e) = e[1] /\ Head(e) \in S
         /\ \A k \in 1..Len(e) - 1 : Tail(e)[k] = e[k + 1]
<1>1. Len(e) \in Nat \ {0}
  BY LenProperties, EmptySeq
<1>2. e[1] \in S
  BY <1>1, ElementOfSeq
<1> QED BY <1>1, <1>2, HeadTailProperties

LEMMA GoneAfterOther ==
  ASSUME NEW e \in Seq(Sent), NEW x \in Sent, x.op # "rm", NEW p
  PROVE  Gone(Append(e, x), p)
<1> DEFINE m == Len(e)
<1>1. PICK b : b = Append(e, x)
  OBVIOUS
<1>2. m \in Nat /\ Len(b) = m + 1 /\ b[m + 1] = x
  BY <1>1, AppendedIs, LenProperties
<1>3. ASSUME NEW k \in 1..Len(b) PROVE ~(\A j \in k..Len(b) : b[j].op = "rm")
  BY <1>2
<1> QED BY <1>1, <1>3 DEF Gone

LEMMA GoneAfterRm ==
  ASSUME NEW p \in Seq(Path), NEW e \in Seq(Sent), Gone(e, p),
         NEW x \in Sent, x.op = "rm", NEW q, q = WithoutFiles(p, x.files)
  PROVE  Gone(Append(e, x), q)
<1> DEFINE m == Len(e)
<1>1. PICK b : b = Append(e, x)
  OBVIOUS
<1>2. m \in Nat /\ Len(b) = m + 1 /\ b[m + 1] = x /\ \A k \in 1..m : b[k] = e[k]
  BY <1>1, AppendedIs, LenProperties
<1>3. ASSUME NEW k \in 1..Len(b), \A j \in k..Len(b) : b[j].op = "rm",
             NEW i \in 1..Len(q)
      PROVE  q[i] \notin b[k].files
  <2>1. CASE k = m + 1
    BY <1>2, <2>1, WithoutAvoids
  <2>2. CASE k # m + 1
    <3>1. k \in 1..m /\ b[k] = e[k]
      BY <1>2, <2>2
    <3>2. ASSUME NEW j \in k..m PROVE e[j].op = "rm"
      <4>1. j \in k..Len(b) /\ b[j] = e[j]
        BY <1>2, <3>1
      <4> QED BY <1>3, <4>1
    <3>3. \A j \in 1..Len(p) : p[j] \notin e[k].files
      BY <3>1, <3>2 DEF Gone
    <3>4. PICK G : G = e[k].files
      OBVIOUS
    <3>5. q[i] \notin G
      BY <3>3, <3>4, WithoutAvoids
    <3> QED BY <3>1, <3>4, <3>5
  <2> QED BY <2>1, <2>2
<1> QED BY <1>1, <1>3 DEF Gone

LEMMA GoneOfTail ==
  ASSUME NEW p, NEW e \in Seq(Sent), e # <<>>, Gone(e, p)
  PROVE  Gone(Tail(e), p)
<1> DEFINE m == Len(e)
<1>1. PICK b : b = Tail(e)
  OBVIOUS
<1>2. m \in Nat \ {0} /\ Len(b) = m - 1 /\ \A k \in 1..m - 1 : b[k] = e[k + 1]
  BY <1>1, TailIs
<1>3. ASSUME NEW k \in 1..Len(b), \A j \in k..Len(b) : b[j].op = "rm",
             NEW i \in 1..Len(p)
      PROVE  p[i] \notin b[k].files
  <2>1. k + 1 \in 1..m /\ b[k] = e[k + 1]
    BY <1>2
  <2>2. ASSUME NEW j \in k + 1..m PROVE e[j].op = "rm"
    <3>1. j - 1 \in k..Len(b) /\ (j - 1) + 1 = j /\ j - 1 \in 1..m - 1
      BY <1>2
    <3>2. b[j - 1] = e[j] /\ b[j - 1].op = "rm"
      BY <1>2, <1>3, <3>1
    <3> QED BY <3>2
  <2>3. p[i] \notin e[k + 1].files
    BY <2>1, <2>2 DEF Gone
  <2> QED BY <2>1, <2>3
<1> QED BY <1>1, <1>3 DEF Gone

(* Taking a request off the socket                                         *)
LEMMA ReceiveIs ==
  ASSUME Typed, NEW c \in Clients, NEW op, Receive(c, op)
  PROVE  /\ up' \in [Clients -> Seq(Asked)]
         /\ Head(up[c]) \in Asked /\ Head(up[c]).op = op
         /\ up'[c] = Tail(up[c]) /\ \A d \in Clients \ {c} : up'[d] = up[d]
<1>1. up[c] \in Seq(Asked) /\ up[c] # <<>> /\ up' = [up EXCEPT ![c] = Tail(up[c])]
  BY DEF Typed, Receive
<1>2. Tail(up[c]) \in Seq(Asked) /\ Head(up[c]) \in Asked
  BY <1>1, TailIs
<1>3. up \in [Clients -> Seq(Asked)] /\ Head(up[c]).op = op
  BY DEF Typed, Receive
<1> QED BY <1>1, <1>2, <1>3

LEMMA ReceiveWaits ==
  ASSUME Typed, NEW c \in Clients, NEW op, Receive(c, op), NEW d \in Clients, Waits(d),
         down' = down, cli' = cli
  PROVE  Waits(d)'
<1>1. CASE d # c
  <2>1. up'[d] = up[d]
    BY <1>1, ReceiveIs
  <2> QED BY <2>1 DEF Waits
<1>2. CASE d = c
  <2>1. PICK u : u = up[c]
    OBVIOUS
  <2>2. u \in Seq(Asked) /\ u # <<>>
    BY <2>1 DEF Typed, Receive
  <2>3. PICK t : t = Tail(u)
    OBVIOUS
  <2>4. /\ Len(u) \in Nat \ {0} /\ Len(t) = Len(u) - 1
        /\ \A k \in 1..Len(u) - 1 : t[k] = u[k + 1]
    BY <2>2, <2>3, TailIs
  <2>5. up'[c] = t
    BY <2>1, <2>3, ReceiveIs
  <2>6. ASSUME NEW k \in 1..Len(t)
        PROVE  k + 1 \in 1..Len(u) /\ t[k] = u[k + 1] /\ (k + 1 = Len(u) => k = Len(t))
    BY <2>4
  <2>7. \A k \in 1..Len(u) : u[k].op = "get" => k = Len(u) /\ cli[c].waits # "no"
    BY <1>2, <2>1 DEF Waits
  <2>8. \A k \in 1..Len(t) : t[k].op = "get" => k = Len(t) /\ cli[c].waits # "no"
    BY <2>6, <2>7
  <2>9. \A k \in 1..Len(down[c]) : down[c][k].op = "data" =>
          /\ cli[c].waits # "no"
          /\ \A j \in 1..Len(down[c]) : down[c][j].op = "data" => j = k
          /\ \A j \in 1..Len(u) : u[j].op # "get"
    BY <1>2, <2>1 DEF Waits
  <2>10. \A k \in 1..Len(down[c]) : down[c][k].op = "data" => \A j \in 1..Len(t) : t[j].op # "get"
    BY <2>6, <2>9
  <2> QED BY <1>2, <2>5, <2>8, <2>9, <2>10 DEF Waits
<1> QED BY <1>1, <1>2

LEMMA ReceiveSends ==
  ASSUME Typed, NEW c \in Clients, NEW op, Receive(c, op), op # "play", NEW d \in Clients
  PROVE  Sends(d, "play") => Sends(d, "play")'
<1>1. CASE d # c
  <2>1. up'[d] = up[d]
    BY <1>1, ReceiveIs
  <2> QED BY <2>1 DEF Sends
<1>2. CASE d = c
  <2>1. PICK u : u = up[c]
    OBVIOUS
  <2>2. u \in Seq(Asked) /\ u # <<>> /\ DOMAIN u = 1..Len(u)
    BY <2>1, LenProperties DEF Typed, Receive
  <2>3. PICK t : t = Tail(u)
    OBVIOUS
  <2>4. /\ Len(u) \in Nat \ {0} /\ Len(t) = Len(u) - 1 /\ t \in Seq(Asked) /\ Head(u) = u[1]
        /\ \A k \in 1..Len(u) - 1 : t[k] = u[k + 1]
    BY <2>2, <2>3, TailIs
  <2>5. up'[c] = t /\ DOMAIN t = 1..Len(t)
    BY <2>1, <2>3, <2>4, ReceiveIs, LenProperties
  <2>6. u[1].op # "play"
    BY <2>1, <2>4, ReceiveIs
  <2>7. ASSUME NEW k \in 1..Len(u), u[k].op = "play" PROVE \E j \in 1..Len(t) : t[j].op = "play"
    <3>1. k # 1
      BY <2>6, <2>7
    <3>2. k - 1 \in 1..Len(t) /\ t[k - 1] = u[(k - 1) + 1] /\ (k - 1) + 1 = k
      BY <2>4, <3>1
    <3> QED BY <2>7, <3>2
  <2> QED BY <1>2, <2>1, <2>2, <2>5, <2>7 DEF Sends
<1> QED BY <1>1, <1>2

LEMMA ComingIs ==
  ASSUME Typed, NEW c \in Clients
  PROVE  /\ down[c] \in Seq(Got) /\ outbox[c] \in Seq(Sent) /\ outbox[c] \in Seq(Got)
         /\ down[c] \o outbox[c] \in Seq(Got) /\ cli[c] \in ClientState
         /\ Settled(c) \in ClientState
<1>1. down[c] \in Seq(Got) /\ outbox[c] \in Seq(Sent) /\ cli[c] \in ClientState
  BY DEF Typed
<1>2. outbox[c] \in Seq(Got)
  BY <1>1, SentIsGot
<1>3. down[c] \o outbox[c] \in Seq(Got)
  BY <1>1, <1>2, ConcatProperties
<1> QED BY <1>1, <1>2, <1>3, ViewIn DEF Settled

(* Putting an event into every queue                                       *)
LEMMA PostedIs ==
  ASSUME Typed, NEW c \in Clients, NEW x \in Sent, outbox' = Posted(c, x)
  PROVE  /\ outbox' \in [Clients -> Seq(Sent)]
         /\ \A d \in Clients : outbox'[d] = Append(outbox[d], x)
<1>1. \A d \in Clients : Append(outbox[d], x) \in Seq(Sent)
  BY AppendedIs DEF Typed
<1> QED BY <1>1 DEF Posted

LEMMA ViewOfPosted ==
  ASSUME Typed, NEW c \in Clients, NEW x \in Sent, outbox' = Posted(c, x),
         down' = down, cli' = cli, NEW d \in Clients
  PROVE  Settled(d)' = AfterEvent(Settled(d), x)
<1>1. PICK a, b, s : a = down[d] /\ b = outbox[d] /\ s = cli[d]
  OBVIOUS
<1>2. a \in Seq(Got) /\ b \in Seq(Got) /\ a \o b \in Seq(Got) /\ s \in ClientState
  BY <1>1, ComingIs
<1>3. outbox'[d] = Append(b, x)
  BY <1>1, PostedIs
<1>4. x \in Got
  BY DEF Got
<1>5. PICK e : e = a \o b
  OBVIOUS
<1>6. a \o Append(b, x) = Append(e, x)
  <2>1. Append(b, x) \in Seq(Got) /\ Len(Append(b, x)) = Len(b) + 1 /\ Append(b, x)[Len(b) + 1] = x
        /\ \A k \in 1..Len(b) : Append(b, x)[k] = b[k]
    BY <1>2, <1>4, AppendedIs
  <2>2. PICK g : g = Append(b, x)
    OBVIOUS
  <2>3. PICK h, j : h = a \o g /\ j = Append(e, x)
    OBVIOUS
  <2>4. PICK m, n : m = Len(a) /\ n = Len(b)
    OBVIOUS
  <2>5. m \in Nat /\ n \in Nat
    BY <1>2, <2>4, LenProperties
  <2>6. /\ e \in Seq(Got) /\ Len(e) = m + n
        /\ \A k \in 1..m + n : e[k] = IF k <= m THEN a[k] ELSE b[k - m]
    BY <1>2, <1>5, <2>4, JoinIs
  <2>7. Len(g) = n + 1
    BY <2>1, <2>2, <2>4
  <2>8. h \in Seq(Got) /\ Len(h) = m + (n + 1)
        /\ \A k \in 1..m + (n + 1) : h[k] = IF k <= m THEN a[k] ELSE g[k - m]
    BY <1>2, <2>1, <2>2, <2>3, <2>4, <2>7, JoinIs
  <2>9. j \in Seq(Got) /\ Len(j) = m + n + 1 /\ j[m + n + 1] = x /\ \A k \in 1..m + n : j[k] = e[k]
    BY <1>4, <2>3, <2>6, AppendedIs
  <2>10. ASSUME NEW k \in 1..m + n + 1 PROVE h[k] = j[k]
    <3>1. CASE k <= m
      <4>1. k \in 1..m + n /\ k \in 1..m + (n + 1)
        BY <2>5, <3>1
      <4> QED BY <2>6, <2>8, <2>9, <3>1, <4>1
    <3>2. CASE k = m + n + 1
      <4>1. k \in 1..m + (n + 1) /\ ~(k <= m) /\ k - m = n + 1
        BY <2>5, <3>2
      <4>2. h[k] = g[n + 1]
        BY <2>8, <4>1
      <4> QED BY <2>1, <2>2, <2>4, <2>9, <3>2, <4>2
    <3>3. CASE ~(k <= m) /\ k # m + n + 1
      <4>1. k \in 1..m + n /\ k \in 1..m + (n + 1) /\ k - m \in 1..n
        BY <2>5, <3>3
      <4>2. h[k] = g[k - m] /\ e[k] = b[k - m] /\ j[k] = e[k]
        BY <2>6, <2>8, <2>9, <3>3, <4>1
      <4>3. g[k - m] = b[k - m]
        BY <2>1, <2>2, <2>4, <4>1
      <4> QED BY <4>2, <4>3
    <3> QED BY <3>1, <3>2, <3>3
  <2>11. Len(h) = Len(j) /\ Len(h) = m + n + 1
    BY <2>5, <2>8, <2>9
  <2>12. h = j
    BY <2>8, <2>9, <2>10, <2>11, SeqEqual
  <2> QED BY <2>2, <2>3, <2>12
<1>7. AfterEvents(s, Append(e, x)) = AfterEvent(AfterEvents(s, e), x)
  BY <1>2, <1>4, <1>5, ViewOfAppend
<1>8. Settled(d)' = AfterEvents(s, Append(e, x))
  BY <1>1, <1>3, <1>6 DEF Settled
<1>9. Settled(d) = AfterEvents(s, e)
  BY <1>1, <1>5 DEF Settled
<1> QED BY <1>7, <1>8, <1>9

(* An edit the server makes and reports                                    *)
LEMMA EditAgrees ==
  ASSUME Typed, NEW c \in Clients, NEW x \in Edits, outbox' = Posted(c, x),
         plist' = Edited(plist, x), down' = down, cli' = cli, overtaken' = overtaken,
         NEW d \in Clients, Agrees(d), Sends(d, "play") => Sends(d, "play")'
  PROVE  Agrees(d)'
<1>1. PICK v, t : v = Settled(d) /\ t = Settled(d)'
  OBVIOUS
<1>2. v \in ClientState /\ x \in Sent /\ x \in Got
  BY <1>1, ComingIs DEF Sent, Got
<1>3. t = AfterEvent(v, x)
  BY <1>1, <1>2, ViewOfPosted
<1>4. x.op \in {"rm", "mod", "add", "del", "move"}
  BY OpsAre DEF Edits
<1>5. /\ t.synced = v.synced /\ t.waits = v.waits /\ t.want = v.want
      /\ (v.synced /\ ~v.want => t.list = Edited(v.list, x))
  BY ONLY <1>2, <1>3, <1>4, AfterEventIs
<1>6. v.synced /\ ~v.want /\ v.waits = "no" /\ ~Sends(d, "play") /\ ~overtaken[d]
        => v.list = plist
  BY <1>1 DEF Agrees
<1>7. t.synced /\ ~t.want /\ t.waits = "no" /\ ~Sends(d, "play")' /\ ~overtaken[d]
        => t.list = plist'
  BY <1>5, <1>6
<1> QED BY <1>1, <1>7 DEF Agrees

(* Nothing that concerns the client d                                      *)
LEMMA SameAgrees ==
  ASSUME NEW d \in Clients, Agrees(d), Settled(d)' = Settled(d), plist' = plist,
         overtaken'[d] = overtaken[d], Sends(d, "play") => Sends(d, "play")'
  PROVE  Agrees(d)'
BY DEF Agrees

-----------------------------------------------------------------------------
(* The server's steps                                                      *)

LEMMA ServeEditKeeps ==
  ASSUME SyncInv, NEW c \in Clients, ServeEdit(c)
  PROVE  SyncInv'
<1>1. PICK x : x = Head(up[c])
  OBVIOUS
<1>2. PICK op \in {"add", "del", "move"} : Receive(c, op)
  BY DEF ServeEdit
<1>3. Typed /\ op # "play"
  BY <1>2 DEF SyncInv
<1>4. x \in Asked /\ x.op = op /\ up' \in [Clients -> Seq(Asked)]
  BY <1>1, <1>2, <1>3, ReceiveIs
<1>5. x \in Edits
  BY <1>4, <1>2 DEF Asked
<1>6. x \in Sent /\ x.op # "rm"
  BY <1>4, <1>5, <1>2 DEF Sent
<1>7. /\ plist' = Edited(plist, x) /\ outbox' = Posted(c, x)
      /\ files' = files /\ down' = down /\ cli' = cli /\ overtaken' = overtaken
  BY <1>1 DEF ServeEdit
<1>8. /\ outbox' \in [Clients -> Seq(Sent)]
      /\ \A d \in Clients : outbox'[d] = Append(outbox[d], x)
  BY <1>3, <1>6, <1>7, PostedIs
<1>9. plist' \in Seq(Path)
  <2>1. plist \in Seq(Path)
    BY <1>3 DEF Typed
  <2> QED BY <1>5, <1>7, <2>1, EditedIn
<1>10. Typed'
  BY <1>3, <1>4, <1>7, <1>8, <1>9 DEF Typed
<1>11. ASSUME NEW d \in Clients PROVE Waits(d)' /\ Gone(outbox[d], plist)' /\ Agrees(d)'
  <2>1. Waits(d)'
    BY <1>2, <1>3, <1>7, ReceiveWaits DEF SyncInv
  <2>2. Gone(outbox[d], plist)'
    <3>1. outbox[d] \in Seq(Sent)
      BY <1>3 DEF Typed
    <3>2. Gone(Append(outbox[d], x), plist')
      BY <1>6, <3>1, GoneAfterOther
    <3> QED BY <1>8, <3>2
  <2>3. Sends(d, "play") => Sends(d, "play")'
    BY <1>2, <1>3, ReceiveSends
  <2>4. Agrees(d)'
    BY <1>3, <1>5, <1>7, <2>3, EditAgrees DEF SyncInv
  <2> QED BY <2>1, <2>2, <2>4
<1> QED BY <1>10, <1>11 DEF SyncInv

LEMMA ServePlayKeeps ==
  ASSUME SyncInv, NEW c \in Clients, ServePlay(c)
  PROVE  SyncInv'
<1>1. PICK x : x = [op |-> "new"]
  OBVIOUS
<1>2. Receive(c, "play") /\ Typed
  BY DEF ServePlay, SyncInv
<1>3. x \in Sent /\ x.op = "new" /\ x \in Got
  BY <1>1 DEF Sent, NewMsg, Got
<1>4. /\ outbox' = Posted(c, x) /\ plist' = Head(up[c]).list
      /\ files' = files /\ down' = down /\ cli' = cli /\ overtaken' = overtaken
  BY <1>1 DEF ServePlay
<1>5. Head(up[c]) \in Asked /\ Head(up[c]).op = "play" /\ up' \in [Clients -> Seq(Asked)]
  BY <1>2, ReceiveIs
<1>6. plist' \in Seq(Path)
  <2>1. Head(up[c]) \notin Edits
    BY <1>5, OpsAre DEF Edits
  <2> QED BY <1>4, <1>5, <2>1 DEF Asked
<1>7. /\ outbox' \in [Clients -> Seq(Sent)]
      /\ \A d \in Clients : outbox'[d] = Append(outbox[d], x)
  BY <1>2, <1>3, <1>4, PostedIs
<1>8. Typed'
  BY <1>2, <1>4, <1>5, <1>6, <1>7 DEF Typed
<1>9. ASSUME NEW d \in Clients PROVE Waits(d)' /\ Gone(outbox[d], plist)' /\ Agrees(d)'
  <2>1. Waits(d)'
    BY <1>2, <1>4, ReceiveWaits DEF SyncInv
  <2>2. Gone(outbox[d], plist)'
    <3>1. outbox[d] \in Seq(Sent)
      BY <1>2 DEF Typed
    <3>2. Gone(Append(outbox[d], x), plist')
      BY <1>3, <3>1, GoneAfterOther
    <3> QED BY <1>7, <3>2
  <2>3. Agrees(d)'
    <3>1. PICK v, t : v = Settled(d) /\ t = Settled(d)'
      OBVIOUS
    <3>2. v \in ClientState
      BY <1>2, <3>1, ComingIs
    <3>3. t = AfterEvent(v, x)
      BY <1>2, <1>3, <1>4, <3>1, ViewOfPosted
    <3>4. t.synced = v.synced /\ t.want = (v.want \/ v.synced)
      BY ONLY <1>3, <3>2, <3>3, AfterEventIs
    <3>5. ~(t.synced /\ ~t.want)
      BY <3>4
    <3> QED BY <3>1, <3>5 DEF Agrees
  <2> QED BY <2>1, <2>2, <2>3
<1> QED BY <1>8, <1>9 DEF SyncInv

LEMMA ServeFilesRmKeeps ==
  ASSUME SyncInv, NEW c \in Clients, ServeFilesRm(c)
  PROVE  SyncInv'
<1>1. Receive(c, "rm") /\ Typed
  BY DEF ServeFilesRm, SyncInv
<1>2. /\ Head(up[c]) \in Asked /\ Head(up[c]).op = "rm" /\ up' \in [Clients -> Seq(Asked)]
      /\ plist \in Seq(Path) /\ files \subseteq Path
  BY <1>1, ReceiveIs DEF Typed
<1>3. PICK F \in SUBSET (Head(up[c]).files \cap files) :
        /\ files' = files \ F /\ plist' = WithoutFiles(plist, F)
        /\ outbox' = IF F = {} THEN outbox ELSE Posted(c, [op |-> "rm", files |-> F])
  BY DEF ServeFilesRm
<1>4. down' = down /\ cli' = cli /\ overtaken' = overtaken
  BY DEF ServeFilesRm
<1>5. F \subseteq Path /\ files' \subseteq Path
  BY <1>2, <1>3
<1>6. plist' \in Seq(Path)
  BY <1>2, <1>3, WithoutIn
<1>7. \A d \in Clients : Waits(d)' /\ (Sends(d, "play") => Sends(d, "play")')
  BY <1>1, <1>4, ReceiveWaits, ReceiveSends DEF SyncInv
<1>8. CASE F = {}
  <2>1. plist' = plist /\ outbox' = outbox
    BY <1>2, <1>3, <1>8, WithoutNone
  <2>2. Typed'
    BY <1>1, <1>2, <1>4, <1>5, <1>6, <2>1 DEF Typed
  <2>3. ASSUME NEW d \in Clients PROVE Gone(outbox[d], plist)' /\ Agrees(d)'
    <3>1. Settled(d)' = Settled(d)
      BY <1>4, <2>1 DEF Settled
    <3>2. Agrees(d)'
      BY <1>4, <1>7, <2>1, <3>1, SameAgrees DEF SyncInv
    <3>3. Gone(outbox[d], plist)'
      BY <2>1 DEF SyncInv
    <3> QED BY <3>2, <3>3
  <2> QED BY <1>7, <2>2, <2>3 DEF SyncInv
<1>9. CASE F # {}
  <2>1. PICK x : x = [op |-> "rm", files |-> F]
    OBVIOUS
  <2>2. x \in Edits /\ x \in Sent /\ x.op = "rm" /\ x.files = F
    BY <1>5, <2>1 DEF Edits, Sent, RmMsg
  <2>3. outbox' = Posted(c, x) /\ plist' = WithoutFiles(plist, x.files)
    BY <1>3, <1>9, <2>1, <2>2
  <2>4. plist' = Edited(plist, x)
    BY <2>2, <2>3, EditedRm
  <2>5. /\ outbox' \in [Clients -> Seq(Sent)]
        /\ \A d \in Clients : outbox'[d] = Append(outbox[d], x)
    BY <1>1, <2>2, <2>3, PostedIs
  <2>6. Typed'
    BY <1>1, <1>2, <1>4, <1>5, <1>6, <2>5 DEF Typed
  <2>7. ASSUME NEW d \in Clients PROVE Gone(outbox[d], plist)' /\ Agrees(d)'
    <3>1. outbox[d] \in Seq(Sent) /\ Gone(outbox[d], plist)
      BY <1>1 DEF Typed, SyncInv
    <3>2. Gone(Append(outbox[d], x), plist')
      BY <1>2, <2>2, <2>3, <3>1, GoneAfterRm
    <3>3. Agrees(d)'
      BY <1>1, <1>4, <1>7, <2>2, <2>3, <2>4, EditAgrees DEF SyncInv
    <3> QED BY <2>5, <3>2, <3>3
  <2> QED BY <1>7, <2>6, <2>7 DEF SyncInv
<1> QED BY <1>8, <1>9

LEMMA ServeFilesMvKeeps ==
  ASSUME SyncInv, NEW c \in Clients, ServeFilesMv(c)
  PROVE  SyncInv'
<1>1. Receive(c, "mod") /\ Typed
  BY DEF ServeFilesMv, SyncInv
<1>2. /\ Head(up[c]) \in Asked /\ Head(up[c]).op = "mod" /\ up' \in [Clients -> Seq(Asked)]
      /\ plist \in Seq(Path) /\ files \subseteq Path
  BY <1>1, ReceiveIs DEF Typed
<1>3. PICK change : change = Head(up[c]).change
  OBVIOUS
<1>4. PICK F \in SUBSET {f \in DOMAIN change \cap files : change[f] \notin files} :
        /\ files' = (files \ F) \cup {change[f] : f \in F}
        /\ plist' = Renamed(plist, [f \in F |-> change[f]])
        /\ outbox' = IF F = {} THEN outbox
                     ELSE Posted(c, [op |-> "mod", change |-> [f \in F |-> change[f]]])
  <2>1. LET ch == Head(up[c]).change IN
          \E G \in SUBSET {f \in DOMAIN ch \cap files : ch[f] \notin files} :
            /\ files' = (files \ G) \cup {ch[f] : f \in G}
            /\ plist' = Renamed(plist, [f \in G |-> ch[f]])
            /\ outbox' = IF G = {} THEN outbox
                         ELSE Posted(c, [op |-> "mod", change |-> [f \in G |-> ch[f]]])
    BY Zenon DEF ServeFilesMv
  <2> DEFINE Moves(ch) ==
        \E G \in SUBSET {f \in DOMAIN ch \cap files : ch[f] \notin files} :
          /\ files' = (files \ G) \cup {ch[f] : f \in G}
          /\ plist' = Renamed(plist, [f \in G |-> ch[f]])
          /\ outbox' = IF G = {} THEN outbox
                       ELSE Posted(c, [op |-> "mod", change |-> [f \in G |-> ch[f]]])
  <2>2. Moves(Head(up[c]).change)
    BY <2>1
  <2> HIDE DEF Moves
  <2>3. Moves(change)
    BY <1>3, <2>2
  <2> QED BY <2>3 DEF Moves
<1>5. down' = down /\ cli' = cli /\ overtaken' = overtaken
  BY DEF ServeFilesMv
<1>6. change \in UNION {[G -> Path] : G \in SUBSET Path}
  <2>1. Head(up[c]) \in Edits
    BY <1>2 DEF Asked
  <2>2. Head(up[c]) \in ModMsg
    BY <1>2, <2>1, OpsAre DEF Edits
  <2> QED BY <1>3, <2>2, OpsAre
<1>7. PICK done : done = [f \in F |-> change[f]]
  OBVIOUS
<1>8. done \in [F -> Path] /\ F \subseteq Path /\ F \in SUBSET Path
  BY <1>2, <1>4, <1>6, <1>7
<1>9. done \in UNION {[G -> Path] : G \in SUBSET Path}
  BY <1>8
<1>10. plist' \in Seq(Path) /\ plist' = Renamed(plist, done)
  BY <1>2, <1>4, <1>7, <1>9, RenamedIn
<1>11. files' \subseteq Path
  <2>1. \A f \in F : change[f] \in Path
    BY <1>7, <1>8
  <2> QED BY <1>2, <1>4, <2>1
<1>12. \A d \in Clients : Waits(d)' /\ (Sends(d, "play") => Sends(d, "play")')
  BY <1>1, <1>5, ReceiveWaits, ReceiveSends DEF SyncInv
<1>13. CASE F = {}
  <2>1. plist' = plist /\ outbox' = outbox
    <3>1. DOMAIN done = {}
      BY <1>7, <1>13
    <3>2. Renamed(plist, done) = plist
      BY <1>2, <3>1, RenamedNone
    <3> QED BY <1>4, <1>10, <1>13, <3>2
  <2>2. Typed'
    BY <1>1, <1>2, <1>5, <1>10, <1>11, <2>1 DEF Typed
  <2>3. ASSUME NEW d \in Clients PROVE Gone(outbox[d], plist)' /\ Agrees(d)'
    <3>1. Settled(d)' = Settled(d)
      BY <1>5, <2>1 DEF Settled
    <3>2. Agrees(d)'
      BY <1>5, <1>12, <2>1, <3>1, SameAgrees DEF SyncInv
    <3>3. Gone(outbox[d], plist)'
      BY <2>1 DEF SyncInv
    <3> QED BY <3>2, <3>3
  <2> QED BY <1>12, <2>2, <2>3 DEF SyncInv
<1>14. CASE F # {}
  <2>1. PICK x : x = [op |-> "mod", change |-> done]
    OBVIOUS
  <2>2. x.op = "mod" /\ x.change = done /\ x \in ModMsg
    BY <1>9, <2>1 DEF ModMsg
  <2>3. x \in Edits /\ x \in Sent
    BY <2>2 DEF Edits, Sent
  <2>4. outbox' = Posted(c, x) /\ plist' = Edited(plist, x)
    BY <1>4, <1>7, <1>10, <1>14, <2>1, <2>2, EditedMod
  <2>5. /\ outbox' \in [Clients -> Seq(Sent)]
        /\ \A d \in Clients : outbox'[d] = Append(outbox[d], x)
    BY <1>1, <2>3, <2>4, PostedIs
  <2>6. Typed'
    BY <1>1, <1>2, <1>5, <1>10, <1>11, <2>5 DEF Typed
  <2>7. ASSUME NEW d \in Clients PROVE Gone(outbox[d], plist)' /\ Agrees(d)'
    <3>1. outbox[d] \in Seq(Sent)
      BY <1>1 DEF Typed
    <3>2. Gone(Append(outbox[d], x), plist')
      BY <2>2, <2>3, <3>1, GoneAfterOther
    <3>3. Agrees(d)'
      BY <1>1, <1>5, <1>12, <2>3, <2>4, EditAgrees DEF SyncInv
    <3> QED BY <2>5, <3>2, <3>3
  <2> QED BY <1>12, <2>6, <2>7 DEF SyncInv
<1> QED BY <1>13, <1>14

LEMMA ServeGetKeeps ==
  ASSUME SyncInv, NEW c \in Clients, ServeGet(c)
  PROVE  SyncInv'
<1>1. Receive(c, "get") /\ Typed
  BY DEF ServeGet, SyncInv
<1>2. up' \in [Clients -> Seq(Asked)] /\ plist \in Seq(Path)
  BY <1>1, ReceiveIs DEF Typed
<1>3. /\ plist' = plist /\ files' = files /\ outbox' = outbox /\ cli' = cli
      /\ overtaken' = [overtaken EXCEPT ![c] = Overtakes(c)]
      /\ down' = [down EXCEPT ![c] = Append(down[c], [op |-> "data", list |-> plist])]
  BY DEF ServeGet
<1>4. PICK x : x = [op |-> "data", list |-> plist]
  OBVIOUS
<1>5. x \in Got /\ x.op = "data" /\ x.list = plist
  BY <1>2, <1>4 DEF Got, DataMsg
<1>6. PICK a : a = down[c]
  OBVIOUS
<1>7. a \in Seq(Got) /\ Append(a, x) \in Seq(Got)
  BY <1>1, <1>5, <1>6, AppendedIs DEF Typed
<1>8. /\ down'[c] = Append(a, x) /\ \A d \in Clients \ {c} : down'[d] = down[d]
      /\ down' \in [Clients -> Seq(Got)]
  BY <1>1, <1>3, <1>4, <1>6, <1>7 DEF Typed
<1>9. overtaken' \in [Clients -> BOOLEAN] /\ overtaken'[c] = Overtakes(c)
      /\ \A d \in Clients \ {c} : overtaken'[d] = overtaken[d]
  BY <1>1, <1>3 DEF Typed, Overtakes
<1>10. Typed'
  BY <1>1, <1>2, <1>3, <1>8, <1>9 DEF Typed
<1>11. \A d \in Clients : Sends(d, "play") => Sends(d, "play")'
  BY <1>1, ReceiveSends
<1>12. ASSUME NEW d \in Clients \ {c} PROVE Waits(d)' /\ Agrees(d)'
  <2>1. up'[d] = up[d] /\ down'[d] = down[d] /\ overtaken'[d] = overtaken[d]
    BY <1>1, <1>8, <1>9, ReceiveIs
  <2>2. Settled(d)' = Settled(d)
    BY <1>3, <2>1 DEF Settled
  <2>3. Waits(d)'
    BY <1>3, <2>1 DEF Waits, SyncInv
  <2>4. Agrees(d)'
    BY <1>3, <1>11, <2>1, <2>2, SameAgrees DEF SyncInv
  <2> QED BY <2>3, <2>4
<1>13. Waits(c)'
  <2>1. PICK u, t : u = up[c] /\ t = up'[c]
    OBVIOUS
  <2>2. u \in Seq(Asked) /\ u # <<>> /\ Head(u).op = "get" /\ t = Tail(u)
    BY <1>1, <2>1, ReceiveIs DEF Typed, Receive
  <2>3. Len(u) \in Nat \ {0} /\ Head(u) = u[1] /\ Len(t) = Len(u) - 1
    BY <2>2, TailIs
  <2>4. \A k \in 1..Len(u) : u[k].op = "get" => k = Len(u) /\ cli[c].waits # "no"
    BY <2>1 DEF SyncInv, Waits
  <2>5. Len(u) = 1 /\ cli[c].waits # "no"
    <3>1. 1 \in 1..Len(u) /\ u[1].op = "get"
      BY <2>2, <2>3
    <3> QED BY <2>4, <3>1
  <2>6. Len(t) = 0
    BY <2>3, <2>5
  <2>7. \A k \in 1..Len(a) : a[k].op # "data"
    <3>1. 1 \in 1..Len(u) /\ u[1].op = "get"
      BY <2>2, <2>3
    <3> QED BY <1>6, <2>1, <3>1 DEF SyncInv, Waits
  <2>8. PICK b : b = down'[c]
    OBVIOUS
  <2>9. Len(a) \in Nat /\ Len(b) = Len(a) + 1 /\ \A k \in 1..Len(a) : b[k] = a[k]
    BY <1>5, <1>7, <1>8, <2>8, AppendedIs, LenProperties
  <2>10. \A k \in 1..Len(b) : b[k].op = "data" => k = Len(a) + 1
    BY <2>7, <2>9
  <2>11. \A k \in 1..Len(t) : FALSE
    BY <2>6
  <2>12. \A k, j \in 1..Len(b) : b[k].op = "data" /\ b[j].op = "data" => j = k
    BY <2>10
  <2> QED BY <1>3, <2>1, <2>5, <2>8, <2>11, <2>12 DEF Waits
<1>14. Agrees(c)'
  <2>1. SUFFICES ASSUME ~Overtakes(c), ~Settled(c)'.want PROVE Settled(c)'.list = plist'
    BY <1>9 DEF Agrees
  <2>2. PICK s, e, b : s = cli[c] /\ e = Append(a, x) /\ b = outbox[c]
    OBVIOUS
  <2>3. s \in ClientState /\ e \in Seq(Got) /\ b \in Seq(Sent) /\ b \in Seq(Got)
    BY <1>1, <1>7, <2>2, ComingIs
  <2>4. Settled(c)' = AfterEvents(s, e \o b)
    BY <1>3, <1>8, <2>2 DEF Settled
  <2>5. PICK t : t = AfterEvents(s, e)
    OBVIOUS
  <2>6. Settled(c)' = AfterEvents(t, b)
    BY <2>3, <2>4, <2>5, ViewOfBoth
  <2>7. PICK q : q = AfterEvents(s, a)
    OBVIOUS
  <2>8. q \in ClientState /\ t = AfterEvent(q, x)
    BY <1>5, <1>7, <2>2, <2>3, <2>5, <2>7, ViewIn, ViewOfAppend
  <2>9. t \in ClientState /\ t.list = plist /\ t.synced
    BY ONLY <1>5, <2>8, AfterEventIs
  <2>10. \A k \in 1..Len(b) : b[k].op \in {"new", "rm"}
    <3>1. ASSUME NEW k \in 1..Len(b) PROVE b[k].op \in {"new", "rm"}
      <4>1. b[k] \in Sent /\ b[k] \in Got /\ k \in DOMAIN b
        BY <2>3, ElementOfSeq, LenProperties
      <4>2. b[k].op \notin {"add", "del", "move", "mod"}
        BY <2>1, <2>2, <4>1 DEF Overtakes
      <4> QED BY <4>1, <4>2, EventKinds
    <3> QED BY <3>1
  <2>11. Gone(b, plist)
    BY <2>2 DEF SyncInv
  <2>12. AfterEvents(t, b).want \/ AfterEvents(t, b).list = plist
    BY <1>2, <2>3, <2>9, <2>10, <2>11, ViewOfFetch
  <2> QED BY <1>3, <2>1, <2>6, <2>12
<1>15. \A d \in Clients : Gone(outbox[d], plist)'
  BY <1>3 DEF SyncInv
<1> QED BY <1>10, <1>12, <1>13, <1>14, <1>15 DEF SyncInv

LEMMA SendPacketKeeps ==
  ASSUME SyncInv, NEW c \in Clients, SendPacket(c)
  PROVE  SyncInv'
<1>1. PICK a, b, x : a = down[c] /\ b = outbox[c] /\ x = Head(b)
  OBVIOUS
<1>2. Typed /\ a \in Seq(Got) /\ b \in Seq(Sent) /\ b # <<>>
  BY <1>1 DEF SyncInv, Typed, SendPacket
<1>3. /\ plist' = plist /\ files' = files /\ up' = up /\ cli' = cli /\ overtaken' = overtaken
      /\ down' = [down EXCEPT ![c] = Append(a, x)] /\ outbox' = [outbox EXCEPT ![c] = Tail(b)]
  BY <1>1 DEF SendPacket
<1>4. Tail(b) \in Seq(Sent) /\ x \in Sent
  BY <1>1, <1>2, TailIs
<1>5. x \in Got /\ x.op # "data"
  <2>1. x \in Got
    BY <1>4 DEF Got
  <2> QED BY <1>4, <2>1, EventKinds
<1>6. Append(a, x) \in Seq(Got)
  BY <1>2, <1>5, AppendedIs
<1>7. /\ down' \in [Clients -> Seq(Got)] /\ outbox' \in [Clients -> Seq(Sent)]
      /\ down'[c] = Append(a, x) /\ outbox'[c] = Tail(b)
      /\ \A d \in Clients \ {c} : down'[d] = down[d] /\ outbox'[d] = outbox[d]
  BY <1>2, <1>3, <1>4, <1>6 DEF Typed
<1>8. Typed'
  BY <1>2, <1>3, <1>7 DEF Typed
<1>9. \A d \in Clients : Gone(outbox[d], plist)'
  <2>1. Gone(Tail(b), plist)
    BY <1>1, <1>2, GoneOfTail DEF SyncInv
  <2> QED BY <1>3, <1>7, <2>1 DEF SyncInv
<1>10. \A d \in Clients : Waits(d)'
  <2>1. ASSUME NEW d \in Clients \ {c} PROVE Waits(d)'
    BY <1>3, <1>7 DEF SyncInv, Waits
  <2>2. Waits(c)'
    <3>1. PICK g : g = down'[c]
      OBVIOUS
    <3>2. /\ Len(a) \in Nat /\ Len(g) = Len(a) + 1 /\ g[Len(a) + 1] = x
          /\ \A k \in 1..Len(a) : g[k] = a[k]
      BY <1>2, <1>5, <1>7, <3>1, AppendedIs, LenProperties
    <3>3. \A k \in 1..Len(g) : g[k].op = "data" => k \in 1..Len(a) /\ a[k].op = "data"
      BY <1>5, <3>2
    <3>4. /\ \A k \in 1..Len(up[c]) : up[c][k].op = "get" => k = Len(up[c]) /\ cli[c].waits # "no"
          /\ \A k \in 1..Len(a) : a[k].op = "data" =>
               /\ cli[c].waits # "no"
               /\ \A j \in 1..Len(a) : a[j].op = "data" => j = k
               /\ \A j \in 1..Len(up[c]) : up[c][j].op # "get"
      BY <1>1 DEF SyncInv, Waits
    <3> QED BY <1>3, <3>1, <3>3, <3>4 DEF Waits
  <2> QED BY <2>1, <2>2
<1>11. down'[c] \o outbox'[c] = a \o b
  <2>1. PICK g, t : g = Append(a, x) /\ t = Tail(b)
    OBVIOUS
  <2>2. PICK h, j : h = g \o t /\ j = a \o b
    OBVIOUS
  <2>3. PICK m, n : m = Len(a) /\ n = Len(b)
    OBVIOUS
  <2>4. /\ m \in Nat /\ n \in Nat \ {0} /\ Len(t) = n - 1 /\ b[1] = x
        /\ \A k \in 1..n - 1 : t[k] = b[k + 1]
    BY <1>1, <1>2, <2>1, <2>3, TailIs, LenProperties
  <2>5. g \in Seq(Got) /\ Len(g) = m + 1 /\ g[m + 1] = x /\ \A k \in 1..m : g[k] = a[k]
    BY <1>2, <1>5, <2>1, <2>3, AppendedIs
  <2>6. t \in Seq(Got) /\ b \in Seq(Got)
    BY <1>2, <1>4, <2>1, SentIsGot
  <2>7. /\ h \in Seq(Got) /\ Len(h) = m + 1 + (n - 1)
        /\ \A k \in 1..m + 1 + (n - 1) : h[k] = IF k <= m + 1 THEN g[k] ELSE t[k - (m + 1)]
    <3>1. PICK y, z : y = m + 1 /\ z = n - 1
      OBVIOUS
    <3>2. Len(g) = y /\ Len(t) = z
      BY <2>4, <2>5, <3>1
    <3>3. /\ h \in Seq(Got) /\ Len(h) = y + z
          /\ \A k \in 1..y + z : h[k] = IF k <= y THEN g[k] ELSE t[k - y]
      BY ONLY <2>2, <2>5, <2>6, <3>2, JoinIs
    <3> QED BY <3>1, <3>3
  <2>8. /\ j \in Seq(Got) /\ Len(j) = m + n
        /\ \A k \in 1..m + n : j[k] = IF k <= m THEN a[k] ELSE b[k - m]
    BY <1>2, <2>2, <2>3, <2>6, JoinIs
  <2>9. ASSUME NEW k \in 1..m + n PROVE h[k] = j[k]
    <3>1. k \in 1..m + 1 + (n - 1)
      BY <2>4
    <3>2. CASE k <= m
      BY <2>4, <2>5, <2>7, <2>8, <3>1, <3>2
    <3>3. CASE k = m + 1
      <4>1. h[k] = x
        BY <2>4, <2>5, <2>7, <3>1, <3>3
      <4>2. k - m = 1 /\ ~(k <= m)
        BY <2>4, <3>3
      <4> QED BY <2>4, <2>8, <4>1, <4>2
    <3>4. CASE ~(k <= m + 1)
      <4>1. k - (m + 1) \in 1..n - 1 /\ (k - (m + 1)) + 1 = k - m /\ ~(k <= m)
        BY <2>4, <3>4
      <4> QED BY <2>4, <2>7, <2>8, <3>1, <3>4, <4>1
    <3> QED BY <2>4, <3>2, <3>3, <3>4
  <2>10. Len(h) = Len(j) /\ Len(h) = m + n
    BY <2>4, <2>7, <2>8
  <2>11. h = j
    BY <2>7, <2>8, <2>9, <2>10, SeqEqual
  <2> QED BY <1>7, <2>1, <2>2, <2>11
<1>12. ASSUME NEW d \in Clients PROVE Agrees(d)'
  <2>1. down'[d] \o outbox'[d] = down[d] \o outbox[d]
    BY <1>1, <1>7, <1>11
  <2>2. Settled(d)' = Settled(d)
    BY <1>3, <2>1 DEF Settled
  <2>3. Sends(d, "play") => Sends(d, "play")'
    BY <1>3 DEF Sends
  <2> QED BY <1>3, <2>2, <2>3, SameAgrees DEF SyncInv
<1> QED BY <1>8, <1>9, <1>10, <1>12 DEF SyncInv

-----------------------------------------------------------------------------
(* The client's steps                                                      *)

LEMMA ReadEventKeeps ==
  ASSUME SyncInv, NEW c \in Clients, ReadEvent(c)
  PROVE  SyncInv'
<1>1. PICK a, b, s, x : a = down[c] /\ b = outbox[c] /\ s = cli[c] /\ x = Head(a)
  OBVIOUS
<1>2. Typed /\ a \in Seq(Got) /\ b \in Seq(Got) /\ s \in ClientState /\ a # <<>>
  BY <1>1, ComingIs DEF SyncInv, ReadEvent
<1>3. /\ plist' = plist /\ files' = files /\ up' = up /\ outbox' = outbox /\ overtaken' = overtaken
      /\ down' = [down EXCEPT ![c] = Tail(a)] /\ cli' = [cli EXCEPT ![c] = AfterEvent(s, x)]
  BY <1>1 DEF ReadEvent
<1>4. /\ Tail(a) \in Seq(Got) /\ x \in Got /\ Len(a) \in Nat \ {0} /\ Len(Tail(a)) = Len(a) - 1
      /\ x = a[1] /\ \A k \in 1..Len(a) - 1 : Tail(a)[k] = a[k + 1]
  BY <1>1, <1>2, TailIs
<1>5. PICK t, q : t = AfterEvent(s, x) /\ q = Tail(a)
  OBVIOUS
<1>6. t \in ClientState /\ (x.op # "data" => t.waits = s.waits)
  BY ONLY <1>2, <1>4, <1>5, AfterEventIs
<1>7. /\ down' \in [Clients -> Seq(Got)] /\ cli' \in [Clients -> ClientState]
      /\ down'[c] = q /\ cli'[c] = t
      /\ \A d \in Clients \ {c} : down'[d] = down[d] /\ cli'[d] = cli[d]
  BY <1>2, <1>3, <1>4, <1>5, <1>6 DEF Typed
<1>8. Typed'
  BY <1>2, <1>3, <1>7 DEF Typed
<1>9. \A d \in Clients : Gone(outbox[d], plist)'
  BY <1>3 DEF SyncInv
<1>10. \A d \in Clients : Waits(d)'
  <2>1. ASSUME NEW d \in Clients \ {c} PROVE Waits(d)'
    BY <1>3, <1>7 DEF SyncInv, Waits
  <2>2. Waits(c)'
    <3>1. /\ \A k \in 1..Len(up[c]) : up[c][k].op = "get" => k = Len(up[c]) /\ s.waits # "no"
          /\ \A k \in 1..Len(a) : a[k].op = "data" =>
               /\ s.waits # "no"
               /\ \A j \in 1..Len(a) : a[j].op = "data" => j = k
               /\ \A j \in 1..Len(up[c]) : up[c][j].op # "get"
      BY <1>1 DEF SyncInv, Waits
    <3>2. ASSUME NEW k \in 1..Len(q) PROVE k + 1 \in 1..Len(a) /\ q[k] = a[k + 1]
      BY <1>4, <1>5
    <3>3. CASE x.op = "data"
      <4>1. 1 \in 1..Len(a) /\ a[1].op = "data"
        BY <1>4, <3>3
      <4>2. \A j \in 1..Len(up[c]) : up[c][j].op # "get"
        BY <3>1, <4>1
      <4>3. \A j \in 1..Len(a) : a[j].op = "data" => j = 1
        BY <3>1, <4>1
      <4>4. \A k \in 1..Len(q) : q[k].op # "data"
        BY <3>2, <4>3
      <4> QED BY <1>3, <1>7, <4>2, <4>4 DEF Waits
    <3>4. CASE x.op # "data"
      <4>1. t.waits = s.waits
        BY <1>6, <3>4
      <4>2. ASSUME NEW k \in 1..Len(q), q[k].op = "data", NEW j \in 1..Len(q), q[j].op = "data"
            PROVE  j = k
        <5>1. /\ k + 1 \in 1..Len(a) /\ a[k + 1].op = "data"
              /\ j + 1 \in 1..Len(a) /\ a[j + 1].op = "data"
          BY <3>2, <4>2
        <5>2. j + 1 = k + 1
          BY <3>1, <5>1
        <5> QED BY <5>2
      <4>3. ASSUME NEW k \in 1..Len(q), q[k].op = "data"
            PROVE  t.waits # "no" /\ \A j \in 1..Len(up[c]) : up[c][j].op # "get"
        <5>1. k + 1 \in 1..Len(a) /\ a[k + 1].op = "data"
          BY <3>2, <4>3
        <5> QED BY <3>1, <4>1, <5>1
      <4> QED BY <1>3, <1>7, <3>1, <4>1, <4>2, <4>3 DEF Waits
    <3> QED BY <3>3, <3>4
  <2> QED BY <2>1, <2>2
<1>11. Settled(c)' = Settled(c)
  <2>1. PICK e : e = a \o b
    OBVIOUS
  <2>2. e # <<>> /\ Tail(e) = q \o b
    BY <1>2, <1>5, <2>1, TailOfConcat
  <2>3. e \in Seq(Got) /\ Head(e) = x
    <3>1. e \in Seq(Got) /\ e[1] = a[1]
      BY <1>2, <1>4, <2>1, ConcatProperties
    <3>2. Head(e) = e[1]
      BY <2>2, <3>1, TailIs
    <3> QED BY <1>4, <3>1, <3>2
  <2>4. AfterEvents(s, e) = AfterEvents(t, q \o b)
    BY <1>2, <1>5, <2>2, <2>3, ViewOfHead
  <2> QED BY <1>1, <1>3, <1>7, <2>1, <2>4 DEF Settled
<1>12. ASSUME NEW d \in Clients PROVE Agrees(d)'
  <2>1. Settled(d)' = Settled(d)
    BY <1>3, <1>7, <1>11 DEF Settled
  <2>2. Sends(d, "play") => Sends(d, "play")'
    BY <1>3 DEF Sends
  <2> QED BY <1>3, <2>1, <2>2, SameAgrees DEF SyncInv
<1> QED BY <1>8, <1>9, <1>10, <1>12 DEF SyncInv

(* What a client that waits for nothing does: it may change its state, and *)
(* ask the server for something, for its list if it waits from then on.    *)
Alone(c, s, u) ==
  /\ cli' = [cli EXCEPT ![c] = s] /\ up' = [up EXCEPT ![c] = u]
  /\ plist' = plist /\ files' = files /\ outbox' = outbox /\ down' = down /\ overtaken' = overtaken

LEMMA AloneKeeps ==
  ASSUME SyncInv, NEW c \in Clients, cli[c].waits = "no",
         NEW s \in ClientState,
         s = cli[c] \/ s.waits # "no" \/ ~s.synced \/ Sends(c, "play")',
         NEW u, u = up[c] \/ \E m \in Asked : /\ u = Append(up[c], m)
                                              /\ m.op = "get" => s.waits # "no",
         Alone(c, s, u)
  PROVE  SyncInv'
<1>1. /\ Typed /\ cli[c] \in ClientState /\ down[c] \o outbox[c] \in Seq(Got)
      /\ up[c] \in Seq(Asked) /\ down[c] \in Seq(Got) /\ outbox[c] \in Seq(Sent)
  BY ComingIs DEF SyncInv, Typed
<1>2. u \in Seq(Asked)
  BY <1>1, AppendedIs
<1>3. /\ cli' \in [Clients -> ClientState] /\ up' \in [Clients -> Seq(Asked)]
      /\ cli'[c] = s /\ up'[c] = u
      /\ \A d \in Clients \ {c} : cli'[d] = cli[d] /\ up'[d] = up[d]
  BY <1>1, <1>2 DEF Alone, Typed
<1>4. Typed'
  BY <1>1, <1>3 DEF Alone, Typed
<1>5. \A d \in Clients : Gone(outbox[d], plist)'
  BY DEF SyncInv, Alone
<1>6. /\ \A k \in 1..Len(up[c]) : up[c][k].op # "get"
      /\ \A k \in 1..Len(down[c]) : down[c][k].op # "data"
  BY DEF SyncInv, Waits
<1>7. Len(up[c]) \in Nat /\ DOMAIN up[c] = 1..Len(up[c])
  BY <1>1, LenProperties
<1>8. \A d \in Clients : Waits(d)'
  <2>1. ASSUME NEW d \in Clients \ {c} PROVE Waits(d)'
    BY <1>3 DEF SyncInv, Waits, Alone
  <2>2. \A k \in 1..Len(u) : u[k].op = "get" => k = Len(u) /\ s.waits # "no"
    <3>1. CASE u = up[c]
      BY <1>6, <3>1
    <3>2. ASSUME NEW m \in Asked, u = Append(up[c], m), m.op = "get" => s.waits # "no"
          PROVE  \A k \in 1..Len(u) : u[k].op = "get" => k = Len(u) /\ s.waits # "no"
      <4>1. /\ Len(u) = Len(up[c]) + 1 /\ u[Len(up[c]) + 1] = m
            /\ \A k \in 1..Len(up[c]) : u[k] = up[c][k]
        BY <1>1, <3>2, AppendedIs
      <4> QED BY <1>6, <1>7, <3>2, <4>1
    <3> QED BY <3>1, <3>2
  <2>3. Waits(c)'
    BY <1>3, <1>6, <2>2 DEF Waits, Alone
  <2> QED BY <2>1, <2>3
<1>9. \A d \in Clients : Sends(d, "play") => Sends(d, "play")'
  <2>1. ASSUME NEW d \in Clients \ {c} PROVE Sends(d, "play") => Sends(d, "play")'
    BY <1>3 DEF Sends
  <2>2. Sends(c, "play") => Sends(c, "play")'
    <3>1. CASE u = up[c]
      BY <1>3, <3>1 DEF Sends
    <3>2. ASSUME NEW m \in Asked, u = Append(up[c], m)
          PROVE  Sends(c, "play") => Sends(c, "play")'
      <4>1. /\ u \in Seq(Asked) /\ Len(u) = Len(up[c]) + 1
            /\ \A k \in 1..Len(up[c]) : u[k] = up[c][k]
        BY <1>1, <3>2, AppendedIs
      <4>2. DOMAIN u = 1..Len(u)
        BY <4>1, LenProperties
      <4> QED BY <1>3, <1>7, <4>1, <4>2 DEF Sends
    <3> QED BY <3>1, <3>2
  <2> QED BY <2>1, <2>2
<1>10. ASSUME NEW d \in Clients, d # c \/ s = cli[c] PROVE Agrees(d)'
  <2>1. cli'[d] = cli[d]
    BY <1>3, <1>10
  <2>2. Settled(d)' = Settled(d)
    BY <2>1 DEF Settled, Alone
  <2> QED BY <1>9, <2>2, SameAgrees DEF SyncInv, Alone
<1>11. ASSUME s.waits # "no" \/ ~s.synced \/ Sends(c, "play")' PROVE Agrees(c)'
  <2>1. PICK e : e = down[c] \o outbox[c]
    OBVIOUS
  <2>2. PICK a, b : a = down[c] /\ b = outbox[c]
    OBVIOUS
  <2>3. \A k \in 1..Len(e) : e[k].op # "data"
    <3>1. a \in Seq(Got) /\ b \in Seq(Got) /\ b \in Seq(Sent) /\ e = a \o b
      BY <1>1, <2>1, <2>2, SentIsGot
    <3>2. PICK m, n : m = Len(a) /\ n = Len(b)
      OBVIOUS
    <3>3. /\ m \in Nat /\ n \in Nat /\ Len(e) = m + n
          /\ \A k \in 1..m + n : e[k] = IF k <= m THEN a[k] ELSE b[k - m]
      BY <3>1, <3>2, JoinIs, LenProperties
    <3>4. \A k \in 1..n : b[k] \in Sent /\ b[k] \in Got
      BY <3>1, <3>2, ElementOfSeq
    <3>5. \A k \in 1..n : b[k].op # "data"
      BY <3>4, EventKinds
    <3>6. ASSUME NEW k \in 1..m + n PROVE e[k].op # "data"
      <4>1. CASE k <= m
        <5>1. k \in 1..m /\ e[k] = a[k]
          BY <3>3, <4>1
        <5>2. \A i \in 1..m : a[i].op # "data"
          BY <1>6, <2>2, <3>2
        <5>3. a[k].op # "data"
          BY <5>1, <5>2
        <5> QED BY <5>1, <5>3
      <4>2. CASE ~(k <= m)
        <5>1. k - m \in 1..n
          BY <3>3, <4>2
        <5>2. e[k] = b[k - m]
          BY <3>3, <4>2
        <5>3. b[k - m].op # "data"
          BY <3>5, <5>1
        <5> QED BY <5>2, <5>3
      <4> QED BY <4>1, <4>2
    <3> QED BY <3>3, <3>6
  <2>4. AfterEvents(s, e).synced = s.synced /\ AfterEvents(s, e).waits = s.waits
    BY <1>1, <2>1, <2>3, ViewWithoutAnswer
  <2>5. Settled(c)' = AfterEvents(s, e)
    BY <1>3, <2>1 DEF Settled, Alone
  <2> QED BY <1>11, <2>4, <2>5 DEF Agrees
<1> QED BY <1>4, <1>5, <1>8, <1>10, <1>11 DEF SyncInv

LEMMA UpdateListKeeps ==
  ASSUME SyncInv, NEW c \in Clients, UpdateList(c)
  PROVE  SyncInv'
<1>1. /\ cli[c] \in ClientState /\ cli[c].waits = "no"
      /\ cli = [cli EXCEPT ![c] = cli[c]] /\ up = [up EXCEPT ![c] = up[c]]
  BY DEF SyncInv, Typed, UpdateList, MayUpdate
<1>2. /\ plist' = plist /\ files' = files /\ outbox' = outbox /\ down' = down
      /\ overtaken' = overtaken
  BY DEF UpdateList
<1>3. CASE cli[c].synced
  <2>1. PICK s, m, u : /\ s = [cli[c] EXCEPT !.waits = "update"]
                       /\ m = [op |-> "get"] /\ u = Append(up[c], m)
    OBVIOUS
  <2>2. s \in ClientState /\ s.waits # "no"
    BY <1>1, <2>1 DEF ClientState
  <2>3. m \in Asked
    BY <2>1 DEF Asked
  <2>4. up' = [up EXCEPT ![c] = u] /\ cli' = [cli EXCEPT ![c] = s]
    BY <1>3, <2>1 DEF UpdateList
  <2>5. Alone(c, s, u)
    BY <1>2, <2>4 DEF Alone
  <2> QED BY <1>1, <2>1, <2>2, <2>3, <2>5, AloneKeeps
<1>4. CASE ~cli[c].synced
  <2>1. PICK s, u : s = [cli[c] EXCEPT !.want = FALSE] /\ u = up[c]
    OBVIOUS
  <2>2. s \in ClientState /\ ~s.synced
    BY <1>1, <1>4, <2>1 DEF ClientState
  <2>3. up' = [up EXCEPT ![c] = u] /\ cli' = [cli EXCEPT ![c] = s]
    BY <1>1, <1>4, <2>1 DEF UpdateList
  <2>4. Alone(c, s, u)
    BY <1>2, <2>3 DEF Alone
  <2> QED BY <1>1, <2>1, <2>2, <2>4, AloneKeeps
<1> QED BY <1>3, <1>4

LEMMA ActIs ==
  ASSUME SyncInv, NEW c \in Clients, NEW kind, Act(kind, c)
  PROVE  /\ cli[c] \in ClientState /\ cli[c].waits = "no"
         /\ cli = [cli EXCEPT ![c] = cli[c]] /\ up = [up EXCEPT ![c] = up[c]]
         /\ plist' = plist /\ files' = files /\ outbox' = outbox /\ down' = down
         /\ overtaken' = overtaken
BY DEF SyncInv, Typed, Act

(* Asking the server for something                                         *)
LEMMA TellKeeps ==
  ASSUME SyncInv, NEW c \in Clients, NEW kind, Act(kind, c),
         NEW m \in Asked, m.op # "get", Tell(c, m), UNCHANGED cli
  PROVE  SyncInv'
<1>1. PICK s, u : s = cli[c] /\ u = Append(up[c], m)
  OBVIOUS
<1>2. Alone(c, s, u) /\ s \in ClientState
  BY <1>1, ActIs DEF Tell, Alone
<1> QED BY <1>1, <1>2, ActIs, AloneKeeps

(* A list of one's own                                                     *)
LEMMA OwnKeeps ==
  ASSUME SyncInv, NEW c \in Clients, NEW kind, Act(kind, c),
         NEW s \in ClientState, ~s.synced, cli' = [cli EXCEPT ![c] = s], UNCHANGED up
  PROVE  SyncInv'
<1>1. PICK u : u = up[c]
  OBVIOUS
<1>2. Alone(c, s, u)
  BY <1>1, ActIs DEF Alone
<1> QED BY <1>1, <1>2, ActIs, AloneKeeps

LEMMA EditKeeps ==
  ASSUME SyncInv, NEW c \in Clients, NEW kind, Act(kind, c), NEW e \in Edits, Edit(c, e)
  PROVE  SyncInv'
<1>1. CASE cli[c].synced
  <2>1. e \in Asked /\ e.op # "get"
    BY OpsAre DEF Edits, Asked
  <2> QED BY <1>1, <2>1, TellKeeps DEF Edit
<1>2. CASE ~cli[c].synced
  <2>1. PICK q : q = Edited(cli[c].list, e)
    OBVIOUS
  <2>2. cli[c] \in ClientState /\ cli[c].list \in Seq(Path)
    BY ActIs DEF ClientState
  <2>3. q \in Seq(Path)
    BY <2>1, <2>2, EditedIn
  <2>4. PICK s : s = [cli[c] EXCEPT !.list = q]
    OBVIOUS
  <2>5. s \in ClientState /\ ~s.synced
    BY <1>2, <2>2, <2>3, <2>4 DEF ClientState
  <2>6. cli' = [cli EXCEPT ![c] = s] /\ UNCHANGED up
    BY <1>2, <2>1, <2>4 DEF Edit
  <2> QED BY <2>5, <2>6, OwnKeeps
<1> QED BY <1>1, <1>2

LEMMA ListOfFiles ==
  ASSUME SyncInv, NEW p \in ItemLists
  PROVE  p \in Seq(Path)
<1>1. PICK k \in 1..2 : p \in [1..k -> files]
  BY DEF ItemLists
<1>2. p \in [1..k -> Path] /\ k \in Nat
  BY <1>1 DEF SyncInv, Typed
<1> QED BY <1>2, SeqFrom

LEMMA AddToPlistKeeps ==
  ASSUME SyncInv, NEW c \in Clients, NEW items \in ItemLists,
         NEW pos \in -1..Len(cli[c].list), AddListItems(c, items, pos)
  PROVE  SyncInv'
<1>1. PICK e : e = [op |-> "add", items |-> items, pos |-> pos]
  OBVIOUS
<1>2. pos \in Int /\ items \in Seq(Path)
  <2>1. cli[c] \in ClientState
    BY DEF SyncInv, Typed
  <2>2. Len(cli[c].list) \in Nat
    BY <2>1, LenProperties DEF ClientState
  <2> QED BY <2>2, ListOfFiles DEF Indices
<1>3. e \in Edits
  BY <1>1, <1>2 DEF Edits, ListMsg
<1> QED BY <1>1, <1>3, EditKeeps DEF AddListItems

LEMMA DeleteItemsKeeps ==
  ASSUME SyncInv, NEW c \in Clients, NEW i \in Indices(cli[c].list), NEW n \in 1..2,
         DeleteItems(c, i, n)
  PROVE  SyncInv'
<1>1. PICK e : e = [op |-> "del", i |-> i, n |-> n]
  OBVIOUS
<1>2. i \in Int /\ n \in Int
  BY DEF Indices
<1>3. e \in Edits
  BY <1>1, <1>2 DEF Edits, ListMsg
<1> QED BY <1>1, <1>3, EditKeeps DEF DeleteItems

LEMMA MoveItemKeeps ==
  ASSUME SyncInv, NEW c \in Clients, NEW i \in Indices(cli[c].list),
         NEW j \in Indices(cli[c].list), MoveListItem(c, i, j)
  PROVE  SyncInv'
<1>1. PICK e : e = [op |-> "move", i |-> i, j |-> j]
  OBVIOUS
<1>2. i \in Int /\ j \in Int
  BY DEF Indices
<1>3. e \in Edits
  BY <1>1, <1>2 DEF Edits, ListMsg
<1> QED BY <1>1, <1>3, EditKeeps DEF MoveListItem

LEMMA PlayLocalKeeps ==
  ASSUME SyncInv, NEW c \in Clients, PlayLocal(c)
  PROVE  SyncInv'
<1>1. Act("play", c)
  BY DEF PlayLocal
<1>2. PICK s, m, u : /\ s = [cli[c] EXCEPT !.synced = TRUE]
                     /\ m = [op |-> "play", list |-> cli[c].list] /\ u = Append(up[c], m)
  OBVIOUS
<1>3. cli[c] \in ClientState /\ cli[c].list \in Seq(Path)
  BY <1>1, ActIs DEF ClientState
<1>4. s \in ClientState /\ m \in Asked /\ m.op = "play"
  BY <1>2, <1>3 DEF ClientState, Asked
<1>5. up[c] \in Seq(Asked) /\ c \in DOMAIN up
  BY DEF SyncInv, Typed
<1>6. Alone(c, s, u) /\ up'[c] = u
  BY <1>1, <1>2, <1>5, ActIs DEF PlayLocal, Tell, Alone
<1>7. Sends(c, "play")'
  <2>1. u \in Seq(Asked) /\ Len(u) = Len(up[c]) + 1 /\ u[Len(up[c]) + 1] = m /\ Len(up[c]) \in Nat
    BY <1>2, <1>4, <1>5, AppendedIs, LenProperties
  <2>2. Len(up[c]) + 1 \in DOMAIN u
    BY <2>1, LenProperties
  <2> QED BY <1>4, <1>6, <2>1, <2>2 DEF Sends
<1> QED BY <1>1, <1>2, <1>4, <1>6, <1>7, ActIs, AloneKeeps

LEMMA ClearListKeeps ==
  ASSUME SyncInv, NEW c \in Clients, ClearList(c)
  PROVE  SyncInv'
<1>1. Act("clear", c) /\ cli[c] \in ClientState
  BY ActIs DEF ClearList
<1>2. CASE cli[c].synced \/ cli[c].list # <<>>
  <2>1. PICK s : s = [cli[c] EXCEPT !.list = <<>>, !.synced = FALSE]
    OBVIOUS
  <2>2. <<>> \in Seq(Path)
    OBVIOUS
  <2>3. s \in ClientState /\ ~s.synced
    BY <1>1, <2>1, <2>2 DEF ClientState
  <2>4. cli' = [cli EXCEPT ![c] = s] /\ UNCHANGED up
    BY <1>2, <2>1 DEF ClearList
  <2> QED BY <1>1, <2>3, <2>4, OwnKeeps
<1>3. CASE ~(cli[c].synced \/ cli[c].list # <<>>)
  <2>1. PICK s, m, u : /\ s = [cli[c] EXCEPT !.waits = "fetch"]
                       /\ m = [op |-> "get"] /\ u = Append(up[c], m)
    OBVIOUS
  <2>2. s \in ClientState /\ s.waits # "no" /\ m \in Asked
    BY <1>1, <2>1 DEF ClientState, Asked
  <2>3. Alone(c, s, u)
    BY <1>1, <1>3, <2>1, ActIs DEF ClearList, Tell, Alone
  <2> QED BY <1>1, <2>1, <2>2, <2>3, ActIs, AloneKeeps
<1> QED BY <1>2, <1>3

LEMMA DesyncKeeps ==
  ASSUME SyncInv, NEW c \in Clients, Desync(c)
  PROVE  SyncInv'
<1>1. Act("desync", c) /\ cli[c] \in ClientState
  BY ActIs DEF Desync
<1>2. PICK s : s = [cli[c] EXCEPT !.synced = FALSE]
  OBVIOUS
<1>3. s \in ClientState /\ ~s.synced
  BY <1>1, <1>2 DEF ClientState
<1>4. cli' = [cli EXCEPT ![c] = s] /\ UNCHANGED up
  BY <1>2 DEF Desync
<1> QED BY <1>1, <1>3, <1>4, OwnKeeps

LEMMA LoadListKeeps ==
  ASSUME SyncInv, NEW c \in Clients, NEW p \in ItemLists, LoadList(c, p)
  PROVE  SyncInv'
<1>1. Act("load", c) /\ cli[c] \in ClientState /\ p \in Seq(Path)
  BY ActIs, ListOfFiles DEF LoadList
<1>2. PICK s : s = [cli[c] EXCEPT !.list = p, !.synced = FALSE]
  OBVIOUS
<1>3. s \in ClientState /\ ~s.synced
  BY <1>1, <1>2 DEF ClientState
<1>4. cli' = [cli EXCEPT ![c] = s] /\ UNCHANGED up
  BY <1>2 DEF LoadList
<1> QED BY <1>1, <1>3, <1>4, OwnKeeps

LEMMA FilesKeep ==
  ASSUME SyncInv, NEW c \in Clients
  PROVE  /\ \A F \in SUBSET Path : FilesRm(c, F) => SyncInv'
         /\ \A change \in Changes : FilesMv(c, change) => SyncInv'
<1>1. ASSUME NEW F \in SUBSET Path, FilesRm(c, F) PROVE SyncInv'
  <2>1. PICK m : m = [op |-> "rm", files |-> F]
    OBVIOUS
  <2>2. m \in Asked /\ m.op # "get"
    BY <2>1 DEF Asked, Edits, RmMsg
  <2> QED BY <1>1, <2>1, <2>2, TellKeeps DEF FilesRm
<1>2. ASSUME NEW change \in Changes, FilesMv(c, change) PROVE SyncInv'
  <2>1. PICK m : m = [op |-> "mod", change |-> change]
    OBVIOUS
  <2>2. change \in UNION {[F -> Path] : F \in SUBSET Path}
    <3>1. PICK F \in {{f} : f \in Path} : change \in [F -> Path]
      BY <1>2 DEF Changes
    <3>2. F \in SUBSET Path
      BY <3>1
    <3> QED BY <3>1, <3>2
  <2>3. m \in ModMsg /\ m.op # "get"
    BY <2>1, <2>2 DEF ModMsg
  <2>4. m \in Asked
    BY <2>3 DEF Asked, Edits
  <2> QED BY <1>2, <2>1, <2>3, <2>4, TellKeeps DEF FilesMv
<1> QED BY <1>1, <1>2

LEMMA UserActsKeep ==
  ASSUME SyncInv, NEW c \in Clients, UserActs(c)
  PROVE  SyncInv'
BY AddToPlistKeeps, DeleteItemsKeeps, MoveItemKeeps, PlayLocalKeeps, ClearListKeeps,
   DesyncKeeps, LoadListKeeps, FilesKeep DEF UserActs

-----------------------------------------------------------------------------
(* The invariant                                                           *)

LEMMA SyncStarts ==
  ASSUME SyncInit
  PROVE  SyncInv
<1>1. \A p \in OneItem \cup {<<>>} : p \in Seq(Path)
  <2>1. <<>> \in Seq(Path) /\ \A q \in Path : <<q>> \in Seq(Path)
    OBVIOUS
  <2> QED BY <2>1 DEF OneItem
<1>2. /\ Fetching \in ClientState /\ Fetching.waits # "no"
      /\ \A p \in OneItem : Local(p) \in ClientState /\ ~Local(p).synced
  <2>1. <<>> \in Seq(Path) /\ \A p \in OneItem : p \in Seq(Path)
    BY <1>1
  <2> QED BY <2>1 DEF Fetching, Local, ClientState
<1>3. Fetching.synced = FALSE
  BY DEF Fetching
<1>4. cli \in [Clients -> ClientState] /\ \A c \in Clients : ~cli[c].synced
  BY <1>2, <1>3 DEF SyncInit
<1>5. PICK m, g : m = [op |-> "get"] /\ g = <<m>>
  OBVIOUS
<1>6. m \in Asked /\ g \in Seq(Asked) /\ <<>> \in Seq(Asked) /\ Len(g) = 1
  <2>1. m \in Asked
    BY <1>5 DEF Asked
  <2> QED BY <1>5, <2>1
<1>7. /\ up \in [Clients -> Seq(Asked)]
      /\ \A c \in Clients : up[c] = <<>> \/ (up[c] = g /\ cli[c].waits # "no")
  <2>1. up = [c \in Clients |-> IF cli[c].waits = "no" THEN <<>> ELSE g]
    BY <1>5 DEF SyncInit
  <2> HIDE DEF SyncInit
  <2> QED BY <1>6, <2>1
<1>8. \A c \in Clients : outbox[c] = <<>> /\ down[c] = <<>>
  BY DEF SyncInit
<1>9. Typed
  <2>1. plist \in Seq(Path) /\ files \subseteq Path
    BY <1>1 DEF SyncInit
  <2>2. /\ outbox \in [Clients -> Seq(Sent)] /\ down \in [Clients -> Seq(Got)]
        /\ overtaken \in [Clients -> BOOLEAN]
    BY DEF SyncInit
  <2> QED BY <1>4, <1>7, <2>1, <2>2 DEF Typed
<1>10. ASSUME NEW c \in Clients PROVE Waits(c)
  <2>1. Len(down[c]) = 0
    BY <1>8
  <2>2. CASE up[c] = <<>>
    <3>1. \A k \in 1..Len(up[c]) : FALSE
      BY <2>2
    <3> QED BY <2>1, <3>1 DEF Waits
  <2>3. CASE up[c] = g /\ cli[c].waits # "no"
    <3>1. PICK u : u = up[c]
      OBVIOUS
    <3>2. Len(u) = 1
      BY <1>6, <2>3, <3>1
    <3>3. \A k \in 1..Len(u) : k = Len(u)
      BY <3>2
    <3> QED BY <2>1, <2>3, <3>1, <3>3 DEF Waits
  <2> QED BY <1>7, <2>2, <2>3
<1>11. \A c \in Clients : Gone(outbox[c], plist)
  BY <1>8 DEF Gone
<1>12. ASSUME NEW c \in Clients PROVE Agrees(c)
  <2>1. PICK e : e = down[c] \o outbox[c]
    OBVIOUS
  <2>2. e \in Seq(Got) /\ cli[c] \in ClientState
    BY <1>9, <2>1, ComingIs
  <2>3. Len(e) = 0
    <3>1. PICK a : a = <<>>
      OBVIOUS
    <3>2. a \in Seq(Got) /\ Len(a) = 0 /\ e = a \o a
      BY <1>8, <2>1, <3>1
    <3> QED BY <3>2, ConcatProperties
  <2>4. \A k \in 1..Len(e) : e[k].op # "data"
    BY <2>3
  <2>5. AfterEvents(cli[c], e).synced = cli[c].synced
    BY <2>2, <2>4, ViewWithoutAnswer
  <2>6. ~Settled(c).synced
    BY <1>4, <2>1, <2>5 DEF Settled
  <2> QED BY <2>6 DEF Agrees
<1> QED BY <1>9, <1>10, <1>11, <1>12 DEF SyncInv

LEMMA SyncInvariant ==
  ASSUME SyncInv, [SyncNext]_(syncVars)
  PROVE  SyncInv'
<1>1. CASE UNCHANGED syncVars
  BY <1>1 DEF syncVars, SyncInv, Typed, Waits, Agrees, Settled, Sends
<1>2. ASSUME NEW c \in Clients, Serve(c) PROVE SyncInv'
  BY <1>2, ServeGetKeeps, ServeEditKeeps, ServePlayKeeps, ServeFilesRmKeeps, ServeFilesMvKeeps
     DEF Serve
<1>3. CASE SyncNext
  BY <1>2, <1>3, SendPacketKeeps, ReadEventKeeps, UpdateListKeeps, UserActsKeep DEF SyncNext
<1> QED BY <1>1, <1>3

(* Lists hold paths and queues messages, and a client that waits for an    *)
(* answer has just the one request or answer on its way (client.cc:571,    *)
(* server.cc:594).                                                         *)
THEOREM SyncTypes == SyncSpec => []SyncTypeOK
<1>1. SyncInit => SyncInv
  BY SyncStarts
<1>2. SyncInv /\ [SyncNext]_(syncVars) => SyncInv'
  BY SyncInvariant
<1>3. SyncInv => SyncTypeOK
  <2>1. ASSUME SyncInv, NEW c \in Clients, NEW k \in DOMAIN outbox[c]
        PROVE  outbox[c][k].op \in {"new", "add", "del", "move", "rm", "mod"}
    <3>1. outbox[c] \in Seq(Sent)
      BY <2>1 DEF SyncInv, Typed
    <3>2. outbox[c][k] \in Sent /\ outbox[c][k] \in Got
      BY <2>1, <3>1, ElementOfSeq, LenProperties DEF Got
    <3> QED BY <3>2, EventKinds
  <2>2. ASSUME SyncInv, NEW c \in Clients
        PROVE  DOMAIN down[c] = 1..Len(down[c]) /\ DOMAIN up[c] = 1..Len(up[c])
    BY <2>2, LenProperties DEF SyncInv, Typed
  <2> QED BY <2>1, <2>2 DEF SyncInv, Typed, Waits, SyncTypeOK
<1> QED BY <1>1, <1>2, <1>3, PTL DEF SyncSpec

(* A client that follows the server's list, with no update due and no list *)
(* of its own on its way to the server, will have the server's list once it*)
(* has read what is on its way to it, whoever edits, renames, removes,     *)
(* plays or fetches, unless its last fetch overtook the event of an edit   *)
(* (server.cc:573-643, client.cc:574-582, 852-922).                        *)
THEOREM ClientsAgree == SyncSpec => []ViewAgrees
<1>1. SyncInit => SyncInv
  BY SyncStarts
<1>2. SyncInv /\ [SyncNext]_(syncVars) => SyncInv'
  BY SyncInvariant
<1>3. SyncInv => ViewAgrees
  BY DEF SyncInv, Agrees, ViewAgrees
<1> QED BY <1>1, <1>2, <1>3, PTL DEF SyncSpec
=============================================================================
