---------------------------- MODULE Planning_proofs ----------------------------
(***************************************************************************)
(* For every trip, evidence, plan and edit: that a compiled plan is sound,  *)
(* and what an edit keeps and tells of: the events the user locked, every   *)
(* attraction that is neither removed nor reported as one without a place,  *)
(* and the overlaps it makes.                                               *)
(***************************************************************************)
EXTENDS Planning, SequenceTheorems, FiniteSetTheorems, TLAPS

-----------------------------------------------------------------------------
(* Numbers, sequences and loops.                                            *)

\* Induction on the naturals, for a set of them.
LEMMA NatSet ==
  ASSUME NEW S \in SUBSET Nat, 0 \in S, \A n \in S : n + 1 \in S
  PROVE  S = Nat
<1>1. ASSUME Nat \ S # {} PROVE FALSE
  <2>1. IsWellFoundedOn(OpToRel(<, Nat), Nat)
    BY NatLessThanWellFounded
  <2>2. PICK x \in Nat \ S : \A y \in Nat \ S : ~(<<y, x>> \in OpToRel(<, Nat))
    <3> HIDE DEF OpToRel
    <3> QED
      BY <1>1, <2>1, WFMin
  <2>3. x # 0 /\ x - 1 \in Nat
    OBVIOUS
  <2>4. <<x - 1, x>> \in OpToRel(<, Nat)
    BY <2>3 DEF OpToRel
  <2>5. x - 1 \in S
    BY <2>2, <2>3, <2>4
  <2>6. x - 1 + 1 = x
    OBVIOUS
  <2> QED
    BY <2>5, <2>6
<1> QED
  BY <1>1

\* What holds at 0 and is carried from each number to the next, up to n, holds at n.
LEMMA UpTo ==
  ASSUME NEW n \in Nat, NEW S, 0 \in S, \A k \in 0 .. n - 1 : k \in S => k + 1 \in S
  PROVE  \A k \in 0 .. n : k \in S
<1> DEFINE T == {k \in Nat : k <= n => k \in S}
<1>1. T \in SUBSET Nat /\ 0 \in T
  OBVIOUS
<1>2. \A k \in T : k + 1 \in T
  OBVIOUS
<1>3. T = Nat
  <2> HIDE DEF T
  <2> QED
    BY <1>1, <1>2, NatSet
<1> QED
  BY <1>3

\* A set of naturals that is not empty has a least member, and a bounded one a greatest.
LEMMA Least ==
  ASSUME NEW S \in SUBSET Nat, S # {}
  PROVE  Min(S) \in S /\ \A x \in S : Min(S) <= x
<1>1. IsWellFoundedOn(OpToRel(<, Nat), Nat)
  BY NatLessThanWellFounded
<1>2. PICK x \in S : \A y \in S : ~(<<y, x>> \in OpToRel(<, Nat))
  <2> HIDE DEF OpToRel
  <2> QED
    BY <1>1, WFMin
<1>3. \A y \in S : x <= y
  <2> SUFFICES ASSUME NEW y \in S, y < x PROVE FALSE
    OBVIOUS
  <2>1. <<y, x>> \in OpToRel(<, Nat)
    BY DEF OpToRel
  <2> QED
    BY <1>2, <2>1
<1> QED
  BY <1>3 DEF Min

LEMMA Greatest ==
  ASSUME NEW n \in Nat, NEW S \in SUBSET (0 .. n), S # {}
  PROVE  Max(S) \in S /\ \A x \in S : x <= Max(S)
<1> DEFINE T == {n - x : x \in S}
<1>1. T \in SUBSET Nat /\ T # {}
  <2>1. \A x \in S : n - x \in Nat
    OBVIOUS
  <2>2. PICK x \in S : TRUE
    OBVIOUS
  <2>3. n - x \in T
    OBVIOUS
  <2> QED
    BY <2>1, <2>3
<1>2. Min(T) \in T /\ \A x \in T : Min(T) <= x
  <2> HIDE DEF T
  <2> QED
    BY <1>1, Least
<1>3. PICK x \in S : Min(T) = n - x
  BY <1>2
<1>4. \A y \in S : y <= x
  <2> TAKE y \in S
  <2>1. n - y \in T
    OBVIOUS
  <2>2. n - x <= n - y
    BY <2>1, <1>2, <1>3
  <2> QED
    BY <2>2
<1> QED
  BY <1>4 DEF Max

\* A finite set of integers that is not empty has a least and a greatest member.
LEMMA Extremes ==
  ASSUME NEW S \in SUBSET Int, IsFiniteSet(S), S # {}
  PROVE  /\ Min(S) \in S /\ \A x \in S : Min(S) <= x
         /\ Max(S) \in S /\ \A x \in S : x <= Max(S)
<1> DEFINE n == Cardinality(S)
<1>1. n \in Nat /\ \E f \in [1 .. n -> S] : \A x \in S : \E i \in 1 .. n : f[i] = x
  <2>1. n \in Nat /\ ExistsBijection(1 .. n, S)
    BY FS_CardinalityType
  <2> HIDE DEF n
  <2> QED
    BY <2>1 DEF ExistsBijection, Bijection, Surjection
<1> HIDE DEF n
<1>2. PICK f \in [1 .. n -> S] : \A x \in S : \E i \in 1 .. n : f[i] = x
  BY <1>1
<1>3. \A i \in 1 .. n : f[i] \in Int
  OBVIOUS
<1> DEFINE bounds(k) ==
             k = 0 \/ \E lo, hi \in 1 .. k : \A j \in 1 .. k : f[lo] <= f[j] /\ f[j] <= f[hi]
           T == {k \in 0 .. n : bounds(k)}
<1>4. 0 \in T
  BY <1>1
<1>5. ASSUME NEW k \in 0 .. n - 1, k \in T PROVE k + 1 \in T
  <2>1. CASE k = 0
    <3>1. f[1] \in Int /\ 1 \in 1 .. 1 /\ \A j \in 1 .. 1 : j = 1
      BY <1>1, <1>3, <1>5, <2>1
    <3>2. bounds(1)
      BY <3>1
    <3> QED
      BY <1>1, <1>5, <2>1, <3>2
  <2>2. CASE k # 0
    <3>1. PICK lo, hi \in 1 .. k : \A j \in 1 .. k : f[lo] <= f[j] /\ f[j] <= f[hi]
      BY <1>5, <2>2
    <3> DEFINE down == IF f[lo] <= f[k + 1] THEN lo ELSE k + 1
               up == IF f[k + 1] <= f[hi] THEN hi ELSE k + 1
    <3>2. k + 1 \in 1 .. n /\ 1 .. k \subseteq 1 .. n /\ down \in 1 .. k + 1 /\ up \in 1 .. k + 1
      BY <1>1
    <3>3. \A j \in 1 .. k + 1 : f[down] <= f[j] /\ f[j] <= f[up]
      <4> TAKE j \in 1 .. k + 1
      <4>1. f[j] \in Int /\ f[k + 1] \in Int /\ f[lo] \in Int /\ f[hi] \in Int
        BY <1>3, <3>2
      <4>2. CASE j = k + 1
        BY <4>1, <4>2
      <4>3. CASE j # k + 1
        <5>1. f[lo] <= f[j] /\ f[j] <= f[hi]
          BY <3>1, <4>3
        <5> QED
          BY <4>1, <5>1
      <4> QED
        BY <4>2, <4>3
    <3> HIDE DEF down, up
    <3>4. bounds(k + 1)
      BY <3>2, <3>3
    <3> QED
      BY <1>1, <3>4
  <2> QED
    BY <2>1, <2>2
<1> HIDE DEF T
<1>6. \A k \in 0 .. n : k \in T
  BY <1>1, <1>4, <1>5, UpTo
<1>7. n # 0
  <2>1. PICK x \in S : TRUE
    OBVIOUS
  <2>2. PICK i \in 1 .. n : f[i] = x
    BY <1>2
  <2> QED
    BY <1>1, <2>2
<1>8. PICK lo, hi \in 1 .. n : \A j \in 1 .. n : f[lo] <= f[j] /\ f[j] <= f[hi]
  <2>1. n \in T
    BY <1>1, <1>6
  <2> QED
    BY <1>7, <2>1 DEF T
<1>9. \A x \in S : f[lo] <= x /\ x <= f[hi]
  BY <1>2, <1>8
<1>10. f[lo] \in S /\ f[hi] \in S
  OBVIOUS
<1>11. Min(S) \in S /\ \A x \in S : Min(S) <= x
  BY <1>9, <1>10 DEF Min
<1>12. Max(S) \in S /\ \A x \in S : Max(S) >= x
  BY <1>9, <1>10 DEF Max
<1> QED
  BY <1>11, <1>12

LEMMA OfTwo ==
  ASSUME NEW a \in Int, NEW b \in Int
  PROVE  /\ Min({a, b}) = IF a <= b THEN a ELSE b
         /\ Max({a, b}) = IF a <= b THEN b ELSE a
<1>1. Min({a, b}) \in {a, b} /\ \A x \in {a, b} : Min({a, b}) <= x
  <2>1. \E x \in {a, b} : \A y \in {a, b} : x <= y
    OBVIOUS
  <2> QED
    BY <2>1 DEF Min
<1>2. Max({a, b}) \in {a, b} /\ \A x \in {a, b} : Max({a, b}) >= x
  <2>1. \E x \in {a, b} : \A y \in {a, b} : x >= y
    OBVIOUS
  <2> QED
    BY <2>1 DEF Max
<1> QED
  BY <1>1, <1>2

\* The image of a finite set is finite, and so are the members of a sequence.
LEMMA ImageFinite ==
  ASSUME NEW S, IsFiniteSet(S), NEW f
  PROVE  IsFiniteSet({f[x] : x \in S})
<1> DEFINE g == [x \in S |-> f[x]]
           T == {f[x] : x \in S}
<1>1. g \in Surjection(S, T)
  <2>1. g \in [S -> T] /\ \A y \in T : \E x \in S : g[x] = y
    OBVIOUS
  <2> QED
    BY <2>1 DEF Surjection
<1> HIDE DEF g, T
<1>2. IsFiniteSet(T)
  BY <1>1, FS_Surjection
<1> QED
  BY <1>2 DEF T

LEMMA ToSetFinite ==
  ASSUME NEW S, NEW s \in Seq(S)
  PROVE  IsFiniteSet(ToSet(s))
<1>1. DOMAIN s = 1 .. Len(s) /\ Len(s) \in Nat
  BY LenProperties
<1> DEFINE n == Len(s)
<1> HIDE DEF n
<1>2. IsFiniteSet(1 .. n)
  <2>1. 1 \in Int /\ n \in Int
    BY <1>1 DEF n
  <2> QED
    BY <2>1, FS_Interval
<1>3. IsFiniteSet({s[i] : i \in 1 .. n})
  BY <1>2, ImageFinite
<1> QED
  BY <1>1, <1>3 DEF ToSet, n

\* The members of a sequence with something inserted.
LEMMA Inserted ==
  ASSUME NEW S, NEW s \in Seq(S), NEW i \in 1 .. Len(s) + 1, NEW e \in S
  PROVE  /\ InsertAt(s, i, e) \in Seq(S) /\ ToSet(InsertAt(s, i, e)) = ToSet(s) \union {e}
         /\ DOMAIN InsertAt(s, i, e) = 1 .. Len(s) + 1
         /\ \A k \in 1 .. Len(s) + 1 :
               InsertAt(s, i, e)[k] = IF k < i THEN s[k] ELSE IF k = i THEN e ELSE s[k - 1]
<1> DEFINE l == SubSeq(s, 1, i - 1)
           r == SubSeq(s, i, Len(s))
           t == (l \o <<e>>) \o r
<1>1. Len(s) \in Nat /\ DOMAIN s = 1 .. Len(s) /\ \A k \in 1 .. Len(s) : s[k] \in S
  BY LenProperties, ElementOfSeq
<1>2. l \in Seq(S) /\ Len(l) = i - 1 /\ \A k \in 1 .. i - 1 : l[k] = s[k]
  <2>1. \A k \in 1 .. i - 1 : s[k] \in S
    BY <1>1
  <2>2. /\ SubSeq(s, 1, i - 1) \in Seq(S)
        /\ Len(SubSeq(s, 1, i - 1)) = IF 1 <= i - 1 THEN i - 1 - 1 + 1 ELSE 0
        /\ \A k \in 1 .. i - 1 - 1 + 1 : SubSeq(s, 1, i - 1)[k] = s[1 + k - 1]
    BY <1>1, <2>1, SubSeqProperties
  <2> QED
    BY <2>2, <1>1
<1>3. r \in Seq(S) /\ Len(r) = Len(s) - i + 1
      /\ \A k \in 1 .. Len(s) - i + 1 : r[k] = s[i + k - 1]
  <2>1. \A k \in i .. Len(s) : s[k] \in S
    BY <1>1
  <2>2. /\ SubSeq(s, i, Len(s)) \in Seq(S)
        /\ Len(SubSeq(s, i, Len(s))) = IF i <= Len(s) THEN Len(s) - i + 1 ELSE 0
        /\ \A k \in 1 .. Len(s) - i + 1 : SubSeq(s, i, Len(s))[k] = s[i + k - 1]
    BY <1>1, <2>1, SubSeqProperties
  <2> QED
    BY <2>2, <1>1
<1>4. /\ l \o <<e>> \in Seq(S) /\ Len(l \o <<e>>) = i
      /\ \A k \in 1 .. i : (l \o <<e>>)[k] = IF k < i THEN s[k] ELSE e
  <2> HIDE DEF l
  <2>1. <<e>> \in Seq(S) /\ Len(<<e>>) = 1 /\ <<e>>[1] = e
    OBVIOUS
  <2>2. /\ l \o <<e>> \in Seq(S)
        /\ Len(l \o <<e>>) = Len(l) + Len(<<e>>)
        /\ \A k \in 1 .. Len(l) + Len(<<e>>) : (l \o <<e>>)[k] =
              IF k <= Len(l) THEN l[k] ELSE <<e>>[k - Len(l)]
    BY <1>2, <2>1, ConcatProperties
  <2> QED
    BY <1>1, <1>2, <2>1, <2>2
<1>5. /\ t \in Seq(S) /\ Len(t) = Len(s) + 1
      /\ \A k \in 1 .. Len(s) + 1 :
            t[k] = IF k < i THEN s[k] ELSE IF k = i THEN e ELSE s[k - 1]
  <2> DEFINE h == l \o <<e>>
  <2>1. h \in Seq(S) /\ Len(h) = i /\ \A k \in 1 .. i : h[k] = IF k < i THEN s[k] ELSE e
    BY <1>4
  <2> HIDE DEF h, r
  <2>2. /\ h \o r \in Seq(S) /\ Len(h \o r) = Len(h) + Len(r)
        /\ \A k \in 1 .. Len(h) + Len(r) : (h \o r)[k] =
              IF k <= Len(h) THEN h[k] ELSE r[k - Len(h)]
    BY <2>1, <1>3, ConcatProperties
  <2>3. \A k \in i + 1 .. Len(s) + 1 : r[k - i] = s[k - 1]
    BY <1>1, <1>3
  <2>4. t = h \o r
    BY DEF h
  <2> HIDE DEF t
  <2> QED
    BY <1>1, <1>3, <2>1, <2>2, <2>3, <2>4
<1>6. InsertAt(s, i, e) = t
  BY DEF InsertAt
<1> HIDE DEF t
<1>7. DOMAIN t = 1 .. Len(s) + 1
  BY <1>1, <1>5, LenProperties
<1>8. ToSet(t) = ToSet(s) \union {e}
  <2>1. \A x \in ToSet(t) : x \in ToSet(s) \union {e}
    BY <1>1, <1>5, <1>7 DEF ToSet
  <2>2. e \in ToSet(t)
    BY <1>1, <1>5, <1>7 DEF ToSet
  <2>3. \A x \in ToSet(s) : x \in ToSet(t)
    <3> TAKE x \in ToSet(s)
    <3>1. PICK k \in 1 .. Len(s) : x = s[k]
      BY <1>1 DEF ToSet
    <3>2. CASE k < i
      <4>1. k \in 1 .. Len(s) + 1 /\ t[k] = s[k]
        BY <1>1, <1>5, <3>2
      <4> QED
        BY <1>7, <3>1, <4>1 DEF ToSet
    <3>3. CASE k >= i
      <4>1. k + 1 \in 1 .. Len(s) + 1 /\ t[k + 1] = s[k + 1 - 1] /\ k + 1 - 1 = k
        BY <1>1, <1>5, <3>3
      <4>2. k + 1 \in DOMAIN t /\ t[k + 1] = x
        BY <1>7, <3>1, <4>1
      <4> QED
        BY <4>2 DEF ToSet
    <3> QED
      BY <1>1, <3>2, <3>3
  <2> QED
    BY <2>1, <2>2, <2>3
<1> QED
  BY <1>5, <1>6, <1>7, <1>8

LEMMA Appended ==
  ASSUME NEW S, NEW s \in Seq(S), NEW e \in S
  PROVE  Append(s, e) \in Seq(S) /\ ToSet(Append(s, e)) = ToSet(s) \union {e}
<1>1. /\ Append(s, e) \in Seq(S) /\ Len(Append(s, e)) = Len(s) + 1
      /\ \A i \in 1 .. Len(s) : Append(s, e)[i] = s[i]
      /\ Append(s, e)[Len(s) + 1] = e
  BY AppendProperties
<1>2. Len(s) \in Nat /\ DOMAIN s = 1 .. Len(s) /\ DOMAIN Append(s, e) = 1 .. Len(s) + 1
  BY <1>1, LenProperties
<1> QED
  BY <1>1, <1>2 DEF ToSet

\* Sorting keeps a sequence over its members, its members, and each of its places.
LEMMA SortedPlaces ==
  ASSUME NEW S, NEW s \in Seq(S), NEW key
  PROVE  LET t == Sorted(s, key)
         IN  /\ t \in Seq(S) /\ ToSet(t) = ToSet(s)
             /\ \A i, j \in DOMAIN t : i # j =>
                   \E l, m \in DOMAIN s : l # m /\ s[l] = t[i] /\ s[m] = t[j]
<1> DEFINE at(t, n) == 1 + Cardinality({k \in DOMAIN t : ~Less(key[s[n]], key[t[k]])})
           step(t, n) == InsertAt(t, at(t, n), s[n])
           N == Len(s)
           is(f, n) == f = [k \in 0 .. n |-> IF k = 0 THEN <<>> ELSE step(f[k - 1], k)]
           upTo == CHOOSE f : is(f, N)
<1>1. N \in Nat /\ DOMAIN s = 1 .. N /\ \A n \in 1 .. N : s[n] \in S
  BY LenProperties, ElementOfSeq
<1>2. is(upTo, N)
  <2> DEFINE T == {n \in Nat : \E f : is(f, n)}
  <2> HIDE DEF step
  <2>1. is([k \in 0 .. 0 |-> <<>>], 0)
    OBVIOUS
  <2>2. ASSUME NEW n \in Nat, NEW f, is(f, n) PROVE \E g : is(g, n + 1)
    <3>1. is([k \in 0 .. n + 1 |-> IF k = n + 1 THEN step(f[n], k) ELSE f[k]], n + 1)
      BY <2>2
    <3> HIDE DEF is
    <3> QED
      BY <3>1
  <2> HIDE DEF is
  <2>3. T \in SUBSET Nat /\ 0 \in T /\ \A n \in T : n + 1 \in T
    BY <2>1, <2>2
  <2>4. N \in T
    <3> HIDE DEF T
    <3> QED
      BY <1>1, <2>3, NatSet
  <2> QED
    BY <2>4
<1> HIDE DEF step
<1>3. upTo[0] = <<>> /\ \A k \in 1 .. N : upTo[k] = step(upTo[k - 1], k)
  <2> HIDE DEF upTo
  <2> QED
    BY <1>1, <1>2
<1>4. Sorted(s, key) = upTo[N]
  BY DEF Sorted, Loop, step
<1> HIDE DEF is, upTo
<1> DEFINE head(k) == {s[n] : n \in 1 .. k}
<1>5. /\ head(0) = {} /\ head(N) = ToSet(s)
      /\ \A k \in 0 .. N - 1 : head(k + 1) = head(k) \union {s[k + 1]}
  BY <1>1 DEF ToSet
<1>7. \A k \in 0 .. N : \A x \in head(k) : \E n \in 1 .. k : s[n] = x
  OBVIOUS
<1> HIDE DEF head
<1> DEFINE apart(t, k) == \A i, j \in DOMAIN t : i # j =>
             \E l, m \in 1 .. k : l # m /\ s[l] = t[i] /\ s[m] = t[j]
<1>6. \A k \in 0 .. N : upTo[k] \in Seq(S) /\ ToSet(upTo[k]) = head(k) /\ apart(upTo[k], k)
  <2> DEFINE holds(k) == upTo[k] \in Seq(S) /\ ToSet(upTo[k]) = head(k) /\ apart(upTo[k], k)
             T == {k \in 0 .. N : holds(k)}
  <2>1. holds(0)
    <3>1. ToSet(<<>>) = {} /\ <<>> \in Seq(S) /\ DOMAIN <<>> = {}
      BY DEF ToSet
    <3> QED
      BY <1>3, <1>5, <3>1
  <2>2. ASSUME NEW k \in 0 .. N - 1, holds(k) PROVE holds(k + 1)
    <3> DEFINE t == upTo[k]
               i == at(t, k + 1)
    <3>1. t \in Seq(S) /\ ToSet(t) = head(k) /\ apart(t, k)
      BY <2>2
    <3> HIDE DEF t, apart
    <3>2. i \in 1 .. Len(t) + 1
      <4> DEFINE D == {n \in DOMAIN t : ~Less(key[s[k + 1]], key[t[n]])}
      <4>1. Len(t) \in Nat /\ D \subseteq 1 .. Len(t)
        BY <3>1, LenProperties
      <4> HIDE DEF D
      <4>2. IsFiniteSet(1 .. Len(t)) /\ Cardinality(1 .. Len(t)) = Len(t)
        <5>1. /\ IsFiniteSet(1 .. Len(t))
              /\ Cardinality(1 .. Len(t)) = IF 1 > Len(t) THEN 0 ELSE Len(t) - 1 + 1
          <6> DEFINE n == Len(t)
          <6> HIDE DEF n
          <6>1. 1 \in Int /\ n \in Int
            BY <4>1 DEF n
          <6> QED
            BY <6>1, FS_Interval DEF n
        <5> QED
          BY <4>1, <5>1
      <4>3. IsFiniteSet(D) /\ Cardinality(D) <= Len(t)
        BY <4>1, <4>2, FS_Subset
      <4>4. Cardinality(D) \in Nat
        BY <4>3, FS_CardinalityType
      <4> QED
        BY <4>1, <4>3, <4>4 DEF D
    <3> HIDE DEF i
    <3>3. s[k + 1] \in S
      BY <1>1
    <3>4. InsertAt(t, i, s[k + 1]) \in Seq(S)
          /\ ToSet(InsertAt(t, i, s[k + 1])) = ToSet(t) \union {s[k + 1]}
          /\ DOMAIN InsertAt(t, i, s[k + 1]) = 1 .. Len(t) + 1
          /\ \A n \in 1 .. Len(t) + 1 :
                InsertAt(t, i, s[k + 1])[n] =
                    IF n < i THEN t[n] ELSE IF n = i THEN s[k + 1] ELSE t[n - 1]
      <4> DEFINE x == s[k + 1]
                 v == InsertAt(t, i, x)
      <4>1. x \in S
        BY <3>3
      <4> HIDE DEF x
      <4>2. /\ v \in Seq(S) /\ ToSet(v) = ToSet(t) \union {x}
            /\ DOMAIN v = 1 .. Len(t) + 1
            /\ \A n \in 1 .. Len(t) + 1 :
                  v[n] = IF n < i THEN t[n] ELSE IF n = i THEN x ELSE t[n - 1]
        BY <3>1, <3>2, <4>1, Inserted
      <4> QED
        BY <4>2 DEF x
    <3>5. upTo[k + 1] = InsertAt(t, i, s[k + 1])
      BY <1>1, <1>3 DEF step, i, t
    <3> DEFINE u == upTo[k + 1]
               was(n) == IF n < i THEN n ELSE n - 1
    <3>6. Len(t) \in Nat /\ DOMAIN t = 1 .. Len(t) /\ DOMAIN u = 1 .. Len(t) + 1
      BY <3>1, <3>4, <3>5, LenProperties
    <3>7. /\ u[i] = s[k + 1]
          /\ \A n \in DOMAIN u \ {i} : was(n) \in DOMAIN t /\ u[n] = t[was(n)]
          /\ \A m, n \in DOMAIN u \ {i} : m # n => was(m) # was(n)
      <4> DEFINE x == s[k + 1]
                 v == InsertAt(t, i, x)
                 L == Len(t)
      <4>1. /\ L \in Nat /\ i \in 1 .. L + 1 /\ DOMAIN t = 1 .. L /\ DOMAIN u = 1 .. L + 1
            /\ \A n \in 1 .. L + 1 :
                  u[n] = IF n < i THEN t[n] ELSE IF n = i THEN x ELSE t[n - 1]
        <5>1. u = v
          BY <3>5
        <5> HIDE DEF u, v, x
        <5>2. \A n \in 1 .. L + 1 :
                v[n] = IF n < i THEN t[n] ELSE IF n = i THEN x ELSE t[n - 1]
          BY <3>4 DEF v, x
        <5> QED
          BY <3>2, <3>6, <5>1, <5>2
      <4> HIDE DEF u, x, L
      <4> QED
        BY <4>1 DEF x
    <3>8. \A n \in DOMAIN t : \E l \in 1 .. k : s[l] = t[n]
      <4>1. \A x \in head(k) : \E l \in 1 .. k : s[l] = x
        BY <1>1, <1>7
      <4>2. \A n \in DOMAIN t : t[n] \in head(k)
        BY <3>1 DEF ToSet
      <4> QED
        BY <4>1, <4>2
    <3> HIDE DEF u, was
    <3>9. ASSUME NEW m \in DOMAIN u, NEW n \in DOMAIN u, m # n
          PROVE  \E l, j \in 1 .. k + 1 : l # j /\ s[l] = u[m] /\ s[j] = u[n]
      <4>1. CASE m # i /\ n # i
        <5>1. PICK l, j \in 1 .. k : l # j /\ s[l] = t[was(m)] /\ s[j] = t[was(n)]
          BY <3>1, <3>7, <3>9, <4>1 DEF apart
        <5>2. u[m] = t[was(m)] /\ u[n] = t[was(n)] /\ l \in 1 .. k + 1 /\ j \in 1 .. k + 1
          BY <3>7, <4>1
        <5> QED
          BY <5>1, <5>2
      <4>2. CASE m = i
        <5>1. PICK j \in 1 .. k : s[j] = t[was(n)]
          BY <3>7, <3>8, <3>9, <4>2
        <5>2. k + 1 # j /\ k + 1 \in 1 .. k + 1 /\ j \in 1 .. k + 1
          BY <1>1
        <5> QED
          BY <3>7, <3>9, <4>2, <5>1, <5>2
      <4>3. CASE n = i
        <5>1. PICK l \in 1 .. k : s[l] = t[was(m)]
          BY <3>7, <3>8, <3>9, <4>3
        <5>2. k + 1 # l /\ k + 1 \in 1 .. k + 1 /\ l \in 1 .. k + 1
          BY <1>1
        <5> QED
          BY <3>7, <3>9, <4>3, <5>1, <5>2
      <4> QED
        BY <4>1, <4>2, <4>3
    <3>10. apart(u, k + 1)
      BY <3>9 DEF apart
    <3> QED
      BY <1>5, <3>1, <3>4, <3>5, <3>10 DEF u
  <2> HIDE DEF holds
  <2>3. 0 \in T /\ \A k \in 0 .. N - 1 : k \in T => k + 1 \in T
    BY <1>1, <2>1, <2>2
  <2> HIDE DEF T
  <2>4. \A k \in 0 .. N : k \in T
    BY <1>1, <2>3, UpTo
  <2> QED
    BY <2>4 DEF T, holds
<1>8. upTo[N] \in Seq(S) /\ ToSet(upTo[N]) = ToSet(s) /\ apart(upTo[N], N)
  <2> HIDE DEF apart, N
  <2> QED
    BY <1>1, <1>5, <1>6
<1> DEFINE t == Sorted(s, key)
<1>9. /\ t \in Seq(S) /\ ToSet(t) = ToSet(s)
      /\ \A i, j \in DOMAIN t : i # j =>
            \E l, m \in 1 .. N : l # m /\ s[l] = t[i] /\ s[m] = t[j]
  BY <1>4, <1>8
<1> HIDE DEF t
<1> QED
  BY <1>1, <1>9 DEF t

\* Sorting keeps a sequence over its members, and its members.
LEMMA SortedSet ==
  ASSUME NEW S, NEW s \in Seq(S), NEW key
  PROVE  Sorted(s, key) \in Seq(S) /\ ToSet(Sorted(s, key)) = ToSet(s)
  BY SortedPlaces

\* Numbers from 1 on with everything below them are counted by the greatest.
LEMMA CountedDown ==
  ASSUME NEW n \in Nat, NEW A \in SUBSET (1 .. n), \A k \in A : \A j \in 1 .. k : j \in A
  PROVE  Cardinality(A) \in 0 .. n /\ A = 1 .. Cardinality(A)
<1>1. CASE A = {}
  BY <1>1, FS_EmptySet
<1>2. CASE A # {}
  <2> DEFINE m == Max(A)
  <2>1. m \in A /\ \A k \in A : k <= m
    <3>1. A \in SUBSET (0 .. n)
      OBVIOUS
    <3> QED
      BY <1>2, <3>1, Greatest
  <2> HIDE DEF m
  <2>2. m \in 1 .. n /\ A = 1 .. m
    <3>1. m \in 1 .. n
      BY <2>1
    <3>2. \A k \in A : k \in 1 .. m
      BY <2>1
    <3>3. \A k \in 1 .. m : k \in A
      BY <2>1
    <3> QED
      BY <3>1, <3>2, <3>3
  <2>3. Cardinality(1 .. m) = m
    <3>1. Cardinality(1 .. m) = IF 1 > m THEN 0 ELSE m - 1 + 1
      BY <2>2, FS_Interval
    <3> QED
      BY <2>2, <3>1
  <2> QED
    BY <2>2, <2>3
<1> QED
  BY <1>1, <1>2

\* Sorting by a time puts what has an earlier time first.
LEMMA SortedInOrder ==
  ASSUME NEW S, NEW s \in Seq(S), NEW key, NEW time,
         \A x \in S : time[x] \in Int /\ key[x] = <<time[x]>>
  PROVE  LET t == Sorted(s, key)
         IN  \A i, j \in DOMAIN t : i < j => time[t[i]] <= time[t[j]]
<1> DEFINE at(t, n) == 1 + Cardinality({k \in DOMAIN t : ~Less(key[s[n]], key[t[k]])})
           step(t, n) == InsertAt(t, at(t, n), s[n])
           N == Len(s)
           is(f, n) == f = [k \in 0 .. n |-> IF k = 0 THEN <<>> ELSE step(f[k - 1], k)]
           upTo == CHOOSE f : is(f, N)
<1>1. N \in Nat /\ DOMAIN s = 1 .. N /\ \A n \in 1 .. N : s[n] \in S
  BY LenProperties, ElementOfSeq
<1>2. is(upTo, N)
  <2> DEFINE T == {n \in Nat : \E f : is(f, n)}
  <2> HIDE DEF step
  <2>1. is([k \in 0 .. 0 |-> <<>>], 0)
    OBVIOUS
  <2>2. ASSUME NEW n \in Nat, NEW f, is(f, n) PROVE \E g : is(g, n + 1)
    <3>1. is([k \in 0 .. n + 1 |-> IF k = n + 1 THEN step(f[n], k) ELSE f[k]], n + 1)
      BY <2>2
    <3> HIDE DEF is
    <3> QED
      BY <3>1
  <2> HIDE DEF is
  <2>3. T \in SUBSET Nat /\ 0 \in T /\ \A n \in T : n + 1 \in T
    BY <2>1, <2>2
  <2>4. N \in T
    <3> HIDE DEF T
    <3> QED
      BY <1>1, <2>3, NatSet
  <2> QED
    BY <2>4
<1> HIDE DEF step
<1>3. upTo[0] = <<>> /\ \A k \in 1 .. N : upTo[k] = step(upTo[k - 1], k)
  <2> HIDE DEF upTo
  <2> QED
    BY <1>1, <1>2
<1>4. Sorted(s, key) = upTo[N]
  BY DEF Sorted, Loop, step
<1> HIDE DEF is, upTo
<1> DEFINE ordered(t) == \A i, j \in DOMAIN t : i < j => time[t[i]] <= time[t[j]]
<1>5. \A x, y \in S : ~Less(key[x], key[y]) <=> time[y] <= time[x]
  <2> TAKE x, y \in S
  <2> DEFINE u == time[x]
             v == time[y]
  <2>1. key[x] = <<u>> /\ key[y] = <<v>> /\ u \in Int /\ v \in Int
    OBVIOUS
  <2> HIDE DEF u, v
  <2>2. Less(<<u>>, <<v>>) <=> u < v
    <3> DEFINE k == <<u>>
               l == <<v>>
    <3>1. DOMAIN k = 1 .. 1 /\ k[1] = u /\ l[1] = v
      OBVIOUS
    <3> HIDE DEF k, l
    <3>2. Less(k, l) <=> k[1] < l[1]
      BY <3>1 DEF Less
    <3> QED
      BY <3>1, <3>2 DEF k, l
  <2> QED
    BY <2>1, <2>2 DEF u, v
<1>6. ASSUME NEW t \in Seq(S), ordered(t), NEW x \in S
      PROVE  LET A == {k \in DOMAIN t : ~Less(key[x], key[t[k]])}
                 q == InsertAt(t, 1 + Cardinality(A), x)
             IN  q \in Seq(S) /\ ordered(q)
  <2> DEFINE A == {k \in DOMAIN t : ~Less(key[x], key[t[k]])}
             i == 1 + Cardinality(A)
             q == InsertAt(t, i, x)
             n == Len(t)
  <2>1. n \in Nat /\ DOMAIN t = 1 .. n /\ \A k \in 1 .. n : t[k] \in S
    BY LenProperties, ElementOfSeq
  <2>2. A \in SUBSET (1 .. n) /\ \A k \in 1 .. n : k \in A <=> time[t[k]] <= time[x]
    BY <1>5, <2>1
  <2> HIDE DEF A, n
  <2>3. \A k \in A : \A j \in 1 .. k : j \in A
    <3> SUFFICES ASSUME NEW k \in A, NEW j \in 1 .. k PROVE j \in A
      OBVIOUS
    <3>1. k \in 1 .. n /\ j \in 1 .. n
      BY <2>1, <2>2
    <3>2. time[t[j]] \in Int /\ time[t[k]] \in Int /\ time[x] \in Int
      BY <2>1, <3>1
    <3>3. time[t[k]] <= time[x]
      BY <2>2, <3>1
    <3>4. k = j \/ time[t[j]] <= time[t[k]]
      BY <1>6, <2>1, <3>1
    <3>5. time[t[j]] <= time[x]
      BY <3>2, <3>3, <3>4
    <3> QED
      BY <2>2, <3>1, <3>5
  <2>4. Cardinality(A) \in 0 .. n /\ A = 1 .. Cardinality(A)
    BY <2>1, <2>2, <2>3, CountedDown
  <2>5. i \in 1 .. n + 1 /\ \A k \in 1 .. n : k < i <=> time[t[k]] <= time[x]
    BY <2>1, <2>2, <2>4
  <2> HIDE DEF i
  <2>6. /\ q \in Seq(S) /\ DOMAIN q = 1 .. n + 1
        /\ \A k \in 1 .. n + 1 : q[k] = IF k < i THEN t[k] ELSE IF k = i THEN x ELSE t[k - 1]
    BY <2>1, <2>5, Inserted DEF n
  <2> HIDE DEF q
  <2>7. \A k \in 1 .. n : time[t[k]] \in Int
    BY <2>1
  <2>8. ordered(q)
    <3> SUFFICES ASSUME NEW j \in 1 .. n + 1, NEW k \in 1 .. n + 1, j < k
                 PROVE  time[q[j]] <= time[q[k]]
      BY <2>6
    <3>1. CASE k < i
      <4>1. j \in 1 .. n /\ k \in 1 .. n /\ q[j] = t[j] /\ q[k] = t[k]
        BY <2>1, <2>5, <2>6, <3>1
      <4> QED
        BY <1>6, <2>1, <4>1
    <3>2. CASE k = i
      <4>1. j \in 1 .. n /\ j < i /\ q[j] = t[j] /\ q[k] = x
        BY <2>1, <2>5, <2>6, <3>2
      <4> QED
        BY <2>5, <4>1
    <3>3. CASE k > i /\ j < i
      <4>1. k - 1 \in 1 .. n /\ j \in 1 .. n /\ j < k - 1 /\ q[j] = t[j] /\ q[k] = t[k - 1]
        BY <2>1, <2>5, <2>6, <3>3
      <4> QED
        BY <1>6, <2>1, <4>1
    <3>4. CASE k > i /\ j = i
      <4>1. k - 1 \in 1 .. n /\ ~(k - 1 < i) /\ q[j] = x /\ q[k] = t[k - 1]
        BY <2>1, <2>5, <2>6, <3>4
      <4>2. ~(time[t[k - 1]] <= time[x])
        BY <2>5, <4>1
      <4>3. time[t[k - 1]] \in Int /\ time[x] \in Int
        BY <2>7, <4>1
      <4> QED
        BY <4>1, <4>2, <4>3
    <3>5. CASE k > i /\ j > i
      <4>1. k - 1 \in 1 .. n /\ j - 1 \in 1 .. n /\ j - 1 < k - 1
            /\ q[j] = t[j - 1] /\ q[k] = t[k - 1]
        BY <2>1, <2>5, <2>6, <3>5
      <4> QED
        BY <1>6, <2>1, <4>1
    <3> QED
      BY <2>5, <3>1, <3>2, <3>3, <3>4, <3>5
  <2> QED
    BY <2>6, <2>8 DEF q, i, A
<1>7. \A k \in 0 .. N : upTo[k] \in Seq(S) /\ ordered(upTo[k])
  <2> DEFINE holds(k) == upTo[k] \in Seq(S) /\ ordered(upTo[k])
             T == {k \in 0 .. N : holds(k)}
  <2>1. holds(0)
    <3>1. <<>> \in Seq(S) /\ DOMAIN <<>> = {}
      OBVIOUS
    <3> QED
      BY <1>3, <3>1
  <2>2. ASSUME NEW k \in 0 .. N - 1, holds(k) PROVE holds(k + 1)
    <3>1. upTo[k + 1] = step(upTo[k], k + 1) /\ s[k + 1] \in S
      BY <1>1, <1>3
    <3> DEFINE t == upTo[k]
               x == s[k + 1]
    <3>2. t \in Seq(S) /\ ordered(t) /\ x \in S
      BY <2>2, <3>1
    <3>3. step(t, k + 1) = InsertAt(t, 1 + Cardinality({n \in DOMAIN t : ~Less(key[x], key[t[n]])}), x)
      BY DEF step
    <3> HIDE DEF t, x, ordered
    <3>4. step(t, k + 1) \in Seq(S) /\ ordered(step(t, k + 1))
      BY <1>6, <3>2, <3>3
    <3> QED
      BY <3>1, <3>4 DEF t, ordered
  <2> HIDE DEF holds
  <2>3. 0 \in T /\ \A k \in 0 .. N - 1 : k \in T => k + 1 \in T
    BY <1>1, <2>1, <2>2
  <2> HIDE DEF T
  <2>4. \A k \in 0 .. N : k \in T
    BY <1>1, <2>3, UpTo
  <2> QED
    BY <2>4 DEF T, holds
<1> QED
  BY <1>1, <1>4, <1>7

LEMMA WithoutSet ==
  ASSUME NEW S, NEW s \in Seq(S), NEW gone
  PROVE  Without(s, gone) \in Seq(S) /\ ToSet(Without(s, gone)) = ToSet(s) \ gone
<1> DEFINE step(t, n) == IF s[n] \in gone THEN t ELSE Append(t, s[n])
           N == Len(s)
           is(f, n) == f = [k \in 0 .. n |-> IF k = 0 THEN <<>> ELSE step(f[k - 1], k)]
           upTo == CHOOSE f : is(f, N)
<1>1. N \in Nat /\ DOMAIN s = 1 .. N /\ \A n \in 1 .. N : s[n] \in S
  BY LenProperties, ElementOfSeq
<1>2. is(upTo, N)
  <2> DEFINE T == {n \in Nat : \E f : is(f, n)}
  <2> HIDE DEF step
  <2>1. is([k \in 0 .. 0 |-> <<>>], 0)
    OBVIOUS
  <2>2. ASSUME NEW n \in Nat, NEW f, is(f, n) PROVE \E g : is(g, n + 1)
    <3>1. is([k \in 0 .. n + 1 |-> IF k = n + 1 THEN step(f[n], k) ELSE f[k]], n + 1)
      BY <2>2
    <3> HIDE DEF is
    <3> QED
      BY <3>1
  <2> HIDE DEF is
  <2>3. T \in SUBSET Nat /\ 0 \in T /\ \A n \in T : n + 1 \in T
    BY <2>1, <2>2
  <2>4. N \in T
    <3> HIDE DEF T
    <3> QED
      BY <1>1, <2>3, NatSet
  <2> QED
    BY <2>4
<1> HIDE DEF step
<1>3. upTo[0] = <<>> /\ \A k \in 1 .. N : upTo[k] = step(upTo[k - 1], k)
  <2> HIDE DEF upTo
  <2> QED
    BY <1>1, <1>2
<1>4. Without(s, gone) = upTo[N]
  BY DEF Without, Loop, step
<1> HIDE DEF is, upTo
<1> DEFINE head(k) == {s[n] : n \in 1 .. k}
<1>5. /\ head(0) = {} /\ head(N) = ToSet(s)
      /\ \A k \in 0 .. N - 1 : head(k + 1) = head(k) \union {s[k + 1]}
  BY <1>1 DEF ToSet
<1> HIDE DEF head
<1>6. \A k \in 0 .. N :
        upTo[k] \in Seq(S) /\ ToSet(upTo[k]) = head(k) \ gone
  <2> DEFINE holds(k) == upTo[k] \in Seq(S) /\ ToSet(upTo[k]) = head(k) \ gone
             T == {k \in 0 .. N : holds(k)}
  <2>1. holds(0)
    <3>1. ToSet(<<>>) = {} /\ <<>> \in Seq(S)
      BY DEF ToSet
    <3> QED
      BY <1>3, <1>5, <3>1
  <2>2. ASSUME NEW k \in 0 .. N - 1, holds(k) PROVE holds(k + 1)
    <3> DEFINE t == upTo[k]
    <3>1. t \in Seq(S) /\ ToSet(t) = head(k) \ gone
      BY <2>2
    <3> HIDE DEF t
    <3>2. s[k + 1] \in S /\ upTo[k + 1] = IF s[k + 1] \in gone THEN t ELSE Append(t, s[k + 1])
      BY <1>1, <1>3 DEF step, t
    <3>3. Append(t, s[k + 1]) \in Seq(S)
          /\ ToSet(Append(t, s[k + 1])) = ToSet(t) \union {s[k + 1]}
      BY <3>1, <3>2, Appended
    <3> QED
      BY <1>5, <3>1, <3>2, <3>3
  <2> HIDE DEF holds
  <2>3. 0 \in T /\ \A k \in 0 .. N - 1 : k \in T => k + 1 \in T
    BY <1>1, <2>1, <2>2
  <2> HIDE DEF T
  <2>4. \A k \in 0 .. N : k \in T
    BY <1>1, <2>3, UpTo
  <2> QED
    BY <2>4 DEF T, holds
<1> QED
  BY <1>1, <1>4, <1>5, <1>6

-----------------------------------------------------------------------------
(* What the compiler makes.                                                  *)

\* An event has times, and is a visit exactly if it has an attraction; its id and what it
\* goes with are those of the attraction.
Fields == {"type", "start", "end", "attraction", "goesWith", "overlaps"}
GoodEvent(id, e) ==
    /\ id # NoId /\ DOMAIN e = Fields
    /\ e.start \in Int /\ e.end \in Int
    /\ e.attraction # None => /\ id = VisitId(e.attraction)
                              /\ e.type = "attraction"
                              /\ e.goesWith = e.attraction
    /\ e.type = "attraction" => e.attraction # None
GoodEvents(event) == \A id \in DOMAIN event : GoodEvent(id, event[id])

\* The ids of free time that a removal leaves are the only ones of four parts.  The visits
\* listed have events.
GoodDraft(x, last) ==
    /\ DOMAIN x = {"event", "days", "visits", "blockers"}
    /\ GoodEvents(x.event)
    /\ \A id \in DOMAIN x.event : Len(id) # 4
    /\ DOMAIN x.days = 0 .. last
    /\ \A d \in 0 .. last : x.days[d] \in Seq(DOMAIN x.event)
    /\ \E V : x.visits \in Seq(V)
    /\ \A k \in DOMAIN x.visits : VisitId(x.visits[k].attraction) \in DOMAIN x.event

\* The routes, attractions and trains of an input, the window of a trip and the numbers of
\* a pace.
Routes == [id : STRING, from : SUBSET STRING, to : SUBSET STRING, minutes : Nat]
Places == [id : STRING \ {None}, minutes : Nat]
GoodInput(inp) ==
    /\ inp.routes \in Seq(Routes)
    /\ inp.attractions.map \in Seq(Places) /\ inp.attractions.web \in Seq(Places)
    /\ \A dir \in DOMAIN inp.train : inp.train[dir][1] \in Nat /\ inp.train[dir][2] \in Nat
GoodTrip(t) == t.earliest \in 0 .. DayLength - 1 /\ t.latest \in Nat
Numbers == {"maxAttractions", "maxActive", "maxVisit", "earliestDeparture", "latestReturn",
            "breakfast", "lunch", "dinner", "lunchStart", "lunchEnd", "dinnerStart",
            "dinnerEnd", "arrivalBuffer", "railWait", "checkin", "checkout", "between"}
GoodSettings(set) ==
    /\ set \in [Numbers -> Nat]
    /\ set.lunchEnd <= Clock(22, 0) /\ set.dinnerEnd <= Clock(22, 0)

LEMMA SettingsGood ==
  ASSUME NEW pace
  PROVE  GoodSettings(Settings(pace))
<1>1. GoodSettings(Standard)
  BY DEF GoodSettings, Standard, Clock, Numbers
<1>2. ASSUME NEW r, GoodSettings(r), NEW f \in Numbers \ {"lunchEnd", "dinnerEnd"}, NEW v \in Nat
      PROVE  GoodSettings([r EXCEPT ![f] = v])
  <2> DEFINE q == [r EXCEPT ![f] = v]
  <2>1. q \in [Numbers -> Nat] /\ q["lunchEnd"] = r["lunchEnd"] /\ q["dinnerEnd"] = r["dinnerEnd"]
    BY <1>2 DEF GoodSettings, Numbers
  <2> QED
    BY <1>2, <2>1 DEF GoodSettings
<1>3. CASE pace = "relaxed"
  <2> DEFINE r1 == [Standard EXCEPT !.maxAttractions = 1]
             r2 == [r1 EXCEPT !.maxActive = 650]
             r3 == [r2 EXCEPT !.maxVisit = 90]
             r4 == [r3 EXCEPT !.earliestDeparture = Clock(8, 0)]
             r5 == [r4 EXCEPT !.latestReturn = Clock(19, 0)]
             r6 == [r5 EXCEPT !.lunch = 75]
             r7 == [r6 EXCEPT !.dinner = 75]
             r8 == [r7 EXCEPT !.between = 20]
             r9 == [r8 EXCEPT !.arrivalBuffer = 45]
             r10 == [r9 EXCEPT !.railWait = 60]
  <2>1. Settings(pace) = r10
    BY <1>3 DEF Settings
  <2>2. Clock(8, 0) \in Nat /\ Clock(19, 0) \in Nat
    BY DEF Clock
  <2>3. GoodSettings(r1)
    BY <1>1, <1>2 DEF Numbers
  <2> HIDE DEF r1
  <2>4. GoodSettings(r2)
    BY <1>2, <2>3 DEF Numbers
  <2> HIDE DEF r2
  <2>5. GoodSettings(r3)
    BY <1>2, <2>4 DEF Numbers
  <2> HIDE DEF r3
  <2>6. GoodSettings(r6)
    BY <1>2, <2>2, <2>5 DEF Numbers
  <2> HIDE DEF r6
  <2>7. GoodSettings(r9)
    BY <1>2, <2>6 DEF Numbers
  <2> HIDE DEF r9
  <2>8. GoodSettings(r10)
    BY <1>2, <2>7 DEF Numbers
  <2> QED
    BY <2>1, <2>8 DEF r9, r6, r3, r2, r1
<1>4. CASE pace = "intensive"
  <2> DEFINE r1 == [Standard EXCEPT !.maxAttractions = 3]
             r2 == [r1 EXCEPT !.maxActive = 840]
             r3 == [r2 EXCEPT !.maxVisit = 180]
             r4 == [r3 EXCEPT !.earliestDeparture = Clock(6, 30)]
             r5 == [r4 EXCEPT !.latestReturn = Clock(22, 0)]
  <2>1. Settings(pace) = r5
    BY <1>4 DEF Settings
  <2>2. Clock(6, 30) \in Nat /\ Clock(22, 0) \in Nat
    BY DEF Clock
  <2>3. GoodSettings(r1)
    BY <1>1, <1>2 DEF Numbers
  <2> HIDE DEF r1
  <2>4. GoodSettings(r2)
    BY <1>2, <2>3 DEF Numbers
  <2> HIDE DEF r2
  <2>5. GoodSettings(r3)
    BY <1>2, <2>4 DEF Numbers
  <2> HIDE DEF r3
  <2>6. GoodSettings(r5)
    BY <1>2, <2>2, <2>5 DEF Numbers
  <2> QED
    BY <2>1, <2>6 DEF r3, r2, r1
<1>5. CASE pace \notin {"relaxed", "intensive"}
  BY <1>1, <1>5 DEF Settings
<1> QED
  BY <1>3, <1>4, <1>5

\* The times the compiler computes with.
LEMMA Times ==
  /\ \A h, m \in Int : Clock(h, m) \in Int
  /\ \A d, clock \in Int : At(d, clock) \in Int
  /\ \A d \in Int : DayOf(d) \in Int
  /\ \A t : \A d, clock \in Int : GoodTrip(t) => BoundedTime(t, d, clock) \in Int
<1>1. \A t : GoodTrip(t) => t.earliest \in Int /\ t.latest \in Int
  BY DEF GoodTrip
<1>2. \A d, clock \in Int : At(d, clock) \in Int
  BY DEF At, DayLength
<1>3. \A t : \A d, clock \in Int : GoodTrip(t) => BoundedTime(t, d, clock) \in Int
  BY <1>1, <1>2 DEF BoundedTime
<1>4. \A d \in Int : DayOf(d) \in Int
  BY DEF DayOf, DayLength
<1> QED
  BY <1>2, <1>3, <1>4 DEF Clock

LEMMA EventTimes ==
  ASSUME NEW last, NEW x, GoodDraft(x, last)
  PROVE  \A id \in DOMAIN x.event : x.event[id].start \in Int /\ x.event[id].end \in Int
  BY DEF GoodDraft, GoodEvents, GoodEvent

\* An event put into a draft.
LEMMA PutGood ==
  ASSUME NEW last, NEW x, GoodDraft(x, last), NEW id, NEW e, GoodEvent(id, e), Len(id) # 4
  PROVE  /\ GoodDraft(Put(x, id, e), last)
         /\ DOMAIN Put(x, id, e).event = DOMAIN x.event \union {id}
<1> DEFINE y == Put(x, id, e)
           event == With(x.event, id, e)
           d == DayOf(e.start)
           days == IF d \in DOMAIN x.days THEN [x.days EXCEPT ![d] = Append(x.days[d], id)]
                   ELSE x.days
<1>1. y = [x EXCEPT !.event = event, !.days = days]
  BY DEF Put
<1>2. DOMAIN x = {"event", "days", "visits", "blockers"}
  BY DEF GoodDraft
<1>3. /\ DOMAIN event = DOMAIN x.event \union {id}
      /\ \A i \in DOMAIN event : event[i] = IF i = id THEN e ELSE x.event[i]
  BY DEF With
<1>4. DOMAIN days = DOMAIN x.days
      /\ \A i \in DOMAIN days : days[i] = IF i = d THEN Append(x.days[i], id) ELSE x.days[i]
  OBVIOUS
<1> HIDE DEF event, days, d
<1>5. /\ DOMAIN y = {"event", "days", "visits", "blockers"}
      /\ y.event = event /\ y.days = days /\ y.visits = x.visits
  BY <1>1, <1>2
<1> HIDE DEF y
<1>6. GoodEvents(event) /\ \A i \in DOMAIN event : Len(i) # 4
  BY <1>3 DEF GoodDraft, GoodEvents
<1>7. \A i \in 0 .. last : days[i] \in Seq(DOMAIN event)
  <2> TAKE i \in 0 .. last
  <2>1. x.days[i] \in Seq(DOMAIN x.event) /\ DOMAIN x.days = 0 .. last
    BY DEF GoodDraft
  <2>2. x.days[i] \in Seq(DOMAIN event) /\ id \in DOMAIN event
    BY <1>3, <2>1, SeqMonotonic
  <2>3. Append(x.days[i], id) \in Seq(DOMAIN event)
    BY <2>2, Appended
  <2> QED
    BY <1>4, <2>1, <2>2, <2>3
<1>8. \A k \in DOMAIN y.visits : VisitId(y.visits[k].attraction) \in DOMAIN event
  BY <1>3, <1>5 DEF GoodDraft
<1>9. GoodDraft(y, last)
  BY <1>4, <1>5, <1>6, <1>7, <1>8 DEF GoodDraft
<1> QED
  BY <1>3, <1>5, <1>9 DEF y

\* A blocker changes no event.
LEMMA BlockGood ==
  ASSUME NEW last, NEW x, GoodDraft(x, last), NEW ids
  PROVE  /\ GoodDraft(Block(x, ids), last)
         /\ Block(x, ids).event = x.event /\ Block(x, ids).visits = x.visits
<1> DEFINE y == Block(x, ids)
<1>1. DOMAIN x = {"event", "days", "visits", "blockers"}
  BY DEF GoodDraft
<1>2. /\ DOMAIN y = {"event", "days", "visits", "blockers"}
      /\ y.event = x.event /\ y.days = x.days /\ y.visits = x.visits
  BY <1>1 DEF Block
<1> HIDE DEF y
<1>3. GoodDraft(y, last)
  BY <1>2 DEF GoodDraft
<1> QED
  BY <1>2, <1>3 DEF y

\* y has the events of x as they are, but for events of some kinds.
Adds(x, y, kinds) ==
    /\ DOMAIN x.event \subseteq DOMAIN y.event
    /\ \A id \in DOMAIN y.event :
          \/ id \in DOMAIN x.event /\ y.event[id] = x.event[id]
          \/ id[1] \in kinds

LEMMA AddsChain ==
  ASSUME NEW x, NEW y, NEW z, NEW K, NEW L, Adds(x, y, K), Adds(y, z, L)
  PROVE  Adds(x, z, K \union L)
  BY DEF Adds

LEMMA AddsBlock ==
  ASSUME NEW last, NEW x, NEW y, GoodDraft(y, last), NEW K, Adds(x, y, K), NEW ids
  PROVE  Adds(x, Block(y, ids), K)
  BY BlockGood DEF Adds

\* What putting an event into a draft does to the other events and to the days.
LEMMA PutAdds ==
  ASSUME NEW last, NEW x, GoodDraft(x, last), NEW id, NEW e
  PROVE  LET y == Put(x, id, e)
         IN  /\ DOMAIN y.event = DOMAIN x.event \union {id} /\ y.event[id] = e
             /\ \A i \in DOMAIN x.event : i # id => y.event[i] = x.event[i]
             /\ \A d \in 0 .. last :
                   ToSet(y.days[d]) = ToSet(x.days[d])
                                      \union (IF d = DayOf(e.start) THEN {id} ELSE {})
             /\ \A K : id[1] \in K => Adds(x, y, K)
<1> DEFINE y == Put(x, id, e)
           event == With(x.event, id, e)
           v == DayOf(e.start)
           days == IF v \in DOMAIN x.days THEN [x.days EXCEPT ![v] = Append(x.days[v], id)]
                   ELSE x.days
<1>1. y = [x EXCEPT !.event = event, !.days = days]
  BY DEF Put
<1>2. DOMAIN x = {"event", "days", "visits", "blockers"} /\ DOMAIN x.days = 0 .. last
  BY DEF GoodDraft
<1>3. /\ DOMAIN event = DOMAIN x.event \union {id}
      /\ \A i \in DOMAIN event : event[i] = IF i = id THEN e ELSE x.event[i]
  BY DEF With
<1>4. \A i \in 0 .. last : days[i] = IF i = v THEN Append(x.days[i], id) ELSE x.days[i]
  BY <1>2
<1> HIDE DEF event, days, v
<1>5. y.event = event /\ y.days = days
  BY <1>1, <1>2
<1>6. \A d \in 0 .. last :
        ToSet(days[d]) = ToSet(x.days[d]) \union (IF d = v THEN {id} ELSE {})
  <2> TAKE d \in 0 .. last
  <2> DEFINE S == DOMAIN x.event \union {id}
  <2>1. x.days[d] \in Seq(S) /\ id \in S
    <3>1. x.days[d] \in Seq(DOMAIN x.event)
      BY DEF GoodDraft
    <3> QED
      BY <3>1, SeqMonotonic
  <2> HIDE DEF S
  <2>2. ToSet(Append(x.days[d], id)) = ToSet(x.days[d]) \union {id}
    BY <2>1, Appended
  <2> QED
    BY <1>4, <2>2
<1> HIDE DEF y
<1>7. \A K : id[1] \in K => Adds(x, y, K)
  BY <1>3, <1>5 DEF Adds
<1> QED
  BY <1>3, <1>5, <1>6, <1>7 DEF y, v

\* Ids have two or three parts, or one.
LEMMA IdParts ==
  /\ \A x : Len(RideId(x)) # 4 /\ Len(VisitId(x)) # 4 /\ Len(PauseId(x)) # 4 /\ Len(RestId(x)) # 4
  /\ \A x, y : Len(MealId(x, y)) # 4 /\ Len(FreeId(x, y)) # 4 /\ Len(FreeAfterId(x, y)) = 4
  /\ \A x : Len(<<"rail", x>>) # 4
  /\ Len(ArrivalBuffer) # 4 /\ Len(CheckIn) # 4 /\ Len(CheckOut) # 4 /\ Len(RailWait) # 4
  /\ \A x : RideId(x) # NoId /\ VisitId(x) # NoId /\ PauseId(x) # NoId /\ RestId(x) # NoId
  /\ \A x, y : MealId(x, y) # NoId /\ FreeId(x, y) # NoId /\ FreeAfterId(x, y) # NoId
  /\ \A x : <<"rail", x>> # NoId
  /\ ArrivalBuffer # NoId /\ CheckIn # NoId /\ CheckOut # NoId /\ RailWait # NoId
  BY DEF RideId, VisitId, PauseId, RestId, MealId, FreeId, FreeAfterId, ArrivalBuffer,
         CheckIn, CheckOut, RailWait, NoId

\* The events of each kind are good.
LEMMA NewEventGood ==
  ASSUME NEW type, type # "attraction", NEW start \in Int, NEW end \in Int, NEW id, id # NoId
  PROVE  /\ GoodEvent(id, NewEvent(type, start, end))
         /\ NewEvent(type, start, end).attraction = None
  BY DEF GoodEvent, NewEvent, Fields

LEMMA VisitGood ==
  ASSUME NEW a, a # None, NEW start \in Int, NEW end \in Int
  PROVE  GoodEvent(VisitId(a), VisitEvent(a, start, end))
<1>1. VisitId(a) # NoId
  BY IdParts
<1> QED
  BY <1>1 DEF GoodEvent, NewEvent, VisitEvent, Fields

LEMMA MealGood ==
  ASSUME NEW id, id # NoId, NEW start \in Int, NEW minutes \in Int, NEW on
  PROVE  GoodEvent(id, MealEvent(start, minutes, on))
  BY DEF GoodEvent, NewEvent, MealEvent, Fields

LEMMA PauseGood ==
  ASSUME NEW id, id # NoId, NEW a, NEW start \in Int, NEW end \in Int
  PROVE  GoodEvent(id, [NewEvent("buffer", start, end) EXCEPT !.goesWith = a])
  BY DEF GoodEvent, NewEvent, Fields

\* A draft without events.
LEMMA EmptyGood ==
  ASSUME NEW t, t.latest \in Nat
  PROVE  GoodDraft(EmptyDraft(t), LastDay(t)) /\ LastDay(t) \in Nat
<1>1. LastDay(t) \in Nat
  BY DEF LastDay, DayOf, DayLength
<1>2. /\ EmptyDraft(t).event = <<>> /\ EmptyDraft(t).visits = <<>>
      /\ EmptyDraft(t).days = [d \in 0 .. LastDay(t) |-> <<>>]
      /\ DOMAIN EmptyDraft(t) = {"event", "days", "visits", "blockers"}
  BY DEF EmptyDraft, DayShells, LastDay
<1>3. DOMAIN EmptyDraft(t).event = {} /\ <<>> \in Seq({})
  BY <1>2
<1> QED
  BY <1>1, <1>2, <1>3 DEF GoodDraft, GoodEvents

LEMMA RailwayGood ==
  ASSUME NEW last, NEW x, GoodDraft(x, last), NEW inp, GoodInput(inp), NEW t
  PROVE  /\ GoodDraft(CompileRailway(inp, t, x), last)
         /\ Adds(x, CompileRailway(inp, t, x), {"rail"})
<1> DEFINE verdict == ProjectDomain(inp.policies, "railway", inp.rail, t)
           usable == IsUsable(inp.rail) /\ ~inp.noTrains
           scheduled == IF usable /\ verdict.support # "unknown" THEN DOMAIN inp.train ELSE {}
           missing == {IF dir = "outbound" THEN "RAILWAY_OUTBOUND_MISSING"
                       ELSE "RAILWAY_RETURN_MISSING" : dir \in Directions \ scheduled}
           schedule(d, dir) ==
               IF dir \in scheduled
               THEN Put(d, <<"rail", dir>>, TrainEvent(inp.train[dir])) ELSE d
           both == schedule(schedule(x, "outbound"), "return")
<1>0. scheduled \subseteq DOMAIN inp.train
  OBVIOUS
<1> HIDE DEF scheduled, missing
<1>1. ASSUME NEW y, GoodDraft(y, last), Adds(x, y, {"rail"}), NEW dir
      PROVE  GoodDraft(schedule(y, dir), last) /\ Adds(x, schedule(y, dir), {"rail"})
  <2>1. Len(<<"rail", dir>>) # 4 /\ <<"rail", dir>> # NoId
    BY IdParts
  <2>2. ASSUME dir \in scheduled PROVE GoodEvent(<<"rail", dir>>, TrainEvent(inp.train[dir]))
    <3>1. inp.train[dir][1] \in Int /\ inp.train[dir][2] \in Int
      BY <1>0, <2>2 DEF GoodInput
    <3> QED
      BY <2>1, <3>1, NewEventGood DEF TrainEvent
  <2> DEFINE z == Put(y, <<"rail", dir>>, TrainEvent(inp.train[dir]))
  <2>3. Adds(y, z, {"rail"})
    BY <1>1, PutAdds
  <2>4. Adds(x, z, {"rail"})
    <3> HIDE DEF z
    <3> QED
      BY <1>1, <2>3 DEF Adds
  <2>5. dir \in scheduled => GoodDraft(z, last)
    BY <1>1, <2>1, <2>2, PutGood
  <2> QED
    BY <1>1, <2>4, <2>5
<1> HIDE DEF schedule
<1>2. GoodDraft(both, last) /\ Adds(x, both, {"rail"})
  <2>1. Adds(x, x, {"rail"})
    BY DEF Adds
  <2> QED
    BY <1>1, <2>1
<1> HIDE DEF both
<1>3. \A ids : /\ GoodDraft(Block(x, ids), last) /\ GoodDraft(Block(both, ids), last)
               /\ Adds(x, Block(x, ids), {"rail"}) /\ Adds(x, Block(both, ids), {"rail"})
  <2>1. Adds(x, x, {"rail"})
    BY DEF Adds
  <2> QED
    BY <1>2, <2>1, BlockGood, AddsBlock
<1>4. \E ids : CompileRailway(inp, t, x) \in {Block(x, ids), Block(both, ids)}
  BY Zenon DEF CompileRailway, both, schedule, scheduled, missing
<1> QED
  BY <1>3, <1>4

LEMMA LocalTransitGood ==
  ASSUME NEW last, NEW x, GoodDraft(x, last), NEW inp, GoodInput(inp), NEW t, GoodTrip(t)
  PROVE  /\ GoodDraft(CompileLocalTransit(inp, t, x), last)
         /\ Adds(x, CompileLocalTransit(inp, t, x), {"local"})
<1> DEFINE y == CompileLocalTransit(inp, t, x)
<1>1. CASE ~IsUsable(inp.map) \/ inp.routes = <<>>
  BY <1>1, BlockGood DEF CompileLocalTransit, Adds
<1>2. CASE IsUsable(inp.map) /\ inp.routes # <<>>
  <2>1. PICK ids, I, ride :
          /\ y = [Block(x, ids) EXCEPT !.event =
                [id \in DOMAIN x.event \union {RideId(inp.routes[i].id) : i \in I} |->
                    IF id \in DOMAIN x.event THEN x.event[id]
                    ELSE RideEvent(ride[id][1], ride[id][2])]]
          /\ \A id \in {RideId(inp.routes[i].id) : i \in I} :
                ride[id][1] \in Int /\ ride[id][2] \in Int
    <3> DEFINE cursor(i) == BoundedTime(t, 1, Clock(8, 30)) + (i - 1) * 45
               timed == {i \in DOMAIN inp.routes : inp.routes[i].minutes > 0}
               late == {i \in timed : cursor(i) >= t.latest}
               taken == {i \in timed : \A j \in late : i < j}
               reached == {i \in DOMAIN inp.routes : \A j \in late : i < j}
               ids == IF reached \subseteq timed THEN {} ELSE {"LOCAL_TRANSIT_DURATION_MISSING"}
               end(i) == Min({cursor(i) + inp.routes[i].minutes, t.latest})
               named(id) == CHOOSE i \in taken : RideId(inp.routes[i].id) = id
               times == [id \in DOMAIN x.event \union {RideId(inp.routes[i].id) : i \in taken} |->
                           <<cursor(named(id)), end(named(id))>>]
    <3>0. ASSUME NEW i \in taken PROVE cursor(i) \in Int /\ end(i) \in Int
      <4>1. i \in DOMAIN inp.routes /\ inp.routes[i] \in Routes /\ i \in Int
        BY LenProperties, ElementOfSeq DEF GoodInput
      <4>2. BoundedTime(t, 1, Clock(8, 30)) \in Int
        <5>1. 1 \in Int /\ Clock(8, 30) \in Int
          BY DEF Clock
        <5> QED
          BY <5>1, Times
      <4>3. cursor(i) \in Int
        BY <4>1, <4>2
      <4>4. inp.routes[i].minutes \in Int /\ t.latest \in Int
        BY <4>1 DEF Routes, GoodTrip
      <4> HIDE DEF cursor
      <4>5. cursor(i) + inp.routes[i].minutes \in Int
        BY <4>3, <4>4
      <4> QED
        BY <4>3, <4>4, <4>5, OfTwo
    <3> HIDE DEF cursor, taken, end, ids
    <3>1. y = [Block(x, ids) EXCEPT !.event =
                [id \in DOMAIN x.event \union {RideId(inp.routes[i].id) : i \in taken} |->
                    IF id \in DOMAIN x.event THEN x.event[id]
                    ELSE RideEvent(cursor(named(id)), end(named(id)))]]
      BY <1>2, Zenon DEF CompileLocalTransit, Has, cursor, taken, end, ids
    <3>4. ASSUME NEW id \in {RideId(inp.routes[i].id) : i \in taken}
          PROVE  times[id][1] \in Int /\ times[id][2] \in Int
      <4>1. named(id) \in taken
        OBVIOUS
      <4>2. times[id] = <<cursor(named(id)), end(named(id))>>
        OBVIOUS
      <4> HIDE DEF named, times
      <4> QED
        BY <3>0, <4>1, <4>2
    <3> HIDE DEF named, y
    <3>2. \A id \in DOMAIN times : RideEvent(times[id][1], times[id][2])
                                    = RideEvent(cursor(named(id)), end(named(id)))
      OBVIOUS
    <3>3. y = [Block(x, ids) EXCEPT !.event =
                [id \in DOMAIN x.event \union {RideId(inp.routes[i].id) : i \in taken} |->
                    IF id \in DOMAIN x.event THEN x.event[id]
                    ELSE RideEvent(times[id][1], times[id][2])]]
      BY <3>1, <3>2
    <3> HIDE DEF times
    <3> QED
      BY <3>3, <3>4, Zenon
  <2> DEFINE event == [id \in DOMAIN x.event \union {RideId(inp.routes[i].id) : i \in I} |->
                        IF id \in DOMAIN x.event THEN x.event[id]
                        ELSE RideEvent(ride[id][1], ride[id][2])]
             b == Block(x, ids)
  <2>2. GoodDraft(b, last) /\ b.event = x.event
    BY BlockGood
  <2>3. \A id \in DOMAIN event : GoodEvent(id, event[id]) /\ Len(id) # 4
    <3>1. \A id \in {RideId(inp.routes[i].id) : i \in I} :
            GoodEvent(id, RideEvent(ride[id][1], ride[id][2])) /\ Len(id) # 4
      <4> TAKE id \in {RideId(inp.routes[i].id) : i \in I}
      <4>1. id # NoId /\ Len(id) # 4
        BY IdParts
      <4>2. ride[id][1] \in Int /\ ride[id][2] \in Int
        BY <2>1
      <4> QED
        BY <4>1, <4>2, NewEventGood DEF RideEvent
    <3> QED
      BY <3>1 DEF GoodDraft, GoodEvents
  <2>4. /\ DOMAIN x.event \subseteq DOMAIN event
        /\ \A id \in DOMAIN event : \/ id \in DOMAIN x.event /\ event[id] = x.event[id]
                                    \/ id[1] = "local"
    BY DEF RideId
  <2> HIDE DEF event, b, y
  <2>5. y = [b EXCEPT !.event = event]
    BY <2>1 DEF event, b
  <2>6. DOMAIN b = {"event", "days", "visits", "blockers"}
    BY <2>2 DEF GoodDraft
  <2>7. /\ y.event = event /\ y.days = b.days /\ y.visits = b.visits
        /\ DOMAIN y = {"event", "days", "visits", "blockers"}
    BY <2>5, <2>6
  <2>8. \A d \in 0 .. last : b.days[d] \in Seq(DOMAIN event)
    BY <2>2, <2>4, SeqMonotonic DEF GoodDraft
  <2>9. \A k \in DOMAIN y.visits : VisitId(y.visits[k].attraction) \in DOMAIN event
    BY <2>2, <2>4, <2>7 DEF GoodDraft
  <2>10. GoodDraft(y, last)
    BY <2>2, <2>3, <2>7, <2>8, <2>9 DEF GoodDraft, GoodEvents
  <2>11. Adds(x, y, {"local"})
    BY <2>4, <2>7 DEF Adds
  <2> QED
    BY <2>10, <2>11 DEF y
<1> QED
  BY <1>1, <1>2

LEMMA CandidatesGood ==
  ASSUME NEW inp, GoodInput(inp)
  PROVE  Candidates(inp) \in Seq(Places)
<1> DEFINE ofMap == IF IsUsable(inp.map) THEN inp.attractions.map ELSE <<>>
           ofWeb == IF IsUsable(inp.web) THEN inp.attractions.web ELSE <<>>
           told == ofMap \o ofWeb
           step(s, n) == IF \E a \in ToSet(s) : a.id = told[n].id THEN s
                         ELSE Append(s, told[n])
           N == Len(told)
           is(f, n) == f = [k \in 0 .. n |-> IF k = 0 THEN <<>> ELSE step(f[k - 1], k)]
           upTo == CHOOSE f : is(f, N)
<1>1. told \in Seq(Places)
  <2>1. ofMap \in Seq(Places) /\ ofWeb \in Seq(Places)
    BY DEF GoodInput
  <2> QED
    BY <2>1, ConcatProperties
<1>2. Candidates(inp) = upTo[N]
  BY DEF Candidates, Loop
<1> HIDE DEF told
<1>3. N \in Nat /\ \A n \in 1 .. N : told[n] \in Places
  BY <1>1, LenProperties, ElementOfSeq
<1> HIDE DEF step
<1>4. is(upTo, N)
  <2> DEFINE T == {n \in Nat : \E f : is(f, n)}
  <2>1. is([k \in 0 .. 0 |-> <<>>], 0)
    OBVIOUS
  <2>2. ASSUME NEW n \in Nat, NEW f, is(f, n) PROVE \E g : is(g, n + 1)
    <3>1. is([k \in 0 .. n + 1 |-> IF k = n + 1 THEN step(f[n], k) ELSE f[k]], n + 1)
      BY <2>2
    <3> HIDE DEF is
    <3> QED
      BY <3>1
  <2> HIDE DEF is
  <2>3. T \in SUBSET Nat /\ 0 \in T /\ \A n \in T : n + 1 \in T
    BY <2>1, <2>2
  <2>4. N \in T
    <3> HIDE DEF T
    <3> QED
      BY <1>3, <2>3, NatSet
  <2> QED
    BY <2>4
<1>5. upTo[0] = <<>> /\ \A k \in 1 .. N : upTo[k] = step(upTo[k - 1], k)
  <2> HIDE DEF upTo
  <2> QED
    BY <1>3, <1>4
<1> HIDE DEF is, upTo
<1>6. \A k \in 0 .. N : upTo[k] \in Seq(Places)
  <2> DEFINE T == {k \in 0 .. N : upTo[k] \in Seq(Places)}
  <2>0. N \in Nat
    BY <1>3
  <2> HIDE DEF N
  <2>1. 0 \in T
    <3>1. <<>> \in Seq(Places)
      OBVIOUS
    <3>2. upTo[0] = <<>>
      BY <1>5
    <3>3. upTo[0] \in Seq(Places)
      BY <3>1, <3>2, Zenon
    <3>4. 0 \in 0 .. N
      BY <2>0
    <3> QED
      BY <3>3, <3>4, Zenon
  <2>2. ASSUME NEW k \in 0 .. N - 1, k \in T PROVE k + 1 \in T
    <3>1. upTo[k] \in Seq(Places) /\ k + 1 \in 1 .. N /\ told[k + 1] \in Places
      BY <1>3, <2>2
    <3>2. Append(upTo[k], told[k + 1]) \in Seq(Places)
      BY <3>1, Appended
    <3>3. upTo[k + 1] = step(upTo[k], k + 1)
      <4>1. k + 1 - 1 = k
        OBVIOUS
      <4> QED
        BY <1>5, <3>1, <4>1
    <3>4. step(upTo[k], k + 1) \in Seq(Places)
      BY <3>1, <3>2 DEF step
    <3>5. k + 1 \in 0 .. N
      BY <2>0
    <3> QED
      BY <3>3, <3>4, <3>5
  <2> HIDE DEF T
  <2>3. \A k \in 0 .. N : k \in T
    BY <2>0, <2>1, <2>2, UpTo
  <2> QED
    BY <2>3 DEF T
<1> QED
  BY <1>2, <1>3, <1>6

LEMMA VisitsGood ==
  ASSUME NEW inp, GoodInput(inp), NEW x
  PROVE  Visits(inp, x) \in Seq(Places)
<1>1. ASSUME NEW key PROVE Sorted(Candidates(inp), key) \in Seq(Places)
  BY CandidatesGood, SortedSet
<1> QED
  BY <1>1 DEF Visits

\* A route found is one that was compiled.
LEMMA RouteFound ==
  ASSUME NEW inp, GoodInput(inp), NEW x, NEW I,
         I \subseteq {i \in DOMAIN inp.routes : Has(x, RideId(inp.routes[i].id))}, I # {}
  PROVE  /\ Has(x, RideId(inp.routes[Min(I)].id))
         /\ Route(inp, inp.routes[Min(I)].id).minutes \in Nat
<1>1. DOMAIN inp.routes = 1 .. Len(inp.routes) /\ Len(inp.routes) \in Nat
  BY LenProperties DEF GoodInput
<1>2. Min(I) \in I
  BY <1>1, Least
<1> DEFINE i == Min(I)
<1> HIDE DEF i
<1>3. i \in DOMAIN inp.routes /\ i \in I
  BY <1>2 DEF i
<1>4. \A r \in ToSet(inp.routes) : r \in Routes
  BY <1>1, ElementOfSeq DEF GoodInput, ToSet
<1>5. \E r \in ToSet(inp.routes) : r.id = inp.routes[i].id
  BY <1>3 DEF ToSet
<1>6. Route(inp, inp.routes[i].id) \in ToSet(inp.routes)
  BY <1>5 DEF Route
<1>7. Route(inp, inp.routes[i].id).minutes \in Nat
  BY <1>4, <1>6 DEF Routes
<1> QED
  BY <1>3, <1>7 DEF i

\* A compiled route at other times.
LEMMA RetimedGood ==
  ASSUME NEW last, NEW x, GoodDraft(x, last), NEW id \in DOMAIN x.event,
         NEW from \in Int, NEW to \in Int
  PROVE  GoodDraft(Put(x, id, [x.event[id] EXCEPT !.start = from, !.end = to]), last)
<1> DEFINE e == [x.event[id] EXCEPT !.start = from, !.end = to]
<1>1. GoodEvent(id, x.event[id]) /\ Len(id) # 4
  BY DEF GoodDraft, GoodEvents
<1>2. DOMAIN e = Fields /\ e.attraction = x.event[id].attraction
      /\ e.type = x.event[id].type /\ e.goesWith = x.event[id].goesWith
      /\ e.start = from /\ e.end = to
  BY <1>1 DEF GoodEvent, Fields
<1> HIDE DEF e
<1>3. GoodEvent(id, e)
  BY <1>1, <1>2 DEF GoodEvent
<1>4. GoodDraft(Put(x, id, e), last)
  BY <1>1, <1>3, PutGood
<1> QED
  BY <1>4 DEF e

\* The visits of r are those of x.
SameVisits(x, r) ==
    \A id \in DOMAIN r.event : r.event[id].type = "attraction" =>
        id \in DOMAIN x.event /\ r.event[id] = x.event[id]

\* No visit begins before check-in on the day of the arrival, and none ends after check-out
\* on the day of the departure.
Timed(x, set) ==
    \A id \in DOMAIN x.event : x.event[id].type = "attraction" =>
        /\ Has(x, Outbound) /\ DayOf(x.event[id].start) = DayOf(ArrivalReady(x, set)) =>
              x.event[id].start >= ArrivalReady(x, set)
        /\ Has(x, Return) /\ DayOf(x.event[id].start) = DayOf(ReturnCutoff(x, set)) =>
              x.event[id].end <= ReturnCutoff(x, set)

\* Where the trains are the same so are the times to keep clear of.
LEMMA SameTrains ==
  ASSUME NEW x, NEW y, NEW K, Adds(x, y, K), "rail" \notin K, NEW set
  PROVE  /\ Has(y, Outbound) <=> Has(x, Outbound)
         /\ Has(y, Return) <=> Has(x, Return)
         /\ Has(x, Outbound) => ArrivalReady(y, set) = ArrivalReady(x, set)
         /\ Has(x, Return) => ReturnCutoff(y, set) = ReturnCutoff(x, set)
<1>1. Outbound[1] = "rail" /\ Return[1] = "rail"
  BY DEF Outbound, Return
<1>2. \A id \in {Outbound, Return} :
        /\ id \in DOMAIN y.event <=> id \in DOMAIN x.event
        /\ id \in DOMAIN x.event => y.event[id] = x.event[id]
  BY <1>1 DEF Adds
<1> QED
  BY <1>2 DEF Has, ArrivalReady, ReturnCutoff

LEMMA SameTimed ==
  ASSUME NEW x, NEW y, NEW K, Adds(x, y, K), "rail" \notin K, SameVisits(x, y), NEW set,
         Timed(x, set)
  PROVE  Timed(y, set)
<1>1. /\ Has(y, Outbound) => Has(x, Outbound) /\ ArrivalReady(y, set) = ArrivalReady(x, set)
      /\ Has(y, Return) => Has(x, Return) /\ ReturnCutoff(y, set) = ReturnCutoff(x, set)
  BY SameTrains
<1> QED
  BY <1>1 DEF Timed, SameVisits

\* One attraction compiled.
LEMMA CompileVisitGood ==
  ASSUME NEW last, NEW x, GoodDraft(x, last), NEW inp, GoodInput(inp), NEW t, GoodTrip(t),
         NEW set, GoodSettings(set), NEW a \in Places, NEW k \in Nat
  PROVE  /\ GoodDraft(CompileVisit(inp, t, set, x, a, k), last)
         /\ Adds(x, CompileVisit(inp, t, set, x, a, k), {"local", "attraction"})
         /\ Timed(x, set) => Timed(CompileVisit(inp, t, set, x, a, k), set)
<1> DEFINE leadsHere(r) == a.id \in r.to
           inbound == FirstRoute(inp, x, leadsHere)
           leadsAway(r) == a.id \in r.from /\ r.id # inbound
           away == FirstRoute(inp, x, leadsAway)
           retimed(d, name, from) ==
             Put(d, RideId(name),
                 [d.event[RideId(name)] EXCEPT
                     !.start = from, !.end = from + Route(inp, name).minutes])
<1>1. inbound # None => RideId(inbound) \in DOMAIN x.event /\ Route(inp, inbound).minutes \in Nat
  <2> DEFINE I == {i \in DOMAIN inp.routes :
                     Has(x, RideId(inp.routes[i].id)) /\ leadsHere(inp.routes[i])}
  <2>1. inbound = IF I = {} THEN None ELSE inp.routes[Min(I)].id
    BY DEF FirstRoute
  <2>2. I # {} => /\ Has(x, RideId(inp.routes[Min(I)].id))
                 /\ Route(inp, inp.routes[Min(I)].id).minutes \in Nat
    BY RouteFound
  <2> HIDE DEF I, inbound
  <2> QED
    BY <2>1, <2>2 DEF Has
<1> HIDE DEF inbound
<1>2. away # None => RideId(away) \in DOMAIN x.event /\ Route(inp, away).minutes \in Nat
  <2> DEFINE I == {i \in DOMAIN inp.routes :
                     Has(x, RideId(inp.routes[i].id)) /\ leadsAway(inp.routes[i])}
  <2>1. away = IF I = {} THEN None ELSE inp.routes[Min(I)].id
    BY DEF FirstRoute
  <2>2. I # {} => /\ Has(x, RideId(inp.routes[Min(I)].id))
                 /\ Route(inp, inp.routes[Min(I)].id).minutes \in Nat
    BY RouteFound
  <2> HIDE DEF I, away
  <2> QED
    BY <2>1, <2>2 DEF Has
<1> HIDE DEF away
<1>3. ASSUME NEW d, GoodDraft(d, last), NEW name, RideId(name) \in DOMAIN d.event,
             Route(inp, name).minutes \in Nat, NEW from \in Int
      PROVE  /\ GoodDraft(retimed(d, name, from), last)
             /\ Adds(d, retimed(d, name, from), {"local"})
             /\ SameVisits(d, retimed(d, name, from))
  <2> DEFINE e == [d.event[RideId(name)] EXCEPT
                     !.start = from, !.end = from + Route(inp, name).minutes]
  <2>1. GoodDraft(Put(d, RideId(name), e), last)
    <3>1. from + Route(inp, name).minutes \in Int
      BY <1>3
    <3> QED
      BY <1>3, <3>1, RetimedGood
  <2>2. /\ DOMAIN Put(d, RideId(name), e).event = DOMAIN d.event \union {RideId(name)}
        /\ Put(d, RideId(name), e).event[RideId(name)] = e
        /\ \A id \in DOMAIN d.event : id # RideId(name) =>
              Put(d, RideId(name), e).event[id] = d.event[id]
        /\ Adds(d, Put(d, RideId(name), e), {"local"})
    <3>1. RideId(name)[1] \in {"local"}
      BY DEF RideId
    <3> HIDE DEF e
    <3> QED
      BY <1>3, <3>1, PutAdds
  <2>3. e.type # "attraction"
    <3>1. GoodEvent(RideId(name), d.event[RideId(name)])
      BY <1>3 DEF GoodDraft, GoodEvents
    <3>2. \A v : RideId(name) # VisitId(v)
      BY DEF RideId, VisitId
    <3>3. e.type = d.event[RideId(name)].type
      OBVIOUS
    <3> QED
      BY <3>1, <3>2, <3>3 DEF GoodEvent
  <2> HIDE DEF e
  <2>4. SameVisits(d, Put(d, RideId(name), e))
    BY <2>2, <2>3 DEF SameVisits
  <2> QED
    BY <2>1, <2>2, <2>4 DEF e
<1> HIDE DEF retimed
<1>4. \A ids : GoodDraft(Block(x, ids), last) /\ Block(x, ids).event = x.event
  BY BlockGood
<1> DEFINE visit(d, from, to, v) ==
             [Put(d, VisitId(a.id), VisitEvent(a.id, from, to)) EXCEPT !.visits = Append(@, v)]
<1>5. ASSUME NEW d, GoodDraft(d, last), NEW start \in Int, NEW end \in Int, NEW v,
             v.attraction = a.id
      PROVE  LET y == visit(d, start, end, v)
             IN  /\ GoodDraft(y, last) /\ Adds(d, y, {"attraction"})
                 /\ \A id \in DOMAIN y.event : y.event[id].type = "attraction" =>
                       \/ id \in DOMAIN d.event /\ y.event[id] = d.event[id]
                       \/ y.event[id].start = start /\ y.event[id].end = end
  <2> DEFINE z == Put(d, VisitId(a.id), VisitEvent(a.id, start, end))
             y == visit(d, start, end, v)
  <2>1. a.id # None
    BY DEF Places
  <2>2. GoodEvent(VisitId(a.id), VisitEvent(a.id, start, end)) /\ Len(VisitId(a.id)) # 4
    BY <2>1, VisitGood, IdParts
  <2>3. GoodDraft(z, last) /\ DOMAIN z.event = DOMAIN d.event \union {VisitId(a.id)}
    BY <1>5, <2>2, PutGood
  <2>9. /\ Adds(d, z, {"attraction"})
        /\ \A id \in DOMAIN z.event :
              \/ id \in DOMAIN d.event /\ z.event[id] = d.event[id]
              \/ z.event[id].start = start /\ z.event[id].end = end
    <3> DEFINE e == VisitEvent(a.id, start, end)
    <3>1. VisitId(a.id)[1] \in {"attraction"} /\ e.start = start /\ e.end = end
      BY DEF VisitId, VisitEvent, NewEvent
    <3> HIDE DEF e
    <3>2. /\ DOMAIN Put(d, VisitId(a.id), e).event = DOMAIN d.event \union {VisitId(a.id)}
          /\ Put(d, VisitId(a.id), e).event[VisitId(a.id)] = e
          /\ \A id \in DOMAIN d.event : id # VisitId(a.id) =>
                Put(d, VisitId(a.id), e).event[id] = d.event[id]
          /\ Adds(d, Put(d, VisitId(a.id), e), {"attraction"})
      BY <1>5, <3>1, PutAdds
    <3> QED
      BY <3>1, <3>2 DEF e
  <2>11. y = [z EXCEPT !.visits = Append(@, v)]
    OBVIOUS
  <2> HIDE DEF z, y
  <2>4. DOMAIN z = {"event", "days", "visits", "blockers"}
    BY <2>3 DEF GoodDraft
  <2>5. /\ DOMAIN y = DOMAIN z /\ y.event = z.event /\ y.days = z.days
        /\ y.visits = Append(z.visits, v)
    BY <2>4, <2>11
  <2>6. \E V : y.visits \in Seq(V)
    <3>1. PICK V : z.visits \in Seq(V)
      BY <2>3 DEF GoodDraft
    <3>2. z.visits \in Seq(V \union {v})
      BY <3>1, SeqMonotonic
    <3>3. Append(z.visits, v) \in Seq(V \union {v})
      BY <3>2, Appended
    <3> QED
      BY <2>5, <3>3
  <2>8. \A n \in DOMAIN y.visits : VisitId(y.visits[n].attraction) \in DOMAIN z.event
    <3>1. PICK V : z.visits \in Seq(V)
      BY <2>3 DEF GoodDraft
    <3>2. z.visits \in Seq(V \union {v})
      BY <3>1, SeqMonotonic
    <3>3. /\ Len(y.visits) = Len(z.visits) + 1 /\ y.visits \in Seq(V \union {v})
          /\ \A i \in 1 .. Len(z.visits) : y.visits[i] = z.visits[i]
          /\ y.visits[Len(z.visits) + 1] = v
      BY <2>5, <3>2, AppendProperties
    <3>4. /\ DOMAIN y.visits = 1 .. Len(z.visits) + 1
          /\ DOMAIN z.visits = 1 .. Len(z.visits) /\ Len(z.visits) \in Nat
      BY <3>2, <3>3, LenProperties
    <3>5. VisitId(v.attraction) \in DOMAIN z.event
      BY <1>5, <2>3
    <3>6. \A n \in DOMAIN z.visits : VisitId(z.visits[n].attraction) \in DOMAIN z.event
      BY <2>3 DEF GoodDraft
    <3> QED
      BY <3>3, <3>4, <3>5, <3>6
  <2>7. GoodDraft(y, last)
    BY <2>3, <2>4, <2>5, <2>6, <2>8 DEF GoodDraft
  <2>10. Adds(d, y, {"attraction"})
    BY <2>5, <2>9 DEF Adds
  <2> QED
    BY <2>5, <2>7, <2>9, <2>10 DEF y, z
<1> HIDE DEF visit
<1> DEFINE day == Min({k, LastDay(t)})
           nominal == BoundedTime(t, day, Clock(9, 30))
           wanted == Min({IF a.minutes > 0 THEN a.minutes ELSE 120, set.maxVisit})
           start == IF Has(x, Outbound) /\ DayOf(nominal) = DayOf(ArrivalReady(x, set))
                    THEN Max({nominal, ArrivalReady(x, set)}) ELSE nominal
           tooLate == /\ Has(x, Return)
                      /\ DayOf(start) = DayOf(ReturnCutoff(x, set))
                      /\ start + wanted > ReturnCutoff(x, set)
           beforeLunch == At(DayOf(start), set.lunchEnd) - set.lunch - set.between - start
           minutes == IF inbound = None THEN wanted ELSE Min({wanted, Max({30, beforeLunch})})
           end == Min({start + minutes, t.latest})
           back == end + set.between
           late == Has(x, Return)
                   /\ back + Route(inp, away).minutes > ReturnCutoff(x, set)
           reached == IF inbound = None THEN Block(x, {"ATTRACTION_TRANSIT_MISSING"})
                      ELSE retimed(x, inbound, start - 15 - Route(inp, inbound).minutes)
           visited == visit(reached, start, end, [attraction |-> a.id, inbound |-> inbound])
<1>6. CompileVisit(inp, t, set, x, a, k) =
        IF tooLate THEN Block(x, {"ATTRACTION_RETAINED_UNSCHEDULED"})
        ELSE IF away = None \/ late THEN visited ELSE retimed(visited, away, back)
  BY Zenon DEF CompileVisit, inbound, away, retimed, visit
<1>10. start \in Int /\ (Has(x, Outbound) /\ DayOf(start) = DayOf(ArrivalReady(x, set))
                         => start >= ArrivalReady(x, set))
  <2>1. LastDay(t) \in Int
    BY DEF LastDay, DayOf, DayLength, GoodTrip
  <2>2. day \in Int
    BY <2>1, OfTwo
  <2>3. nominal \in Int
    <3> HIDE DEF day
    <3>1. Clock(9, 30) \in Int
      BY DEF Clock
    <3> QED
      BY <2>2, <3>1, Times
  <2>4. Has(x, Outbound) => ArrivalReady(x, set) \in Int
    <3>1. Has(x, Outbound) => x.event[Outbound].end \in Int
      BY EventTimes DEF Has
    <3> HIDE DEF Has
    <3> QED
      BY <3>1 DEF ArrivalReady, GoodSettings, Numbers
  <2> DEFINE ready == ArrivalReady(x, set)
             same == Has(x, Outbound) /\ DayOf(nominal) = DayOf(ready)
  <2> HIDE DEF nominal, ready
  <2>5. CASE same
    <3>1. start = (IF nominal <= ready THEN ready ELSE nominal) /\ ready \in Int
      BY <2>3, <2>4, <2>5, OfTwo DEF ready
    <3> HIDE DEF start
    <3>2. start \in Int /\ start >= ready
      BY <2>3, <3>1
    <3> QED
      BY <3>2 DEF ready
  <2>6. CASE ~same
    <3>1. start = nominal
      BY <2>6 DEF ready
    <3> HIDE DEF start
    <3> QED
      BY <2>3, <2>6, <3>1 DEF ready
  <2> QED
    BY <2>5, <2>6
<1>11. wanted \in Int
  <2> DEFINE long == IF a.minutes > 0 THEN a.minutes ELSE 120
  <2>1. long \in Int /\ set.maxVisit \in Int
    BY DEF Places, GoodSettings, Numbers
  <2> HIDE DEF long
  <2>2. Min({long, set.maxVisit}) \in Int
    BY <2>1, OfTwo
  <2> QED
    BY <2>2 DEF long
<1> HIDE DEF start, wanted
<1>12. minutes \in Int /\ minutes <= wanted
  <2>1. beforeLunch \in Int
    <3>1. DayOf(start) \in Int /\ set.lunchEnd \in Int /\ set.lunch \in Int /\ set.between \in Int
      BY <1>10 DEF DayOf, DayLength, GoodSettings, Numbers
    <3>2. At(DayOf(start), set.lunchEnd) \in Int
      BY <3>1, Times
    <3> QED
      BY <1>10, <3>1, <3>2
  <2> HIDE DEF beforeLunch
  <2>2. Max({30, beforeLunch}) \in Int
    <3>1. 30 \in Int
      OBVIOUS
    <3>2. Max({30, beforeLunch}) = IF 30 <= beforeLunch THEN beforeLunch ELSE 30
      BY <2>1, <3>1, OfTwo
    <3> QED
      BY <2>1, <3>2
  <2>3. /\ Min({wanted, Max({30, beforeLunch})}) \in Int
        /\ Min({wanted, Max({30, beforeLunch})}) <= wanted
    BY <1>11, <2>2, OfTwo
  <2> QED
    BY <1>11, <2>3
<1> HIDE DEF minutes
<1>13. end \in Int /\ end + set.between \in Int /\ end <= start + wanted
  <2>1. start + minutes \in Int /\ t.latest \in Int /\ set.between \in Int
    BY <1>10, <1>12 DEF GoodTrip, GoodSettings, Numbers
  <2>2. Min({start + minutes, t.latest}) \in Int /\ Min({start + minutes, t.latest}) <= start + minutes
    BY <2>1, OfTwo
  <2> QED
    BY <1>10, <1>11, <1>12, <2>1, <2>2
<1>14. inbound # None => start - 15 - Route(inp, inbound).minutes \in Int
  BY <1>1, <1>10
<1>15. ~tooLate /\ Has(x, Return) /\ DayOf(start) = DayOf(ReturnCutoff(x, set))
       => end <= ReturnCutoff(x, set)
  <2>1. Has(x, Return) => ReturnCutoff(x, set) \in Int
    <3>1. Has(x, Return) => x.event[Return].start \in Int
      BY EventTimes DEF Has
    <3> HIDE DEF Has
    <3> QED
      BY <3>1 DEF ReturnCutoff, GoodSettings, Numbers
  <2> HIDE DEF end
  <2> QED
    BY <1>10, <1>11, <1>13, <2>1
<1> HIDE DEF tooLate, end, late
<1>7. GoodDraft(reached, last) /\ Adds(x, reached, {"local"}) /\ SameVisits(x, reached)
  <2>1. \A ids : Adds(x, Block(x, ids), {"local"}) /\ SameVisits(x, Block(x, ids))
    BY <1>4 DEF Adds, SameVisits
  <2> QED
    BY <1>1, <1>3, <1>4, <1>14, <2>1
<1> HIDE DEF reached
<1>8. /\ GoodDraft(visited, last) /\ Adds(reached, visited, {"attraction"})
      /\ \A id \in DOMAIN visited.event : visited.event[id].type = "attraction" =>
            \/ id \in DOMAIN reached.event /\ visited.event[id] = reached.event[id]
            \/ visited.event[id].start = start /\ visited.event[id].end = end
  <2> DEFINE v == [attraction |-> a.id, inbound |-> inbound]
  <2>1. v.attraction = a.id
    OBVIOUS
  <2> HIDE DEF v
  <2>2. LET y == visit(reached, start, end, v)
        IN  /\ GoodDraft(y, last) /\ Adds(reached, y, {"attraction"})
            /\ \A id \in DOMAIN y.event : y.event[id].type = "attraction" =>
                  \/ id \in DOMAIN reached.event /\ y.event[id] = reached.event[id]
                  \/ y.event[id].start = start /\ y.event[id].end = end
    BY <1>5, <1>7, <1>10, <1>13, <2>1
  <2> QED
    BY <2>2 DEF v
<1> HIDE DEF visited
<1> DEFINE K == {"local", "attraction"}
           stands(y) == \A id \in DOMAIN y.event : y.event[id].type = "attraction" =>
             \/ id \in DOMAIN x.event /\ y.event[id] = x.event[id]
             \/ y.event[id].start = start /\ y.event[id].end = end
<1>16. Adds(x, visited, K) /\ stands(visited)
  <2>1. stands(visited)
    BY <1>7, <1>8 DEF SameVisits
  <2> QED
    BY <1>7, <1>8, <2>1 DEF Adds
<1>9. away # None => /\ GoodDraft(retimed(visited, away, back), last)
                    /\ Adds(x, retimed(visited, away, back), K)
                    /\ stands(retimed(visited, away, back))
  <2> DEFINE y == retimed(visited, away, back)
  <2> SUFFICES ASSUME away # None
               PROVE  GoodDraft(y, last) /\ Adds(x, y, K) /\ stands(y)
    OBVIOUS
  <2>1. RideId(away) \in DOMAIN visited.event /\ Route(inp, away).minutes \in Nat
    BY <1>2, <1>16 DEF Adds
  <2>2. GoodDraft(y, last) /\ Adds(visited, y, {"local"}) /\ SameVisits(visited, y)
    BY <1>3, <1>8, <1>13, <2>1
  <2> HIDE DEF y
  <2>3. stands(y)
    BY <1>16, <2>2 DEF SameVisits
  <2>4. Adds(x, y, K)
    BY <1>16, <2>2 DEF Adds
  <2> QED
    BY <2>2, <2>3, <2>4
<1>17. ASSUME NEW y, Adds(x, y, K), stands(y), ~tooLate, Timed(x, set) PROVE Timed(y, set)
  <2>1. /\ Has(y, Outbound) => Has(x, Outbound) /\ ArrivalReady(y, set) = ArrivalReady(x, set)
        /\ Has(y, Return) => Has(x, Return) /\ ReturnCutoff(y, set) = ReturnCutoff(x, set)
    BY <1>17, SameTrains
  <2> QED
    BY <1>10, <1>15, <1>17, <2>1 DEF Timed
<1>18. CASE tooLate
  <2> DEFINE y == Block(x, {"ATTRACTION_RETAINED_UNSCHEDULED"})
  <2>1. CompileVisit(inp, t, set, x, a, k) = y
    BY <1>6, <1>18
  <2>2. GoodDraft(y, last) /\ y.event = x.event
    BY <1>4
  <2> HIDE DEF y
  <2>3. Adds(x, y, K) /\ SameVisits(x, y)
    BY <2>2 DEF Adds, SameVisits
  <2>4. Timed(x, set) => Timed(y, set)
    BY <2>3, SameTimed
  <2> QED
    BY <2>1, <2>2, <2>3, <2>4
<1>19. CASE ~tooLate
  <2>1. CompileVisit(inp, t, set, x, a, k)
          = IF away = None \/ late THEN visited ELSE retimed(visited, away, back)
    BY <1>6, <1>19
  <2> DEFINE y == IF away = None \/ late THEN visited ELSE retimed(visited, away, back)
  <2>2. GoodDraft(y, last) /\ Adds(x, y, K) /\ stands(y)
    BY <1>8, <1>9, <1>16
  <2> HIDE DEF y, stands, K
  <2>3. Timed(x, set) => Timed(y, set)
    BY <1>17, <1>19, <2>2
  <2> QED
    BY <2>1, <2>2, <2>3 DEF y, K
<1> QED
  BY <1>18, <1>19

\* The loops of the compiler.
LEMMA AttractionsGood ==
  ASSUME NEW last, NEW x, GoodDraft(x, last), NEW inp, GoodInput(inp), NEW t, GoodTrip(t),
         NEW set, GoodSettings(set)
  PROVE  /\ GoodDraft(CompileAttractions(inp, t, set, x), last)
         /\ Adds(x, CompileAttractions(inp, t, set, x), {"local", "attraction"})
         /\ Timed(x, set) => Timed(CompileAttractions(inp, t, set, x), set)
<1> DEFINE step(y, k) == CompileVisit(inp, t, set, y, Visits(inp, x)[k], k)
           N == Len(Visits(inp, x))
           is(f, n) == f = [k \in 0 .. n |-> IF k = 0 THEN x ELSE step(f[k - 1], k)]
           upTo == CHOOSE f : is(f, N)
<1>1. N \in Nat
  BY VisitsGood, LenProperties
<1>2. is(upTo, N)
  <2> DEFINE T == {n \in Nat : \E f : is(f, n)}
  <2> HIDE DEF step
  <2>1. is([k \in 0 .. 0 |-> x], 0)
    OBVIOUS
  <2>2. ASSUME NEW n \in Nat, NEW f, is(f, n) PROVE \E g : is(g, n + 1)
    <3>1. is([k \in 0 .. n + 1 |-> IF k = n + 1 THEN step(f[n], k) ELSE f[k]], n + 1)
      BY <2>2
    <3> HIDE DEF is
    <3> QED
      BY <3>1
  <2> HIDE DEF is
  <2>3. T \in SUBSET Nat /\ 0 \in T /\ \A n \in T : n + 1 \in T
    BY <2>1, <2>2
  <2>4. N \in T
    <3> HIDE DEF T
    <3> QED
      BY <1>1, <2>3, NatSet
  <2> QED
    BY <2>4
<1> HIDE DEF step
<1>3. upTo[0] = x /\ \A k \in 1 .. N : upTo[k] = step(upTo[k - 1], k)
  <2> HIDE DEF upTo, N
  <2> QED
    BY <1>1, <1>2
<1>4. CompileAttractions(inp, t, set, x) =
        IF Visits(inp, x) = <<>> THEN Block(x, {"WEB_INPUT_UNAVAILABLE"}) ELSE upTo[N]
  BY Zenon DEF CompileAttractions, Loop, step
<1> HIDE DEF is, upTo
<1> DEFINE K == {"local", "attraction"}
           holds(y) == /\ GoodDraft(y, last) /\ Adds(x, y, K)
                       /\ Timed(x, set) => Timed(y, set)
<1>5. \A k \in 0 .. N : holds(upTo[k])
  <2> DEFINE T == {k \in 0 .. N : holds(upTo[k])}
  <2>1. holds(upTo[0])
    BY <1>3 DEF Adds
  <2>2. ASSUME NEW k \in 0 .. N - 1, holds(upTo[k]) PROVE holds(upTo[k + 1])
    <3>1. upTo[k + 1] = step(upTo[k], k + 1)
      BY <1>1, <1>3
    <3>2. Visits(inp, x)[k + 1] \in Places
      BY <1>1, VisitsGood, ElementOfSeq
    <3>3. k + 1 \in Nat
      OBVIOUS
    <3> DEFINE y == upTo[k]
               z == step(upTo[k], k + 1)
    <3> HIDE DEF y
    <3>4. GoodDraft(y, last)
      BY <2>2 DEF y
    <3>5. /\ GoodDraft(z, last) /\ Adds(y, z, K)
          /\ Timed(y, set) => Timed(z, set)
      BY <3>2, <3>3, <3>4, CompileVisitGood DEF step, y
    <3> HIDE DEF z
    <3>6. Adds(x, y, K) /\ (Timed(x, set) => Timed(y, set))
      BY <2>2 DEF y
    <3>7. Adds(x, z, K)
      BY <3>5, <3>6 DEF Adds
    <3> QED
      BY <3>1, <3>5, <3>6, <3>7 DEF y, z
  <2> HIDE DEF holds
  <2>3. 0 \in T /\ \A k \in 0 .. N - 1 : k \in T => k + 1 \in T
    BY <1>1, <2>1, <2>2
  <2> HIDE DEF T
  <2>4. \A k \in 0 .. N : k \in T
    BY <1>1, <2>3, UpTo
  <2> QED
    BY <2>4 DEF T
<1>6. holds(Block(x, {"WEB_INPUT_UNAVAILABLE"}))
  <2> DEFINE y == Block(x, {"WEB_INPUT_UNAVAILABLE"})
  <2>1. GoodDraft(y, last) /\ y.event = x.event
    BY BlockGood
  <2> HIDE DEF y
  <2>2. Adds(x, y, K) /\ SameVisits(x, y)
    BY <2>1 DEF Adds, SameVisits
  <2> QED
    BY <2>1, <2>2, SameTimed DEF y
<1>7. holds(CompileAttractions(inp, t, set, x))
  <2> HIDE DEF holds
  <2> QED
    BY <1>1, <1>4, <1>5, <1>6
<1> QED
  BY <1>7

\* Around the trains: check-in is over, and check-out begins, at the times visits keep clear of.
LEMMA StayGood ==
  ASSUME NEW last, NEW x, GoodDraft(x, last), NEW set, GoodSettings(set)
  PROVE  LET y == CompileStay(set, x)
         IN  /\ GoodDraft(y, last)
             /\ Adds(x, y, {"arrival-buffer", "hotel", "rail-wait-buffer"})
             /\ Has(x, Outbound) => /\ CheckIn \in DOMAIN y.event
                                   /\ y.event[CheckIn].end = ArrivalReady(x, set)
             /\ Has(x, Return) => /\ CheckOut \in DOMAIN y.event
                                 /\ y.event[CheckOut].start = ReturnCutoff(x, set)
<1> DEFINE K == {"arrival-buffer", "hotel", "rail-wait-buffer"}
           with(y, id, type, start, end) == Put(y, id, NewEvent(type, start, end))
<1> DEFINE Types == {"buffer", "hotel"}
           Stops == {ArrivalBuffer, CheckIn, CheckOut, RailWait}
<1>2. /\ \A id \in Stops : id[1] \in K /\ Len(id) # 4 /\ id # NoId
      /\ ArrivalBuffer \in Stops /\ CheckIn \in Stops /\ CheckOut \in Stops /\ RailWait \in Stops
      /\ CheckIn # CheckOut /\ CheckIn # RailWait /\ CheckOut # RailWait
      /\ "rail" \notin K /\ "buffer" \in Types /\ "hotel" \in Types
  <2>1. \A id \in Stops : Len(id) # 4 /\ id # NoId
    BY IdParts
  <2> QED
    BY <2>1 DEF ArrivalBuffer, CheckIn, CheckOut, RailWait
<1> HIDE DEF K, Stops, Types
<1>1. ASSUME NEW y, GoodDraft(y, last), NEW type \in Types, NEW id \in Stops,
             NEW start \in Int, NEW end \in Int
      PROVE  LET z == with(y, id, type, start, end)
             IN  /\ GoodDraft(z, last) /\ DOMAIN z.event = DOMAIN y.event \union {id}
                 /\ z.event[id].start = start /\ z.event[id].end = end
                 /\ \A i \in DOMAIN y.event : i # id => z.event[i] = y.event[i]
                 /\ Adds(y, z, K)
  <2> DEFINE e == NewEvent(type, start, end)
  <2>1. GoodEvent(id, e) /\ e.start = start /\ e.end = end
    BY <1>1, <1>2, NewEventGood DEF NewEvent, Types
  <2> HIDE DEF e
  <2>2. GoodDraft(Put(y, id, e), last)
    BY <1>1, <1>2, <2>1, PutGood
  <2>3. /\ DOMAIN Put(y, id, e).event = DOMAIN y.event \union {id}
        /\ Put(y, id, e).event[id] = e
        /\ \A i \in DOMAIN y.event : i # id => Put(y, id, e).event[i] = y.event[i]
        /\ Adds(y, Put(y, id, e), K)
    BY <1>1, <1>2, PutAdds
  <2> QED
    BY <2>1, <2>2, <2>3 DEF e
<1> HIDE DEF with
<1> DEFINE at == x.event[Outbound].end
           ready == at + set.arrivalBuffer
           buffered == with(x, ArrivalBuffer, "buffer", at, ready)
           settled == ready + set.checkin
           arrived == with(buffered, CheckIn, "hotel", ready, settled)
           here == IF Has(x, Outbound) THEN arrived ELSE x
           departure == here.event[Return].start
           wait == departure - set.railWait
           leaving == wait - set.checkout
           left == with(here, CheckOut, "hotel", leaving, wait)
           waited == with(left, RailWait, "buffer", wait, departure)
<1>0. /\ set.arrivalBuffer \in Int /\ set.railWait \in Int
      /\ set.checkin \in Int /\ set.checkout \in Int
  BY DEF GoodSettings, Numbers
<1>3. CompileStay(set, x) = IF Has(here, Return) THEN waited ELSE here
  BY DEF CompileStay, with
<1>4. Has(x, Outbound) => settled = ArrivalReady(x, set)
  BY DEF ArrivalReady
<1>5. Has(x, Outbound) => at \in Int /\ ready \in Int /\ settled \in Int
  <2>1. Has(x, Outbound) => x.event[Outbound].end \in Int
    BY EventTimes DEF Has
  <2> QED
    BY <1>0, <2>1
<1> HIDE DEF at, ready, settled
<1>6. ASSUME Has(x, Outbound)
      PROVE  /\ GoodDraft(arrived, last) /\ Adds(x, arrived, K)
             /\ CheckIn \in DOMAIN arrived.event
             /\ arrived.event[CheckIn].end = settled
  <2>1. GoodDraft(buffered, last) /\ Adds(x, buffered, K)
    BY <1>1, <1>2, <1>5, <1>6
  <2> HIDE DEF buffered
  <2>2. /\ GoodDraft(arrived, last) /\ Adds(buffered, arrived, K)
        /\ CheckIn \in DOMAIN arrived.event
        /\ arrived.event[CheckIn].end = settled
    BY <1>1, <1>2, <1>5, <1>6, <2>1
  <2> HIDE DEF arrived
  <2> QED
    BY <2>1, <2>2 DEF Adds
<1> HIDE DEF arrived
<1>7. /\ GoodDraft(here, last) /\ Adds(x, here, K)
      /\ Has(x, Outbound) => /\ CheckIn \in DOMAIN here.event
                            /\ here.event[CheckIn].end = ArrivalReady(x, set)
  <2>1. Adds(x, x, K)
    BY DEF Adds
  <2> QED
    BY <1>4, <1>6, <2>1
<1> HIDE DEF here
<1>8. /\ Has(here, Return) <=> Has(x, Return)
      /\ Has(x, Return) => leaving = ReturnCutoff(x, set)
  <2>2. ReturnCutoff(here, set) = leaving
    BY DEF ReturnCutoff
  <2> HIDE DEF leaving
  <2> QED
    BY <1>2, <1>7, <2>2, SameTrains
<1>9. Has(here, Return) => departure \in Int /\ wait \in Int /\ leaving \in Int
  <2>1. Has(here, Return) => here.event[Return].start \in Int
    BY <1>7, EventTimes DEF Has
  <2> QED
    BY <1>0, <2>1
<1> HIDE DEF departure, wait, leaving
<1>10. ASSUME Has(here, Return)
       PROVE  /\ GoodDraft(waited, last) /\ Adds(here, waited, K)
              /\ \A id \in DOMAIN here.event : id \notin {CheckOut, RailWait} =>
                    id \in DOMAIN waited.event /\ waited.event[id] = here.event[id]
              /\ CheckOut \in DOMAIN waited.event
              /\ waited.event[CheckOut].start = leaving
  <2>1. /\ GoodDraft(left, last) /\ Adds(here, left, K)
        /\ DOMAIN left.event = DOMAIN here.event \union {CheckOut}
        /\ left.event[CheckOut].start = leaving /\ left.event[CheckOut].end = wait
        /\ \A i \in DOMAIN here.event : i # CheckOut => left.event[i] = here.event[i]
    <3>1. /\ GoodDraft(here, last) /\ "hotel" \in Types /\ CheckOut \in Stops
          /\ leaving \in Int /\ wait \in Int
      BY <1>2, <1>7, <1>9, <1>10
    <3>2. GoodDraft(left, last) /\ Adds(here, left, K)
      BY <3>1, <1>1
    <3>3. DOMAIN left.event = DOMAIN here.event \union {CheckOut}
      BY <3>1, <1>1
    <3>4. left.event[CheckOut].start = leaving /\ left.event[CheckOut].end = wait
      BY <3>1, <1>1
    <3>5. \A i \in DOMAIN here.event : i # CheckOut => left.event[i] = here.event[i]
      BY <3>1, <1>1
    <3> QED
      BY <3>2, <3>3, <3>4, <3>5
  <2> HIDE DEF left
  <2>2. /\ GoodDraft(waited, last) /\ Adds(left, waited, K)
        /\ DOMAIN waited.event = DOMAIN left.event \union {RailWait}
        /\ \A i \in DOMAIN left.event : i # RailWait => waited.event[i] = left.event[i]
    <3>1. /\ GoodDraft(left, last) /\ "buffer" \in Types /\ RailWait \in Stops
          /\ wait \in Int /\ departure \in Int
      BY <1>2, <1>9, <1>10, <2>1
    <3>2. GoodDraft(waited, last) /\ Adds(left, waited, K)
      BY <3>1, <1>1
    <3>3. DOMAIN waited.event = DOMAIN left.event \union {RailWait}
      BY <3>1, <1>1
    <3>4. \A i \in DOMAIN left.event : i # RailWait => waited.event[i] = left.event[i]
      BY <3>1, <1>1
    <3> QED
      BY <3>2, <3>3, <3>4
  <2> HIDE DEF waited
  <2>3. Adds(here, waited, K)
    BY <2>1, <2>2 DEF Adds
  <2> QED
    BY <1>2, <2>1, <2>2, <2>3
<1> HIDE DEF waited
<1>11. CASE Has(here, Return)
  <2>1. CompileStay(set, x) = waited
    BY <1>3, <1>11
  <2>2. Adds(x, waited, K)
    BY <1>7, <1>10, <1>11 DEF Adds
  <2> QED
    BY <1>2, <1>7, <1>8, <1>10, <1>11, <2>1, <2>2 DEF K
<1>12. CASE ~Has(here, Return)
  <2>1. CompileStay(set, x) = here
    BY <1>3, <1>12
  <2> QED
    BY <1>7, <1>8, <1>12, <2>1 DEF K
<1> QED
  BY <1>11, <1>12

LEMMA BuffersGood ==
  ASSUME NEW last, NEW x, GoodDraft(x, last), NEW set, GoodSettings(set)
  PROVE  /\ GoodDraft(CompileBuffers(set, x), last)
         /\ Adds(x, CompileBuffers(set, x), {"activity-buffer"})
<1> DEFINE step(y, k) == Pause(set, y, x.visits[k].attraction)
           N == Len(x.visits)
           is(f, n) == f = [k \in 0 .. n |-> IF k = 0 THEN x ELSE step(f[k - 1], k)]
           upTo == CHOOSE f : is(f, N)
<1>1. N \in Nat
  BY LenProperties DEF GoodDraft
<1>2. is(upTo, N)
  <2> DEFINE T == {n \in Nat : \E f : is(f, n)}
  <2> HIDE DEF step
  <2>1. is([k \in 0 .. 0 |-> x], 0)
    OBVIOUS
  <2>2. ASSUME NEW n \in Nat, NEW f, is(f, n) PROVE \E g : is(g, n + 1)
    <3>1. is([k \in 0 .. n + 1 |-> IF k = n + 1 THEN step(f[n], k) ELSE f[k]], n + 1)
      BY <2>2
    <3> HIDE DEF is
    <3> QED
      BY <3>1
  <2> HIDE DEF is
  <2>3. T \in SUBSET Nat /\ 0 \in T /\ \A n \in T : n + 1 \in T
    BY <2>1, <2>2
  <2>4. N \in T
    <3> HIDE DEF T
    <3> QED
      BY <1>1, <2>3, NatSet
  <2> QED
    BY <2>4
<1> HIDE DEF step
<1>3. upTo[0] = x /\ \A k \in 1 .. N : upTo[k] = step(upTo[k - 1], k)
  <2> HIDE DEF upTo, N
  <2> QED
    BY <1>1, <1>2
<1>4. CompileBuffers(set, x) = upTo[N]
  BY DEF CompileBuffers, Loop, step
<1> HIDE DEF is, upTo
<1> DEFINE K == {"activity-buffer"}
<1>5. \A k \in 0 .. N : GoodDraft(upTo[k], last) /\ Adds(x, upTo[k], K)
  <2> DEFINE holds(k) == GoodDraft(upTo[k], last) /\ Adds(x, upTo[k], K)
             T == {k \in 0 .. N : holds(k)}
  <2>1. holds(0)
    BY <1>3 DEF Adds
  <2>2. ASSUME NEW k \in 0 .. N - 1, holds(k) PROVE holds(k + 1)
    <3>1. upTo[k + 1] = step(upTo[k], k + 1)
      BY <1>1, <1>3
    <3>2. ASSUME NEW y, GoodDraft(y, last), NEW a, VisitId(a) \in DOMAIN y.event
          PROVE  GoodDraft(Pause(set, y, a), last) /\ Adds(y, Pause(set, y, a), K)
      <4> DEFINE e == y.event[VisitId(a)]
                 end == e.end + set.between
                 p == [NewEvent("buffer", e.end, end) EXCEPT !.goesWith = a]
      <4>0. e.end \in Int /\ end \in Int
        <5>1. e.end \in Int
          BY <3>2, EventTimes
        <5>2. set.between \in Nat
          BY DEF GoodSettings, Numbers
        <5> HIDE DEF e
        <5> QED
          BY <5>1, <5>2
      <4> HIDE DEF e, end
      <4>1. GoodEvent(PauseId(a), p) /\ Len(PauseId(a)) # 4
        BY <4>0, PauseGood, IdParts
      <4> HIDE DEF p
      <4>2. GoodDraft(Put(y, PauseId(a), p), last)
            /\ Adds(y, Put(y, PauseId(a), p), K)
        <5>1. PauseId(a)[1] \in K
          BY DEF PauseId
        <5> HIDE DEF K
        <5> QED
          BY <3>2, <4>1, <5>1, PutGood, PutAdds
      <4>3. Pause(set, y, a) \in {y, Put(y, PauseId(a), p)}
        BY Zenon DEF Pause, p, e, end
      <4>4. Adds(y, y, K)
        BY DEF Adds
      <4> QED
        BY <3>2, <4>2, <4>3, <4>4
    <3>3. k + 1 \in DOMAIN x.visits
      BY <1>1, LenProperties DEF GoodDraft
    <3>4. VisitId(x.visits[k + 1].attraction) \in DOMAIN upTo[k].event
      BY <2>2, <3>3 DEF GoodDraft, Adds
    <3> DEFINE y == upTo[k]
               z == step(upTo[k], k + 1)
    <3>5. GoodDraft(z, last) /\ Adds(y, z, K)
      BY <2>2, <3>2, <3>4 DEF step
    <3> HIDE DEF y, z
    <3>6. Adds(x, z, K)
      <4>1. Adds(x, y, K)
        BY <2>2 DEF y
      <4> QED
        BY <3>5, <4>1 DEF Adds
    <3> QED
      BY <3>1, <3>5, <3>6 DEF z
  <2> HIDE DEF holds
  <2>3. 0 \in T /\ \A k \in 0 .. N - 1 : k \in T => k + 1 \in T
    BY <1>1, <2>1, <2>2
  <2> HIDE DEF T
  <2>4. \A k \in 0 .. N : k \in T
    BY <1>1, <2>3, UpTo
  <2> QED
    BY <2>4 DEF T, holds
<1> QED
  BY <1>1, <1>4, <1>5

\* The events of a day are finitely many, and have times.
LEMMA DayEvents ==
  ASSUME NEW last, NEW x, GoodDraft(x, last), NEW d \in 0 .. last
  PROVE  /\ IsFiniteSet(Events(x, d)) /\ IsFiniteSet(ToSet(x.days[d]))
         /\ ToSet(x.days[d]) \subseteq DOMAIN x.event
         /\ \A e \in Events(x, d) : e.start \in Int /\ e.end \in Int
<1>1. x.days[d] \in Seq(DOMAIN x.event)
  BY DEF GoodDraft
<1>2. IsFiniteSet(ToSet(x.days[d]))
  BY <1>1, ToSetFinite
<1>3. ToSet(x.days[d]) \subseteq DOMAIN x.event
  <2>1. \A i \in 1 .. Len(x.days[d]) : x.days[d][i] \in DOMAIN x.event
    BY <1>1, ElementOfSeq
  <2> QED
    BY <1>1, <2>1, LenProperties DEF ToSet
<1>4. IsFiniteSet(Events(x, d))
  <2> DEFINE S == ToSet(x.days[d])
             f == x.event
  <2> HIDE DEF S, f
  <2>1. IsFiniteSet({f[id] : id \in S})
    BY <1>2, ImageFinite DEF S
  <2> QED
    BY <2>1 DEF Events, S, f
<1> QED
  BY <1>2, <1>3, <1>4, EventTimes DEF Events

\* No meal and no free time of a day lies on anything else.
Neat(x, d) ==
    \A i, j \in ToSet(x.days[d]) : i[1] \in {"meal", "free"} => ~Clash(x, i, j)

\* What a new event leaves of that.
LEMMA PutNeat ==
  ASSUME NEW last, NEW x, GoodDraft(x, last), NEW d \in 0 .. last, Neat(x, d),
         NEW id, id \notin DOMAIN x.event, NEW e, e.start \in Int, e.end \in Int,
         d = DayOf(e.start) =>
            \A i \in ToSet(x.days[d]) :
                i[1] \in {"meal", "free"} \/ id[1] \in {"meal", "free"} =>
                    ~LieOnEachOther(x.event[i], e)
  PROVE  Neat(Put(x, id, e), d)
<1> DEFINE y == Put(x, id, e)
           Q == {"meal", "free"}
<1>1. /\ y.event[id] = e /\ \A i \in DOMAIN x.event : i # id => y.event[i] = x.event[i]
      /\ ToSet(y.days[d]) = ToSet(x.days[d]) \union (IF d = DayOf(e.start) THEN {id} ELSE {})
  BY PutAdds
<1>2. /\ \A i \in ToSet(x.days[d]) : /\ i \in DOMAIN x.event /\ i # id
                                      /\ x.event[i].start \in Int /\ x.event[i].end \in Int
  BY DayEvents, EventTimes
<1> HIDE DEF y, Q
<1>3. \A i \in ToSet(x.days[d]) : y.event[i] = x.event[i]
  BY <1>1, <1>2
<1>4. ASSUME NEW i \in ToSet(y.days[d]), NEW j \in ToSet(y.days[d]), i[1] \in Q
      PROVE  ~Clash(y, i, j)
  <2>1. CASE i \in ToSet(x.days[d]) /\ j \in ToSet(x.days[d])
    <3>1. ~Clash(x, i, j)
      BY <1>4, <2>1 DEF Neat, Q
    <3> QED
      BY <1>3, <2>1, <3>1 DEF Clash
  <2>2. CASE i \in ToSet(x.days[d]) /\ j \notin ToSet(x.days[d])
    <3>1. j = id /\ d = DayOf(e.start)
      BY <1>1, <2>2
    <3>2. ~LieOnEachOther(x.event[i], e)
      BY <1>4, <2>2, <3>1 DEF Q
    <3> QED
      BY <1>1, <1>3, <2>2, <3>1, <3>2 DEF Clash
  <2>3. CASE i \notin ToSet(x.days[d]) /\ j \in ToSet(x.days[d])
    <3>1. i = id /\ d = DayOf(e.start)
      BY <1>1, <2>3
    <3>2. ~LieOnEachOther(x.event[j], e)
      BY <1>4, <2>3, <3>1 DEF Q
    <3>3. ~LieOnEachOther(e, x.event[j])
      BY <1>2, <2>3, <3>2 DEF LieOnEachOther, Meets
    <3> QED
      BY <1>1, <1>3, <2>3, <3>1, <3>3 DEF Clash
  <2>4. CASE i \notin ToSet(x.days[d]) /\ j \notin ToSet(x.days[d])
    BY <1>1, <2>4 DEF Clash
  <2> QED
    BY <2>1, <2>2, <2>3, <2>4
<1> QED
  BY <1>4 DEF Neat, y, Q

\* While meals are served there is no free time yet, and a meal is over by ten.
Settled(x, last) ==
    /\ \A id \in DOMAIN x.event : id[1] # "free"
    /\ \A d \in 0 .. last :
          /\ Neat(x, d)
          /\ \A id \in ToSet(x.days[d]) : id[1] = "meal" =>
                x.event[id].overlaps # NoId \/ x.event[id].end <= At(d, Clock(22, 0))

\* The time of a meal: after the time preferred, with nothing else going on, and over
\* when the window closes; or on a train.
LEMMA MealSlotGood ==
  ASSUME NEW last, NEW x, GoodDraft(x, last), NEW t, GoodTrip(t), NEW d \in 0 .. last,
         NEW preferred \in Int, NEW minutes \in Nat, NEW windowEnd \in Int
  PROVE  LET slot == MealSlot(t, x, d, preferred, minutes, windowEnd)
         IN  slot.at # NoTime =>
                /\ slot.at \in Int
                /\ slot.on = NoId =>
                      /\ slot.at >= preferred /\ slot.at + minutes <= windowEnd
                      /\ \A e \in Events(x, d) : ~Meets(e, slot.at, slot.at + minutes)
<1> DEFINE events == Events(x, d)
           first == Max({preferred, t.earliest})
           clear(u) == \A e \in events : ~Meets(e, u, u + minutes)
           later == {y \in events : y.end > first}
           starts == {first} \union {e.end : e \in later}
           free == {u \in starts : clear(u)}
           slot == Min(free)
           fits == slot + minutes <= t.latest /\ slot + minutes <= windowEnd
           rides == {id \in {Outbound, Return} \intersect ToSet(x.days[d]) :
                       x.event[id].start <= preferred /\ preferred < x.event[id].end}
           ride == CHOOSE id \in rides :
                       \A other \in rides : x.event[id].start <= x.event[other].start
           onTrain == Max({x.event[ride].start, Min({preferred, x.event[ride].end - minutes})})
           result == MealSlot(t, x, d, preferred, minutes, windowEnd)
<1>1. result = CASE fits -> [at |-> slot, on |-> NoId]
                 [] ~fits /\ rides # {} /\ onTrain + minutes <= x.event[ride].end ->
                       [at |-> onTrain, on |-> ride]
                 [] OTHER -> [at |-> NoTime, on |-> NoId]
  BY Zenon DEF MealSlot
<1>2. /\ IsFiniteSet(events) /\ ToSet(x.days[d]) \subseteq DOMAIN x.event
      /\ \A e \in events : e.start \in Int /\ e.end \in Int
  BY DayEvents
<1>3. first \in Int /\ first >= preferred
  <2>1. t.earliest \in Int
    BY DEF GoodTrip
  <2>2. Max({preferred, t.earliest})
        = IF preferred <= t.earliest THEN t.earliest ELSE preferred
    BY <2>1, OfTwo
  <2> QED
    BY <2>1, <2>2
<1> HIDE DEF first, events, result
<1>4. slot \in Int /\ slot >= preferred /\ clear(slot)
  <2>1. starts \in SUBSET Int /\ IsFiniteSet(starts)
    <3>1. IsFiniteSet(later)
      BY <1>2, FS_Subset
    <3> DEFINE f == [e \in later |-> e.end]
    <3>2. IsFiniteSet({f[e] : e \in later})
      <4> HIDE DEF f, later
      <4> QED
        BY <3>1, ImageFinite
    <3>3. {f[e] : e \in later} = {e.end : e \in later}
      BY Zenon
    <3>4. IsFiniteSet({e.end : e \in later} \union {first})
      <4> DEFINE S == {e.end : e \in later}
      <4>1. IsFiniteSet(S)
        BY <3>2, <3>3
      <4> HIDE DEF S
      <4>2. IsFiniteSet(S \cup {first})
        BY <4>1, FS_AddElement
      <4> QED
        BY <4>2 DEF S
    <3>5. {e.end : e \in later} \union {first} = starts
      OBVIOUS
    <3>6. starts \in SUBSET Int
      BY <1>2, <1>3
    <3> QED
      BY <3>4, <3>5, <3>6
  <2>2. Max(starts) \in starts /\ \A u \in starts : u <= Max(starts)
    <3>1. starts # {}
      OBVIOUS
    <3> HIDE DEF starts
    <3> QED
      BY <2>1, <3>1, Extremes
  <2> DEFINE end == Max(starts)
  <2>3. end \in Int /\ first <= end /\ \A e \in events : e.end <= end
    <3>1. end \in Int /\ first <= end
      BY <2>1, <2>2
    <3>2. ASSUME NEW e \in events PROVE e.end <= end
      <4>1. CASE e.end > first
        BY <2>2, <4>1
      <4>2. CASE ~(e.end > first)
        BY <1>2, <1>3, <3>1, <4>2
      <4> QED
        BY <4>1, <4>2
    <3> QED
      BY <3>1, <3>2
  <2> HIDE DEF end
  <2>4. clear(end)
    BY <1>2, <2>3 DEF Meets
  <2>5. end \in free
    BY <2>2, <2>4 DEF end
  <2>6. free \in SUBSET Int /\ IsFiniteSet(free)
    <3> HIDE DEF starts
    <3> QED
      BY <2>1, FS_Subset
  <2> HIDE DEF free
  <2>7. slot \in free
    BY <2>5, <2>6, Extremes
  <2>8. slot \in starts /\ clear(slot)
    BY <2>7 DEF free
  <2>9. \A u \in starts : u >= preferred /\ u \in Int
    BY <1>2, <1>3
  <2> HIDE DEF starts
  <2> QED
    BY <2>8, <2>9
<1> HIDE DEF slot
<1>5. ASSUME rides # {} PROVE onTrain \in Int
  <2>1. \A id \in rides : /\ x.event[id].start \in Int /\ x.event[id].end \in Int
                          /\ id \in {Outbound, Return}
    BY <1>2, EventTimes
  <2> HIDE DEF rides
  <2>2. \E id \in rides : \A other \in rides : x.event[id].start <= x.event[other].start
    BY <1>5, <2>1
  <2>3. ride \in rides
    BY <2>2
  <2> HIDE DEF ride
  <2>4. x.event[ride].start \in Int /\ x.event[ride].end - minutes \in Int
    BY <2>1, <2>3
  <2>5. Min({preferred, x.event[ride].end - minutes}) \in Int
    BY <2>4, OfTwo
  <2> QED
    BY <2>4, <2>5, OfTwo
<1>7. ASSUME rides # {} PROVE ride # NoId
  <2>1. \A id \in rides : x.event[id].start \in Int /\ id \in {Outbound, Return}
    BY <1>2, EventTimes
  <2> HIDE DEF rides
  <2>2. \E id \in rides : \A other \in rides : x.event[id].start <= x.event[other].start
    BY <1>7, <2>1
  <2>3. ride \in rides
    BY <2>2
  <2> QED
    BY <2>1, <2>3, IdParts DEF Outbound, Return
<1> HIDE DEF rides, onTrain, clear, ride
<1>6. \/ fits /\ result = [at |-> slot, on |-> NoId]
      \/ rides # {} /\ result = [at |-> onTrain, on |-> ride]
      \/ result = [at |-> NoTime, on |-> NoId]
  <2> DEFINE short == onTrain + minutes <= x.event[ride].end
  <2>1. result = CASE fits -> [at |-> slot, on |-> NoId]
                   [] ~fits /\ rides # {} /\ short -> [at |-> onTrain, on |-> ride]
                   [] OTHER -> [at |-> NoTime, on |-> NoId]
    BY <1>1
  <2> HIDE DEF fits, short
  <2> QED
    BY <2>1
<1>8. CASE fits /\ result = [at |-> slot, on |-> NoId]
  <2>1. result.at = slot /\ slot + minutes <= windowEnd
    BY <1>8
  <2> QED
    BY <1>4, <2>1 DEF clear, events, result
<1>9. CASE rides # {} /\ result = [at |-> onTrain, on |-> ride]
  BY <1>5, <1>7, <1>9 DEF result
<1> QED
  BY <1>6, <1>8, <1>9 DEF result

\* The meals have a preferred time, a length and a window that closes by ten.
LEMMA MealsGood ==
  ASSUME NEW set, GoodSettings(set)
  PROVE  \A n \in 1 .. 3 : LET meal == Meals(set)[n]
                           IN  /\ meal.from \in Nat /\ meal.to \in Nat /\ meal.minutes \in Nat
                               /\ meal.to <= Clock(22, 0)
  BY DEF Meals, GoodSettings, Numbers, Clock

LEMMA ServeGood ==
  ASSUME NEW last, NEW x, GoodDraft(x, last), NEW t, GoodTrip(t), NEW d \in 0 .. last,
         NEW meal, meal.from \in Nat, meal.to \in Nat, meal.minutes \in Nat,
         meal.to <= Clock(22, 0), Settled(x, last), MealId(meal.kind, d) \notin DOMAIN x.event
  PROVE  LET y == Serve(t, x, d, meal)
         IN  /\ GoodDraft(y, last) /\ Settled(y, last) /\ Adds(x, y, {"meal"})
             /\ DOMAIN y.event \subseteq DOMAIN x.event \union {MealId(meal.kind, d)}
<1> DEFINE slot == MealSlot(t, x, d, At(d, meal.from), meal.minutes, At(d, meal.to))
           e == MealEvent(slot.at, meal.minutes, slot.on)
<1>1. At(d, meal.from) \in Int /\ At(d, meal.to) \in Int
  <2>1. d \in Int /\ meal.from \in Int /\ meal.to \in Int
    OBVIOUS
  <2> QED
    BY <2>1, Times
<1>2. slot.at # NoTime =>
        /\ slot.at \in Int
        /\ slot.on = NoId =>
              /\ slot.at >= At(d, meal.from) /\ slot.at + meal.minutes <= At(d, meal.to)
              /\ \A f \in Events(x, d) : ~Meets(f, slot.at, slot.at + meal.minutes)
  BY <1>1, MealSlotGood
<1> HIDE DEF slot
<1>3. MealId(meal.kind, d) # NoId /\ Len(MealId(meal.kind, d)) # 4
  BY IdParts
<1> DEFINE id == MealId(meal.kind, d)
           y == Put(x, id, e)
<1>4. slot.at # NoTime => GoodEvent(id, e)
  BY <1>2, <1>3, MealGood
<1>5. e.start = slot.at /\ e.end = slot.at + meal.minutes /\ e.overlaps = slot.on
  BY DEF MealEvent, NewEvent
<1>6. Serve(t, x, d, meal) = IF slot.at = NoTime THEN x ELSE y
  BY Zenon DEF Serve, slot
<1> HIDE DEF e
<1>7. id[1] = "meal"
  BY DEF MealId
<1> HIDE DEF id
<1>8. CASE slot.at = NoTime
  BY <1>6, <1>8 DEF Adds
<1>9. ASSUME slot.at # NoTime
      PROVE  /\ GoodDraft(y, last) /\ Settled(y, last) /\ Adds(x, y, {"meal"})
             /\ DOMAIN y.event = DOMAIN x.event \union {id}
  <2>1. id \notin DOMAIN x.event
    BY DEF id
  <2>2. GoodDraft(y, last)
    BY <1>3, <1>4, <1>9, PutGood DEF id
  <2>3. /\ DOMAIN y.event = DOMAIN x.event \union {id} /\ y.event[id] = e
        /\ \A i \in DOMAIN x.event : i # id => y.event[i] = x.event[i]
        /\ \A v \in 0 .. last :
              ToSet(y.days[v]) = ToSet(x.days[v])
                                 \union (IF v = DayOf(e.start) THEN {id} ELSE {})
        /\ \A K : id[1] \in K => Adds(x, y, K)
    BY PutAdds
  <2> HIDE DEF y
  <2>4. e.start \in Int /\ e.end \in Int
    BY <1>2, <1>5, <1>9
  <2>5. ASSUME slot.on = NoId
        PROVE  /\ DayOf(e.start) = d /\ e.end <= At(d, Clock(22, 0))
               /\ \A i \in ToSet(x.days[d]) : ~LieOnEachOther(x.event[i], e)
    <3>1. /\ e.start >= At(d, meal.from) /\ e.end <= At(d, meal.to) /\ e.start <= e.end
          /\ \A f \in Events(x, d) : ~Meets(f, e.start, e.end)
      BY <1>2, <1>5, <1>9, <2>5
    <3>2. \A i \in ToSet(x.days[d]) : ~LieOnEachOther(x.event[i], e)
      BY <3>1 DEF Events, LieOnEachOther
    <3>3. DayOf(e.start) = d /\ e.end <= At(d, Clock(22, 0))
      BY <2>4, <3>1 DEF DayOf, At, Clock, DayLength
    <3> QED
      BY <3>2, <3>3
  <2>6. \A i : slot.on # NoId => ~LieOnEachOther(x.event[i], e)
    BY <1>5 DEF LieOnEachOther
  <2>7. ASSUME NEW v \in 0 .. last PROVE Neat(y, v)
    <3>1. v = DayOf(e.start) => \A i \in ToSet(x.days[v]) : ~LieOnEachOther(x.event[i], e)
      BY <2>5, <2>6
    <3> QED
      BY <2>1, <2>4, <3>1, PutNeat DEF Settled, y
  <2>8. ASSUME NEW v \in 0 .. last, NEW i \in ToSet(y.days[v]), i[1] = "meal"
        PROVE  y.event[i].overlaps # NoId \/ y.event[i].end <= At(v, Clock(22, 0))
    <3>1. CASE i \in ToSet(x.days[v])
      <4>1. i \in DOMAIN x.event
        BY <3>1, DayEvents
      <4> QED
        BY <2>1, <2>3, <2>8, <3>1, <4>1 DEF Settled
    <3>2. CASE i \notin ToSet(x.days[v])
      <4>1. i = id /\ v = DayOf(e.start)
        BY <2>3, <3>2
      <4> QED
        BY <1>5, <2>3, <2>5, <4>1
    <3> QED
      BY <3>1, <3>2
  <2>9. \A i \in DOMAIN y.event : i[1] # "free"
    BY <1>7, <2>3 DEF Settled
  <2> QED
    BY <1>7, <2>2, <2>3, <2>7, <2>8, <2>9 DEF Settled
<1> QED
  BY <1>6, <1>8, <1>9 DEF id

\* The meals and the night of the days from n on are not there yet.
Unserved(x, n, last) ==
    \A c \in n .. last : /\ \A kind : MealId(kind, c) \notin DOMAIN x.event
                         /\ RestId(c) \notin DOMAIN x.event

LEMMA DayGood ==
  ASSUME NEW last, NEW x, GoodDraft(x, last), NEW t, GoodTrip(t), NEW set, GoodSettings(set),
         NEW d \in 0 .. last, Settled(x, last), Unserved(x, d, last)
  PROVE  LET y == CompileRest(t, CompileMeals(t, set, x, d), d)
         IN  /\ GoodDraft(y, last) /\ Settled(y, last) /\ Unserved(y, d + 1, last)
             /\ Adds(x, y, {"meal", "rest"})
<1> DEFINE meals == CompileMeals(t, set, x, d)
           serve(y, n) == Serve(t, y, d, Meals(set)[n])
           id(n) == MealId(Meals(set)[n].kind, d)
           K == {"meal", "rest"}
<1>1. ASSUME NEW y, GoodDraft(y, last), Settled(y, last), NEW n \in 1 .. 3,
             id(n) \notin DOMAIN y.event
      PROVE  /\ GoodDraft(serve(y, n), last) /\ Settled(serve(y, n), last)
             /\ Adds(y, serve(y, n), {"meal"})
             /\ DOMAIN serve(y, n).event \subseteq DOMAIN y.event \union {id(n)}
  <2> DEFINE meal == Meals(set)[n]
  <2>1. /\ meal.from \in Nat /\ meal.to \in Nat /\ meal.minutes \in Nat
        /\ meal.to <= Clock(22, 0)
    BY MealsGood
  <2> HIDE DEF meal
  <2>2. MealId(meal.kind, d) \notin DOMAIN y.event
    BY <1>1 DEF meal
  <2>3. LET z == Serve(t, y, d, meal)
        IN  /\ GoodDraft(z, last) /\ Settled(z, last) /\ Adds(y, z, {"meal"})
            /\ DOMAIN z.event \subseteq DOMAIN y.event \union {MealId(meal.kind, d)}
    BY <1>1, <2>1, <2>2, ServeGood
  <2> QED
    BY <2>3 DEF meal
<1>2. /\ id(1) # id(2) /\ id(1) # id(3) /\ id(2) # id(3)
      /\ \A n \in 1 .. 3 : id(n) = MealId(Meals(set)[n].kind, d) /\ id(n)[1] = "meal"
  BY DEF Meals, MealId
<1>3. \A n \in 1 .. 3 : id(n) \notin DOMAIN x.event
  BY DEF Unserved
<1>4. meals = serve(serve(serve(x, 1), 2), 3)
  BY DEF CompileMeals
<1> HIDE DEF serve, id, meals, K
<1>5. /\ GoodDraft(meals, last) /\ Settled(meals, last) /\ Adds(x, meals, {"meal"})
      /\ DOMAIN meals.event \subseteq DOMAIN x.event \union {id(1), id(2), id(3)}
  <2> DEFINE one == serve(x, 1)
             two == serve(one, 2)
             three == serve(two, 3)
  <2>1. /\ GoodDraft(one, last) /\ Settled(one, last) /\ Adds(x, one, {"meal"})
        /\ DOMAIN one.event \subseteq DOMAIN x.event \union {id(1)}
    BY <1>1, <1>3
  <2> HIDE DEF one
  <2>2. /\ GoodDraft(two, last) /\ Settled(two, last) /\ Adds(one, two, {"meal"})
        /\ DOMAIN two.event \subseteq DOMAIN one.event \union {id(2)}
    <3>1. id(2) \notin DOMAIN one.event
      BY <1>2, <1>3, <2>1
    <3> QED
      BY <1>1, <2>1, <3>1
  <2> HIDE DEF two
  <2>3. /\ GoodDraft(three, last) /\ Settled(three, last) /\ Adds(two, three, {"meal"})
        /\ DOMAIN three.event \subseteq DOMAIN two.event \union {id(3)}
    <3>1. id(3) \notin DOMAIN two.event
      BY <1>2, <1>3, <2>1, <2>2
    <3> QED
      BY <1>1, <2>2, <3>1
  <2>4. meals = three
    BY <1>4 DEF one, two
  <2> HIDE DEF three
  <2>5. Adds(x, three, {"meal"})
    BY <2>1, <2>2, <2>3 DEF Adds
  <2> QED
    BY <2>1, <2>2, <2>3, <2>4, <2>5
<1> DEFINE start == Max({At(d, Clock(22, 0)), t.earliest})
           end == Min({At(d + 1, Clock(7, 0)), t.latest})
           e == NewEvent("rest", start, end)
           night == Put(meals, RestId(d), e)
<1>6. CompileRest(t, meals, d) \in {meals, night}
  BY Zenon DEF CompileRest
<1>7. start \in Int /\ end \in Int /\ start >= At(d, Clock(22, 0)) /\ DayOf(start) = d
  <2> DEFINE ten == At(d, Clock(22, 0))
             seven == At(d + 1, Clock(7, 0))
             early == t.earliest
  <2>0. d \in Int /\ 0 <= d /\ ten = 1440 * d + 1320
    BY DEF At, Clock, DayLength
  <2>1. ten \in Int /\ seven \in Int
    BY <2>0 DEF At, Clock, DayLength
  <2>2. early \in Int /\ early <= 1439 /\ t.latest \in Int
    <3>1. early \in 0 .. DayLength - 1 /\ t.latest \in Int
      BY DEF GoodTrip
    <3>2. DayLength - 1 = 1439
      BY DEF DayLength
    <3> HIDE DEF early
    <3> QED
      BY <3>1, <3>2
  <2>6. start = Max({ten, early}) /\ end = Min({seven, t.latest})
    OBVIOUS
  <2> HIDE DEF ten, seven, early, start, end
  <2>3. start = (IF ten <= early THEN early ELSE ten) /\ end \in Int
    <3>1. Max({ten, early}) = (IF ten <= early THEN early ELSE ten)
      BY <2>1, <2>2, OfTwo
    <3>2. Min({seven, t.latest}) \in Int
      BY <2>1, <2>2, OfTwo
    <3> QED
      BY <2>6, <3>1, <3>2
  <2>4. start \in Int /\ start >= ten /\ start <= 1440 * d + 1439
    BY <2>0, <2>1, <2>2, <2>3
  <2>5. DayOf(start) = d
    BY <2>0, <2>4 DEF DayOf, DayLength
  <2> QED
    BY <2>3, <2>4, <2>5 DEF ten
<1> HIDE DEF start, end
<1>8. e.start = start /\ e.end = end /\ GoodEvent(RestId(d), e) /\ Len(RestId(d)) # 4
  BY <1>7, NewEventGood, IdParts DEF NewEvent
<1> HIDE DEF e
<1>9. RestId(d) \notin DOMAIN meals.event /\ RestId(d)[1] = "rest"
  <2>1. RestId(d)[1] = "rest" /\ RestId(d) \notin DOMAIN x.event
    BY DEF Unserved, RestId
  <2> QED
    BY <1>2, <1>5, <2>1
<1>10. /\ GoodDraft(night, last) /\ Settled(night, last) /\ Adds(x, night, K)
       /\ DOMAIN night.event = DOMAIN meals.event \union {RestId(d)}
  <2>1. /\ DOMAIN night.event = DOMAIN meals.event \union {RestId(d)}
        /\ \A i \in DOMAIN meals.event : i # RestId(d) => night.event[i] = meals.event[i]
        /\ \A v \in 0 .. last :
              ToSet(night.days[v]) = ToSet(meals.days[v])
                                     \union (IF v = DayOf(e.start) THEN {RestId(d)} ELSE {})
        /\ Adds(meals, night, K)
    <3>1. RestId(d)[1] \in K
      BY <1>9 DEF K
    <3> QED
      BY <1>5, <3>1, PutAdds
  <2>2. ASSUME NEW v \in 0 .. last PROVE Neat(night, v)
    <3>1. ASSUME NEW i \in ToSet(meals.days[v]), i[1] \in {"meal", "free"}, v = DayOf(e.start)
          PROVE  ~LieOnEachOther(meals.event[i], e)
      <4>1. i \in DOMAIN meals.event /\ v = d
        BY <1>5, <1>7, <1>8, <3>1, DayEvents
      <4>2. /\ i[1] = "meal"
            /\ meals.event[i].overlaps # NoId \/ meals.event[i].end <= At(d, Clock(22, 0))
        BY <1>5, <3>1, <4>1 DEF Settled
      <4>3. meals.event[i].end \in Int /\ At(d, Clock(22, 0)) \in Int
        BY <1>5, <4>1, EventTimes DEF At, Clock, DayLength
      <4> QED
        BY <1>7, <1>8, <4>2, <4>3 DEF LieOnEachOther, Meets
    <3>2. Neat(meals, v)
      BY <1>5 DEF Settled
    <3>3. RestId(d)[1] \notin {"meal", "free"}
      BY <1>9
    <3>4. v = DayOf(e.start) =>
            \A i \in ToSet(meals.days[v]) :
                i[1] \in {"meal", "free"} \/ RestId(d)[1] \in {"meal", "free"} =>
                    ~LieOnEachOther(meals.event[i], e)
      BY <3>1, <3>3
    <3> QED
      BY <1>5, <1>7, <1>8, <1>9, <3>2, <3>4, PutNeat
  <2> HIDE DEF night
  <2>3. ASSUME NEW v \in 0 .. last, NEW i \in ToSet(night.days[v]), i[1] = "meal"
        PROVE  night.event[i].overlaps # NoId \/ night.event[i].end <= At(v, Clock(22, 0))
    <3>1. i # RestId(d)
      BY <1>9, <2>3
    <3>2. i \in ToSet(meals.days[v])
      BY <2>1, <3>1
    <3>3. i \in DOMAIN meals.event
      BY <1>5, <3>2, DayEvents
    <3> QED
      BY <1>5, <2>1, <2>3, <3>1, <3>2, <3>3 DEF Settled
  <2>4. \A i \in DOMAIN night.event : i[1] # "free"
    BY <1>5, <1>9, <2>1 DEF Settled
  <2>5. Adds(x, night, K)
    BY <1>5, <2>1 DEF Adds, K
  <2>6. GoodDraft(night, last)
    BY <1>5, <1>8, PutGood DEF night
  <2> QED
    BY <2>1, <2>2, <2>3, <2>4, <2>5, <2>6 DEF Settled
<1> HIDE DEF night
<1>11. Adds(x, meals, K)
  BY <1>5 DEF Adds, K
<1>12. ASSUME NEW y, DOMAIN y.event \subseteq DOMAIN meals.event \union {RestId(d)}
       PROVE  Unserved(y, d + 1, last)
  <2> SUFFICES ASSUME NEW c \in d + 1 .. last
               PROVE  /\ \A kind : MealId(kind, c) \notin DOMAIN y.event
                      /\ RestId(c) \notin DOMAIN y.event
    BY DEF Unserved
  <2>1. c \in d .. last /\ c # d
    OBVIOUS
  <2>2. \A kind : \A n \in 1 .. 3 : MealId(kind, c) # id(n)
    BY <2>1 DEF MealId, id
  <2>3. /\ RestId(c) # RestId(d) /\ \A kind : MealId(kind, c) # RestId(d)
        /\ \A n \in 1 .. 3 : RestId(c) # id(n)
    BY <2>1 DEF MealId, RestId, id
  <2>4. /\ \A kind : MealId(kind, c) \notin DOMAIN x.event
        /\ RestId(c) \notin DOMAIN x.event
    BY <2>1 DEF Unserved
  <2> QED
    BY <1>5, <1>12, <2>2, <2>3, <2>4
<1>13. /\ GoodDraft(meals, last) /\ Settled(meals, last) /\ Unserved(meals, d + 1, last)
       /\ GoodDraft(night, last) /\ Settled(night, last) /\ Unserved(night, d + 1, last)
  <2>1. Unserved(meals, d + 1, last)
    BY <1>12
  <2>2. Unserved(night, d + 1, last)
    BY <1>10, <1>12
  <2> QED
    BY <1>5, <1>10, <2>1, <2>2
<1> QED
  BY <1>6, <1>10, <1>11, <1>13 DEF meals, K

LEMMA DefaultsGood ==
  ASSUME NEW x, NEW inp, NEW t, GoodTrip(t), LastDay(t) \in Nat, GoodDraft(x, LastDay(t)),
         NEW set, GoodSettings(set),
         \A id \in DOMAIN x.event : id[1] \in {"rail", "local", "attraction"}
  PROVE  LET y == CompileDefaults(inp, t, set, x)
         IN  /\ GoodDraft(y, LastDay(t)) /\ Settled(y, LastDay(t))
             /\ Adds(x, y, {"arrival-buffer", "hotel", "rail-wait-buffer", "activity-buffer",
                            "meal", "rest"})
             /\ Has(x, Outbound) => /\ CheckIn \in DOMAIN y.event
                                   /\ y.event[CheckIn].end = ArrivalReady(x, set)
             /\ Has(x, Return) => /\ CheckOut \in DOMAIN y.event
                                 /\ y.event[CheckOut].start = ReturnCutoff(x, set)
<1> DEFINE last == LastDay(t)
           b == Block(x, IF HotelKnown(inp) THEN {"HOTEL_DETAIL_PENDING"}
                         ELSE {"HOTEL_SELECTION_MISSING"})
           stay == CompileStay(set, b)
           around == CompileBuffers(set, stay)
           Before == {"rail", "local", "attraction"}
           Stays == {"arrival-buffer", "hotel", "rail-wait-buffer"}
           Pauses == {"activity-buffer"}
           Served == {"meal", "rest"}
<1>6. GoodDraft(b, last) /\ b.event = x.event
  BY BlockGood
<1> HIDE DEF b
<1>7. /\ GoodDraft(stay, last) /\ Adds(b, stay, Stays)
      /\ Has(b, Outbound) => /\ CheckIn \in DOMAIN stay.event
                            /\ stay.event[CheckIn].end = ArrivalReady(b, set)
      /\ Has(b, Return) => /\ CheckOut \in DOMAIN stay.event
                          /\ stay.event[CheckOut].start = ReturnCutoff(b, set)
  BY <1>6, StayGood
<1>8. /\ Has(b, Outbound) <=> Has(x, Outbound)
      /\ Has(b, Return) <=> Has(x, Return)
      /\ ArrivalReady(b, set) = ArrivalReady(x, set)
      /\ ReturnCutoff(b, set) = ReturnCutoff(x, set)
  BY <1>6 DEF Has, ArrivalReady, ReturnCutoff
<1> HIDE DEF stay
<1>9. GoodDraft(around, last) /\ Adds(stay, around, Pauses)
  BY <1>7, BuffersGood
<1>10. \A id \in DOMAIN around.event : id[1] \in Before \union Stays \union Pauses
  <2> HIDE DEF around, Before, Stays, Pauses
  <2>1. \A id \in DOMAIN x.event : id[1] \in Before
    BY DEF Before
  <2> QED
    BY <1>6, <1>7, <1>9, <2>1 DEF Adds
<1>0. GoodDraft(around, last) /\ Settled(around, last) /\ Unserved(around, 0, last)
  <2> HIDE DEF around
  <2>1. \A id \in DOMAIN around.event : id[1] \notin {"meal", "free", "rest"}
    BY <1>10
  <2>2. ASSUME NEW d \in 0 .. last
        PROVE  \A id \in ToSet(around.days[d]) : id[1] \notin {"meal", "free"}
    BY <1>9, <2>1, DayEvents
  <2>3. Settled(around, last)
    BY <2>1, <2>2 DEF Settled, Neat
  <2>4. Unserved(around, 0, last)
    BY <2>1 DEF Unserved, MealId, RestId
  <2> QED
    BY <1>9, <2>3, <2>4
<1> DEFINE step(y, k) == CompileRest(t, CompileMeals(t, set, y, k - 1), k - 1)
           N == last + 1
           is(f, n) == f = [k \in 0 .. n |-> IF k = 0 THEN around ELSE step(f[k - 1], k)]
           upTo == CHOOSE f : is(f, N)
<1> HIDE DEF around, Before, Stays, Pauses, Served
<1>1. N \in Nat
  OBVIOUS
<1>2. is(upTo, N)
  <2> DEFINE T == {n \in Nat : \E f : is(f, n)}
  <2> HIDE DEF step
  <2>1. is([k \in 0 .. 0 |-> around], 0)
    OBVIOUS
  <2>2. ASSUME NEW n \in Nat, NEW f, is(f, n) PROVE \E g : is(g, n + 1)
    <3>1. is([k \in 0 .. n + 1 |-> IF k = n + 1 THEN step(f[n], k) ELSE f[k]], n + 1)
      BY <2>2
    <3> HIDE DEF is
    <3> QED
      BY <3>1
  <2> HIDE DEF is
  <2>3. T \in SUBSET Nat /\ 0 \in T /\ \A n \in T : n + 1 \in T
    BY <2>1, <2>2
  <2>4. N \in T
    <3> HIDE DEF T
    <3> QED
      BY <1>1, <2>3, NatSet
  <2> QED
    BY <2>4
<1> HIDE DEF step
<1>3. upTo[0] = around /\ \A k \in 1 .. N : upTo[k] = step(upTo[k - 1], k)
  <2> HIDE DEF upTo, N
  <2> QED
    BY <1>1, <1>2
<1>4. CompileDefaults(inp, t, set, x) = upTo[N]
  BY DEF CompileDefaults, Loop, step, around, stay, b
<1> HIDE DEF is, upTo
<1> DEFINE holds(k) == /\ GoodDraft(upTo[k], last) /\ Settled(upTo[k], last)
                       /\ Unserved(upTo[k], k, last) /\ Adds(around, upTo[k], Served)
<1>5. \A k \in 0 .. N : holds(k)
  <2> DEFINE T == {k \in 0 .. N : holds(k)}
  <2>1. holds(0)
    BY <1>0, <1>3 DEF Adds
  <2>2. ASSUME NEW k \in 0 .. N - 1, holds(k) PROVE holds(k + 1)
    <3> DEFINE y == upTo[k]
               z == CompileRest(t, CompileMeals(t, set, y, k), k)
    <3>1. upTo[k + 1] = z
      <4>1. upTo[k + 1] = step(upTo[k], k + 1) /\ k + 1 - 1 = k
        BY <1>1, <1>3
      <4> QED
        BY <4>1 DEF step
    <3>2. k \in 0 .. last
      OBVIOUS
    <3>3. /\ GoodDraft(y, last) /\ Settled(y, last) /\ Unserved(y, k, last)
          /\ Adds(around, y, Served)
      BY <2>2
    <3> HIDE DEF y
    <3>4. /\ GoodDraft(z, last) /\ Settled(z, last) /\ Unserved(z, k + 1, last)
          /\ Adds(y, z, Served)
      BY <3>2, <3>3, DayGood DEF Served
    <3> HIDE DEF z
    <3>5. Adds(around, z, Served)
      BY <3>3, <3>4 DEF Adds
    <3> QED
      BY <3>1, <3>4, <3>5
  <2> HIDE DEF holds
  <2>3. 0 \in T /\ \A k \in 0 .. N - 1 : k \in T => k + 1 \in T
    BY <1>1, <2>1, <2>2
  <2> HIDE DEF T
  <2>4. \A k \in 0 .. N : k \in T
    BY <1>1, <2>3, UpTo
  <2> QED
    BY <2>4 DEF T
<1> DEFINE y == upTo[N]
           Later == {"activity-buffer", "meal", "rest"}
           All == {"arrival-buffer", "hotel", "rail-wait-buffer", "activity-buffer", "meal",
                   "rest"}
<1>11. /\ Pauses \union Served \subseteq Later /\ "hotel" \notin Later
       /\ Stays \union Later \subseteq All
       /\ CheckIn[1] = "hotel" /\ CheckOut[1] = "hotel"
  BY DEF Pauses, Served, Stays, CheckIn, CheckOut
<1>12. GoodDraft(y, last) /\ Settled(y, last) /\ Adds(around, y, Served)
  BY <1>1, <1>5
<1> HIDE DEF y, Later, All
<1>13. Adds(stay, y, Later)
  BY <1>9, <1>11, <1>12 DEF Adds
<1>14. Adds(x, y, All)
  BY <1>6, <1>7, <1>11, <1>13 DEF Adds
<1>15. /\ Has(x, Outbound) => /\ CheckIn \in DOMAIN y.event
                             /\ y.event[CheckIn].end = ArrivalReady(x, set)
       /\ Has(x, Return) => /\ CheckOut \in DOMAIN y.event
                           /\ y.event[CheckOut].start = ReturnCutoff(x, set)
  BY <1>7, <1>8, <1>11, <1>13 DEF Adds
<1> QED
  BY <1>4, <1>12, <1>14, <1>15 DEF y, All

\* The gaps of a day are finitely many, for each begins at its opening or at the end of an
\* event; nothing goes on in a gap, and no two gaps share any time.
LEMMA GapsGood ==
  ASSUME NEW last, NEW x, GoodDraft(x, last), NEW t, GoodTrip(t), NEW d \in 0 .. last
  PROVE  /\ IsFiniteSet(Gaps(t, x, d))
         /\ \A g \in Gaps(t, x, d) :
               /\ g[1] \in Int /\ g[2] \in Int /\ g[1] < g[2]
               /\ g[1] >= At(d, Clock(9, 0)) /\ g[2] <= At(d, Clock(18, 0))
               /\ \A e \in Events(x, d) : e.start < e.end => ~Meets(e, g[1], g[2])
         /\ \A g, h \in Gaps(t, x, d) : g = h \/ g[2] <= h[1] \/ h[2] <= g[1]
<1> DEFINE opening == At(d, Clock(9, 0))
           closing == At(d, Clock(18, 0))
           from == Max({t.earliest, opening})
           to == Min({t.latest, closing})
           busy == {e \in Events(x, d) : Min({to, e.end}) > Max({from, e.start})}
           ends == {from} \union {e.end : e \in busy}
           covered(u) == \E e \in busy : e.start <= u /\ u < e.end
           after(u) == {to} \union {e.start : e \in {y \in busy : y.start > u}}
           nextAfter(u) == Min(after(u))
           gap(u) == <<u, nextAfter(u)>>
           begins == {u \in ends : u < to /\ ~covered(u)}
<1>1. /\ IsFiniteSet(Events(x, d))
      /\ \A e \in Events(x, d) : e.start \in Int /\ e.end \in Int
  BY DayEvents
<1>2. opening \in Int /\ closing \in Int
  BY DEF At, Clock, DayLength
<1> HIDE DEF opening, closing
<1>3. from \in Int /\ to \in Int /\ from >= opening /\ to <= closing
  <2>1. t.earliest \in Int /\ t.latest \in Int
    BY DEF GoodTrip
  <2>2. /\ from = IF t.earliest <= opening THEN opening ELSE t.earliest
        /\ to = IF t.latest <= closing THEN t.latest ELSE closing
    BY <1>2, <2>1, OfTwo
  <2> QED
    BY <1>2, <2>1, <2>2
<1> HIDE DEF from, to
<1>4. \A e \in Events(x, d) :
        e \in busy <=> to > from /\ to > e.start /\ e.end > from /\ e.end > e.start
  <2> TAKE e \in Events(x, d)
  <2>1. e.start \in Int /\ e.end \in Int
    BY <1>1
  <2>2. Min({to, e.end}) = (IF to <= e.end THEN to ELSE e.end)
        /\ Max({from, e.start}) = (IF from <= e.start THEN e.start ELSE from)
    BY <1>3, <2>1, OfTwo
  <2> QED
    BY <1>3, <2>1, <2>2
<1>5. IsFiniteSet(busy) /\ busy \subseteq Events(x, d)
  BY <1>1, FS_Subset
<1> HIDE DEF busy
<1>6. IsFiniteSet(ends) /\ ends \in SUBSET Int /\ \A u \in ends : u >= from
  <2> DEFINE f == [e \in busy |-> e.end]
             S == {e.end : e \in busy}
  <2>1. IsFiniteSet({f[e] : e \in busy}) /\ {f[e] : e \in busy} = S
    <3>1. {f[e] : e \in busy} = S
      BY Zenon
    <3> HIDE DEF f
    <3> QED
      BY <1>5, <3>1, ImageFinite
  <2>2. S \in SUBSET Int /\ \A u \in S : u >= from
    BY <1>1, <1>3, <1>4, <1>5
  <2> HIDE DEF S
  <2>3. IsFiniteSet(S \cup {from})
    BY <2>1, FS_AddElement
  <2>4. ends = S \cup {from}
    BY DEF S
  <2> HIDE DEF ends
  <2> QED
    BY <1>3, <2>2, <2>3, <2>4
<1> HIDE DEF ends
<1>7. ASSUME NEW u \in Int, u < to
      PROVE  /\ nextAfter(u) \in Int /\ nextAfter(u) > u /\ nextAfter(u) <= to
             /\ \A e \in busy : e.start > u => nextAfter(u) <= e.start
  <2> DEFINE B == {y \in busy : y.start > u}
             f == [e \in B |-> e.start]
             S == {e.start : e \in B}
  <2>1. IsFiniteSet({f[e] : e \in B}) /\ {f[e] : e \in B} = S
    <3>1. {f[e] : e \in B} = S
      BY Zenon
    <3>2. IsFiniteSet(B)
      BY <1>5, FS_Subset
    <3> HIDE DEF f, B
    <3> QED
      BY <3>1, <3>2, ImageFinite
  <2>2. S \in SUBSET Int /\ (\A v \in S : v > u) /\ \A e \in busy : e.start > u => e.start \in S
    BY <1>1, <1>5
  <2>3. after(u) = S \cup {to}
    OBVIOUS
  <2> HIDE DEF S
  <2>4. IsFiniteSet(S \cup {to}) /\ S \cup {to} \in SUBSET Int
    BY <1>3, <2>1, <2>2, FS_AddElement
  <2> HIDE DEF after
  <2>5. Min(after(u)) \in after(u) /\ \A v \in after(u) : Min(after(u)) <= v
    BY <2>3, <2>4, Extremes
  <2> QED
    BY <1>3, <1>7, <2>2, <2>3, <2>4, <2>5
<1> HIDE DEF nextAfter
<1>8. /\ Gaps(t, x, d) = {g \in {gap(u) : u \in begins} : g[2] - g[1] >= 30}
      /\ begins \subseteq ends
  <2>1. Gaps(t, x, d) = {g \in {gap(u) : u \in begins} : g[2] - g[1] >= 30}
    BY DEF Gaps, from, to, busy, ends, covered, nextAfter, after, opening, closing
  <2> QED
    BY <2>1
<1>9. IsFiniteSet(Gaps(t, x, d))
  <2> DEFINE f == [u \in begins |-> gap(u)]
  <2>1. {f[u] : u \in begins} = {gap(u) : u \in begins}
    BY Zenon
  <2>2. IsFiniteSet(begins)
    <3> HIDE DEF begins
    <3> QED
      BY <1>6, <1>8, FS_Subset
  <2> HIDE DEF f, gap, begins
  <2>3. IsFiniteSet({gap(u) : u \in begins})
    BY <2>1, <2>2, ImageFinite
  <2>4. Gaps(t, x, d) \in SUBSET {gap(u) : u \in begins}
    BY <1>8
  <2> QED
    BY <2>3, <2>4, FS_Subset
<1>10. \A g \in Gaps(t, x, d) : \E u \in begins : g = <<u, nextAfter(u)>>
  BY <1>8
<1>11. \A u \in begins : u \in Int /\ u < to /\ u >= from /\ u \in ends /\ ~covered(u)
  BY <1>6
<1>12. ASSUME NEW g \in Gaps(t, x, d)
       PROVE  /\ g[1] \in Int /\ g[2] \in Int /\ g[1] < g[2] /\ g[1] >= from /\ g[2] <= to
              /\ g[1] \in ends /\ g[2] = nextAfter(g[1]) /\ g = <<g[1], g[2]>>
              /\ \A e \in busy : e.end <= g[1] \/ g[2] <= e.start
  <2>1. PICK u \in begins : g = <<u, nextAfter(u)>>
    BY <1>10
  <2>2. u \in Int /\ u < to /\ u >= from /\ u \in ends /\ ~covered(u)
    BY <1>11
  <2>3. /\ nextAfter(u) \in Int /\ nextAfter(u) > u /\ nextAfter(u) <= to
        /\ \A e \in busy : e.start > u => nextAfter(u) <= e.start
    BY <1>7, <2>2
  <2>4. g[1] = u /\ g[2] = nextAfter(u)
    BY <2>1
  <2>5. ASSUME NEW e \in busy PROVE e.end <= u \/ nextAfter(u) <= e.start
    <3>1. e.start \in Int /\ e.end \in Int
      BY <1>1, <1>5
    <3>2. ~(e.start <= u /\ u < e.end)
      BY <2>2
    <3>3. CASE e.start <= u
      BY <2>2, <3>1, <3>2, <3>3
    <3>4. CASE e.start > u
      BY <2>3, <3>4
    <3> QED
      BY <2>2, <3>1, <3>3, <3>4
  <2> QED
    BY <2>1, <2>2, <2>3, <2>4, <2>5
<1>13. ASSUME NEW g \in Gaps(t, x, d), NEW e \in Events(x, d), e.start < e.end
       PROVE  ~Meets(e, g[1], g[2])
  <2>1. e.start \in Int /\ e.end \in Int
    BY <1>1
  <2>2. g[1] \in Int /\ g[2] \in Int /\ g[1] < g[2] /\ g[1] >= from /\ g[2] <= to
    BY <1>12
  <2>3. CASE e \in busy
    <3>1. e.end <= g[1] \/ g[2] <= e.start
      BY <1>12, <2>3
    <3> QED
      BY <2>1, <2>2, <3>1 DEF Meets
  <2>4. CASE e \notin busy
    <3>1. ~(to > from /\ to > e.start /\ e.end > from /\ e.end > e.start)
      BY <1>4, <2>4
    <3> QED
      BY <1>3, <1>13, <2>1, <2>2, <3>1 DEF Meets
  <2> QED
    BY <2>3, <2>4
<1>14. ASSUME NEW g \in Gaps(t, x, d), NEW h \in Gaps(t, x, d), g[1] < h[1]
       PROVE  g[2] <= h[1]
  <2>1. h[1] \in ends /\ h[1] # from
    BY <1>3, <1>12, <1>14
  <2>2. PICK e \in busy : h[1] = e.end
    BY <2>1 DEF ends
  <2>3. /\ e.start \in Int /\ e.end \in Int /\ e.start < e.end
    BY <1>1, <1>4, <1>5
  <2>4. e.end <= g[1] \/ g[2] <= e.start
    BY <1>12
  <2>5. g[1] \in Int /\ g[2] \in Int
    BY <1>12
  <2> QED
    BY <1>14, <2>2, <2>3, <2>4, <2>5
<1>15. ASSUME NEW g \in Gaps(t, x, d), NEW h \in Gaps(t, x, d)
       PROVE  g = h \/ g[2] <= h[1] \/ h[2] <= g[1]
  <2>1. g[1] \in Int /\ h[1] \in Int
    BY <1>12
  <2>2. g[1] = h[1] => g = h
    BY <1>12
  <2> QED
    BY <1>14, <2>1, <2>2
<1>16. ASSUME NEW g \in Gaps(t, x, d)
       PROVE  g[1] >= opening /\ g[2] <= closing
  BY <1>2, <1>3, <1>12
<1> QED
  BY <1>9, <1>12, <1>13, <1>15, <1>16 DEF opening, closing

\* A finite set in some order: its members, each once.
LEMMA SetToSeqGood ==
  ASSUME NEW S, IsFiniteSet(S)
  PROVE  /\ Len(SetToSeq(S)) \in Nat /\ \A n \in 1 .. Len(SetToSeq(S)) : SetToSeq(S)[n] \in S
         /\ \A m, n \in 1 .. Len(SetToSeq(S)) : SetToSeq(S)[m] = SetToSeq(S)[n] => m = n
<1>1. Cardinality(S) \in Nat /\ ExistsBijection(1 .. Cardinality(S), S)
  BY FS_CardinalityType
<1>2. \E f \in [1 .. Cardinality(S) -> S] : IsInjective(f)
  BY <1>1 DEF ExistsBijection, Bijection, Injection
<1>3. SetToSeq(S) \in [1 .. Cardinality(S) -> S] /\ IsInjective(SetToSeq(S))
  BY <1>2 DEF SetToSeq
<1>4. SetToSeq(S) \in Seq(S)
  BY <1>1, <1>3
<1>5. Len(SetToSeq(S)) \in Nat /\ DOMAIN SetToSeq(S) = 1 .. Len(SetToSeq(S))
  BY <1>4, LenProperties
<1>6. \A m, n \in DOMAIN SetToSeq(S) : SetToSeq(S)[m] = SetToSeq(S)[n] => m = n
  BY <1>3 DEF IsInjective
<1> QED
  BY <1>4, <1>5, <1>6, ElementOfSeq

LEMMA FreeTimeOnGood ==
  ASSUME NEW last, NEW x, GoodDraft(x, last), NEW t, GoodTrip(t), NEW d \in 0 .. last,
         \A v \in 0 .. last : Neat(x, v), \A u : FreeId(d, u) \notin DOMAIN x.event
  PROVE  LET y == FreeTimeOn(t, x, d)
         IN  /\ GoodDraft(y, last) /\ Adds(x, y, {"free"})
             /\ \A v \in 0 .. last : Neat(y, v)
             /\ \A i \in DOMAIN y.event : i \in DOMAIN x.event \/ \E u : i = FreeId(d, u)
<1> DEFINE gaps == SetToSeq(Gaps(t, x, d))
           free(n) == NewEvent("rest", gaps[n][1], gaps[n][2])
<1>8. /\ IsFiniteSet(Gaps(t, x, d))
      /\ \A g \in Gaps(t, x, d) :
            /\ g[1] \in Int /\ g[2] \in Int /\ g[1] < g[2]
            /\ g[1] >= At(d, Clock(9, 0)) /\ g[2] <= At(d, Clock(18, 0))
            /\ \A e \in Events(x, d) : e.start < e.end => ~Meets(e, g[1], g[2])
      /\ \A g, h \in Gaps(t, x, d) : g = h \/ g[2] <= h[1] \/ h[2] <= g[1]
  BY GapsGood
<1>9. /\ Len(gaps) \in Nat /\ \A n \in 1 .. Len(gaps) : gaps[n] \in Gaps(t, x, d)
      /\ \A m, n \in 1 .. Len(gaps) : gaps[m] = gaps[n] => m = n
  BY <1>8, SetToSeqGood
<1> HIDE DEF gaps
<1>0. \A n \in 1 .. Len(gaps) :
        /\ gaps[n][1] \in Int /\ gaps[n][2] \in Int /\ gaps[n][1] < gaps[n][2]
        /\ DayOf(gaps[n][1]) = d
        /\ \A e \in Events(x, d) : e.start < e.end => ~Meets(e, gaps[n][1], gaps[n][2])
        /\ \A m \in 1 .. Len(gaps) : m # n =>
              gaps[m][2] <= gaps[n][1] \/ gaps[n][2] <= gaps[m][1]
  <2> TAKE n \in 1 .. Len(gaps)
  <2>1. gaps[n] \in Gaps(t, x, d)
    BY <1>9
  <2>2. /\ gaps[n][1] \in Int /\ gaps[n][2] \in Int /\ gaps[n][1] < gaps[n][2]
        /\ gaps[n][1] >= At(d, Clock(9, 0)) /\ gaps[n][2] <= At(d, Clock(18, 0))
        /\ \A e \in Events(x, d) : e.start < e.end => ~Meets(e, gaps[n][1], gaps[n][2])
    BY <1>8, <2>1
  <2>3. DayOf(gaps[n][1]) = d
    <3> DEFINE u == gaps[n][1]
               v == gaps[n][2]
    <3>1. /\ u \in Int /\ v \in Int /\ u < v /\ u >= At(d, Clock(9, 0))
          /\ v <= At(d, Clock(18, 0)) /\ d \in Int
      BY <2>2
    <3> HIDE DEF u, v
    <3>2. DayOf(u) = d
      BY <3>1 DEF DayOf, At, Clock, DayLength
    <3> QED
      BY <3>2 DEF u
  <2> QED
    BY <1>8, <1>9, <2>1, <2>2, <2>3
<1> DEFINE step(y, k) == Put(y, FreeId(d, gaps[k][1]), free(k))
           N == Len(gaps)
           is(f, n) == f = [k \in 0 .. n |-> IF k = 0 THEN x ELSE step(f[k - 1], k)]
           upTo == CHOOSE f : is(f, N)
<1>1. N \in Nat
  BY <1>9
<1> HIDE DEF free
<1>2. is(upTo, N)
  <2> DEFINE T == {n \in Nat : \E f : is(f, n)}
  <2> HIDE DEF step
  <2>1. is([k \in 0 .. 0 |-> x], 0)
    OBVIOUS
  <2>2. ASSUME NEW n \in Nat, NEW f, is(f, n) PROVE \E g : is(g, n + 1)
    <3>1. is([k \in 0 .. n + 1 |-> IF k = n + 1 THEN step(f[n], k) ELSE f[k]], n + 1)
      BY <2>2
    <3> HIDE DEF is
    <3> QED
      BY <3>1
  <2> HIDE DEF is
  <2>3. T \in SUBSET Nat /\ 0 \in T /\ \A n \in T : n + 1 \in T
    BY <2>1, <2>2
  <2>4. N \in T
    <3> HIDE DEF T
    <3> QED
      BY <1>1, <2>3, NatSet
  <2> QED
    BY <2>4
<1> HIDE DEF step
<1>3. upTo[0] = x /\ \A k \in 1 .. N : upTo[k] = step(upTo[k - 1], k)
  <2> HIDE DEF upTo, N
  <2> QED
    BY <1>1, <1>2
<1>4. FreeTimeOn(t, x, d) = upTo[N]
  BY DEF FreeTimeOn, Loop, step, gaps, free
<1> HIDE DEF is, upTo
<1>6. \A n \in 1 .. N : /\ free(n).start = gaps[n][1] /\ free(n).end = gaps[n][2]
                          /\ GoodEvent(FreeId(d, gaps[n][1]), free(n))
                          /\ Len(FreeId(d, gaps[n][1])) # 4
  <2> TAKE n \in 1 .. N
  <2> DEFINE u == gaps[n][1]
             v == gaps[n][2]
  <2>1. u \in Int /\ v \in Int
    BY <1>0
  <2>2. free(n) = NewEvent("rest", u, v)
    BY DEF free
  <2> HIDE DEF u, v
  <2>3. NewEvent("rest", u, v).start = u /\ NewEvent("rest", u, v).end = v
    BY DEF NewEvent
  <2>4. FreeId(d, u) # NoId /\ Len(FreeId(d, u)) # 4
    BY IdParts
  <2>5. GoodEvent(FreeId(d, u), NewEvent("rest", u, v))
    BY <2>1, <2>4, NewEventGood
  <2> QED
    BY <2>2, <2>3, <2>4, <2>5 DEF u, v
<1> DEFINE holds(k) ==
             /\ GoodDraft(upTo[k], last) /\ \A v \in 0 .. last : Neat(upTo[k], v)
             /\ DOMAIN x.event \subseteq DOMAIN upTo[k].event
             /\ \A i \in DOMAIN upTo[k].event :
                   \/ i \in DOMAIN x.event /\ upTo[k].event[i] = x.event[i]
                   \/ \E m \in 1 .. k : i = FreeId(d, gaps[m][1]) /\ upTo[k].event[i] = free(m)
             /\ \A i \in ToSet(upTo[k].days[d]) : i \in DOMAIN x.event => i \in ToSet(x.days[d])
<1>5. \A k \in 0 .. N : holds(k)
  <2> DEFINE T == {k \in 0 .. N : holds(k)}
  <2>1. holds(0)
    BY <1>3
  <2>2. ASSUME NEW k \in 0 .. N - 1, holds(k) PROVE holds(k + 1)
    <3> DEFINE y == upTo[k]
               n == k + 1
               id == FreeId(d, gaps[n][1])
               e == free(n)
               z == Put(y, id, e)
    <3>1. upTo[n] = z /\ n \in 1 .. N /\ 1 .. k \subseteq 1 .. N /\ n \notin 1 .. k
      BY <1>1, <1>3 DEF step
    <3>2. /\ GoodDraft(y, last) /\ \A v \in 0 .. last : Neat(y, v)
          /\ DOMAIN x.event \subseteq DOMAIN y.event
          /\ \A i \in DOMAIN y.event :
                \/ i \in DOMAIN x.event /\ y.event[i] = x.event[i]
                \/ \E m \in 1 .. k : i = FreeId(d, gaps[m][1]) /\ y.event[i] = free(m)
          /\ \A i \in ToSet(y.days[d]) : i \in DOMAIN x.event => i \in ToSet(x.days[d])
      BY <2>2
    <3> HIDE DEF y, n
    <3>3. id \notin DOMAIN y.event
      <4> SUFFICES ASSUME id \in DOMAIN y.event PROVE FALSE
        OBVIOUS
      <4>1. PICK m \in 1 .. k : id = FreeId(d, gaps[m][1])
        BY <3>2
      <4>2. gaps[m][1] = gaps[n][1]
        BY <4>1 DEF FreeId
      <4>3. m \in 1 .. N /\ m # n
        BY <3>1
      <4>4. /\ gaps[m][1] \in Int /\ gaps[m][2] \in Int /\ gaps[m][1] < gaps[m][2]
            /\ gaps[n][1] \in Int /\ gaps[n][2] \in Int /\ gaps[n][1] < gaps[n][2]
        BY <1>0, <3>1, <4>3
      <4>5. gaps[m][2] <= gaps[n][1] \/ gaps[n][2] <= gaps[m][1]
        BY <1>0, <3>1, <4>3
      <4> QED
        BY <4>2, <4>4, <4>5
    <3>4. /\ e.start = gaps[n][1] /\ e.end = gaps[n][2] /\ GoodEvent(id, e) /\ Len(id) # 4
          /\ e.start \in Int /\ e.end \in Int /\ DayOf(e.start) = d
      BY <1>0, <1>6, <3>1
    <3>5. /\ GoodDraft(z, last) /\ DOMAIN z.event = DOMAIN y.event \union {id}
          /\ z.event[id] = e /\ \A i \in DOMAIN y.event : i # id => z.event[i] = y.event[i]
          /\ ToSet(z.days[d]) = ToSet(y.days[d]) \union (IF d = DayOf(e.start) THEN {id} ELSE {})
      <4> HIDE DEF id, e
      <4>1. GoodDraft(z, last)
        BY <3>2, <3>4, PutGood
      <4>2. DOMAIN z.event = DOMAIN y.event \union {id}
        BY <3>2, <3>4, PutAdds
      <4>3. z.event[id] = e
        BY <3>2, <3>4, PutAdds
      <4>4. \A i \in DOMAIN y.event : i # id => z.event[i] = y.event[i]
        BY <3>2, <3>4, PutAdds
      <4>5. ToSet(z.days[d]) = ToSet(y.days[d]) \union (IF d = DayOf(e.start) THEN {id} ELSE {})
        BY <3>2, <3>4, PutAdds
      <4> QED
        BY <4>1, <4>2, <4>3, <4>4, <4>5
    <3>6. ASSUME NEW i \in ToSet(y.days[d]) PROVE ~LieOnEachOther(y.event[i], e)
      <4>1. i \in DOMAIN y.event
        BY <3>2, DayEvents
      <4>2. CASE i \in DOMAIN x.event /\ y.event[i] = x.event[i]
        <5>1. x.event[i] \in Events(x, d)
          BY <3>2, <4>2 DEF Events
        <5> QED
          BY <1>0, <3>1, <3>4, <4>2, <5>1 DEF LieOnEachOther
      <4>3. CASE \E m \in 1 .. k : i = FreeId(d, gaps[m][1]) /\ y.event[i] = free(m)
        <5>1. PICK m \in 1 .. k : y.event[i] = free(m)
          BY <4>3
        <5>2. m \in 1 .. N /\ m # n
          BY <3>1
        <5>3. /\ gaps[m][2] <= gaps[n][1] \/ gaps[n][2] <= gaps[m][1]
              /\ y.event[i].start = gaps[m][1] /\ y.event[i].end = gaps[m][2]
              /\ gaps[m][1] \in Int /\ gaps[m][2] \in Int
          BY <1>0, <1>6, <3>1, <5>1, <5>2
        <5> QED
          BY <3>4, <5>3 DEF LieOnEachOther, Meets
      <4> QED
        BY <3>2, <4>1, <4>2, <4>3
    <3>7. ASSUME NEW v \in 0 .. last PROVE Neat(z, v)
      <4>1. v = DayOf(e.start) =>
              \A i \in ToSet(y.days[v]) :
                  i[1] \in {"meal", "free"} \/ id[1] \in {"meal", "free"} =>
                      ~LieOnEachOther(y.event[i], e)
        BY <3>4, <3>6
      <4> HIDE DEF id, e
      <4> QED
        BY <3>2, <3>3, <3>4, <4>1, PutNeat
    <3> HIDE DEF z
    <3>8. \A i \in ToSet(z.days[d]) : i \in DOMAIN x.event => i \in ToSet(x.days[d])
      BY <3>2, <3>3, <3>5
    <3>9. \A i \in DOMAIN z.event :
            \/ i \in DOMAIN x.event /\ z.event[i] = x.event[i]
            \/ \E m \in 1 .. n : i = FreeId(d, gaps[m][1]) /\ z.event[i] = free(m)
      <4>1. n \in 1 .. n /\ \A m \in 1 .. k : m \in 1 .. n
        BY <3>1 DEF n
      <4> QED
        BY <3>2, <3>3, <3>5, <4>1
    <3>10. /\ GoodDraft(upTo[n], last) /\ \A v \in 0 .. last : Neat(upTo[n], v)
           /\ DOMAIN x.event \subseteq DOMAIN upTo[n].event
           /\ \A i \in DOMAIN upTo[n].event :
                 \/ i \in DOMAIN x.event /\ upTo[n].event[i] = x.event[i]
                 \/ \E m \in 1 .. n : i = FreeId(d, gaps[m][1]) /\ upTo[n].event[i] = free(m)
           /\ \A i \in ToSet(upTo[n].days[d]) : i \in DOMAIN x.event => i \in ToSet(x.days[d])
      BY <3>1, <3>2, <3>5, <3>7, <3>8, <3>9
    <3> QED
      BY <3>10 DEF n
  <2> HIDE DEF holds
  <2>3. 0 \in T /\ \A k \in 0 .. N - 1 : k \in T => k + 1 \in T
    BY <1>1, <2>1, <2>2
  <2> HIDE DEF T
  <2>4. \A k \in 0 .. N : k \in T
    BY <1>1, <2>3, UpTo
  <2> QED
    BY <2>4 DEF T
<1>7. holds(N)
  BY <1>1, <1>5
<1> QED
  BY <1>4, <1>7 DEF Adds, FreeId

LEMMA FreeTimeGood ==
  ASSUME NEW x, NEW t, GoodTrip(t), LastDay(t) \in Nat, GoodDraft(x, LastDay(t)),
         Settled(x, LastDay(t))
  PROVE  LET y == CompileFreeTime(t, x)
         IN  /\ GoodDraft(y, LastDay(t)) /\ Adds(x, y, {"free"})
             /\ \A d \in 0 .. LastDay(t) : Neat(y, d)
<1> DEFINE last == LastDay(t)
<1> DEFINE step(y, k) == FreeTimeOn(t, y, k - 1)
           N == last + 1
           is(f, n) == f = [k \in 0 .. n |-> IF k = 0 THEN x ELSE step(f[k - 1], k)]
           upTo == CHOOSE f : is(f, N)
<1>1. N \in Nat
  OBVIOUS
<1>2. is(upTo, N)
  <2> DEFINE T == {n \in Nat : \E f : is(f, n)}
  <2> HIDE DEF step
  <2>1. is([k \in 0 .. 0 |-> x], 0)
    OBVIOUS
  <2>2. ASSUME NEW n \in Nat, NEW f, is(f, n) PROVE \E g : is(g, n + 1)
    <3>1. is([k \in 0 .. n + 1 |-> IF k = n + 1 THEN step(f[n], k) ELSE f[k]], n + 1)
      BY <2>2
    <3> HIDE DEF is
    <3> QED
      BY <3>1
  <2> HIDE DEF is
  <2>3. T \in SUBSET Nat /\ 0 \in T /\ \A n \in T : n + 1 \in T
    BY <2>1, <2>2
  <2>4. N \in T
    <3> HIDE DEF T
    <3> QED
      BY <1>1, <2>3, NatSet
  <2> QED
    BY <2>4
<1> HIDE DEF step
<1>3. upTo[0] = x /\ \A k \in 1 .. N : upTo[k] = step(upTo[k - 1], k)
  <2> HIDE DEF upTo, N
  <2> QED
    BY <1>1, <1>2
<1>4. CompileFreeTime(t, x) = upTo[N]
  BY DEF CompileFreeTime, Loop, step
<1> HIDE DEF is, upTo
<1> DEFINE holds(k) ==
             /\ GoodDraft(upTo[k], last) /\ Adds(x, upTo[k], {"free"})
             /\ \A v \in 0 .. last : Neat(upTo[k], v)
             /\ \A c \in k .. last : \A u : FreeId(c, u) \notin DOMAIN upTo[k].event
<1>5. \A k \in 0 .. N : holds(k)
  <2> DEFINE T == {k \in 0 .. N : holds(k)}
  <2>1. holds(0)
    BY <1>3 DEF Adds, Settled, FreeId
  <2>2. ASSUME NEW k \in 0 .. N - 1, holds(k) PROVE holds(k + 1)
    <3> DEFINE y == upTo[k]
               z == FreeTimeOn(t, y, k)
    <3>1. upTo[k + 1] = z
      <4>1. upTo[k + 1] = step(upTo[k], k + 1) /\ k + 1 - 1 = k
        BY <1>1, <1>3
      <4> QED
        BY <4>1 DEF step
    <3>2. k \in 0 .. last /\ k \in k .. last
      OBVIOUS
    <3>3. /\ GoodDraft(y, last) /\ Adds(x, y, {"free"}) /\ \A v \in 0 .. last : Neat(y, v)
          /\ \A c \in k .. last : \A u : FreeId(c, u) \notin DOMAIN y.event
      BY <2>2
    <3> HIDE DEF y
    <3>4. /\ GoodDraft(z, last) /\ Adds(y, z, {"free"}) /\ \A v \in 0 .. last : Neat(z, v)
          /\ \A i \in DOMAIN z.event : i \in DOMAIN y.event \/ \E u : i = FreeId(k, u)
      <4>1. \A u : FreeId(k, u) \notin DOMAIN y.event
        BY <3>2, <3>3
      <4> QED
        BY <3>2, <3>3, <4>1, FreeTimeOnGood
    <3> HIDE DEF z
    <3>5. Adds(x, z, {"free"})
      BY <3>3, <3>4 DEF Adds
    <3>6. ASSUME NEW c \in k + 1 .. last, NEW u PROVE FreeId(c, u) \notin DOMAIN z.event
      <4>1. c \in k .. last /\ c # k
        OBVIOUS
      <4>2. \A w : FreeId(c, u) # FreeId(k, w)
        BY <4>1 DEF FreeId
      <4> QED
        BY <3>3, <3>4, <4>1, <4>2
    <3> QED
      BY <3>1, <3>4, <3>5, <3>6
  <2> HIDE DEF holds
  <2>3. 0 \in T /\ \A k \in 0 .. N - 1 : k \in T => k + 1 \in T
    BY <1>1, <2>1, <2>2
  <2> HIDE DEF T
  <2>4. \A k \in 0 .. N : k \in T
    BY <1>1, <2>3, UpTo
  <2> QED
    BY <2>4 DEF T
<1>6. holds(N)
  BY <1>1, <1>5
<1> QED
  BY <1>4, <1>6

\* Events that are no attractions leave the visits as they are.
LEMMA AddsNoVisits ==
  ASSUME NEW last, NEW x, NEW y, GoodDraft(y, last), NEW K, Adds(x, y, K), "attraction" \notin K
  PROVE  SameVisits(x, y)
<1> SUFFICES ASSUME NEW id \in DOMAIN y.event, y.event[id].type = "attraction"
             PROVE  id \in DOMAIN x.event /\ y.event[id] = x.event[id]
  BY DEF SameVisits
<1>1. id = VisitId(y.event[id].attraction)
  BY DEF GoodDraft, GoodEvents, GoodEvent
<1>2. id[1] = "attraction"
  BY <1>1 DEF VisitId
<1> QED
  BY <1>2 DEF Adds

\* A draft as the compiler leaves it: nothing lies on a meal or on free time, and where
\* both trains are known the visits keep to the times of the hotel.
Sound(x, set, last) ==
    /\ GoodDraft(x, last)
    /\ \A d \in 0 .. last : Neat(x, d)
    /\ Has(x, Outbound) /\ Has(x, Return) =>
          /\ Timed(x, set)
          /\ CheckIn \in DOMAIN x.event /\ x.event[CheckIn].end = ArrivalReady(x, set)
          /\ CheckOut \in DOMAIN x.event /\ x.event[CheckOut].start = ReturnCutoff(x, set)

LEMMA BlockSound ==
  ASSUME NEW last, NEW x, NEW set, Sound(x, set, last), NEW ids
  PROVE  Sound(Block(x, ids), set, last)
<1> DEFINE y == Block(x, ids)
<1>1. GoodDraft(x, last) /\ DOMAIN x = {"event", "days", "visits", "blockers"}
  BY DEF Sound, GoodDraft
<1>2. y.event = x.event /\ y.days = x.days
  BY <1>1 DEF Block
<1>3. GoodDraft(y, last)
  BY <1>1, BlockGood
<1> HIDE DEF y
<1>4. \A d \in 0 .. last : Neat(y, d)
  BY <1>2 DEF Sound, Neat, Clash
<1>5. /\ Has(y, Outbound) <=> Has(x, Outbound)
      /\ Has(y, Return) <=> Has(x, Return)
      /\ ArrivalReady(y, set) = ArrivalReady(x, set)
      /\ ReturnCutoff(y, set) = ReturnCutoff(x, set)
  BY <1>2 DEF Has, ArrivalReady, ReturnCutoff
<1>6. Timed(x, set) => Timed(y, set)
  BY <1>2, <1>5 DEF Timed
<1>7. Sound(y, set, last)
  BY <1>2, <1>3, <1>4, <1>5, <1>6 DEF Sound
<1> QED
  BY <1>7 DEF y

\* The whole draft.
LEMMA CompileGood ==
  ASSUME NEW inp, GoodInput(inp), NEW t, GoodTrip(t), NEW moment
  PROVE  Sound(Compile(inp, t, moment), Settings(t.pace), LastDay(t))
<1> DEFINE last == LastDay(t)
           set == Settings(t.pace)
           empty == EmptyDraft(t)
           travelled == CompileRailway(inp, moment, empty)
           moved == CompileLocalTransit(inp, t, travelled)
           visited == CompileAttractions(inp, t, set, moved)
           dressed == CompileDefaults(inp, t, set, visited)
           y == CompileFreeTime(t, dressed)
           Late == {"arrival-buffer", "hotel", "rail-wait-buffer", "activity-buffer", "meal",
                    "rest"}
<1>0. GoodSettings(set)
  BY SettingsGood
<1>1. last \in Nat /\ GoodDraft(empty, last)
  BY EmptyGood DEF GoodTrip
<1>2. DOMAIN empty.event = {}
  BY DEF EmptyDraft
<1> HIDE DEF set, empty
<1>3. GoodDraft(travelled, last) /\ Adds(empty, travelled, {"rail"})
  BY <1>1, RailwayGood
<1> HIDE DEF travelled
<1>4. GoodDraft(moved, last) /\ Adds(travelled, moved, {"local"})
  BY <1>3, LocalTransitGood
<1> HIDE DEF moved
<1>5. GoodDraft(visited, last) /\ Adds(moved, visited, {"local", "attraction"})
      /\ (Timed(moved, set) => Timed(visited, set))
  BY <1>0, <1>4, AttractionsGood
<1> HIDE DEF visited
<1>6. \A id \in DOMAIN moved.event : id[1] \in {"rail", "local"}
  BY <1>2, <1>3, <1>4 DEF Adds
<1>7. \A id \in DOMAIN visited.event : id[1] \in {"rail", "local", "attraction"}
  BY <1>5, <1>6 DEF Adds
<1>8. Timed(moved, set)
  <2>1. Adds(empty, moved, {"rail", "local"})
    BY <1>2, <1>6 DEF Adds
  <2>2. SameVisits(empty, moved)
    BY <1>4, <2>1, AddsNoVisits
  <2> QED
    BY <1>2, <2>2 DEF Timed, SameVisits
<1>9. Timed(visited, set)
  BY <1>5, <1>8
<1>10. /\ GoodDraft(dressed, last) /\ Settled(dressed, last) /\ Adds(visited, dressed, Late)
       /\ Has(visited, Outbound) => /\ CheckIn \in DOMAIN dressed.event
                                   /\ dressed.event[CheckIn].end = ArrivalReady(visited, set)
       /\ Has(visited, Return) => /\ CheckOut \in DOMAIN dressed.event
                                 /\ dressed.event[CheckOut].start = ReturnCutoff(visited, set)
  BY <1>0, <1>1, <1>5, <1>7, DefaultsGood
<1> HIDE DEF dressed
<1>11. GoodDraft(y, last) /\ Adds(dressed, y, {"free"}) /\ \A d \in 0 .. last : Neat(y, d)
  BY <1>1, <1>10, FreeTimeGood
<1>12. Compile(inp, t, moment) = Block(y, EvidenceBlockers(inp))
  BY DEF Compile, empty, travelled, moved, visited, dressed, set
<1> HIDE DEF y
<1>13. "rail" \notin Late \union {"free"} /\ "attraction" \notin Late \union {"free"}
       /\ "hotel" \notin {"free"} /\ CheckIn[1] = "hotel" /\ CheckOut[1] = "hotel"
  BY DEF CheckIn, CheckOut
<1> HIDE DEF Late
<1>14. Adds(visited, y, Late \union {"free"})
  BY <1>10, <1>11, AddsChain
<1>15. SameVisits(visited, y)
  BY <1>11, <1>13, <1>14, AddsNoVisits
<1>16. Timed(y, set)
  BY <1>9, <1>13, <1>14, <1>15, SameTimed
<1>17. /\ Has(y, Outbound) <=> Has(visited, Outbound)
       /\ Has(y, Return) <=> Has(visited, Return)
       /\ Has(visited, Outbound) => ArrivalReady(y, set) = ArrivalReady(visited, set)
       /\ Has(visited, Return) => ReturnCutoff(y, set) = ReturnCutoff(visited, set)
  BY <1>13, <1>14, SameTrains
<1>18. \A id \in {CheckIn, CheckOut} : id \in DOMAIN dressed.event =>
         id \in DOMAIN y.event /\ y.event[id] = dressed.event[id]
  BY <1>11, <1>13 DEF Adds
<1>19. Sound(y, set, last)
  BY <1>10, <1>11, <1>16, <1>17, <1>18 DEF Sound
<1> QED
  BY <1>12, <1>19, BlockSound DEF set

-----------------------------------------------------------------------------
(* Plans, and what an edit keeps.                                            *)

\* The events of a plan are good, and its days list some of them.
Listed(p, last) ==
    /\ DOMAIN p = {"event", "days", "conflicts", "unscheduled"}
    /\ GoodEvents(p.event)
    /\ DOMAIN p.days = 0 .. last
    /\ \A d \in 0 .. last : p.days[d] \in Seq(DOMAIN p.event)

\* Free time is left after an attraction only where nothing goes with it any more.
Fresh(p, last) ==
    \A a : \A d \in 0 .. last :
        a # None /\ FreeAfterId(a, d) \in DOMAIN p.event =>
            \A id \in Placed(p) : p.event[id].goesWith # a

GoodPlan(p, last) == Listed(p, last) /\ Fresh(p, last)

\* q has the events of p, at whatever times.
SameEvents(p, q) ==
    /\ DOMAIN q.event = DOMAIN p.event
    /\ \A id \in DOMAIN p.event : /\ q.event[id].attraction = p.event[id].attraction
                                  /\ q.event[id].goesWith = p.event[id].goesWith

\* What an edit keeps of p in q: what is locked stays unless what it goes with is removed,
\* and comes to no other day, and an attraction is lost by removal or reported.
Held(p, e) == e.locked \intersect DOMAIN p.event
Keeps(p, q, e) ==
    /\ DOMAIN p.event \subseteq DOMAIN q.event
    /\ \A d \in DOMAIN p.days : \A x : IdOf(x) \in Held(p, e) =>
          /\ x \in On(q, d) => x \in On(p, d)
          /\ x \in On(p, d) =>
                \/ x \in On(q, d) /\ q.event[x] = p.event[x]
                \/ p.event[x].goesWith \in e.removed /\ x \notin Placed(q)
    /\ \A a \in Attractions(p) \ Attractions(q) :
          \/ a \in e.removed \ e.must
          \/ a \in q.unscheduled /\ <<"forced_day_capacity", a>> \in q.conflicts
    /\ p.unscheduled \subseteq q.unscheduled
    /\ p.conflicts \subseteq q.conflicts

\* Only a ride has an id that is not its key.
LEMMA IdsKept ==
  /\ \A x : IdOf(IdOf(x)) = IdOf(x)
  /\ \A a, d : IdOf(FreeAfterId(a, d)) = FreeAfterId(a, d)
  /\ \A a : IdOf(VisitId(a)) = VisitId(a)
  /\ \A x, a : IdOf(x) = VisitId(a) => x = VisitId(a)
  /\ \A x, a, d : IdOf(x) = FreeAfterId(a, d) => x = FreeAfterId(a, d)
  /\ \A x : x[1] # "local" => IdOf(x) = x
  /\ \A x : IdOf(x)[1] # "local" => IdOf(x) = x
  BY DEF IdOf, RideId, VisitId, FreeAfterId

\* What is placed is an event of the plan.
LEMMA PlacedEvents ==
  ASSUME NEW last, NEW p, Listed(p, last)
  PROVE  /\ \A d \in 0 .. last : On(p, d) \subseteq DOMAIN p.event
         /\ \A id : id \in Placed(p) <=> \E d \in 0 .. last : id \in On(p, d)
         /\ Placed(p) \subseteq DOMAIN p.event
<1>1. \A d \in 0 .. last : On(p, d) \subseteq DOMAIN p.event
  <2> TAKE d \in 0 .. last
  <2>1. p.days[d] \in Seq(DOMAIN p.event)
    BY DEF Listed
  <2>2. DOMAIN p.days[d] = 1 .. Len(p.days[d])
    BY <2>1, LenProperties
  <2>3. \A i \in 1 .. Len(p.days[d]) : p.days[d][i] \in DOMAIN p.event
    BY <2>1, ElementOfSeq
  <2> QED
    BY <2>2, <2>3 DEF On, ToSet
<1>2. \A id : id \in Placed(p) <=> \E d \in 0 .. last : id \in On(p, d)
  BY DEF Placed, Listed
<1> QED
  BY <1>1, <1>2

\* The attractions of a plan are those of the events placed.
LEMMA AttractionsPlaced ==
  ASSUME NEW last, NEW p, Listed(p, last), NEW a
  PROVE  a \in Attractions(p) <=> a # None /\ \E id \in Placed(p) : p.event[id].attraction = a
<1>1. \A id \in Placed(p) : p.event[id].type = "attraction" <=> p.event[id].attraction # None
  BY PlacedEvents DEF Listed, GoodEvents, GoodEvent
<1>2. a \in Attractions(p) <=>
        \E d \in 0 .. last : \E id \in On(p, d) :
            p.event[id].type = "attraction" /\ a = p.event[id].attraction
  BY DEF Attractions, AttractionsOn, Listed
<1>3. \A d \in 0 .. last : On(p, d) \subseteq Placed(p)
  BY PlacedEvents
<1>4. \A id \in Placed(p) : \E d \in 0 .. last : id \in On(p, d)
  BY PlacedEvents
<1> HIDE DEF On, Placed
<1> QED
  BY <1>1, <1>2, <1>3, <1>4

\* Days that list the same events place the same.
LEMMA SamePlaces ==
  ASSUME NEW last, NEW p, Listed(p, last), NEW q, Listed(q, last), q.days = p.days
  PROVE  Placed(q) = Placed(p) /\ \A d \in 0 .. last : On(q, d) = On(p, d)
  BY DEF Placed, On, Listed

\* An edit that moves events, or takes visits away and says so.
LEMMA Rearranged ==
  ASSUME NEW last, NEW p, GoodPlan(p, last), NEW q, Listed(q, last), SameEvents(p, q), NEW e,
         p.unscheduled \subseteq q.unscheduled, p.conflicts \subseteq q.conflicts,
         Placed(q) \subseteq Placed(p),
         \A d \in 0 .. last : \A x : IdOf(x) \in e.locked =>
            (x \in On(q, d) <=> x \in On(p, d)) /\ (x \in On(p, d) => q.event[x] = p.event[x]),
         \A id \in Placed(p) \ Placed(q) :
            \/ p.event[id].attraction = None
            \/ /\ p.event[id].attraction \in q.unscheduled
               /\ <<"forced_day_capacity", p.event[id].attraction>> \in q.conflicts
  PROVE  GoodPlan(q, last) /\ Keeps(p, q, e)
<1>1. Listed(p, last) /\ Fresh(p, last)
  BY DEF GoodPlan
<1>2. Placed(p) \subseteq DOMAIN p.event
  BY <1>1, PlacedEvents
<1>3. Fresh(q, last)
  BY <1>1, <1>2 DEF Fresh, SameEvents
<1>4. ASSUME NEW a \in Attractions(p) \ Attractions(q)
      PROVE  a \in q.unscheduled /\ <<"forced_day_capacity", a>> \in q.conflicts
  <2>1. a # None /\ \E id \in Placed(p) : p.event[id].attraction = a
    BY <1>1, AttractionsPlaced
  <2>2. PICK id \in Placed(p) : p.event[id].attraction = a
    BY <2>1
  <2>3. q.event[id].attraction = a
    BY <1>2, <2>2 DEF SameEvents
  <2>4. id \notin Placed(q)
    BY <1>4, <2>1, <2>3, AttractionsPlaced
  <2> QED
    BY <2>1, <2>2, <2>4
<1>5. DOMAIN p.days = 0 .. last /\ DOMAIN p.event \subseteq DOMAIN q.event
  BY <1>1 DEF Listed, SameEvents
<1>6. \A d \in DOMAIN p.days : \A x : IdOf(x) \in Held(p, e) =>
        /\ x \in On(q, d) => x \in On(p, d)
        /\ x \in On(p, d) => x \in On(q, d) /\ q.event[x] = p.event[x]
  BY <1>5 DEF Held
<1> QED
  BY <1>3, <1>4, <1>5, <1>6 DEF GoodPlan, Keeps

\* One edit after another keeps what both keep.
LEMMA KeepsTransitive ==
  ASSUME NEW last, NEW p, Listed(p, last), NEW q, Listed(q, last), NEW r, Listed(r, last),
         NEW e, Keeps(p, q, e), Keeps(q, r, e)
  PROVE  Keeps(p, r, e)
<1>1. DOMAIN p.days = 0 .. last /\ DOMAIN q.days = 0 .. last
  BY DEF Listed
<1>2. DOMAIN p.event \subseteq DOMAIN r.event
  BY DEF Keeps
<1>3. ASSUME NEW d \in 0 .. last, NEW x, IdOf(x) \in Held(p, e)
      PROVE  /\ x \in On(r, d) => x \in On(p, d)
             /\ x \in On(p, d) =>
                   \/ x \in On(r, d) /\ r.event[x] = p.event[x]
                   \/ p.event[x].goesWith \in e.removed /\ x \notin Placed(r)
  <2>1. IdOf(x) \in Held(q, e)
    BY <1>3 DEF Keeps, Held
  <2>2. \A v \in 0 .. last :
          /\ x \in On(r, v) => x \in On(q, v)
          /\ x \in On(q, v) =>
                \/ x \in On(r, v) /\ r.event[x] = q.event[x]
                \/ q.event[x].goesWith \in e.removed /\ x \notin Placed(r)
    BY <1>1, <2>1 DEF Keeps
  <2>3. /\ x \in On(q, d) => x \in On(p, d)
        /\ x \in On(p, d) =>
              \/ x \in On(q, d) /\ q.event[x] = p.event[x]
              \/ p.event[x].goesWith \in e.removed /\ x \notin Placed(q)
    BY <1>1, <1>3 DEF Keeps
  <2>4. x \in Placed(r) => x \in Placed(q)
    <3>1. /\ x \in Placed(r) <=> \E v \in 0 .. last : x \in On(r, v)
          /\ x \in Placed(q) <=> \E v \in 0 .. last : x \in On(q, v)
      BY PlacedEvents
    <3> QED
      BY <2>2, <3>1
  <2> QED
    BY <2>2, <2>3, <2>4
<1>5. \A a \in Attractions(p) \ Attractions(r) :
        \/ a \in e.removed \ e.must
        \/ a \in r.unscheduled /\ <<"forced_day_capacity", a>> \in r.conflicts
  BY DEF Keeps
<1>6. p.unscheduled \subseteq r.unscheduled /\ p.conflicts \subseteq r.conflicts
  BY DEF Keeps
<1> QED
  BY <1>1, <1>2, <1>3, <1>5, <1>6 DEF Keeps

LEMMA ListedTimes ==
  ASSUME NEW last, NEW p, Listed(p, last)
  PROVE  \A id \in DOMAIN p.event : p.event[id].start \in Int /\ p.event[id].end \in Int
  BY DEF Listed, GoodEvents, GoodEvent

\* Of some events of a day one begins first and one ends last.
LEMMA FirstAndLast ==
  ASSUME NEW last, NEW p, Listed(p, last), NEW d \in 0 .. last, NEW ids, ids \subseteq On(p, d)
  PROVE  /\ IsFiniteSet(ids)
         /\ ids # {} =>
               /\ Min({p.event[id].start : id \in ids}) \in Int
               /\ Max({p.event[id].end : id \in ids}) \in Int
<1>1. p.days[d] \in Seq(DOMAIN p.event) /\ IsFiniteSet(ids)
  <2>1. p.days[d] \in Seq(DOMAIN p.event)
    BY DEF Listed
  <2> QED
    BY <2>1, ToSetFinite, FS_Subset DEF On
<1>2. \A id \in ids : p.event[id].start \in Int /\ p.event[id].end \in Int
  BY ListedTimes, PlacedEvents
<1> DEFINE f == [id \in ids |-> p.event[id].start]
           g == [id \in ids |-> p.event[id].end]
           S == {p.event[id].start : id \in ids}
           E == {p.event[id].end : id \in ids}
<1>3. {f[id] : id \in ids} = S /\ {g[id] : id \in ids} = E
  BY Zenon
<1>4. IsFiniteSet(S) /\ IsFiniteSet(E)
  <2> HIDE DEF f, g, S, E
  <2>1. IsFiniteSet({f[id] : id \in ids}) /\ IsFiniteSet({g[id] : id \in ids})
    BY <1>1, ImageFinite
  <2> QED
    BY <1>3, <2>1
<1>5. S \in SUBSET Int /\ E \in SUBSET Int /\ (ids # {} => S # {} /\ E # {})
  BY <1>2
<1> HIDE DEF S, E
<1>6. ids # {} => Min(S) \in Int /\ Max(E) \in Int
  BY <1>4, <1>5, Extremes
<1> QED
  BY <1>1, <1>6 DEF S, E

\* Events at other times.
LEMMA RetimedPlan ==
  ASSUME NEW last, NEW p, Listed(p, last), NEW from, NEW to,
         \A id \in DOMAIN from \intersect DOMAIN p.event : from[id] \in Int /\ to[id] \in Int
  PROVE  LET q == Retimed(p, from, to)
         IN  /\ Listed(q, last) /\ SameEvents(p, q)
             /\ q.days = p.days /\ q.conflicts = p.conflicts /\ q.unscheduled = p.unscheduled
             /\ \A id \in DOMAIN p.event \ DOMAIN from : q.event[id] = p.event[id]
<1> DEFINE q == Retimed(p, from, to)
           event == [id \in DOMAIN p.event |->
               IF id \in DOMAIN from
               THEN [p.event[id] EXCEPT !.start = from[id], !.end = to[id]] ELSE p.event[id]]
<1>1. q = [p EXCEPT !.event = event]
  BY DEF Retimed
<1>2. DOMAIN p = {"event", "days", "conflicts", "unscheduled"}
  BY DEF Listed
<1>3. \A id \in DOMAIN p.event :
        /\ event[id].attraction = p.event[id].attraction
        /\ event[id].goesWith = p.event[id].goesWith
        /\ event[id].type = p.event[id].type
        /\ DOMAIN event[id] = Fields
        /\ event[id].start \in Int /\ event[id].end \in Int
  <2> TAKE id \in DOMAIN p.event
  <2>1. DOMAIN p.event[id] = Fields /\ p.event[id].start \in Int /\ p.event[id].end \in Int
    BY DEF Listed, GoodEvents, GoodEvent
  <2>2. CASE id \notin DOMAIN from
    BY <2>1, <2>2
  <2>3. CASE id \in DOMAIN from
    <3>1. event[id] = [p.event[id] EXCEPT !.start = from[id], !.end = to[id]]
      BY <2>3
    <3>2. from[id] \in Int /\ to[id] \in Int
      BY <2>3
    <3> HIDE DEF event
    <3> QED
      BY <2>1, <3>1, <3>2 DEF Fields
  <2> QED
    BY <2>2, <2>3
<1>4. DOMAIN event = DOMAIN p.event
      /\ \A id \in DOMAIN p.event \ DOMAIN from : event[id] = p.event[id]
  OBVIOUS
<1> HIDE DEF event, q
<1>5. /\ DOMAIN q = {"event", "days", "conflicts", "unscheduled"}
      /\ q.event = event /\ q.days = p.days
      /\ q.conflicts = p.conflicts /\ q.unscheduled = p.unscheduled
  BY <1>1, <1>2
<1>6. GoodEvents(event)
  BY <1>3, <1>4 DEF GoodEvents, GoodEvent, Listed
<1>7. Listed(q, last)
  BY <1>4, <1>5, <1>6 DEF Listed
<1>8. SameEvents(p, q)
  BY <1>3, <1>4, <1>5 DEF SameEvents
<1> QED
  BY <1>4, <1>5, <1>7, <1>8 DEF q

LEMMA ShiftedPlan ==
  ASSUME NEW last, NEW p, Listed(p, last), NEW ids, NEW delta \in Int
  PROVE  LET q == Shift(p, ids, delta)
         IN  /\ Listed(q, last) /\ SameEvents(p, q)
             /\ q.days = p.days /\ q.conflicts = p.conflicts /\ q.unscheduled = p.unscheduled
             /\ \A id \in DOMAIN p.event \ ids : q.event[id] = p.event[id]
<1> DEFINE from == [id \in ids |-> p.event[id].start + delta]
           to == [id \in ids |-> p.event[id].end + delta]
<1>1. Shift(p, ids, delta) = Retimed(p, from, to)
  BY DEF Shift
<1>2. DOMAIN from = ids
  OBVIOUS
<1>3. \A id \in ids \intersect DOMAIN p.event : from[id] \in Int /\ to[id] \in Int
  BY ListedTimes
<1> HIDE DEF from, to
<1> QED
  BY <1>1, <1>2, <1>3, RetimedPlan

\* A report, and other conflicts, change no event.
LEMMA ToldPlan ==
  ASSUME NEW last, NEW p, Listed(p, last), NEW c
  PROVE  LET q == [p EXCEPT !.conflicts = c]
         IN  /\ Listed(q, last) /\ q.event = p.event /\ q.days = p.days
             /\ q.conflicts = c /\ q.unscheduled = p.unscheduled
<1> DEFINE q == [p EXCEPT !.conflicts = c]
<1>1. DOMAIN p = {"event", "days", "conflicts", "unscheduled"}
  BY DEF Listed
<1>2. /\ DOMAIN q = DOMAIN p /\ q.event = p.event /\ q.days = p.days
      /\ q.conflicts = c /\ q.unscheduled = p.unscheduled
  BY <1>1
<1> HIDE DEF q
<1>3. Listed(q, last)
  BY <1>2 DEF Listed
<1> QED
  BY <1>2, <1>3 DEF q

LEMMA ReportKeeps ==
  ASSUME NEW last, NEW p, GoodPlan(p, last), NEW type, NEW about, NEW e
  PROVE  LET q == Report(p, type, about)
         IN  /\ GoodPlan(q, last) /\ Keeps(p, q, e)
             /\ q.event = p.event /\ q.days = p.days /\ q.unscheduled = p.unscheduled
             /\ <<type, about>> \in q.conflicts /\ p.conflicts \subseteq q.conflicts
<1> DEFINE c == p.conflicts \union {<<type, about>>}
           q == Report(p, type, about)
<1>1. q = [p EXCEPT !.conflicts = c]
  BY DEF Report
<1>2. p.conflicts \subseteq c /\ <<type, about>> \in c
  OBVIOUS
<1>3. Listed(p, last)
  BY DEF GoodPlan
<1> HIDE DEF c, q
<1>4. /\ Listed(q, last) /\ q.event = p.event /\ q.days = p.days
      /\ q.conflicts = c /\ q.unscheduled = p.unscheduled
  <2> DEFINE r == [p EXCEPT !.conflicts = c]
  <2>1. /\ Listed(r, last) /\ r.event = p.event /\ r.days = p.days
        /\ r.conflicts = c /\ r.unscheduled = p.unscheduled
    BY <1>3, ToldPlan
  <2> HIDE DEF r
  <2>2. q = r
    BY <1>1 DEF r
  <2> QED
    BY <2>1, <2>2
<1>5. Placed(q) = Placed(p) /\ \A d \in 0 .. last : On(q, d) = On(p, d)
  BY <1>3, <1>4, SamePlaces
<1>6. SameEvents(p, q)
  BY <1>4 DEF SameEvents
<1>7. GoodPlan(q, last) /\ Keeps(p, q, e)
  BY <1>2, <1>4, <1>5, <1>6, Rearranged
<1> QED
  BY <1>2, <1>4, <1>7 DEF q
-----------------------------------------------------------------------------
(* The single edits.                                                         *)

\* Two edits that keep what they should, one after the other.
LEMMA Then ==
  ASSUME NEW last, NEW p, GoodPlan(p, last), NEW q, NEW r, NEW e,
         GoodPlan(q, last) /\ Keeps(p, q, e), GoodPlan(r, last) /\ Keeps(q, r, e)
  PROVE  GoodPlan(r, last) /\ Keeps(p, r, e)
<1>1. Listed(p, last) /\ Listed(q, last) /\ Listed(r, last)
  BY DEF GoodPlan
<1> QED
  BY <1>1, KeepsTransitive

\* Conflicts that are told in addition change nothing else, and so does no edit.
LEMMA ToldKeeps ==
  ASSUME NEW last, NEW p, GoodPlan(p, last), NEW c, NEW e, p.conflicts \subseteq c
  PROVE  GoodPlan([p EXCEPT !.conflicts = c], last) /\ Keeps(p, [p EXCEPT !.conflicts = c], e)
<1> DEFINE q == [p EXCEPT !.conflicts = c]
<1>1. Listed(p, last)
  BY DEF GoodPlan
<1>2. /\ Listed(q, last) /\ q.event = p.event /\ q.days = p.days
      /\ q.conflicts = c /\ q.unscheduled = p.unscheduled
  BY <1>1, ToldPlan
<1> HIDE DEF q
<1>3. Placed(q) = Placed(p) /\ \A d \in 0 .. last : On(q, d) = On(p, d)
  BY <1>1, <1>2, SamePlaces
<1>4. SameEvents(p, q)
  BY <1>2 DEF SameEvents
<1>5. GoodPlan(q, last) /\ Keeps(p, q, e)
  BY <1>2, <1>3, <1>4, Rearranged
<1> QED
  BY <1>5 DEF q

LEMMA NothingKeeps ==
  ASSUME NEW last, NEW p, GoodPlan(p, last), NEW e
  PROVE  GoodPlan(p, last) /\ Keeps(p, p, e)
  BY DEF Keeps

\* Events that are not locked may be given other times.
LEMMA RetimedKeeps ==
  ASSUME NEW last, NEW p, GoodPlan(p, last), NEW from, NEW to, NEW e,
         \A x \in DOMAIN from : IdOf(x) \notin e.locked,
         \A id \in DOMAIN from \intersect DOMAIN p.event : from[id] \in Int /\ to[id] \in Int
  PROVE  GoodPlan(Retimed(p, from, to), last) /\ Keeps(p, Retimed(p, from, to), e)
<1> DEFINE q == Retimed(p, from, to)
<1>1. Listed(p, last)
  BY DEF GoodPlan
<1>2. /\ Listed(q, last) /\ SameEvents(p, q)
      /\ q.days = p.days /\ q.conflicts = p.conflicts /\ q.unscheduled = p.unscheduled
      /\ \A id \in DOMAIN p.event \ DOMAIN from : q.event[id] = p.event[id]
  BY <1>1, RetimedPlan
<1> HIDE DEF q
<1>3. Placed(q) = Placed(p) /\ \A d \in 0 .. last : On(q, d) = On(p, d)
  BY <1>1, <1>2, SamePlaces
<1>4. \A d \in 0 .. last : \A x : IdOf(x) \in e.locked =>
        (x \in On(q, d) <=> x \in On(p, d)) /\ (x \in On(p, d) => q.event[x] = p.event[x])
  BY <1>1, <1>2, <1>3, PlacedEvents
<1>5. GoodPlan(q, last) /\ Keeps(p, q, e)
  BY <1>2, <1>3, <1>4, Rearranged
<1> QED
  BY <1>5 DEF q

LEMMA ShiftKeeps ==
  ASSUME NEW last, NEW p, GoodPlan(p, last), NEW ids, NEW delta \in Int, NEW e,
         \A x \in ids : IdOf(x) \notin e.locked
  PROVE  GoodPlan(Shift(p, ids, delta), last) /\ Keeps(p, Shift(p, ids, delta), e)
<1> DEFINE from == [id \in ids |-> p.event[id].start + delta]
           to == [id \in ids |-> p.event[id].end + delta]
<1>1. Shift(p, ids, delta) = Retimed(p, from, to)
  BY DEF Shift
<1>2. DOMAIN from = ids
  OBVIOUS
<1>3. \A id \in ids \intersect DOMAIN p.event : from[id] \in Int /\ to[id] \in Int
  BY ListedTimes DEF GoodPlan
<1> HIDE DEF from, to
<1> QED
  BY <1>1, <1>2, <1>3, RetimedKeeps

\* What is listed at some places of a day, moved as often as it is listed there.
LEMMA ShiftListedKeeps ==
  ASSUME NEW last, NEW p, GoodPlan(p, last), NEW d \in 0 .. last, NEW places,
         places \subseteq DOMAIN p.days[d], NEW delta \in Int, NEW e,
         \A k \in places : IdOf(p.days[d][k]) \notin e.locked
  PROVE  LET q == ShiftListed(p, d, places, delta)
         IN  /\ GoodPlan(q, last) /\ Keeps(p, q, e)
             /\ q.days = p.days /\ q.conflicts = p.conflicts /\ q.unscheduled = p.unscheduled
<1> DEFINE s == p.days[d]
           times(key) == Cardinality({k \in places : s[k] = key})
           keys == {s[k] : k \in places}
           from == [key \in keys |-> p.event[key].start + delta * times(key)]
           to == [key \in keys |-> p.event[key].end + delta * times(key)]
<1>0. Listed(p, last)
  BY DEF GoodPlan
<1>1. \A key : times(key) \in Int
  <2>1. s \in Seq(DOMAIN p.event)
    BY <1>0 DEF Listed
  <2>2. DOMAIN s = 1 .. Len(s) /\ Len(s) \in Nat
    BY <2>1, LenProperties
  <2>3. IsFiniteSet(1 .. Len(s))
    BY <2>2, FS_Interval
  <2> HIDE DEF s
  <2> TAKE key
  <2>4. {k \in places : s[k] = key} \subseteq 1 .. Len(s)
    BY <2>2 DEF s
  <2>5. IsFiniteSet({k \in places : s[k] = key})
    BY <2>3, <2>4, FS_Subset
  <2> QED
    BY <2>5, FS_CardinalityType
<1> HIDE DEF times
<1>2. \A key : delta * times(key) \in Int
  BY <1>1
<1>3. \A id \in keys \intersect DOMAIN p.event : from[id] \in Int /\ to[id] \in Int
  <2> HIDE DEF keys
  <2> TAKE id \in keys \intersect DOMAIN p.event
  <2>1. p.event[id].start \in Int /\ p.event[id].end \in Int
    BY <1>0, ListedTimes
  <2>2. delta * times(id) \in Int
    BY <1>2
  <2>3. from[id] = p.event[id].start + delta * times(id)
        /\ to[id] = p.event[id].end + delta * times(id)
    OBVIOUS
  <2> HIDE DEF from, to
  <2> QED
    BY <2>1, <2>2, <2>3
<1>4. ShiftListed(p, d, places, delta) = Retimed(p, from, to)
  BY DEF ShiftListed, times
<1>5. DOMAIN from = keys /\ \A x \in keys : IdOf(x) \notin e.locked
  OBVIOUS
<1> HIDE DEF from, to, keys
<1> DEFINE r == Retimed(p, from, to)
<1>6. GoodPlan(r, last) /\ Keeps(p, r, e)
  BY <1>3, <1>5, RetimedKeeps
<1>7. r.days = p.days /\ r.conflicts = p.conflicts /\ r.unscheduled = p.unscheduled
  BY <1>0, <1>3, <1>5, RetimedPlan
<1> HIDE DEF r
<1> QED
  BY <1>4, <1>6, <1>7 DEF r

\* StartLater: what moves with the first activity is not locked, nor is a meal that moves.
LEMMA PushKeeps ==
  ASSUME NEW last, NEW p, GoodPlan(p, last), NEW e, NEW d \in 0 .. last, NEW activities,
         activities \subseteq On(p, d)
  PROVE  LET q == PushMeals(p, e.locked, d, activities)
         IN  GoodPlan(q, last) /\ Keeps(p, q, e)
<1> DEFINE locked == e.locked
           busy == {p.event[id] : id \in activities}
           meals == {id \in On(p, d) : p.event[id].type = "meal"}
           hit == {id \in meals :
                    \E x \in busy : Meets(x, p.event[id].start, p.event[id].end)}
           clear(m, t) == \A x \in busy : ~Meets(x, t, t + Minutes(m))
           resumed(m) == Min({t \in {x.end : x \in busy} : t > m.start /\ clear(m, t)})
           mine == {id \in hit : IdOf(id) \notin locked}
           from == [id \in mine |-> resumed(p.event[id])]
           to == [id \in mine |-> resumed(p.event[id]) + Minutes(p.event[id])]
           pushed == Retimed(p, from, to)
           late == {id \in mine : id[2] = "lunch"
                       /\ pushed.event[id].end > At(d, Standard.lunchEnd)}
           c == pushed.conflicts
                  \union {<<"day_start_hits_locked_meal", id>> : id \in hit \ mine}
                  \union {<<"lunch_window_exceeded", id>> : id \in late}
<1>1. PushMeals(p, e.locked, d, activities) = [pushed EXCEPT !.conflicts = c]
  BY Zenon DEF PushMeals
<1>2. DOMAIN from = mine /\ \A id \in mine : id \in hit /\ IdOf(id) \notin e.locked
  OBVIOUS
<1>6. \A id \in hit : /\ resumed(p.event[id]) \in Int
                      /\ resumed(p.event[id]) + Minutes(p.event[id]) \in Int
  <2> TAKE id \in hit
  <2> DEFINE m == p.event[id]
             ends == {x.end : x \in busy}
             free == {t \in ends : t > m.start /\ clear(m, t)}
             g == [i \in activities |-> p.event[i].end]
  <2>1. Listed(p, last)
    BY DEF GoodPlan
  <2>2. /\ m.start \in Int /\ m.end \in Int
        /\ \A i \in activities : p.event[i].start \in Int /\ p.event[i].end \in Int
    BY <2>1, ListedTimes, PlacedEvents
  <2>3. IsFiniteSet(ends) /\ ends \in SUBSET Int
    <3>1. IsFiniteSet(activities)
      BY <2>1, FirstAndLast
    <3>2. {g[i] : i \in activities} = ends
      OBVIOUS
    <3>3. ends \in SUBSET Int
      BY <2>2
    <3> HIDE DEF g, ends
    <3> QED
      BY <3>1, <3>2, <3>3, ImageFinite
  <2>4. PICK y \in busy : y.start < m.end /\ y.end > m.start
    BY DEF Meets
  <2>5. \A x \in busy : x.end \in ends /\ x.end \in Int
    BY <2>2
  <2> DEFINE u == Max(ends)
  <2>6. u \in ends /\ \A t \in ends : t <= u
    <3>1. ends # {}
      BY <2>5
    <3> HIDE DEF ends
    <3> QED
      BY <2>3, <3>1, Extremes
  <2> HIDE DEF u
  <2>7. u \in Int /\ u > m.start /\ \A x \in busy : x.end <= u
    <3>1. u \in Int
      BY <2>3, <2>6
    <3>2. y.end <= u /\ \A x \in busy : x.end <= u
      BY <2>5, <2>6
    <3> QED
      BY <2>2, <2>4, <2>5, <3>1, <3>2
  <2> HIDE DEF m, busy
  <2>8. clear(m, u)
    BY <2>5, <2>7 DEF Meets
  <2>9. u \in free
    BY <2>6, <2>7, <2>8
  <2>10. free \in SUBSET Int /\ IsFiniteSet(free)
    <3>1. free \subseteq ends
      OBVIOUS
    <3> HIDE DEF free, ends
    <3> QED
      BY <2>3, <3>1, FS_Subset
  <2>11. Min(free) \in Int
    <3> HIDE DEF free
    <3> QED
      BY <2>9, <2>10, Extremes
  <2>12. resumed(m) = Min(free)
    OBVIOUS
  <2> HIDE DEF free, resumed
  <2>13. Minutes(m) \in Int
    BY <2>2 DEF Minutes, m
  <2> QED
    BY <2>11, <2>12, <2>13 DEF m
<1>7. \A id \in mine : from[id] \in Int /\ to[id] \in Int
  <2> HIDE DEF hit, resumed
  <2> QED
    BY <1>6
<1> HIDE DEF from, to, hit, mine
<1>3. GoodPlan(pushed, last) /\ Keeps(p, pushed, e)
  BY <1>2, <1>7, RetimedKeeps
<1> HIDE DEF pushed
<1>4. pushed.conflicts \subseteq c
  OBVIOUS
<1> HIDE DEF c
<1>5. LET q == [pushed EXCEPT !.conflicts = c]
      IN  GoodPlan(q, last) /\ Keeps(pushed, q, e)
  BY <1>3, <1>4, ToldKeeps
<1> QED
  BY <1>1, <1>3, <1>5, Then

LEMMA StartLaterKeeps ==
  ASSUME NEW last, NEW p, GoodPlan(p, last), NEW e, NEW d \in 0 .. last, NEW clock \in Int
  PROVE  LET q == StartLater(p, e.locked, d, clock)
         IN  GoodPlan(q, last) /\ Keeps(p, q, e)
<1> DEFINE movable == {id \in On(p, d) : p.event[id].type \in {"attraction", "transit"}}
           first == Min({p.event[id].start : id \in movable})
           inTime == first >= At(d, clock)
           follows(x) == x.type \in {"attraction", "transit"}
                            \/ (x.type = "buffer" /\ x.goesWith # None)
           affected == {k \in DOMAIN p.days[d] :
                          LET x == p.event[p.days[d][k]] IN x.start >= first /\ follows(x)}
           keys == {p.days[d][k] : k \in affected}
           held == \E x \in keys : IdOf(x) \in e.locked
           delta == At(d, clock) - first
           q == StartLater(p, e.locked, d, clock)
<1>1. q = CASE movable = {} -> Report(p, "day_start_activity_missing", d)
            [] movable # {} /\ inTime -> p
            [] movable # {} /\ ~inTime /\ held ->
                  Report(p, "day_start_hits_locked_event", d)
            [] OTHER -> PushMeals(ShiftListed(p, d, affected, delta), e.locked, d, keys)
  BY Zenon DEF StartLater
<1>6. /\ affected \subseteq DOMAIN p.days[d] /\ keys \subseteq On(p, d)
      /\ movable # {} => delta \in Int
      /\ ~held => \A k \in affected : IdOf(p.days[d][k]) \notin e.locked
  <2>1. Listed(p, last) /\ movable \subseteq On(p, d) /\ d \in Int
    BY DEF GoodPlan
  <2> HIDE DEF movable
  <2>2. At(d, clock) \in Int
    BY <2>1, Times
  <2>3. movable # {} => first \in Int
    BY <2>1, FirstAndLast
  <2> HIDE DEF first
  <2>4. movable # {} => delta \in Int
    BY <2>2, <2>3
  <2>5. affected \subseteq DOMAIN p.days[d]
    OBVIOUS
  <2> HIDE DEF affected
  <2>6. keys \subseteq On(p, d)
    BY <2>5 DEF On, ToSet
  <2> QED
    BY <2>4, <2>5, <2>6
<1> HIDE DEF q, movable, inTime, affected, delta, keys, held
<1>2. \/ q = Report(p, "day_start_activity_missing", d)
      \/ q = p
      \/ q = Report(p, "day_start_hits_locked_event", d)
      \/ /\ ~held /\ movable # {}
         /\ q = PushMeals(ShiftListed(p, d, affected, delta), e.locked, d, keys)
  <2> DEFINE r1 == Report(p, "day_start_activity_missing", d)
             r2 == Report(p, "day_start_hits_locked_event", d)
             r3 == PushMeals(ShiftListed(p, d, affected, delta), e.locked, d, keys)
  <2> HIDE DEF r1, r2, r3
  <2>1. q = CASE movable = {} -> r1
              [] movable # {} /\ inTime -> p
              [] movable # {} /\ ~inTime /\ held -> r2
              [] OTHER -> r3
    BY <1>1 DEF r1, r2, r3
  <2>2. q = r1 \/ q = p \/ q = r2
        \/ (~held /\ movable # {} /\ q = r3)
    BY <2>1
  <2> QED
    BY <2>2 DEF r1, r2, r3
<1>3. CASE q = p
  BY <1>3, NothingKeeps DEF q
<1>4. CASE \/ q = Report(p, "day_start_activity_missing", d)
           \/ q = Report(p, "day_start_hits_locked_event", d)
  BY <1>4, ReportKeeps DEF q
<1>5. CASE /\ ~held /\ movable # {}
           /\ q = PushMeals(ShiftListed(p, d, affected, delta), e.locked, d, keys)
  <2> DEFINE r == ShiftListed(p, d, affected, delta)
  <2>0. affected \subseteq DOMAIN p.days[d] /\ delta \in Int
        /\ \A k \in affected : IdOf(p.days[d][k]) \notin e.locked
    BY <1>5, <1>6
  <2>1. GoodPlan(r, last) /\ Keeps(p, r, e) /\ r.days = p.days
    BY <2>0, ShiftListedKeeps
  <2> HIDE DEF r
  <2>4. keys \subseteq On(r, d)
    BY <1>6, <2>1 DEF On
  <2>2. q = PushMeals(r, e.locked, d, keys)
    BY <1>5 DEF r
  <2>3. GoodPlan(q, last) /\ Keeps(r, q, e)
    BY <2>1, <2>2, <2>4, PushKeeps
  <2> QED
    BY <2>1, <2>3, Then DEF q
<1> QED
  BY <1>2, <1>3, <1>4, <1>5

\* Spend: neither the visit nor what moves after it is locked.
LEMMA SpendKeeps ==
  ASSUME NEW last, NEW p, GoodPlan(p, last), NEW e, NEW visit, NEW minutes \in Int
  PROVE  LET q == Spend(p, e.locked, visit, minutes)
         IN  GoodPlan(q, last) /\ Keeps(p, q, e)
<1> DEFINE locked == e.locked
           here == CHOOSE d \in DOMAIN p.days : visit \in On(p, d)
           k == CHOOSE n \in DOMAIN p.days[here] : p.days[here][n] = visit
           delta == minutes - Minutes(p.event[visit])
           later == k + 1 .. Len(p.days[here])
           stops == {n \in later : IdOf(p.days[here][n]) \in locked}
           moved == {m \in later : \A s \in stops : m < s}
           shifted == ShiftListed(p, here, moved, delta)
           from == [id \in {visit} |-> shifted.event[id].start]
           to == [id \in {visit} |-> shifted.event[id].end + delta]
           spent == Retimed(shifted, from, to)
           calm == delta = 0 \/ stops = {}
           first == IdOf(p.days[here][Min(stops)])
           r1 == Report(p, "duration_event_missing", visit)
           r2 == Report(p, "locked_event_duration", visit)
           r3 == Report(spent, "duration_hits_locked_event", first)
           q == Spend(p, e.locked, visit, minutes)
<1>1. q = CASE visit \notin Placed(p) -> r1
            [] visit \in Placed(p) /\ IdOf(visit) \in locked -> r2
            [] OTHER -> IF calm THEN spent ELSE r3
  BY Zenon DEF Spend
<1>2. ASSUME visit \in Placed(p)
      PROVE  /\ here \in 0 .. last /\ moved \subseteq DOMAIN p.days[here]
             /\ \A n \in moved : IdOf(p.days[here][n]) \notin locked
  <2>1. Listed(p, last)
    BY DEF GoodPlan
  <2>2. \E d \in DOMAIN p.days : visit \in On(p, d)
    BY <1>2, <2>1, PlacedEvents DEF Listed
  <2>3. here \in DOMAIN p.days /\ visit \in On(p, here)
    BY <2>2
  <2> HIDE DEF here
  <2>4. p.days[here] \in Seq(DOMAIN p.event)
    BY <2>1, <2>3 DEF Listed
  <2>5. Len(p.days[here]) \in Nat /\ DOMAIN p.days[here] = 1 .. Len(p.days[here])
    BY <2>4, LenProperties
  <2>6. k \in 1 .. Len(p.days[here])
    BY <2>3, <2>5 DEF On, ToSet
  <2> HIDE DEF k
  <2>7. later \subseteq Nat
    BY <2>5, <2>6
  <2>8. later \subseteq DOMAIN p.days[here]
    BY <2>5, <2>6
  <2> HIDE DEF later
  <2>9. \A n \in moved : IdOf(p.days[here][n]) \notin locked
    <3> SUFFICES ASSUME NEW n \in later, \A s \in stops : n < s, IdOf(p.days[here][n]) \in locked
                 PROVE  FALSE
      OBVIOUS
    <3>1. n \in stops
      OBVIOUS
    <3>2. n < n /\ n \in Nat
      BY <2>7, <3>1
    <3> QED
      BY <3>2
  <2> QED
    BY <2>1, <2>3, <2>8, <2>9 DEF Listed
<1>3. DOMAIN from = {visit}
  OBVIOUS
<1>9. visit \in Placed(p) => delta \in Int
  <2>1. Listed(p, last)
    BY DEF GoodPlan
  <2>2. visit \in Placed(p) => p.event[visit].start \in Int /\ p.event[visit].end \in Int
    BY <2>1, ListedTimes, PlacedEvents
  <2> QED
    BY <2>2 DEF Minutes
<1> HIDE DEF delta
<1>10. from[visit] = shifted.event[visit].start /\ to[visit] = shifted.event[visit].end + delta
  OBVIOUS
<1> HIDE DEF q, moved, from, to, calm, first, here
<1>4. ASSUME visit \in Placed(p), IdOf(visit) \notin locked
      PROVE  GoodPlan(spent, last) /\ Keeps(p, spent, e)
  <2>1. GoodPlan(shifted, last) /\ Keeps(p, shifted, e)
    BY <1>2, <1>4, <1>9, ShiftListedKeeps
  <2> HIDE DEF shifted
  <2>4. Listed(shifted, last)
    BY <2>1 DEF GoodPlan
  <2>5. \A id \in {visit} \intersect DOMAIN shifted.event : from[id] \in Int /\ to[id] \in Int
    <3> SUFFICES ASSUME visit \in DOMAIN shifted.event
                 PROVE  from[visit] \in Int /\ to[visit] \in Int
      OBVIOUS
    <3>1. shifted.event[visit].start \in Int /\ shifted.event[visit].end \in Int
      BY <2>4, ListedTimes
    <3> QED
      BY <1>4, <1>9, <1>10, <3>1 DEF shifted
  <2>2. \A x \in DOMAIN from : IdOf(x) \notin e.locked
    BY <1>3, <1>4
  <2>3. GoodPlan(spent, last) /\ Keeps(shifted, spent, e)
    BY <1>3, <2>1, <2>2, <2>5, RetimedKeeps
  <2> HIDE DEF spent
  <2> QED
    BY <2>1, <2>3, Then
<1> HIDE DEF spent
<1>5. ASSUME visit \in Placed(p), IdOf(visit) \notin locked
      PROVE  GoodPlan(r3, last) /\ Keeps(p, r3, e)
  <2>1. GoodPlan(spent, last) /\ Keeps(p, spent, e)
    BY <1>4, <1>5
  <2>2. GoodPlan(r3, last) /\ Keeps(spent, r3, e)
    BY <2>1, ReportKeeps
  <2> HIDE DEF r3
  <2> QED
    BY <2>1, <2>2, Then
<1>6. /\ GoodPlan(r1, last) /\ Keeps(p, r1, e)
      /\ GoodPlan(r2, last) /\ Keeps(p, r2, e)
  BY ReportKeeps
<1> HIDE DEF r1, r2, r3
<1>7. q = r1 \/ q = r2 \/ (visit \in Placed(p) /\ IdOf(visit) \notin locked /\ (q = spent \/ q = r3))
  BY <1>1
<1>8. GoodPlan(q, last) /\ Keeps(p, q, e)
  BY <1>4, <1>5, <1>6, <1>7
<1> QED
  BY <1>8 DEF q

\* Free time after an attraction is an event of its own for each day.
LEMMA FreeAfterIds ==
  ASSUME NEW a, NEW b, NEW d \in Nat, NEW c \in Nat, FreeAfterId(a, d) = FreeAfterId(b, c)
  PROVE  a = b /\ d = c
<1>1. FreeAfterId(a, d)[3] = a /\ FreeAfterId(b, c)[3] = b
      /\ FreeAfterId(a, d)[4] = d + 1 /\ FreeAfterId(b, c)[4] = c + 1
  BY DEF FreeAfterId
<1> QED
  BY <1>1

\* What the removal of an attraction makes of one day: r is the plan before, q after.
RemovedOn(r, q, locked, a, d, last) ==
    LET id == FreeAfterId(a, d)
    IN  /\ Listed(q, last)
        /\ DOMAIN r.event \subseteq DOMAIN q.event
        /\ DOMAIN q.event \subseteq DOMAIN r.event \union {id}
        /\ \A i \in DOMAIN r.event : /\ q.event[i].attraction = r.event[i].attraction
                                     /\ q.event[i].goesWith = r.event[i].goesWith
                                     /\ IdOf(i) \in locked => q.event[i] = r.event[i]
        /\ id \in DOMAIN q.event => q.event[id].attraction = None /\ q.event[id].goesWith = None
        /\ \A c \in 0 .. last \ {d} : q.days[c] = r.days[c]
        /\ On(q, d) \ {id} = {i \in On(r, d) : r.event[i].goesWith # a}
        /\ r.conflicts \subseteq q.conflicts /\ q.unscheduled = r.unscheduled

\* One listing moved up.
LEMMA EarlierPlan ==
  ASSUME NEW last, NEW p, Listed(p, last), NEW key, NEW gained \in Int
  PROVE  LET q == Earlier(p, key, gained)
         IN  /\ Listed(q, last) /\ SameEvents(p, q)
             /\ q.days = p.days /\ q.conflicts = p.conflicts /\ q.unscheduled = p.unscheduled
             /\ \A i \in DOMAIN p.event \ {key} : q.event[i] = p.event[i]
<1> DEFINE e == p.event[key]
           from == [x \in {key} |-> e.start - gained]
           to == [x \in {key} |-> IF DayOf(e.end) = DayOf(e.start) THEN e.end - gained ELSE e.end]
<1>1. Earlier(p, key, gained) = Retimed(p, from, to)
  BY DEF Earlier
<1>2. DOMAIN from = {key}
  OBVIOUS
<1>3. \A i \in {key} \intersect DOMAIN p.event : from[i] \in Int /\ to[i] \in Int
  <2>1. key \in DOMAIN p.event => e.start \in Int /\ e.end \in Int
    BY ListedTimes
  <2>2. from[key] = e.start - gained
        /\ to[key] = IF DayOf(e.end) = DayOf(e.start) THEN e.end - gained ELSE e.end
    OBVIOUS
  <2> HIDE DEF from, to, e
  <2> QED
    BY <2>1, <2>2
<1> HIDE DEF from, to
<1> QED
  BY <1>1, <1>2, <1>3, RetimedPlan

LEMMA RemoveOnGood ==
  ASSUME NEW last, NEW r, Listed(r, last), NEW locked, NEW a, NEW d \in 0 .. last,
         FreeAfterId(a, d) \notin DOMAIN r.event
  PROVE  RemovedOn(r, RemoveOn(r, locked, a, d), locked, a, d, last)
<1> DEFINE gone == {i \in On(r, d) : r.event[i].goesWith = a}
           kept == Without(r.days[d], gone)
           x(k) == r.event[kept[k]]
           until == Max({r.event[i].end : i \in gone})
           gained == until - Min({r.event[i].start : i \in gone})
           closes(k) == x(k).type = "buffer" /\ k < Len(kept) /\ x(k + 1).type \in Fixed
           before(k) == Cardinality({n \in 1 .. k - 1 : kept[n] = kept[k]})
           later == {k \in DOMAIN kept : /\ x(k).start >= until
                                         /\ x(k).start - gained * before(k) >= until}
           stops == {k \in later : x(k).type \in Fixed \/ IdOf(kept[k]) \in locked \/ closes(k)}
           moved == {n \in later : \A s \in stops : n < s}
           step(p, k) == IF k \in moved THEN Earlier(p, kept[k], gained) ELSE p
           base == [r EXCEPT !.days[d] = kept]
           N == Len(kept)
           is(f, n) == f = [k \in 0 .. n |-> IF k = 0 THEN base ELSE step(f[k - 1], k)]
           upTo == CHOOSE f : is(f, N)
           rest == upTo[N]
           id == FreeAfterId(a, d)
           new(k) == NewEvent("rest", x(k).start - gained, x(k).start)
           free(k) == [rest EXCEPT !.event = With(rest.event, id, new(k)),
                                   !.days[d] = InsertAt(kept, k, id)]
           first == Min(stops)
           stop == IdOf(kept[first])
           told == Report(rest, "removal_hits_locked_event", stop)
           q == RemoveOn(r, locked, a, d)
<1>1. q = CASE gone = {} -> r
            [] gone # {} /\ stops # {} /\ x(first).type \notin Fixed /\ stop \in locked -> told
            [] gone # {} /\ gained > 0 /\ stops # {} /\ x(first).type \notin Fixed
                  /\ stop \notin locked -> free(first)
            [] OTHER -> rest
  BY Zenon DEF RemoveOn, Loop
<1>2. \/ gone = {} /\ q = r
      \/ gone # {} /\ q = told
      \/ gone # {} /\ stops # {} /\ q = free(first)
      \/ gone # {} /\ q = rest
  <2> DEFINE f == free(first)
             fixed == x(first).type \notin Fixed
             held == stop \in locked
             more == gained > 0
  <2>1. q = CASE gone = {} -> r
              [] gone # {} /\ stops # {} /\ fixed /\ held -> told
              [] gone # {} /\ more /\ stops # {} /\ fixed /\ ~held -> f
              [] OTHER -> rest
    BY <1>1
  <2> HIDE DEF f, fixed, held, more, q, gone, stops, told, rest
  <2>2. \/ gone = {} /\ q = r
        \/ gone # {} /\ q = told
        \/ gone # {} /\ stops # {} /\ q = f
        \/ gone # {} /\ q = rest
    BY <2>1
  <2> QED
    BY <2>2 DEF f
<1> HIDE DEF q
<1>19. ASSUME gone = {} PROVE RemovedOn(r, r, locked, a, d, last)
  <2>1. On(r, d) \subseteq DOMAIN r.event
    BY PlacedEvents
  <2>2. On(r, d) \ {id} = {i \in On(r, d) : r.event[i].goesWith # a}
    BY <1>19, <2>1
  <2> HIDE DEF gone
  <2> QED
    BY <2>2 DEF RemovedOn
<1>21. gone # {} => until \in Int /\ gained \in Int
  <2>1. gone \subseteq On(r, d)
    OBVIOUS
  <2> DEFINE first_ == Min({r.event[i].start : i \in gone})
  <2> HIDE DEF gone
  <2>2. gone # {} => until \in Int /\ first_ \in Int
    BY <2>1, FirstAndLast
  <2>3. gained = until - first_
    OBVIOUS
  <2> HIDE DEF until, gained, first_
  <2> QED
    BY <2>2, <2>3
<1>3. r.days[d] \in Seq(DOMAIN r.event)
  BY DEF Listed
<1>4. kept \in Seq(DOMAIN r.event) /\ ToSet(kept) = On(r, d) \ gone
  <2> HIDE DEF gone
  <2> QED
    BY <1>3, WithoutSet DEF On
<1>5. ToSet(kept) = {i \in On(r, d) : r.event[i].goesWith # a}
  BY <1>4
<1> HIDE DEF gone, kept
<1>6. Len(kept) \in Nat /\ DOMAIN kept = 1 .. Len(kept)
  BY <1>4, LenProperties
<1>7. stops \subseteq 1 .. Len(kept) /\ stops \subseteq later
  BY <1>6
<1>8. \A n \in moved : n \in 1 .. Len(kept) /\ IdOf(kept[n]) \notin locked
  <2>0. \A n \in moved : n \in 1 .. Len(kept)
    BY <1>6
  <2> SUFFICES ASSUME NEW n \in later, \A s \in stops : n < s, IdOf(kept[n]) \in locked
               PROVE  FALSE
    BY <2>0
  <2>1. n \in stops
    OBVIOUS
  <2>2. n < n /\ n \in Nat
    BY <1>7, <2>1
  <2> QED
    BY <2>2
<1>9. ASSUME stops # {}
      PROVE  first \in 1 .. Len(kept) + 1 /\ first \in 1 .. Len(kept)
  <2>1. stops \in SUBSET Nat
    BY <1>6, <1>7
  <2> HIDE DEF stops
  <2>2. first \in stops
    BY <1>9, <2>1, Least
  <2> QED
    BY <1>6, <1>7, <2>2
<1>22. ASSUME gone = {} PROVE RemovedOn(r, q, locked, a, d, last)
  <2> HIDE DEF told, free, rest
  <2> QED
    BY <1>2, <1>19, <1>22
<1> SUFFICES ASSUME gone # {} PROVE RemovedOn(r, q, locked, a, d, last)
  BY <1>22 DEF q
<1>23. gained \in Int
  <2> HIDE DEF gained
  <2> QED
    BY <1>21
<1> HIDE DEF moved, stops, first, gained, until, later
<1>24. /\ DOMAIN base = {"event", "days", "conflicts", "unscheduled"}
       /\ base.event = r.event
       /\ DOMAIN base.days = 0 .. last /\ base.days[d] = kept
       /\ \A c \in 0 .. last \ {d} : base.days[c] = r.days[c]
       /\ base.conflicts = r.conflicts /\ base.unscheduled = r.unscheduled
  <2> DEFINE days == [r.days EXCEPT ![d] = kept]
  <2>1. base = [r EXCEPT !.days = days]
    OBVIOUS
  <2>2. /\ DOMAIN days = 0 .. last /\ days[d] = kept
        /\ \A c \in 0 .. last \ {d} : days[c] = r.days[c]
    BY DEF Listed
  <2>3. DOMAIN r = {"event", "days", "conflicts", "unscheduled"}
    BY DEF Listed
  <2> HIDE DEF days, base
  <2>4. /\ DOMAIN base = DOMAIN r
        /\ base.event = r.event /\ base.days = days
        /\ base.conflicts = r.conflicts /\ base.unscheduled = r.unscheduled
    BY <2>1, <2>3
  <2> QED
    BY <2>2, <2>3, <2>4
<1> HIDE DEF base
<1>25. Listed(base, last)
  BY <1>4, <1>24 DEF Listed
<1>26. N \in Nat
  BY <1>6
<1> HIDE DEF step, N
<1>27. is(upTo, N)
  <2> DEFINE T == {n \in Nat : \E f : is(f, n)}
  <2>1. is([k \in 0 .. 0 |-> base], 0)
    OBVIOUS
  <2>2. ASSUME NEW n \in Nat, NEW f, is(f, n) PROVE \E g : is(g, n + 1)
    <3>1. is([k \in 0 .. n + 1 |-> IF k = n + 1 THEN step(f[n], k) ELSE f[k]], n + 1)
      BY <2>2
    <3> HIDE DEF is
    <3> QED
      BY <3>1
  <2> HIDE DEF is
  <2>3. T \in SUBSET Nat /\ 0 \in T /\ \A n \in T : n + 1 \in T
    BY <2>1, <2>2
  <2>4. N \in T
    <3> HIDE DEF T
    <3> QED
      BY <1>26, <2>3, NatSet
  <2> QED
    BY <2>4
<1>28. upTo[0] = base /\ \A k \in 1 .. N : upTo[k] = step(upTo[k - 1], k)
  <2> HIDE DEF upTo
  <2> QED
    BY <1>26, <1>27
<1> HIDE DEF is, upTo
<1> DEFINE holds(p) ==
             /\ Listed(p, last) /\ SameEvents(base, p)
             /\ p.days = base.days /\ p.conflicts = base.conflicts
             /\ p.unscheduled = base.unscheduled
             /\ \A i \in DOMAIN base.event : IdOf(i) \in locked => p.event[i] = base.event[i]
<1>29. holds(base)
  BY <1>25 DEF SameEvents
<1>30. ASSUME NEW p, holds(p), NEW k \in 1 .. N PROVE holds(step(p, k))
  <2>1. CASE k \notin moved
    BY <1>30, <2>1 DEF step
  <2>2. CASE k \in moved
    <3> DEFINE y == Earlier(p, kept[k], gained)
    <3>1. /\ Listed(y, last) /\ SameEvents(p, y)
          /\ y.days = p.days /\ y.conflicts = p.conflicts /\ y.unscheduled = p.unscheduled
          /\ \A i \in DOMAIN p.event \ {kept[k]} : y.event[i] = p.event[i]
      BY <1>23, <1>30, EarlierPlan
    <3>2. step(p, k) = y
      BY <2>2 DEF step
    <3> HIDE DEF y
    <3>3. IdOf(kept[k]) \notin locked
      BY <1>8, <2>2
    <3>4. SameEvents(base, y)
      BY <1>30, <3>1 DEF SameEvents
    <3>5. \A i \in DOMAIN base.event : IdOf(i) \in locked => y.event[i] = base.event[i]
      BY <1>30, <3>1, <3>3 DEF SameEvents
    <3> QED
      BY <1>30, <3>1, <3>2, <3>4, <3>5
  <2> QED
    BY <2>1, <2>2
<1> HIDE DEF holds
<1>31. holds(rest)
  <2> DEFINE T == {k \in 0 .. N : holds(upTo[k])}
  <2>1. 0 \in T
    BY <1>26, <1>28, <1>29
  <2>2. ASSUME NEW k \in 0 .. N - 1, k \in T PROVE k + 1 \in T
    <3>1. k + 1 \in 1 .. N /\ k + 1 - 1 = k /\ k + 1 \in 0 .. N
      BY <1>26
    <3>2. upTo[k + 1] = step(upTo[k], k + 1)
      BY <1>28, <3>1
    <3>3. holds(step(upTo[k], k + 1))
      BY <1>30, <2>2, <3>1
    <3> QED
      BY <3>1, <3>2, <3>3
  <2> HIDE DEF T
  <2>3. \A k \in 0 .. N : k \in T
    BY <1>26, <2>1, <2>2, UpTo
  <2>4. N \in T
    BY <1>26, <2>3
  <2> QED
    BY <2>4 DEF T
<1> HIDE DEF rest
<1>11. /\ DOMAIN rest = {"event", "days", "conflicts", "unscheduled"}
       /\ DOMAIN rest.days = 0 .. last /\ rest.days[d] = kept
       /\ \A c \in 0 .. last \ {d} : rest.days[c] = r.days[c]
       /\ rest.conflicts = r.conflicts /\ rest.unscheduled = r.unscheduled
  BY <1>24, <1>31 DEF holds, Listed
<1>13. Listed(rest, last) /\ DOMAIN rest.event = DOMAIN r.event
  BY <1>24, <1>31 DEF holds, SameEvents
<1>14. \A i \in DOMAIN r.event : /\ rest.event[i].attraction = r.event[i].attraction
                                 /\ rest.event[i].goesWith = r.event[i].goesWith
                                 /\ IdOf(i) \in locked => rest.event[i] = r.event[i]
  BY <1>24, <1>31 DEF holds, SameEvents
<1>15. On(rest, d) = {i \in On(r, d) : r.event[i].goesWith # a} /\ id \notin On(rest, d)
  <2>1. On(r, d) \subseteq DOMAIN r.event
    BY PlacedEvents
  <2>2. On(rest, d) = ToSet(kept)
    BY <1>11 DEF On
  <2> HIDE DEF rest
  <2> QED
    BY <1>5, <2>1, <2>2
<1> HIDE DEF id, rest
<1>16. RemovedOn(r, rest, locked, a, d, last)
  BY <1>11, <1>13, <1>14, <1>15 DEF RemovedOn, id
<1>17. RemovedOn(r, told, locked, a, d, last)
  <2>1. told = [rest EXCEPT !.conflicts = @ \union {<<"removal_hits_locked_event", stop>>}]
    BY DEF Report
  <2> DEFINE c == rest.conflicts \union {<<"removal_hits_locked_event", stop>>}
             t == [rest EXCEPT !.conflicts = c]
  <2>2. told = t
    BY <2>1
  <2> HIDE DEF told
  <2>3. rest.conflicts \subseteq c
    OBVIOUS
  <2> HIDE DEF c
  <2>4. /\ Listed(t, last) /\ t.event = rest.event /\ t.days = rest.days
        /\ t.conflicts = c /\ t.unscheduled = rest.unscheduled
    BY <1>13, ToldPlan
  <2> HIDE DEF t
  <2>5. On(t, d) = On(rest, d)
    BY <2>4 DEF On
  <2> QED
    BY <1>11, <1>13, <1>14, <1>15, <2>2, <2>3, <2>4, <2>5 DEF RemovedOn, id
<1>18. ASSUME stops # {} PROVE RemovedOn(r, free(first), locked, a, d, last)
  <2> DEFINE e == new(first)
             event == With(rest.event, id, e)
             list == InsertAt(kept, first, id)
             days == [rest.days EXCEPT ![d] = list]
             f == free(first)
  <2>1. f = [rest EXCEPT !.event = event, !.days = days]
    OBVIOUS
  <2>2. /\ DOMAIN event = DOMAIN r.event \union {id}
        /\ event[id] = e /\ \A i \in DOMAIN r.event \ {id} : event[i] = rest.event[i]
    BY <1>11, <1>13 DEF With
  <2>3. GoodEvent(id, e) /\ e.attraction = None /\ e.goesWith = None
    <3> DEFINE u == x(first).start
    <3>1. kept[first] \in DOMAIN r.event
      BY <1>4, <1>9, <1>18, ElementOfSeq
    <3>2. u \in Int
      BY <3>1, ListedTimes
    <3>3. id # NoId
      BY IdParts DEF id
    <3>4. e = NewEvent("rest", u - gained, u)
      OBVIOUS
    <3> HIDE DEF u, e
    <3>5. u - gained \in Int
      BY <1>23, <3>2
    <3> QED
      BY <3>2, <3>3, <3>4, <3>5, NewEventGood DEF NewEvent
  <2> HIDE DEF e, event
  <2>4. kept \in Seq(DOMAIN event) /\ id \in DOMAIN event
    BY <1>4, <2>2, SeqMonotonic
  <2>5. list \in Seq(DOMAIN event) /\ ToSet(list) = ToSet(kept) \union {id}
    BY <1>9, <1>18, <2>4, Inserted
  <2> HIDE DEF list
  <2>6. /\ DOMAIN days = 0 .. last /\ days[d] = list
        /\ \A c \in 0 .. last \ {d} : days[c] = r.days[c]
    BY <1>11
  <2> HIDE DEF days, f
  <2>7. /\ DOMAIN f = {"event", "days", "conflicts", "unscheduled"}
        /\ f.event = event /\ f.days = days
        /\ f.conflicts = r.conflicts /\ f.unscheduled = r.unscheduled
    BY <1>11, <2>1
  <2>8. GoodEvents(event)
    BY <1>13, <2>2, <2>3 DEF GoodEvents, Listed
  <2>9. \A c \in 0 .. last : days[c] \in Seq(DOMAIN event)
    <3> TAKE c \in 0 .. last
    <3>1. r.days[c] \in Seq(DOMAIN r.event)
      BY DEF Listed
    <3>2. r.days[c] \in Seq(DOMAIN event)
      BY <2>2, <3>1, SeqMonotonic
    <3> QED
      BY <2>5, <2>6, <3>2
  <2>10. Listed(f, last)
    BY <2>6, <2>7, <2>8, <2>9 DEF Listed
  <2>11. id \notin DOMAIN r.event
    BY DEF id
  <2>12. On(f, d) = ToSet(kept) \union {id} /\ On(rest, d) = ToSet(kept)
    BY <1>11, <2>5, <2>6, <2>7 DEF On
  <2>13. On(f, d) \ {id} = {i \in On(r, d) : r.event[i].goesWith # a}
    BY <1>15, <2>12
  <2>14. \A i \in DOMAIN r.event : /\ f.event[i].attraction = r.event[i].attraction
                                   /\ f.event[i].goesWith = r.event[i].goesWith
                                   /\ IdOf(i) \in locked => f.event[i] = r.event[i]
    BY <1>14, <2>2, <2>7, <2>11
  <2>15. RemovedOn(r, f, locked, a, d, last)
    BY <2>2, <2>3, <2>6, <2>7, <2>10, <2>13, <2>14 DEF RemovedOn, id
  <2> QED
    BY <2>15 DEF f
<1> HIDE DEF told
<1>20. RemovedOn(r, q, locked, a, d, last)
  BY <1>2, <1>16, <1>17, <1>18
<1> QED
  BY <1>20 DEF q

LEMMA DayCount ==
  ASSUME NEW last \in Nat
  PROVE  Cardinality(0 .. last) = last + 1
<1>1. Cardinality(0 .. last) = IF 0 > last THEN 0 ELSE last - 0 + 1
  BY FS_Interval
<1> QED
  BY <1>1

LEMMA RemoveOnNothing ==
  ASSUME NEW r, NEW locked, NEW a, NEW d, \A i \in On(r, d) : r.event[i].goesWith # a
  PROVE  RemoveOn(r, locked, a, d) = r
<1> DEFINE gone == {i \in On(r, d) : r.event[i].goesWith = a}
<1>1. gone = {}
  OBVIOUS
<1> QED
  BY <1>1 DEF RemoveOn

Accompany(p, a) == {i \in Placed(p) : p.event[i].goesWith = a}

\* What the removal of an attraction from the days before day k makes of p: those days are
\* without the events that go with it, may have got free time, and the rest is as it was.
RemovedBefore(p, r, locked, a, k, last) ==
    /\ Listed(r, last)
    /\ DOMAIN p.event \subseteq DOMAIN r.event
    /\ \A i \in DOMAIN r.event \ DOMAIN p.event :
          /\ \E d \in 0 .. last : d < k /\ i = FreeAfterId(a, d)
          /\ r.event[i].attraction = None /\ r.event[i].goesWith = None
    /\ \A i \in DOMAIN p.event : /\ r.event[i].attraction = p.event[i].attraction
                                 /\ r.event[i].goesWith = p.event[i].goesWith
                                 /\ IdOf(i) \in locked => r.event[i] = p.event[i]
    /\ \A d \in 0 .. last :
          /\ d >= k => r.days[d] = p.days[d]
          /\ d < k => On(r, d) \intersect DOMAIN p.event
                        = {i \in On(p, d) : p.event[i].goesWith # a}
    /\ p.conflicts \subseteq r.conflicts /\ r.unscheduled = p.unscheduled

LEMMA RemoveNextDay ==
  ASSUME NEW last \in Nat, NEW p, GoodPlan(p, last), NEW locked, NEW a, a # None,
         Accompany(p, a) # {}, NEW k \in 0 .. last, NEW r, RemovedBefore(p, r, locked, a, k, last)
  PROVE  RemovedBefore(p, RemoveOn(r, locked, a, k), locked, a, k + 1, last)
<1> DEFINE q == RemoveOn(r, locked, a, k)
           id == FreeAfterId(a, k)
<1>1. Listed(p, last) /\ Fresh(p, last) /\ Listed(r, last)
  BY DEF GoodPlan, RemovedBefore
<1>2. id \notin DOMAIN p.event
  BY <1>1 DEF Accompany, Fresh
<1>3. id \notin DOMAIN r.event
  BY <1>2, FreeAfterIds DEF RemovedBefore
<1>4. RemovedOn(r, q, locked, a, k, last)
  BY <1>1, <1>3, RemoveOnGood
<1> HIDE DEF q
<1>5. /\ Listed(q, last) /\ DOMAIN r.event \subseteq DOMAIN q.event
      /\ DOMAIN q.event \subseteq DOMAIN r.event \union {id}
      /\ \A i \in DOMAIN r.event : /\ q.event[i].attraction = r.event[i].attraction
                                   /\ q.event[i].goesWith = r.event[i].goesWith
                                   /\ IdOf(i) \in locked => q.event[i] = r.event[i]
      /\ id \in DOMAIN q.event => q.event[id].attraction = None /\ q.event[id].goesWith = None
      /\ \A c \in 0 .. last \ {k} : q.days[c] = r.days[c]
      /\ On(q, k) \ {id} = {i \in On(r, k) : r.event[i].goesWith # a}
      /\ r.conflicts \subseteq q.conflicts /\ q.unscheduled = r.unscheduled
  BY <1>4 DEF RemovedOn
<1>6. /\ DOMAIN p.event \subseteq DOMAIN r.event
      /\ \A i \in DOMAIN r.event \ DOMAIN p.event :
            /\ \E d \in 0 .. last : d < k /\ i = FreeAfterId(a, d)
            /\ r.event[i].attraction = None /\ r.event[i].goesWith = None
      /\ \A i \in DOMAIN p.event : /\ r.event[i].attraction = p.event[i].attraction
                                   /\ r.event[i].goesWith = p.event[i].goesWith
                                   /\ IdOf(i) \in locked => r.event[i] = p.event[i]
      /\ \A d \in 0 .. last :
            /\ d >= k => r.days[d] = p.days[d]
            /\ d < k => On(r, d) \intersect DOMAIN p.event
                          = {i \in On(p, d) : p.event[i].goesWith # a}
      /\ p.conflicts \subseteq r.conflicts /\ r.unscheduled = p.unscheduled
  BY DEF RemovedBefore
<1>7. \A i \in DOMAIN q.event \ DOMAIN p.event :
        /\ \E d \in 0 .. last : d < k + 1 /\ i = FreeAfterId(a, d)
        /\ q.event[i].attraction = None /\ q.event[i].goesWith = None
  <2> TAKE i \in DOMAIN q.event \ DOMAIN p.event
  <2>1. CASE i = id
    BY <1>5, <2>1
  <2>2. CASE i # id
    <3>1. i \in DOMAIN r.event \ DOMAIN p.event
      BY <1>5, <2>2
    <3>2. PICK d \in 0 .. last : d < k /\ i = FreeAfterId(a, d)
      BY <1>6, <3>1
    <3> QED
      BY <1>5, <1>6, <3>1, <3>2
  <2> QED
    BY <2>1, <2>2
<1>8. \A i \in DOMAIN p.event : /\ q.event[i].attraction = p.event[i].attraction
                                /\ q.event[i].goesWith = p.event[i].goesWith
                                /\ IdOf(i) \in locked => q.event[i] = p.event[i]
  BY <1>5, <1>6
<1>9. \A d \in 0 .. last : d >= k + 1 => q.days[d] = p.days[d]
  BY <1>5, <1>6
<1>10. ASSUME NEW d \in 0 .. last, d < k + 1
       PROVE  On(q, d) \intersect DOMAIN p.event = {i \in On(p, d) : p.event[i].goesWith # a}
  <2>1. CASE d = k
    <3>1. On(r, k) = On(p, k) /\ On(p, k) \subseteq DOMAIN p.event
      BY <1>1, <1>6, PlacedEvents DEF On
    <3>2. id \notin On(r, k)
      BY <1>2, <3>1
    <3>3. \A i \in On(p, k) : r.event[i].goesWith = p.event[i].goesWith
      BY <1>6, <3>1
    <3>4. On(q, k) \ {id} = {i \in On(p, k) : p.event[i].goesWith # a}
      BY <1>5, <3>1, <3>3
    <3> HIDE DEF id
    <3> QED
      BY <1>2, <2>1, <3>1, <3>4
  <2>2. CASE d < k
    BY <1>5, <1>6, <2>2 DEF On
  <2> QED
    BY <1>10, <2>1, <2>2
<1>11. RemovedBefore(p, q, locked, a, k + 1, last)
  BY <1>5, <1>6, <1>7, <1>8, <1>9, <1>10 DEF RemovedBefore
<1> QED
  BY <1>11 DEF q

\* All the days.
LEMMA RemoveEventsGood ==
  ASSUME NEW last \in Nat, NEW p, GoodPlan(p, last), NEW locked, NEW a, a # None
  PROVE  LET q == RemoveEvents(p, locked, a)
         IN  IF Accompany(p, a) = {} THEN q = p
             ELSE RemovedBefore(p, q, locked, a, last + 1, last)
<1> DEFINE step(y, k) == IF k - 1 \in DOMAIN p.days THEN RemoveOn(y, locked, a, k - 1) ELSE y
           N == Cardinality(DOMAIN p.days)
           is(f, n) == f = [k \in 0 .. n |-> IF k = 0 THEN p ELSE step(f[k - 1], k)]
           upTo == CHOOSE f : is(f, N)
<1>0. DOMAIN p.days = 0 .. last /\ Cardinality(DOMAIN p.days) = last + 1
  <2>1. DOMAIN p.days = 0 .. last
    BY DEF GoodPlan, Listed
  <2> QED
    BY <2>1, DayCount
<1>1. N \in Nat
  BY <1>0
<1>2. is(upTo, N)
  <2> DEFINE T == {n \in Nat : \E f : is(f, n)}
  <2> HIDE DEF step
  <2>1. is([k \in 0 .. 0 |-> p], 0)
    OBVIOUS
  <2>2. ASSUME NEW n \in Nat, NEW f, is(f, n) PROVE \E g : is(g, n + 1)
    <3>1. is([k \in 0 .. n + 1 |-> IF k = n + 1 THEN step(f[n], k) ELSE f[k]], n + 1)
      BY <2>2
    <3> HIDE DEF is
    <3> QED
      BY <3>1
  <2> HIDE DEF is
  <2>3. T \in SUBSET Nat /\ 0 \in T /\ \A n \in T : n + 1 \in T
    BY <2>1, <2>2
  <2>4. N \in T
    <3> HIDE DEF T
    <3> QED
      BY <1>1, <2>3, NatSet
  <2> QED
    BY <2>4
<1> HIDE DEF step
<1>3. upTo[0] = p /\ \A k \in 1 .. N : upTo[k] = step(upTo[k - 1], k)
  <2> HIDE DEF upTo, N
  <2> QED
    BY <1>1, <1>2
<1>4. RemoveEvents(p, locked, a) = upTo[N]
  BY DEF RemoveEvents, ForDays, Loop, step, upTo, is, N
<1> HIDE DEF is, upTo
<1>5. \A k \in 0 .. N : IF Accompany(p, a) = {} THEN upTo[k] = p ELSE RemovedBefore(p, upTo[k], locked, a, k, last)
  <2> DEFINE holds(k) == IF Accompany(p, a) = {} THEN upTo[k] = p ELSE RemovedBefore(p, upTo[k], locked, a, k, last)
             T == {k \in 0 .. N : holds(k)}
  <2>1. holds(0)
    <3>1. upTo[0] = p
      BY <1>3
    <3>2. Listed(p, last)
      BY DEF GoodPlan
    <3> QED
      BY <3>1, <3>2 DEF RemovedBefore
  <2>2. ASSUME NEW k \in 0 .. N - 1, holds(k) PROVE holds(k + 1)
    <3>1. N = last + 1 /\ k \in 0 .. last
      BY <1>0
    <3>2. upTo[k + 1] = RemoveOn(upTo[k], locked, a, k)
      <4>1. upTo[k + 1] = step(upTo[k], k + 1)
        BY <1>1, <1>3
      <4>2. k \in DOMAIN p.days /\ k + 1 - 1 = k
        BY <1>0, <3>1
      <4> QED
        BY <4>1, <4>2 DEF step
    <3>3. CASE Accompany(p, a) = {}
      <4>1. upTo[k] = p
        BY <2>2, <3>3
      <4>2. \A i \in On(p, k) : p.event[i].goesWith # a
        BY <1>0, <3>1, <3>3 DEF Accompany, Placed
      <4> QED
        BY <3>2, <3>3, <4>1, <4>2, RemoveOnNothing
    <3>4. CASE Accompany(p, a) # {}
      <4>1. RemovedBefore(p, upTo[k], locked, a, k, last)
        BY <2>2, <3>4
      <4> QED
        BY <3>1, <3>2, <3>4, <4>1, RemoveNextDay
    <3> QED
      BY <3>3, <3>4
  <2> HIDE DEF holds
  <2>3. 0 \in T /\ \A k \in 0 .. N - 1 : k \in T => k + 1 \in T
    BY <1>1, <2>1, <2>2
  <2> HIDE DEF T
  <2>4. \A k \in 0 .. N : k \in T
    BY <1>1, <2>3, UpTo
  <2> QED
    BY <2>4 DEF T, holds
<1>6. IF Accompany(p, a) = {} THEN upTo[N] = p
      ELSE RemovedBefore(p, upTo[N], locked, a, N, last)
  BY <1>1, <1>5
<1> QED
  BY <1>0, <1>4, <1>6

LEMMA RemoveEventsKeeps ==
  ASSUME NEW last \in Nat, NEW p, GoodPlan(p, last), NEW e, NEW a \in e.removed \ e.must,
         a # None
  PROVE  LET q == RemoveEvents(p, e.locked, a)
         IN  GoodPlan(q, last) /\ Keeps(p, q, e)
<1> DEFINE q == RemoveEvents(p, e.locked, a)
<1>1. IF Accompany(p, a) = {} THEN q = p ELSE RemovedBefore(p, q, e.locked, a, last + 1, last)
  BY RemoveEventsGood
<1> HIDE DEF q
<1>2. CASE Accompany(p, a) = {}
  BY <1>1, <1>2, NothingKeeps DEF q
<1>3. CASE Accompany(p, a) # {}
  <2>1. Listed(p, last) /\ Fresh(p, last)
    BY DEF GoodPlan
  <2>2. /\ Listed(q, last) /\ DOMAIN p.event \subseteq DOMAIN q.event
        /\ \A i \in DOMAIN q.event \ DOMAIN p.event :
              /\ \E d \in 0 .. last : i = FreeAfterId(a, d)
              /\ q.event[i].attraction = None /\ q.event[i].goesWith = None
        /\ \A i \in DOMAIN p.event : /\ q.event[i].attraction = p.event[i].attraction
                                     /\ q.event[i].goesWith = p.event[i].goesWith
                                     /\ IdOf(i) \in e.locked => q.event[i] = p.event[i]
        /\ \A d \in 0 .. last : On(q, d) \intersect DOMAIN p.event
                                  = {i \in On(p, d) : p.event[i].goesWith # a}
        /\ p.conflicts \subseteq q.conflicts /\ q.unscheduled = p.unscheduled
    BY <1>1, <1>3 DEF RemovedBefore
  <2>3. /\ \A d \in 0 .. last : On(p, d) \subseteq DOMAIN p.event
        /\ \A i : i \in Placed(p) <=> \E d \in 0 .. last : i \in On(p, d)
        /\ Placed(p) \subseteq DOMAIN p.event
    BY <2>1, PlacedEvents
  <2>4. /\ \A i : i \in Placed(q) <=> \E d \in 0 .. last : i \in On(q, d)
        /\ Placed(q) \subseteq DOMAIN q.event
    BY <2>2, PlacedEvents
  <2>5. \A i \in DOMAIN p.event : i \in Placed(q) <=> i \in Placed(p) /\ p.event[i].goesWith # a
    BY <2>2, <2>3, <2>4
  <2>6. Fresh(q, last)
    <3> SUFFICES ASSUME NEW b, NEW d \in 0 .. last, b # None, FreeAfterId(b, d) \in DOMAIN q.event,
                        NEW i \in Placed(q)
                 PROVE  q.event[i].goesWith # b
      BY DEF Fresh
    <3>1. CASE i \notin DOMAIN p.event
      BY <2>2, <2>4, <3>1
    <3>2. CASE i \in DOMAIN p.event
      <4>1. i \in Placed(p) /\ p.event[i].goesWith # a /\ q.event[i].goesWith = p.event[i].goesWith
        BY <2>2, <2>5, <3>2
      <4>2. CASE FreeAfterId(b, d) \in DOMAIN p.event
        BY <2>1, <4>1, <4>2 DEF Fresh
      <4>3. CASE FreeAfterId(b, d) \notin DOMAIN p.event
        <5>1. PICK c \in 0 .. last : FreeAfterId(b, d) = FreeAfterId(a, c)
          BY <2>2, <4>3
        <5>2. b = a
          BY <5>1, FreeAfterIds
        <5> QED
          BY <4>1, <5>2
      <4> QED
        BY <4>2, <4>3
    <3> QED
      BY <3>1, <3>2
  <2>7. ASSUME NEW d \in 0 .. last, NEW x, IdOf(x) \in Held(p, e)
        PROVE  /\ x \in On(q, d) => x \in On(p, d)
               /\ x \in On(p, d) =>
                     \/ x \in On(q, d) /\ q.event[x] = p.event[x]
                     \/ p.event[x].goesWith \in e.removed /\ x \notin Placed(q)
    <3>1. x \in On(q, d) => x \in DOMAIN p.event
      <4> SUFFICES ASSUME x \in On(q, d), x \notin DOMAIN p.event PROVE FALSE
        OBVIOUS
      <4>1. x \in DOMAIN q.event \ DOMAIN p.event
        BY <2>4
      <4>2. \E c \in 0 .. last : x = FreeAfterId(a, c)
        BY <2>2, <4>1
      <4>3. IdOf(x) = x
        BY <4>2, IdsKept
      <4> QED
        BY <2>7, <4>3 DEF Held
    <3>2. IdOf(x) \in e.locked
      BY <2>7 DEF Held
    <3> QED
      BY <2>2, <2>3, <2>5, <3>1, <3>2
  <2>8. ASSUME NEW b \in Attractions(p) \ Attractions(q) PROVE b = a
    <3>1. b # None /\ \E i \in Placed(p) : p.event[i].attraction = b
      BY <2>1, AttractionsPlaced
    <3>2. PICK i \in Placed(p) : p.event[i].attraction = b
      BY <3>1
    <3>3. p.event[i].goesWith = b
      BY <2>1, <2>3, <3>1, <3>2 DEF Listed, GoodEvents, GoodEvent
    <3>4. q.event[i].attraction = b
      BY <2>2, <2>3, <3>2
    <3>5. i \notin Placed(q)
      BY <2>2, <2>8, <3>1, <3>4, AttractionsPlaced
    <3> QED
      BY <2>3, <2>5, <3>2, <3>3, <3>5
  <2>9. DOMAIN p.days = 0 .. last
    BY <2>1 DEF Listed
  <2>10. GoodPlan(q, last) /\ Keeps(p, q, e)
    BY <2>2, <2>5, <2>6, <2>7, <2>8, <2>9 DEF GoodPlan, Keeps
  <2> QED
    BY <2>10 DEF q
<1> QED
  BY <1>2, <1>3

LEMMA RemoveAttractionKeeps ==
  ASSUME NEW last \in Nat, NEW p, GoodPlan(p, last), NEW e, NEW a \in e.removed, a # None
  PROVE  LET q == RemoveAttraction(p, e, a)
         IN  GoodPlan(q, last) /\ Keeps(p, q, e)
<1> DEFINE visits == {i \in Placed(p) : p.event[i].attraction = a}
           r1 == Report(p, "must_visit_removed", a)
           r2 == Report(p, "locked_event_removed", a)
           r3 == RemoveEvents(p, e.locked, a)
           q == RemoveAttraction(p, e, a)
<1>1. q = CASE a \in e.must -> r1
            [] a \notin e.must /\ (\E v \in visits : IdOf(v) \in e.locked) -> r2
            [] OTHER -> r3
  BY Zenon DEF RemoveAttraction
<1>2. /\ GoodPlan(r1, last) /\ Keeps(p, r1, e)
      /\ GoodPlan(r2, last) /\ Keeps(p, r2, e)
  BY ReportKeeps
<1>3. ASSUME a \notin e.must PROVE GoodPlan(r3, last) /\ Keeps(p, r3, e)
  BY <1>3, RemoveEventsKeeps
<1> HIDE DEF q, r1, r2, r3, visits
<1>4. q = r1 \/ q = r2 \/ (a \notin e.must /\ q = r3)
  BY <1>1
<1>5. GoodPlan(q, last) /\ Keeps(p, q, e)
  BY <1>2, <1>3, <1>4
<1> QED
  BY <1>5 DEF q

\* The plan without the visit of an attraction.
LEMMA UnvisitedPlan ==
  ASSUME NEW last, NEW p, Listed(p, last), NEW a
  PROVE  LET q == Unvisited(p, a)
         IN  /\ Listed(q, last) /\ q.event = p.event
             /\ q.conflicts = p.conflicts /\ q.unscheduled = p.unscheduled
             /\ \A d \in 0 .. last :
                    On(q, d) = {i \in On(p, d) : p.event[i].attraction # a}
<1> DEFINE gone(d) == {i \in On(p, d) : p.event[i].attraction = a}
           days == [d \in DOMAIN p.days |-> Without(p.days[d], gone(d))]
           q == Unvisited(p, a)
<1>1. q = [p EXCEPT !.days = days]
  BY DEF Unvisited
<1>2. \A d \in 0 .. last : /\ days[d] \in Seq(DOMAIN p.event)
                           /\ ToSet(days[d]) = {i \in On(p, d) : p.event[i].attraction # a}
  <2> TAKE d \in 0 .. last
  <2>1. p.days[d] \in Seq(DOMAIN p.event) /\ days[d] = Without(p.days[d], gone(d))
    BY DEF Listed
  <2> DEFINE g == gone(d)
             s == p.days[d]
  <2>2. ToSet(s) \ g = {i \in On(p, d) : p.event[i].attraction # a}
    BY DEF On
  <2> HIDE DEF g, s
  <2>3. s \in Seq(DOMAIN p.event)
    BY <2>1 DEF s
  <2>4. Without(s, g) \in Seq(DOMAIN p.event) /\ ToSet(Without(s, g)) = ToSet(s) \ g
    BY <2>3, WithoutSet
  <2>5. days[d] = Without(s, g)
    BY <2>1 DEF s, g
  <2> HIDE DEF days
  <2> QED
    BY <2>2, <2>4, <2>5
<1>3. DOMAIN days = 0 .. last
  BY DEF Listed
<1>4. DOMAIN p = {"event", "days", "conflicts", "unscheduled"}
  BY DEF Listed
<1> HIDE DEF days, q
<1>5. /\ DOMAIN q = {"event", "days", "conflicts", "unscheduled"}
      /\ q.event = p.event /\ q.days = days
      /\ q.conflicts = p.conflicts /\ q.unscheduled = p.unscheduled
  BY <1>1, <1>4
<1>6. Listed(q, last)
  BY <1>2, <1>3, <1>5 DEF Listed
<1>7. \A d \in 0 .. last : On(q, d) = {i \in On(p, d) : p.event[i].attraction # a}
  BY <1>2, <1>5 DEF On
<1> QED
  BY <1>5, <1>6, <1>7 DEF q

\* There is one visit of an attraction.
LEMMA OneVisit ==
  ASSUME NEW last, NEW p, Listed(p, last), NEW a, a # None, NEW id \in Placed(p),
         p.event[id].attraction = a
  PROVE  id = VisitId(a)
  BY PlacedEvents DEF Listed, GoodEvents, GoodEvent

\* A visit that is not locked is moved to another day.
LEMMA MoveToKeeps ==
  ASSUME NEW last, NEW p, GoodPlan(p, last), NEW e, NEW a, a # None, NEW visit \in Placed(p),
         p.event[visit].attraction = a, IdOf(visit) \notin e.locked, NEW d \in 0 .. last,
         NEW set, GoodSettings(set)
  PROVE  LET q == MoveTo(p, set, visit, d)
         IN  GoodPlan(q, last) /\ Keeps(p, q, e)
<1> DEFINE others == Unvisited(p, a)
           list == others.days[d]
           visits == {k \in DOMAIN list : p.event[list[k]].type = "attraction"}
           at == IF visits = {} THEN At(d, set.earliestDeparture)
                 ELSE p.event[list[Max(visits)]].end + set.between
           delta == at - p.event[visit].start
           shifted == Shift(others, {visit}, delta)
           place == IF visits = {} THEN 1 ELSE Max(visits) + 1
           longer == InsertAt(list, place, visit)
           days == [shifted.days EXCEPT ![d] = longer]
           q == MoveTo(p, set, visit, d)
<1>1. q = [shifted EXCEPT !.days = days]
  BY Zenon DEF MoveTo
<1>2. Listed(p, last) /\ visit = VisitId(a) /\ visit \in DOMAIN p.event
  BY OneVisit, PlacedEvents DEF GoodPlan
<1>3. /\ Listed(others, last) /\ others.event = p.event
      /\ others.conflicts = p.conflicts /\ others.unscheduled = p.unscheduled
      /\ \A c \in 0 .. last : On(others, c) = {i \in On(p, c) : p.event[i].attraction # a}
  BY <1>2, UnvisitedPlan
<1> HIDE DEF others
<1>4. list \in Seq(DOMAIN p.event)
  BY <1>3 DEF Listed
<1>5. Len(list) \in Nat /\ DOMAIN list = 1 .. Len(list)
  BY <1>4, LenProperties
<1>6. ToSet(list) = On(others, d)
  BY DEF On
<1> HIDE DEF list
<1>7. place \in 1 .. Len(list) + 1
  <2>1. visits \in SUBSET (0 .. Len(list)) /\ visits \subseteq 1 .. Len(list)
    BY <1>5
  <2> HIDE DEF visits
  <2>2. visits # {} => Max(visits) \in visits
    BY <1>5, <2>1, Greatest
  <2> QED
    <3> DEFINE m == Max(visits)
    <3>1. visits # {} => m \in 1 .. Len(list)
      BY <2>1, <2>2
    <3> HIDE DEF m
    <3>2. visits # {} => m + 1 \in 1 .. Len(list) + 1
      BY <1>5, <3>1
    <3>3. 1 \in 1 .. Len(list) + 1
      BY <1>5
    <3>4. place = IF visits = {} THEN 1 ELSE m + 1
      BY DEF m
    <3> HIDE DEF place
    <3> QED
      BY <3>2, <3>3, <3>4
<1>23. delta \in Int
  <2> DEFINE m == Max(visits)
             u == p.event[list[m]].end
  <2>1. visits # {} => m \in 1 .. Len(list)
    <3>1. visits \in SUBSET (0 .. Len(list)) /\ visits \subseteq 1 .. Len(list)
      BY <1>5
    <3> HIDE DEF visits
    <3> QED
      BY <1>5, <3>1, Greatest
  <2>2. at = IF visits = {} THEN At(d, set.earliestDeparture) ELSE u + set.between
    OBVIOUS
  <2> HIDE DEF m, visits, at
  <2>3. visits # {} => u \in Int
    BY <1>2, <1>4, <2>1, ElementOfSeq, ListedTimes
  <2> HIDE DEF u
  <2>4. set.between \in Int /\ set.earliestDeparture \in Int /\ d \in Int
    BY DEF GoodSettings, Numbers
  <2>5. At(d, set.earliestDeparture) \in Int
    BY <2>4, Times
  <2>6. at \in Int
    BY <2>2, <2>3, <2>4, <2>5
  <2>7. p.event[visit].start \in Int
    BY <1>2, ListedTimes
  <2> QED
    BY <2>6, <2>7
<1> HIDE DEF place, at, visits
<1>8. longer \in Seq(DOMAIN p.event) /\ ToSet(longer) = ToSet(list) \union {visit}
  BY <1>2, <1>4, <1>7, Inserted
<1> HIDE DEF longer, delta
<1>9. /\ Listed(shifted, last) /\ SameEvents(others, shifted) /\ shifted.days = others.days
      /\ shifted.conflicts = others.conflicts /\ shifted.unscheduled = others.unscheduled
      /\ \A i \in DOMAIN others.event \ {visit} : shifted.event[i] = others.event[i]
  BY <1>3, <1>23, ShiftedPlan
<1> HIDE DEF shifted
<1>10. DOMAIN days = 0 .. last /\ days[d] = longer
       /\ \A c \in 0 .. last \ {d} : days[c] = others.days[c]
  BY <1>3, <1>9 DEF Listed
<1>11. DOMAIN shifted = {"event", "days", "conflicts", "unscheduled"}
  BY <1>9 DEF Listed
<1> HIDE DEF days, q
<1>12. /\ DOMAIN q = {"event", "days", "conflicts", "unscheduled"}
       /\ q.event = shifted.event /\ q.days = days
       /\ q.conflicts = p.conflicts /\ q.unscheduled = p.unscheduled
  BY <1>1, <1>3, <1>9, <1>11
<1>13. SameEvents(p, q)
  BY <1>3, <1>9, <1>12 DEF SameEvents
<1>14. Listed(q, last)
  <2>1. \A c \in 0 .. last : days[c] \in Seq(DOMAIN p.event)
    BY <1>3, <1>8, <1>10 DEF Listed
  <2>2. DOMAIN q.event = DOMAIN p.event /\ GoodEvents(q.event)
    BY <1>9, <1>12, <1>13 DEF Listed, SameEvents
  <2> QED
    BY <1>10, <1>12, <2>1, <2>2 DEF Listed
<1>15. On(q, d) = On(others, d) \union {visit}
       /\ \A c \in 0 .. last \ {d} : On(q, c) = On(others, c)
  BY <1>6, <1>8, <1>10, <1>12 DEF On
<1>16. /\ \A i : i \in Placed(p) <=> \E c \in 0 .. last : i \in On(p, c)
       /\ \A c \in 0 .. last : On(p, c) \subseteq DOMAIN p.event
  BY <1>2, PlacedEvents
<1>17. \A i : i \in Placed(q) <=> \E c \in 0 .. last : i \in On(q, c)
  BY <1>14, PlacedEvents
<1>18. \A i \in Placed(p) : i # visit => p.event[i].attraction # a
  BY <1>2, OneVisit
<1>19. \A c \in 0 .. last : \A i \in On(p, c) : i # visit => i \in On(q, c)
  BY <1>3, <1>15, <1>16, <1>18
<1>20. Placed(q) = Placed(p)
  <2>1. Placed(q) \subseteq Placed(p)
    BY <1>3, <1>15, <1>16, <1>17
  <2>2. visit \in Placed(q)
    BY <1>15, <1>17
  <2>3. Placed(p) \subseteq Placed(q)
    BY <1>16, <1>17, <1>19, <2>2
  <2> QED
    BY <2>1, <2>3
<1>21. \A c \in 0 .. last : \A x : IdOf(x) \in e.locked =>
         (x \in On(q, c) <=> x \in On(p, c)) /\ (x \in On(p, c) => q.event[x] = p.event[x])
  <2> TAKE c \in 0 .. last
  <2> SUFFICES ASSUME NEW x, IdOf(x) \in e.locked
               PROVE  /\ x \in On(q, c) <=> x \in On(p, c)
                      /\ x \in On(p, c) => q.event[x] = p.event[x]
    OBVIOUS
  <2>1. x # visit
    OBVIOUS
  <2>2. x \in On(q, c) => x \in On(p, c)
    BY <1>3, <1>15, <2>1
  <2> QED
    BY <1>3, <1>9, <1>12, <1>16, <1>19, <2>1, <2>2
<1>22. GoodPlan(q, last) /\ Keeps(p, q, e)
  BY <1>12, <1>13, <1>14, <1>20, <1>21, Rearranged
<1> QED
  BY <1>22 DEF q

\* What the listings that get events of their own share with which others.
Kin(p, kin) ==
    /\ DOMAIN kin \subseteq RideListings(p)
    /\ \A l \in DOMAIN kin :
          /\ kin[l] # {}
          /\ \A m \in kin[l] : m \in RideListings(p) /\ Key(p, m) = Key(p, l)
          /\ \A m \in RideListings(p) : Key(p, m)[2] = Key(p, l)[2] => m \in DOMAIN kin

\* Listings that come apart stay where they are, with the same events.
LEMMA SeparatedPlan ==
  ASSUME NEW last, NEW p, Listed(p, last), NEW kin, Kin(p, kin)
  PROVE  LET q == Separated(p, kin)
         IN  /\ Listed(q, last)
             /\ q.conflicts = p.conflicts /\ q.unscheduled = p.unscheduled
             /\ DOMAIN p.event \subseteq DOMAIN q.event
             /\ \A x \in DOMAIN q.event \ DOMAIN p.event : x[1] = "local"
             /\ \A x \in DOMAIN p.event : x[1] # "local" => q.event[x] = p.event[x]
             /\ \A d \in 0 .. last :
                   /\ DOMAIN q.days[d] = DOMAIN p.days[d]
                   /\ \A k \in DOMAIN p.days[d] :
                         /\ q.event[q.days[d][k]] = p.event[p.days[d][k]]
                         /\ IdOf(q.days[d][k]) = IdOf(p.days[d][k])
                         /\ <<d, k>> \notin DOMAIN kin => q.days[d][k] = p.days[d][k]
<1> DEFINE mate(l) == CHOOSE n \in kin[l] : TRUE
           own(l) == <<"local", Key(p, l)[2], mate(l)[1], mate(l)[2]>>
           copies == {own(l) : l \in DOMAIN kin}
           event == [key \in DOMAIN p.event \union copies |->
                        IF key \in copies THEN p.event[Key(p, <<key[3], key[4]>>)]
                        ELSE p.event[key]]
           list(d) == [k \in DOMAIN p.days[d] |->
                          IF <<d, k>> \in DOMAIN kin THEN own(<<d, k>>) ELSE p.days[d][k]]
           days == [d \in DOMAIN p.days |-> list(d)]
           q == Separated(p, kin)
<1>1. q = [p EXCEPT !.event = event, !.days = days]
  BY Zenon DEF Separated
<1>2. DOMAIN p = {"event", "days", "conflicts", "unscheduled"} /\ DOMAIN p.days = 0 .. last
      /\ \A d \in 0 .. last : p.days[d] \in Seq(DOMAIN p.event)
  BY DEF Listed
<1> HIDE DEF q
<1>3. /\ DOMAIN q = {"event", "days", "conflicts", "unscheduled"}
      /\ q.event = event /\ q.days = days
      /\ q.conflicts = p.conflicts /\ q.unscheduled = p.unscheduled
  <2> HIDE DEF event, days
  <2> QED
    BY <1>1, <1>2
<1>4. \A l \in RideListings(p) : /\ l = <<l[1], l[2]>> /\ l[1] \in 0 .. last
                                 /\ l[2] \in DOMAIN p.days[l[1]] /\ Key(p, l)[1] = "local"
                                 /\ Key(p, l) \in DOMAIN p.event
  <2> TAKE l \in RideListings(p)
  <2>1. PICK d \in DOMAIN p.days : l \in {d} \X DOMAIN p.days[d]
    BY DEF RideListings
  <2>2. l = <<l[1], l[2]>> /\ l[1] = d /\ l[2] \in DOMAIN p.days[d]
    BY <2>1
  <2>3. Key(p, l)[1] = "local"
    BY DEF RideListings
  <2>4. p.days[d] \in Seq(DOMAIN p.event)
    BY <1>2
  <2>5. DOMAIN p.days[d] = 1 .. Len(p.days[d])
    BY <2>4, LenProperties
  <2>6. p.days[d][l[2]] \in DOMAIN p.event
    BY <2>2, <2>4, <2>5, ElementOfSeq
  <2> QED
    BY <1>2, <2>2, <2>3, <2>6 DEF Key
<1>5. \A l \in DOMAIN kin : mate(l) \in kin[l]
  <2> TAKE l \in DOMAIN kin
  <2>1. \E n \in kin[l] : TRUE
    BY DEF Kin
  <2> QED
    BY <2>1
<1> HIDE DEF mate
<1>6. \A l \in DOMAIN kin : /\ own(l)[1] = "local" /\ own(l)[2] = Key(p, l)[2]
                            /\ Key(p, <<own(l)[3], own(l)[4]>>) = Key(p, l)
                            /\ IdOf(own(l)) = IdOf(Key(p, l)) /\ own(l) # NoId
                            /\ \A a : own(l) # VisitId(a)
  <2> TAKE l \in DOMAIN kin
  <2>1. mate(l) \in RideListings(p) /\ Key(p, mate(l)) = Key(p, l) /\ l \in RideListings(p)
    BY <1>5 DEF Kin
  <2>2. mate(l) = <<mate(l)[1], mate(l)[2]>>
    BY <1>4, <2>1
  <2>3. /\ own(l)[1] = "local" /\ own(l)[2] = Key(p, l)[2]
        /\ own(l)[3] = mate(l)[1] /\ own(l)[4] = mate(l)[2]
    OBVIOUS
  <2>4. own(l) # NoId
    BY DEF NoId
  <2>5. \A a : VisitId(a)[1] # "local"
    BY DEF VisitId
  <2> HIDE DEF own
  <2>6. Key(p, l)[1] = "local"
    BY <1>4, <2>1
  <2>7. Key(p, <<own(l)[3], own(l)[4]>>) = Key(p, l)
    BY <2>1, <2>2, <2>3
  <2>8. IdOf(own(l)) = IdOf(Key(p, l))
    BY <2>3, <2>6 DEF IdOf
  <2> QED
    BY <2>3, <2>4, <2>5, <2>7, <2>8
<1> HIDE DEF own
<1>7. /\ DOMAIN event = DOMAIN p.event \union copies
      /\ \A l \in DOMAIN kin : own(l) \in copies /\ event[own(l)] = p.event[Key(p, l)]
      /\ \A x \in DOMAIN p.event \ copies : event[x] = p.event[x]
      /\ \A x \in copies : x[1] = "local"
  BY <1>6
<1>8. \A x \in copies : GoodEvent(x, event[x])
  <2> TAKE x \in copies
  <2>1. PICK l \in DOMAIN kin : x = own(l)
    OBVIOUS
  <2> HIDE DEF event, copies
  <2>2. Key(p, l) \in DOMAIN p.event /\ Key(p, l)[1] = "local"
    BY <1>4 DEF Kin
  <2>3. GoodEvent(Key(p, l), p.event[Key(p, l)])
    BY <2>2 DEF Listed, GoodEvents
  <2>4. p.event[Key(p, l)].attraction = None
    <3>1. \A a : Key(p, l) # VisitId(a)
      BY <2>2 DEF VisitId
    <3> QED
      BY <2>3, <3>1 DEF GoodEvent
  <2>5. event[x] = p.event[Key(p, l)] /\ x # NoId
    BY <1>6, <1>7, <2>1
  <2> QED
    BY <2>3, <2>4, <2>5 DEF GoodEvent
<1>9. GoodEvents(event)
  <2> HIDE DEF event, copies
  <2> QED
    BY <1>7, <1>8 DEF GoodEvents, Listed
<1>10. ASSUME NEW d \in 0 .. last, NEW k \in DOMAIN p.days[d]
       PROVE  /\ list(d)[k] \in DOMAIN event
              /\ event[list(d)[k]] = p.event[p.days[d][k]]
              /\ IdOf(list(d)[k]) = IdOf(p.days[d][k])
              /\ <<d, k>> \notin DOMAIN kin => list(d)[k] = p.days[d][k]
  <2> DEFINE x == p.days[d][k]
             l == <<d, k>>
  <2>1. Key(p, l) = x
    BY DEF Key
  <2>2. list(d)[k] = IF l \in DOMAIN kin THEN own(l) ELSE x
    OBVIOUS
  <2>3. x \in DOMAIN p.event
    <3>1. p.days[d] \in Seq(DOMAIN p.event)
      BY <1>2
    <3>2. DOMAIN p.days[d] = 1 .. Len(p.days[d])
      BY <3>1, LenProperties
    <3> QED
      BY <3>1, <3>2, ElementOfSeq
  <2>4. x[1] = "local" => l \in RideListings(p)
    <3>1. l \in {d} \X DOMAIN p.days[d] /\ d \in DOMAIN p.days
      BY <1>2
    <3> QED
      BY <2>1, <3>1 DEF RideListings
  <2>5. l \notin DOMAIN kin => x \notin copies
    <3> SUFFICES ASSUME l \notin DOMAIN kin, NEW m \in DOMAIN kin, x = own(m) PROVE FALSE
      OBVIOUS
    <3> HIDE DEF l, x
    <3>1. x[1] = "local" /\ x[2] = Key(p, m)[2]
      BY <1>6
    <3>2. l \in RideListings(p)
      BY <2>4, <3>1
    <3> QED
      BY <2>1, <3>1, <3>2 DEF Kin
  <2> HIDE DEF event, copies, list, l, x
  <2>6. CASE l \in DOMAIN kin
    BY <1>6, <1>7, <2>1, <2>2, <2>6 DEF l, x
  <2>7. CASE l \notin DOMAIN kin
    BY <1>7, <2>2, <2>3, <2>5, <2>7 DEF l, x
  <2> QED
    BY <2>6, <2>7
<1>11. \A d \in 0 .. last : DOMAIN days[d] = DOMAIN p.days[d] /\ days[d] = list(d)
  BY <1>2
<1>12. \A d \in 0 .. last : days[d] \in Seq(DOMAIN event)
  <2> TAKE d \in 0 .. last
  <2>1. p.days[d] \in Seq(DOMAIN p.event)
    BY <1>2
  <2>2. DOMAIN p.days[d] = 1 .. Len(p.days[d]) /\ Len(p.days[d]) \in Nat
    BY <2>1, LenProperties
  <2>3. list(d) = [k \in 1 .. Len(p.days[d]) |-> list(d)[k]]
    BY <2>2
  <2> HIDE DEF event, list
  <2>4. list(d) \in [1 .. Len(p.days[d]) -> DOMAIN event]
    BY <1>10, <2>2, <2>3
  <2>5. list(d) \in Seq(DOMAIN event)
    BY <2>2, <2>4
  <2> QED
    BY <1>11, <2>5
<1>13. DOMAIN days = 0 .. last
  BY <1>2
<1> HIDE DEF event, days, list, copies
<1>14. Listed(q, last)
  BY <1>3, <1>9, <1>12, <1>13 DEF Listed
<1>15. \A d \in 0 .. last :
         /\ DOMAIN q.days[d] = DOMAIN p.days[d]
         /\ \A k \in DOMAIN p.days[d] :
               /\ q.event[q.days[d][k]] = p.event[p.days[d][k]]
               /\ IdOf(q.days[d][k]) = IdOf(p.days[d][k])
               /\ <<d, k>> \notin DOMAIN kin => q.days[d][k] = p.days[d][k]
  BY <1>3, <1>10, <1>11
<1> QED
  BY <1>3, <1>7, <1>14, <1>15 DEF q

\* What is not locked may come apart.
LEMMA SeparatedKeeps ==
  ASSUME NEW last, NEW p, GoodPlan(p, last), NEW kin, Kin(p, kin), NEW e,
         \A l \in DOMAIN kin : IdOf(Key(p, l)) \notin e.locked
  PROVE  /\ GoodPlan(Separated(p, kin), last) /\ Keeps(p, Separated(p, kin), e)
         /\ \A d \in 0 .. last : IdsOn(Separated(p, kin), d) = IdsOn(p, d)
<1> DEFINE q == Separated(p, kin)
<1>1. Listed(p, last) /\ Fresh(p, last) /\ DOMAIN p.days = 0 .. last
  BY DEF GoodPlan, Listed
<1>2. /\ Listed(q, last)
      /\ q.conflicts = p.conflicts /\ q.unscheduled = p.unscheduled
      /\ DOMAIN p.event \subseteq DOMAIN q.event
      /\ \A x \in DOMAIN q.event \ DOMAIN p.event : x[1] = "local"
      /\ \A d \in 0 .. last :
            /\ DOMAIN q.days[d] = DOMAIN p.days[d]
            /\ \A k \in DOMAIN p.days[d] :
                  /\ q.event[q.days[d][k]] = p.event[p.days[d][k]]
                  /\ IdOf(q.days[d][k]) = IdOf(p.days[d][k])
                  /\ <<d, k>> \notin DOMAIN kin => q.days[d][k] = p.days[d][k]
  BY <1>1, SeparatedPlan
<1> HIDE DEF q
<1>3. /\ \A x, d : x \in On(p, d) <=> \E k \in DOMAIN p.days[d] : x = p.days[d][k]
      /\ \A x, d : x \in On(q, d) <=> \E k \in DOMAIN q.days[d] : x = q.days[d][k]
  BY DEF On, ToSet
<1>4. /\ \A x : x \in Placed(p) <=> \E d \in 0 .. last : x \in On(p, d)
      /\ \A x : x \in Placed(q) <=> \E d \in 0 .. last : x \in On(q, d)
      /\ \A d \in 0 .. last : On(p, d) \subseteq DOMAIN p.event
  BY <1>1, <1>2, PlacedEvents
<1>5. \A x \in Placed(q) : \E y \in Placed(p) : q.event[x] = p.event[y]
  <2> TAKE x \in Placed(q)
  <2>1. PICK d \in 0 .. last : x \in On(q, d)
    BY <1>4
  <2>2. PICK k \in DOMAIN q.days[d] : x = q.days[d][k]
    BY <1>3, <2>1
  <2>3. k \in DOMAIN p.days[d] /\ q.event[x] = p.event[p.days[d][k]]
    BY <1>2, <2>2
  <2>4. p.days[d][k] \in Placed(p)
    BY <1>3, <1>4, <2>3
  <2> QED
    BY <2>3, <2>4
<1>6. \A y \in Placed(p) : \E x \in Placed(q) : q.event[x] = p.event[y]
  <2> TAKE y \in Placed(p)
  <2>1. PICK d \in 0 .. last : y \in On(p, d)
    BY <1>4
  <2>2. PICK k \in DOMAIN p.days[d] : y = p.days[d][k]
    BY <1>3, <2>1
  <2>3. k \in DOMAIN q.days[d] /\ q.event[q.days[d][k]] = p.event[y]
    BY <1>2, <2>2
  <2>4. q.days[d][k] \in Placed(q)
    BY <1>3, <1>4, <2>3
  <2> QED
    BY <2>3, <2>4
<1>7. Fresh(q, last)
  <2> SUFFICES ASSUME NEW a, NEW d \in 0 .. last, a # None, FreeAfterId(a, d) \in DOMAIN q.event,
                      NEW x \in Placed(q)
               PROVE  q.event[x].goesWith # a
    BY DEF Fresh
  <2>1. FreeAfterId(a, d)[1] # "local"
    BY DEF FreeAfterId
  <2>2. FreeAfterId(a, d) \in DOMAIN p.event
    BY <1>2, <2>1
  <2>3. PICK y \in Placed(p) : q.event[x] = p.event[y]
    BY <1>5
  <2> QED
    BY <1>1, <2>2, <2>3 DEF Fresh
<1>8. Attractions(p) \subseteq Attractions(q)
  <2> SUFFICES ASSUME NEW a \in Attractions(p) PROVE a \in Attractions(q)
    OBVIOUS
  <2>1. a # None /\ \E y \in Placed(p) : p.event[y].attraction = a
    BY <1>1, AttractionsPlaced
  <2>2. \E x \in Placed(q) : q.event[x].attraction = a
    BY <1>6, <2>1
  <2> QED
    BY <1>2, <2>1, <2>2, AttractionsPlaced
<1>9. ASSUME NEW d \in 0 .. last, NEW x, IdOf(x) \in e.locked
      PROVE  (x \in On(q, d) <=> x \in On(p, d)) /\ (x \in On(p, d) => q.event[x] = p.event[x])
  <2>1. \A k \in DOMAIN p.days[d] :
          x = q.days[d][k] \/ x = p.days[d][k] =>
             /\ q.days[d][k] = p.days[d][k]
             /\ q.event[x] = p.event[x]
    <3> SUFFICES ASSUME NEW k \in DOMAIN p.days[d], x = q.days[d][k] \/ x = p.days[d][k]
                 PROVE  q.days[d][k] = p.days[d][k] /\ q.event[x] = p.event[x]
      OBVIOUS
    <3>1. IdOf(p.days[d][k]) \in e.locked
      BY <1>2, <1>9
    <3>2. Key(p, <<d, k>>) = p.days[d][k]
      BY DEF Key
    <3>3. <<d, k>> \notin DOMAIN kin
      BY <3>1, <3>2
    <3> QED
      BY <1>2, <3>3
  <2> QED
    BY <1>2, <1>3, <2>1
<1>10. GoodPlan(q, last) /\ Keeps(p, q, e)
  BY <1>1, <1>2, <1>7, <1>8, <1>9 DEF GoodPlan, Keeps, Held
<1>11. \A d \in 0 .. last : IdsOn(q, d) = IdsOn(p, d)
  <2> TAKE d \in 0 .. last
  <2>1. \A i : i \in IdsOn(q, d) <=> \E k \in DOMAIN q.days[d] : i = IdOf(q.days[d][k])
    BY <1>3 DEF IdsOn
  <2>2. \A i : i \in IdsOn(p, d) <=> \E k \in DOMAIN p.days[d] : i = IdOf(p.days[d][k])
    BY <1>3 DEF IdsOn
  <2>0. DOMAIN q.days[d] = DOMAIN p.days[d]
        /\ \A k \in DOMAIN p.days[d] : IdOf(q.days[d][k]) = IdOf(p.days[d][k])
    BY <1>2
  <2>3. \A i : i \in IdsOn(q, d) <=> i \in IdsOn(p, d)
    BY <2>0, <2>1, <2>2
  <2>4. IdsOn(q, d) \subseteq IdsOn(p, d) /\ IdsOn(p, d) \subseteq IdsOn(q, d)
    BY <2>3
  <2> QED
    BY <2>4
<1> QED
  BY <1>10, <1>11 DEF q

\* Two days without anything locked change places.
LEMMA SwapDaysKeeps ==
  ASSUME NEW last, NEW p, GoodPlan(p, last), NEW e, NEW from \in 0 .. last, NEW to \in 0 .. last,
         \A x \in On(p, from) \union On(p, to) : IdOf(x) \notin e.locked,
         NEW there \in Int, NEW back \in Int
  PROVE  LET away == ShiftListed(p, from, DOMAIN p.days[from], there)
             here == ShiftListed(away, to, DOMAIN away.days[to], back)
             q == [here EXCEPT !.days[from] = here.days[to], !.days[to] = here.days[from]]
         IN  GoodPlan(q, last) /\ Keeps(p, q, e)
<1> DEFINE away == ShiftListed(p, from, DOMAIN p.days[from], there)
           here == ShiftListed(away, to, DOMAIN away.days[to], back)
           first == [here.days EXCEPT ![from] = here.days[to]]
           days == [first EXCEPT ![to] = here.days[from]]
           q == [here EXCEPT !.days[from] = here.days[to], !.days[to] = here.days[from]]
           r == [here EXCEPT !.days = days]
<1>1. \A d \in {from, to} : \A k \in DOMAIN p.days[d] : IdOf(p.days[d][k]) \notin e.locked
  BY DEF On, ToSet
<1>2. GoodPlan(away, last) /\ Keeps(p, away, e) /\ away.days = p.days
  <2> DEFINE all == DOMAIN p.days[from]
             moved == ShiftListed(p, from, all, there)
  <2>1. all \subseteq DOMAIN p.days[from] /\ \A k \in all : IdOf(p.days[from][k]) \notin e.locked
    BY <1>1
  <2>0. away = moved
    OBVIOUS
  <2> HIDE DEF all, away
  <2>2. GoodPlan(moved, last) /\ Keeps(p, moved, e) /\ moved.days = p.days
    BY <2>1, ShiftListedKeeps, Z3
  <2> HIDE DEF moved
  <2> QED
    BY <2>0, <2>2
<1> HIDE DEF away
<1>3. GoodPlan(here, last) /\ Keeps(away, here, e) /\ here.days = away.days
  <2> DEFINE all == DOMAIN away.days[to]
             moved == ShiftListed(away, to, all, back)
  <2>1. all \subseteq DOMAIN away.days[to] /\ \A k \in all : IdOf(away.days[to][k]) \notin e.locked
    BY <1>1, <1>2
  <2>0. here = moved
    OBVIOUS
  <2> HIDE DEF all, here
  <2>2. GoodPlan(moved, last) /\ Keeps(away, moved, e) /\ moved.days = away.days
    BY <1>2, <2>1, ShiftListedKeeps, Z3
  <2> HIDE DEF moved
  <2> QED
    BY <2>0, <2>2
<1> HIDE DEF here
<1>4. GoodPlan(here, last) /\ Keeps(p, here, e)
  BY <1>2, <1>3, Then
<1>5. Listed(here, last) /\ DOMAIN here = {"event", "days", "conflicts", "unscheduled"}
      /\ DOMAIN here.days = 0 .. last
      /\ \A d \in 0 .. last : here.days[d] \in Seq(DOMAIN here.event)
  BY <1>3 DEF GoodPlan, Listed
<1>6. q = r
  BY <1>5
<1>7. /\ DOMAIN days = 0 .. last
      /\ days[to] = here.days[from]
      /\ from # to => days[from] = here.days[to]
      /\ \A c \in 0 .. last \ {from, to} : days[c] = here.days[c]
  BY <1>5
<1> HIDE DEF days, q
<1>8. /\ DOMAIN r = {"event", "days", "conflicts", "unscheduled"}
      /\ r.event = here.event /\ r.days = days
      /\ r.conflicts = here.conflicts /\ r.unscheduled = here.unscheduled
  BY <1>5
<1> HIDE DEF r
<1>9. \A c \in 0 .. last : days[c] \in Seq(DOMAIN here.event)
  BY <1>5, <1>7
<1>10. Listed(r, last) /\ SameEvents(here, r)
  BY <1>5, <1>7, <1>8, <1>9 DEF Listed, SameEvents
<1>12. /\ On(r, to) = On(here, from)
       /\ from # to => On(r, from) = On(here, to)
       /\ \A c \in 0 .. last \ {from, to} : On(r, c) = On(here, c)
  BY <1>7, <1>8 DEF On
<1>13. /\ \A i : i \in Placed(here) <=> \E c \in 0 .. last : i \in On(here, c)
       /\ \A i : i \in Placed(r) <=> \E c \in 0 .. last : i \in On(r, c)
  BY <1>5, <1>10, PlacedEvents
<1>14. Placed(r) = Placed(here)
  <2>1. ASSUME NEW i \in Placed(r) PROVE i \in Placed(here)
    BY <1>12, <1>13
  <2>2. ASSUME NEW i \in Placed(here) PROVE i \in Placed(r)
    <3>1. PICK c \in 0 .. last : i \in On(here, c)
      BY <1>13
    <3>2. CASE c = from
      BY <1>12, <1>13, <3>1, <3>2
    <3>3. CASE c = to
      BY <1>12, <1>13, <3>1, <3>3
    <3>4. CASE c \notin {from, to}
      BY <1>12, <1>13, <3>1, <3>4
    <3> QED
      BY <3>2, <3>3, <3>4
  <2> QED
    BY <2>1, <2>2
<1>15. ASSUME NEW c \in 0 .. last, NEW x, IdOf(x) \in e.locked
       PROVE  (x \in On(r, c) <=> x \in On(here, c)) /\ r.event[x] = here.event[x]
  <2>1. On(here, from) = On(p, from) /\ On(here, to) = On(p, to)
    BY <1>2, <1>3 DEF On
  <2>2. x \notin On(here, from) /\ x \notin On(here, to)
    BY <1>15, <2>1
  <2> QED
    BY <1>8, <1>12, <2>2
<1>16. GoodPlan(r, last) /\ Keeps(here, r, e)
  BY <1>4, <1>8, <1>10, <1>14, <1>15, Rearranged
<1>17. GoodPlan(r, last) /\ Keeps(p, r, e)
  BY <1>4, <1>16, Then
<1> QED
  BY <1>6, <1>17 DEF q, here, away

LEMMA SwapsKeep ==
  ASSUME NEW last, NEW p, GoodPlan(p, last), NEW e, NEW from \in 0 .. last, NEW to \in 0 .. last,
         NEW set, NEW q \in Swaps(p, set, e.locked, from, to)
  PROVE  GoodPlan(q, last) /\ Keeps(p, q, e)
<1> DEFINE both == On(p, from) \union On(p, to)
           there == (to - from) * DayLength
           back == (from - to) * DayLength
           free == {l \in RideListings(p) : IdOf(Key(p, l)) \notin e.locked}
           together(l, m) == /\ Key(p, l) = Key(p, m)
                             /\ l[1] = m[1] \/ {l[1], m[1]} \intersect {from, to} = {}
           kin == [l \in free |-> {m \in free : together(l, m)}]
           copied == Separated(p, kin)
           away == ShiftListed(copied, from, DOMAIN copied.days[from], there)
           here == ShiftListed(away, to, DOMAIN away.days[to], back)
           swapped == [here EXCEPT !.days[from] = here.days[to], !.days[to] = here.days[from]]
           trimmed == TrimRests(swapped)
           inOrder == \A d \in {from, to} : /\ PaceViolations(trimmed.plan, set, d) = {}
                                            /\ OverlapsOn(trimmed.plan, d) = {}
           sound == /\ \A id \in both : IdOf(id) \notin e.locked /\ ~Train(p.event[id])
                    /\ \A id \in trimmed.ids : IdOf(id) \notin e.locked
                    /\ inOrder
<1>1. Swaps(p, set, e.locked, from, to) = IF sound THEN {trimmed.plan} ELSE {}
  BY Zenon DEF Swaps
<1>2. /\ \A id \in both : IdOf(id) \notin e.locked
      /\ \A id \in trimmed.ids : IdOf(id) \notin e.locked
      /\ q = trimmed.plan
  <2> HIDE DEF inOrder, trimmed, both
  <2> QED
    BY <1>1
<1>7. there \in Int /\ back \in Int
  BY DEF DayLength
<1> HIDE DEF there, back
<1>8. Kin(p, kin)
  <2>1. DOMAIN kin = free /\ \A l \in free : kin[l] = {m \in free : together(l, m)}
    OBVIOUS
  <2> HIDE DEF kin
  <2>2. \A l \in free : l \in kin[l]
    BY <2>1
  <2>3. \A l \in free : \A m \in RideListings(p) : Key(p, m)[2] = Key(p, l)[2] => m \in free
    BY DEF RideListings, IdOf
  <2> QED
    BY <2>1, <2>2, <2>3 DEF Kin
<1>9. \A l \in DOMAIN kin : IdOf(Key(p, l)) \notin e.locked
  OBVIOUS
<1> HIDE DEF kin
<1>10. /\ GoodPlan(copied, last) /\ Keeps(p, copied, e)
       /\ \A d \in 0 .. last : IdsOn(copied, d) = IdsOn(p, d)
  BY <1>8, <1>9, SeparatedKeeps
<1>11. \A x \in On(copied, from) \union On(copied, to) : IdOf(x) \notin e.locked
  <2> HIDE DEF copied
  <2>1. \A d \in {from, to} : \A x \in On(copied, d) : IdOf(x) \in IdsOn(p, d)
    BY <1>10 DEF IdsOn
  <2>2. \A d \in {from, to} : \A i \in IdsOn(p, d) : i \notin e.locked
    BY <1>2 DEF IdsOn
  <2> QED
    BY <2>1, <2>2
<1> HIDE DEF copied
<1>12. GoodPlan(swapped, last) /\ Keeps(copied, swapped, e)
  BY <1>7, <1>10, <1>11, SwapDaysKeeps
<1> HIDE DEF swapped
<1>3. GoodPlan(swapped, last) /\ Keeps(p, swapped, e)
  BY <1>10, <1>12, Then
<1> HIDE DEF swapped
<1>4. \E f, g : /\ trimmed.plan = Retimed(swapped, f, g) /\ DOMAIN f = trimmed.ids
               /\ \A id \in DOMAIN f \intersect DOMAIN swapped.event :
                     f[id] \in Int /\ g[id] \in Int
  <2> DEFINE D == DOMAIN swapped.days
             ids == UNION {TooLong(swapped, d) : d \in D}
             dayOf(id) == CHOOSE d \in D : id \in TooLong(swapped, d)
             f == [id \in ids |-> swapped.event[id].start]
             g == [id \in ids |-> Opens(swapped, dayOf(id) + 1)]
             all == [ids |-> ids, plan |-> Retimed(swapped, f, g)]
  <2>1. trimmed = all
    BY Zenon DEF TrimRests
  <2>2. DOMAIN f = ids
    OBVIOUS
  <2>4. Listed(swapped, last) /\ D = 0 .. last
    BY <1>3 DEF GoodPlan, Listed
  <2>6. \A d \in 0 .. last : On(swapped, d) # {} => Opens(swapped, d) \in Int
    BY <2>4, FirstAndLast DEF Opens
  <2>7. \A id \in ids : Opens(swapped, dayOf(id) + 1) \in Int
    <3> TAKE id \in ids
    <3>1. \E d \in D : id \in TooLong(swapped, d)
      OBVIOUS
    <3>2. id \in TooLong(swapped, dayOf(id))
      BY <3>1
    <3> HIDE DEF dayOf
    <3>3. dayOf(id) + 1 \in 0 .. last /\ On(swapped, dayOf(id) + 1) # {}
      BY <2>4, <3>2 DEF TooLong
    <3> QED
      BY <2>6, <3>3
  <2>8. \A id \in ids \intersect DOMAIN swapped.event : f[id] \in Int /\ g[id] \in Int
    <3>1. \A id \in DOMAIN swapped.event : swapped.event[id].start \in Int
      BY <2>4, ListedTimes
    <3>2. \A id \in ids : f[id] = swapped.event[id].start
                         /\ g[id] = Opens(swapped, dayOf(id) + 1)
      <4> HIDE DEF ids, dayOf
      <4> QED
        OBVIOUS
    <3> HIDE DEF f, g, ids, dayOf
    <3> QED
      BY <2>7, <3>1, <3>2
  <2> HIDE DEF f, g, ids, trimmed
  <2>3. trimmed.plan = Retimed(swapped, f, g) /\ trimmed.ids = ids
    BY <2>1
  <2> QED
    BY <2>2, <2>3, <2>8
<1>5. PICK f, g : /\ trimmed.plan = Retimed(swapped, f, g) /\ DOMAIN f = trimmed.ids
                  /\ \A id \in DOMAIN f \intersect DOMAIN swapped.event :
                        f[id] \in Int /\ g[id] \in Int
  BY <1>4
<1> HIDE DEF trimmed
<1>6. GoodPlan(q, last) /\ Keeps(swapped, q, e)
  <2>1. (\A x \in DOMAIN f : IdOf(x) \notin e.locked) /\ q = Retimed(swapped, f, g)
    BY <1>2, <1>5
  <2>2. GoodPlan(Retimed(swapped, f, g), last) /\ Keeps(swapped, Retimed(swapped, f, g), e)
    BY <1>3, <1>5, <2>1, RetimedKeeps
  <2> QED
    BY <2>1, <2>2
<1> QED
  BY <1>3, <1>6, Then

\* A visit that is not locked loses its place, which is reported.
LEMMA LeftOutKeeps ==
  ASSUME NEW last, NEW p, GoodPlan(p, last), NEW e, NEW a, a # None, VisitId(a) \notin e.locked
  PROVE  LET q == Report([Unvisited(p, a) EXCEPT !.unscheduled = @ \union {a}],
                         "forced_day_capacity", a)
         IN  GoodPlan(q, last) /\ Keeps(p, q, e)
<1> DEFINE u == Unvisited(p, a)
           w == [u EXCEPT !.unscheduled = @ \union {a}]
           left == u.unscheduled \union {a}
           v == [u EXCEPT !.unscheduled = left]
           c == v.conflicts \union {<<"forced_day_capacity", a>>}
           q == Report(w, "forced_day_capacity", a)
           r == [v EXCEPT !.conflicts = c]
<1>1. Listed(p, last)
  BY DEF GoodPlan
<1>2. /\ Listed(u, last) /\ u.event = p.event
      /\ u.conflicts = p.conflicts /\ u.unscheduled = p.unscheduled
      /\ \A d \in 0 .. last : On(u, d) = {i \in On(p, d) : p.event[i].attraction # a}
  BY <1>1, UnvisitedPlan
<1>3. DOMAIN u = {"event", "days", "conflicts", "unscheduled"}
  BY <1>2 DEF Listed
<1>4. q = r
  BY DEF Report
<1>5. p.unscheduled \subseteq left /\ a \in left
  BY <1>2
<1> HIDE DEF q, u, left
<1>6. /\ DOMAIN v = {"event", "days", "conflicts", "unscheduled"}
      /\ v.event = u.event /\ v.days = u.days
      /\ v.conflicts = u.conflicts /\ v.unscheduled = left
  BY <1>3
<1> HIDE DEF v
<1>7. p.conflicts \subseteq c /\ <<"forced_day_capacity", a>> \in c
  BY <1>2, <1>6
<1> HIDE DEF c
<1>8. /\ DOMAIN r = {"event", "days", "conflicts", "unscheduled"}
      /\ r.event = p.event /\ r.days = u.days
      /\ r.conflicts = c /\ r.unscheduled = left
  BY <1>2, <1>6
<1> HIDE DEF r
<1>9. Listed(r, last)
  BY <1>2, <1>8 DEF Listed
<1>10. \A d \in 0 .. last : On(r, d) = {i \in On(p, d) : p.event[i].attraction # a}
  BY <1>2, <1>8 DEF On
<1>11. /\ \A i : i \in Placed(p) <=> \E d \in 0 .. last : i \in On(p, d)
       /\ \A i : i \in Placed(r) <=> \E d \in 0 .. last : i \in On(r, d)
       /\ \A d \in 0 .. last : On(p, d) \subseteq DOMAIN p.event
  BY <1>1, <1>9, PlacedEvents
<1>12. Placed(r) \subseteq Placed(p)
       /\ \A i \in Placed(p) \ Placed(r) : p.event[i].attraction = a
  BY <1>10, <1>11
<1>13. ASSUME NEW d \in 0 .. last, NEW x, IdOf(x) \in e.locked
       PROVE  (x \in On(r, d) <=> x \in On(p, d)) /\ (x \in On(p, d) => r.event[x] = p.event[x])
  <2>1. x \in On(p, d) => p.event[x].attraction # a
    BY <1>1, <1>11, <1>13, IdsKept, OneVisit
  <2> QED
    BY <1>8, <1>10, <2>1
<1>14. SameEvents(p, r)
  BY <1>8 DEF SameEvents
<1>15. GoodPlan(r, last) /\ Keeps(p, r, e)
  BY <1>5, <1>7, <1>8, <1>9, <1>12, <1>13, <1>14, Rearranged
<1> QED
  BY <1>4, <1>15 DEF q, u

LEMMA ForceKeeps ==
  ASSUME NEW last, NEW p, GoodPlan(p, last), NEW set, GoodSettings(set), NEW e,
         NEW a, a # None
  PROVE  LET q == ForceVisit(p, set, e, a)
         IN  GoodPlan(q, last) /\ Keeps(p, q, e)
<1> DEFINE visits == {id \in Placed(p) : p.event[id].attraction = a}
           to == e.forced[a]
           visit == CHOOSE id \in visits : TRUE
           from == CHOOSE d \in DOMAIN p.days : visit \in On(p, d)
           swaps == Swaps(p, set, e.locked, from, to)
           lacks == LacksCapacity(p, set, visit, to)
           r1 == Report(p, "forced_attraction_missing", a)
           r3 == Report(p, "locked_event_move", a)
           r4 == Report(p, "forced_day_missing", a)
           r5 == MoveTo(p, set, visit, to)
           r6 == CHOOSE x \in swaps : TRUE
           r7 == Report([Unvisited(p, a) EXCEPT !.unscheduled = @ \union {a}],
                        "forced_day_capacity", a)
           q == ForceVisit(p, set, e, a)
<1>1. q = CASE visits = {} -> r1
            [] visits # {} /\ from = to -> p
            [] visits # {} /\ from # to /\ IdOf(visit) \in e.locked -> r3
            [] visits # {} /\ IdOf(visit) \notin e.locked /\ to \notin DOMAIN p.days -> r4
            [] OTHER -> IF ~lacks THEN r5 ELSE IF swaps # {} THEN r6 ELSE r7
  BY Zenon DEF ForceVisit
<1>2. Listed(p, last)
  BY DEF GoodPlan
<1>3. DOMAIN p.days = 0 .. last
  BY <1>2 DEF Listed
<1>4. ASSUME visits # {}
      PROVE  /\ visit \in Placed(p) /\ p.event[visit].attraction = a /\ visit = VisitId(a)
             /\ from \in 0 .. last
  <2>1. visit \in visits
    BY <1>4
  <2> HIDE DEF visit
  <2>2. visit \in Placed(p) /\ p.event[visit].attraction = a
    BY <2>1
  <2>3. visit = VisitId(a)
    BY <1>2, <2>2, OneVisit
  <2>4. \E d \in DOMAIN p.days : visit \in On(p, d)
    BY <1>2, <1>3, <2>2, PlacedEvents
  <2> QED
    BY <1>3, <2>2, <2>3, <2>4
<1>5. /\ GoodPlan(r1, last) /\ Keeps(p, r1, e)
      /\ GoodPlan(r3, last) /\ Keeps(p, r3, e)
      /\ GoodPlan(r4, last) /\ Keeps(p, r4, e)
  BY ReportKeeps
<1> HIDE DEF q, visits, to, visit, from, lacks
<1>6. ASSUME visits # {}, IdOf(visit) \notin e.locked, to \in DOMAIN p.days
      PROVE  GoodPlan(r5, last) /\ Keeps(p, r5, e)
  BY <1>3, <1>4, <1>6, MoveToKeeps
<1>7. ASSUME visits # {}, to \in DOMAIN p.days, swaps # {}
      PROVE  GoodPlan(r6, last) /\ Keeps(p, r6, e)
  <2>1. r6 \in swaps
    BY <1>7
  <2> HIDE DEF r6
  <2> QED
    BY <1>3, <1>4, <1>7, <2>1, SwapsKeep
<1>8. ASSUME visits # {}, IdOf(visit) \notin e.locked
      PROVE  GoodPlan(r7, last) /\ Keeps(p, r7, e)
  BY <1>4, <1>8, LeftOutKeeps, IdsKept
<1>9. GoodPlan(p, last) /\ Keeps(p, p, e)
  BY NothingKeeps
<1> HIDE DEF r1, r3, r4, r5, r6, r7, swaps
<1>10. \/ q \in {r1, p, r3, r4}
       \/ /\ visits # {} /\ IdOf(visit) \notin e.locked /\ to \in DOMAIN p.days
          /\ q = r5 \/ (swaps # {} /\ q = r6) \/ q = r7
  BY <1>1
<1>11. GoodPlan(q, last) /\ Keeps(p, q, e)
  BY <1>5, <1>6, <1>7, <1>8, <1>9, <1>10
<1> QED
  BY <1>11 DEF q

\* An edit changes finitely much, and gives times.
Changed == {"must", "removed", "locked", "pace", "forced", "minutes", "starts"}
GoodEdit(e) ==
    /\ DOMAIN e = Changed
    /\ IsFiniteSet(e.must) /\ IsFiniteSet(e.removed) /\ IsFiniteSet(e.locked)
    /\ IsFiniteSet(DOMAIN e.forced) /\ IsFiniteSet(DOMAIN e.minutes)
    /\ IsFiniteSet(DOMAIN e.starts)
    /\ \A a \in DOMAIN e.minutes : e.minutes[a] \in Int
    /\ \A d \in DOMAIN e.starts : e.starts[d] \in Int

\* All the edits of each kind.
LEMMA StartDaysKeep ==
  ASSUME NEW last \in Nat, NEW p, GoodPlan(p, last), NEW e, GoodEdit(e)
  PROVE  LET q == StartDays(p, e)
         IN  GoodPlan(q, last) /\ Keeps(p, q, e)
<1> DEFINE step(y, k) == IF k - 1 \in DOMAIN e.starts THEN StartLater(y, e.locked, k - 1, e.starts[k - 1]) ELSE y
           N == Cardinality(DOMAIN p.days)
           is(f, n) == f = [k \in 0 .. n |-> IF k = 0 THEN p ELSE step(f[k - 1], k)]
           upTo == CHOOSE f : is(f, N)
<1>6. N = last + 1
  <2>1. DOMAIN p.days = 0 .. last
    BY DEF GoodPlan, Listed
  <2> QED
    BY <2>1, DayCount
<1>1. N \in Nat
  BY <1>6
<1>2. is(upTo, N)
  <2> DEFINE T == {n \in Nat : \E f : is(f, n)}
  <2> HIDE DEF step
  <2>1. is([k \in 0 .. 0 |-> p], 0)
    OBVIOUS
  <2>2. ASSUME NEW n \in Nat, NEW f, is(f, n) PROVE \E g : is(g, n + 1)
    <3>1. is([k \in 0 .. n + 1 |-> IF k = n + 1 THEN step(f[n], k) ELSE f[k]], n + 1)
      BY <2>2
    <3> HIDE DEF is
    <3> QED
      BY <3>1
  <2> HIDE DEF is
  <2>3. T \in SUBSET Nat /\ 0 \in T /\ \A n \in T : n + 1 \in T
    BY <2>1, <2>2
  <2>4. N \in T
    <3> HIDE DEF T
    <3> QED
      BY <1>1, <2>3, NatSet
  <2> QED
    BY <2>4
<1> HIDE DEF step
<1>3. upTo[0] = p /\ \A k \in 1 .. N : upTo[k] = step(upTo[k - 1], k)
  <2> HIDE DEF upTo, N
  <2> QED
    BY <1>1, <1>2
<1>4. StartDays(p, e) = upTo[N]
  BY DEF StartDays, ForDays, Loop, step, upTo, is, N
<1> HIDE DEF is, upTo
<1>5. \A k \in 0 .. N : GoodPlan(upTo[k], last) /\ Keeps(p, upTo[k], e)
  <2> DEFINE holds(k) == GoodPlan(upTo[k], last) /\ Keeps(p, upTo[k], e)
             T == {k \in 0 .. N : holds(k)}
  <2>1. holds(0)
    <3>1. upTo[0] = p
      BY <1>3
    <3> QED
      BY <3>1, NothingKeeps
  <2>2. ASSUME NEW k \in 0 .. N - 1, holds(k) PROVE holds(k + 1)
    <3> DEFINE r == upTo[k]
               s == StartLater(r, e.locked, k + 1 - 1, e.starts[k + 1 - 1])
    <3>1. GoodPlan(r, last) /\ Keeps(p, r, e)
      BY <2>2
    <3>2. upTo[k + 1] = step(r, k + 1) /\ k + 1 \in 1 .. N
      BY <1>1, <1>3
    <3>3. upTo[k + 1] = r \/ (upTo[k + 1] = s /\ k + 1 - 1 \in DOMAIN e.starts)
      BY <3>2 DEF step
    <3> HIDE DEF r
    <3>4. ASSUME k + 1 - 1 \in DOMAIN e.starts PROVE GoodPlan(s, last) /\ Keeps(r, s, e)
      <4>1. k + 1 - 1 \in 0 .. last /\ e.starts[k + 1 - 1] \in Int
        BY <1>6, <3>4 DEF GoodEdit
      <4> QED
        BY <3>1, <4>1, StartLaterKeeps
    <3> HIDE DEF s
    <3>5. ASSUME upTo[k + 1] = s, k + 1 - 1 \in DOMAIN e.starts
          PROVE  GoodPlan(upTo[k + 1], last) /\ Keeps(p, upTo[k + 1], e)
      BY <3>1, <3>4, <3>5, Then
    <3> QED
      BY <3>1, <3>3, <3>5 DEF r
  <2> HIDE DEF holds
  <2>3. 0 \in T /\ \A k \in 0 .. N - 1 : k \in T => k + 1 \in T
    BY <1>1, <2>1, <2>2
  <2> HIDE DEF T
  <2>4. \A k \in 0 .. N : k \in T
    BY <1>1, <2>3, UpTo
  <2> QED
    BY <2>4 DEF T, holds
<1>7. GoodPlan(upTo[N], last) /\ Keeps(p, upTo[N], e)
  BY <1>1, <1>5
<1> QED
  BY <1>4, <1>7

LEMMA RemoveAllKeep ==
  ASSUME NEW last \in Nat, NEW p, GoodPlan(p, last), NEW e
  PROVE  LET q == RemoveAll(p, e)
         IN  GoodPlan(q, last) /\ Keeps(p, q, e)
<1> DEFINE step(y, k) == IF Names[k] \in e.removed THEN RemoveAttraction(y, e, Names[k]) ELSE y
           N == Len(Names)
           is(f, n) == f = [k \in 0 .. n |-> IF k = 0 THEN p ELSE step(f[k - 1], k)]
           upTo == CHOOSE f : is(f, N)
<1>1. N \in Nat
  BY NamesAssumption, LenProperties
<1>2. is(upTo, N)
  <2> DEFINE T == {n \in Nat : \E f : is(f, n)}
  <2> HIDE DEF step
  <2>1. is([k \in 0 .. 0 |-> p], 0)
    OBVIOUS
  <2>2. ASSUME NEW n \in Nat, NEW f, is(f, n) PROVE \E g : is(g, n + 1)
    <3>1. is([k \in 0 .. n + 1 |-> IF k = n + 1 THEN step(f[n], k) ELSE f[k]], n + 1)
      BY <2>2
    <3> HIDE DEF is
    <3> QED
      BY <3>1
  <2> HIDE DEF is
  <2>3. T \in SUBSET Nat /\ 0 \in T /\ \A n \in T : n + 1 \in T
    BY <2>1, <2>2
  <2>4. N \in T
    <3> HIDE DEF T
    <3> QED
      BY <1>1, <2>3, NatSet
  <2> QED
    BY <2>4
<1> HIDE DEF step
<1>3. upTo[0] = p /\ \A k \in 1 .. N : upTo[k] = step(upTo[k - 1], k)
  <2> HIDE DEF upTo, N
  <2> QED
    BY <1>1, <1>2
<1>4. RemoveAll(p, e) = upTo[N]
  BY DEF RemoveAll, ForEach, Loop, step, upTo, is, N
<1> HIDE DEF is, upTo
<1>5. \A k \in 0 .. N : GoodPlan(upTo[k], last) /\ Keeps(p, upTo[k], e)
  <2> DEFINE holds(k) == GoodPlan(upTo[k], last) /\ Keeps(p, upTo[k], e)
             T == {k \in 0 .. N : holds(k)}
  <2>1. holds(0)
    <3>1. upTo[0] = p
      BY <1>3
    <3> QED
      BY <3>1, NothingKeeps
  <2>2. ASSUME NEW k \in 0 .. N - 1, holds(k) PROVE holds(k + 1)
    <3> DEFINE r == upTo[k]
               s == RemoveAttraction(r, e, Names[k + 1])
    <3>1. GoodPlan(r, last) /\ Keeps(p, r, e)
      BY <2>2
    <3>2. upTo[k + 1] = step(r, k + 1) /\ k + 1 \in 1 .. N
      BY <1>1, <1>3
    <3>3. upTo[k + 1] = r \/ (upTo[k + 1] = s /\ Names[k + 1] \in e.removed)
      BY <3>2 DEF step
    <3> HIDE DEF r
    <3>4. ASSUME Names[k + 1] \in e.removed PROVE GoodPlan(s, last) /\ Keeps(r, s, e)
      <4>1. Names[k + 1] # None
        BY <3>2, NamesAssumption, ElementOfSeq
      <4> QED
        BY <3>1, <3>4, <4>1, RemoveAttractionKeeps
    <3> HIDE DEF s
    <3>5. ASSUME upTo[k + 1] = s, Names[k + 1] \in e.removed
          PROVE  GoodPlan(upTo[k + 1], last) /\ Keeps(p, upTo[k + 1], e)
      BY <3>1, <3>4, <3>5, Then
    <3> QED
      BY <3>1, <3>3, <3>5 DEF r
  <2> HIDE DEF holds
  <2>3. 0 \in T /\ \A k \in 0 .. N - 1 : k \in T => k + 1 \in T
    BY <1>1, <2>1, <2>2
  <2> HIDE DEF T
  <2>4. \A k \in 0 .. N : k \in T
    BY <1>1, <2>3, UpTo
  <2> QED
    BY <2>4 DEF T, holds
<1>6. GoodPlan(upTo[N], last) /\ Keeps(p, upTo[N], e)
  BY <1>1, <1>5
<1> QED
  BY <1>4, <1>6

LEMMA ForceAllKeep ==
  ASSUME NEW last \in Nat, NEW p, GoodPlan(p, last), NEW e, NEW set, GoodSettings(set)
  PROVE  LET q == ForceAll(p, set, e)
         IN  GoodPlan(q, last) /\ Keeps(p, q, e)
<1> DEFINE step(y, k) == IF Names[k] \in DOMAIN e.forced THEN ForceVisit(y, set, e, Names[k]) ELSE y
           N == Len(Names)
           is(f, n) == f = [k \in 0 .. n |-> IF k = 0 THEN p ELSE step(f[k - 1], k)]
           upTo == CHOOSE f : is(f, N)
<1>1. N \in Nat
  BY NamesAssumption, LenProperties
<1>2. is(upTo, N)
  <2> DEFINE T == {n \in Nat : \E f : is(f, n)}
  <2> HIDE DEF step
  <2>1. is([k \in 0 .. 0 |-> p], 0)
    OBVIOUS
  <2>2. ASSUME NEW n \in Nat, NEW f, is(f, n) PROVE \E g : is(g, n + 1)
    <3>1. is([k \in 0 .. n + 1 |-> IF k = n + 1 THEN step(f[n], k) ELSE f[k]], n + 1)
      BY <2>2
    <3> HIDE DEF is
    <3> QED
      BY <3>1
  <2> HIDE DEF is
  <2>3. T \in SUBSET Nat /\ 0 \in T /\ \A n \in T : n + 1 \in T
    BY <2>1, <2>2
  <2>4. N \in T
    <3> HIDE DEF T
    <3> QED
      BY <1>1, <2>3, NatSet
  <2> QED
    BY <2>4
<1> HIDE DEF step
<1>3. upTo[0] = p /\ \A k \in 1 .. N : upTo[k] = step(upTo[k - 1], k)
  <2> HIDE DEF upTo, N
  <2> QED
    BY <1>1, <1>2
<1>4. ForceAll(p, set, e) = upTo[N]
  BY DEF ForceAll, ForEach, Loop, step, upTo, is, N
<1> HIDE DEF is, upTo
<1>5. \A k \in 0 .. N : GoodPlan(upTo[k], last) /\ Keeps(p, upTo[k], e)
  <2> DEFINE holds(k) == GoodPlan(upTo[k], last) /\ Keeps(p, upTo[k], e)
             T == {k \in 0 .. N : holds(k)}
  <2>1. holds(0)
    <3>1. upTo[0] = p
      BY <1>3
    <3> QED
      BY <3>1, NothingKeeps
  <2>2. ASSUME NEW k \in 0 .. N - 1, holds(k) PROVE holds(k + 1)
    <3> DEFINE r == upTo[k]
               s == ForceVisit(r, set, e, Names[k + 1])
    <3>1. GoodPlan(r, last) /\ Keeps(p, r, e)
      BY <2>2
    <3>2. upTo[k + 1] = step(r, k + 1) /\ k + 1 \in 1 .. N
      BY <1>1, <1>3
    <3>3. upTo[k + 1] = r \/ (upTo[k + 1] = s /\ Names[k + 1] \in DOMAIN e.forced)
      BY <3>2 DEF step
    <3> HIDE DEF r
    <3>4. ASSUME Names[k + 1] \in DOMAIN e.forced PROVE GoodPlan(s, last) /\ Keeps(r, s, e)
      <4>1. Names[k + 1] # None
        BY <3>2, NamesAssumption, ElementOfSeq
      <4> QED
        BY <3>1, <4>1, ForceKeeps
    <3> HIDE DEF s
    <3>5. ASSUME upTo[k + 1] = s, Names[k + 1] \in DOMAIN e.forced
          PROVE  GoodPlan(upTo[k + 1], last) /\ Keeps(p, upTo[k + 1], e)
      BY <3>1, <3>4, <3>5, Then
    <3> QED
      BY <3>1, <3>3, <3>5 DEF r
  <2> HIDE DEF holds
  <2>3. 0 \in T /\ \A k \in 0 .. N - 1 : k \in T => k + 1 \in T
    BY <1>1, <2>1, <2>2
  <2> HIDE DEF T
  <2>4. \A k \in 0 .. N : k \in T
    BY <1>1, <2>3, UpTo
  <2> QED
    BY <2>4 DEF T, holds
<1>6. GoodPlan(upTo[N], last) /\ Keeps(p, upTo[N], e)
  BY <1>1, <1>5
<1> QED
  BY <1>4, <1>6

LEMMA SpendAllKeep ==
  ASSUME NEW last \in Nat, NEW p, GoodPlan(p, last), NEW e, GoodEdit(e)
  PROVE  LET q == SpendAll(p, e)
         IN  GoodPlan(q, last) /\ Keeps(p, q, e)
<1> DEFINE step(y, k) == IF Names[k] \in DOMAIN e.minutes THEN Spend(y, e.locked, VisitId(Names[k]), e.minutes[Names[k]]) ELSE y
           N == Len(Names)
           is(f, n) == f = [k \in 0 .. n |-> IF k = 0 THEN p ELSE step(f[k - 1], k)]
           upTo == CHOOSE f : is(f, N)
<1>1. N \in Nat
  BY NamesAssumption, LenProperties
<1>2. is(upTo, N)
  <2> DEFINE T == {n \in Nat : \E f : is(f, n)}
  <2> HIDE DEF step
  <2>1. is([k \in 0 .. 0 |-> p], 0)
    OBVIOUS
  <2>2. ASSUME NEW n \in Nat, NEW f, is(f, n) PROVE \E g : is(g, n + 1)
    <3>1. is([k \in 0 .. n + 1 |-> IF k = n + 1 THEN step(f[n], k) ELSE f[k]], n + 1)
      BY <2>2
    <3> HIDE DEF is
    <3> QED
      BY <3>1
  <2> HIDE DEF is
  <2>3. T \in SUBSET Nat /\ 0 \in T /\ \A n \in T : n + 1 \in T
    BY <2>1, <2>2
  <2>4. N \in T
    <3> HIDE DEF T
    <3> QED
      BY <1>1, <2>3, NatSet
  <2> QED
    BY <2>4
<1> HIDE DEF step
<1>3. upTo[0] = p /\ \A k \in 1 .. N : upTo[k] = step(upTo[k - 1], k)
  <2> HIDE DEF upTo, N
  <2> QED
    BY <1>1, <1>2
<1>4. SpendAll(p, e) = upTo[N]
  BY DEF SpendAll, ForEach, Loop, step, upTo, is, N
<1> HIDE DEF is, upTo
<1>5. \A k \in 0 .. N : GoodPlan(upTo[k], last) /\ Keeps(p, upTo[k], e)
  <2> DEFINE holds(k) == GoodPlan(upTo[k], last) /\ Keeps(p, upTo[k], e)
             T == {k \in 0 .. N : holds(k)}
  <2>1. holds(0)
    <3>1. upTo[0] = p
      BY <1>3
    <3> QED
      BY <3>1, NothingKeeps
  <2>2. ASSUME NEW k \in 0 .. N - 1, holds(k) PROVE holds(k + 1)
    <3> DEFINE r == upTo[k]
               s == Spend(r, e.locked, VisitId(Names[k + 1]), e.minutes[Names[k + 1]])
    <3>1. GoodPlan(r, last) /\ Keeps(p, r, e)
      BY <2>2
    <3>2. upTo[k + 1] = step(r, k + 1) /\ k + 1 \in 1 .. N
      BY <1>1, <1>3
    <3>3. upTo[k + 1] = r \/ (upTo[k + 1] = s /\ Names[k + 1] \in DOMAIN e.minutes)
      BY <3>2 DEF step
    <3> HIDE DEF r
    <3>4. ASSUME Names[k + 1] \in DOMAIN e.minutes PROVE GoodPlan(s, last) /\ Keeps(r, s, e)
      <4>1. e.minutes[Names[k + 1]] \in Int
        BY <3>4 DEF GoodEdit
      <4> QED
        BY <3>1, <4>1, SpendKeeps
    <3> HIDE DEF s
    <3>5. ASSUME upTo[k + 1] = s, Names[k + 1] \in DOMAIN e.minutes
          PROVE  GoodPlan(upTo[k + 1], last) /\ Keeps(p, upTo[k + 1], e)
      BY <3>1, <3>4, <3>5, Then
    <3> QED
      BY <3>1, <3>3, <3>5 DEF r
  <2> HIDE DEF holds
  <2>3. 0 \in T /\ \A k \in 0 .. N - 1 : k \in T => k + 1 \in T
    BY <1>1, <2>1, <2>2
  <2> HIDE DEF T
  <2>4. \A k \in 0 .. N : k \in T
    BY <1>1, <2>3, UpTo
  <2> QED
    BY <2>4 DEF T, holds
<1>6. GoodPlan(upTo[N], last) /\ Keeps(p, upTo[N], e)
  BY <1>1, <1>5
<1> QED
  BY <1>4, <1>6

-----------------------------------------------------------------------------
(* The whole edit, and the steps of the planner.                             *)

\* The plan r is the plan p with the events of some ids put back where they were last
\* listed; what else is listed is as it was.
PutBack(p, r, done, last) ==
    /\ Listed(r, last)
    /\ DOMAIN r.event = DOMAIN p.event \union done
    /\ \A x \in DOMAIN p.event \ done : r.event[x] = p.event[x]
    /\ \A d \in 0 .. last : \A x : IdOf(x) \notin done => (x \in On(r, d) <=> x \in On(p, d))
    /\ \A id \in done :
          /\ id \in On(r, LastListing(p, id).day)
          /\ r.event[id] = LastListing(p, id).event
          /\ \A d \in 0 .. last : \A x \in On(r, d) :
                IdOf(x) = id => x = id /\ d = LastListing(p, id).day

\* The plan an edit starts from, without what the last edit reported.
Anew(p, c) == [event |-> p.event, days |-> p.days, unscheduled |-> {}, conflicts |-> c]

LEMMA AnewGood ==
  ASSUME NEW last, NEW p, GoodPlan(p, last), NEW c
  PROVE  /\ GoodPlan(Anew(p, c), last)
         /\ PutBack(p, Anew(p, c), {}, last)
<1> DEFINE q == Anew(p, c)
<1>1. /\ DOMAIN q = {"event", "days", "conflicts", "unscheduled"}
      /\ q.event = p.event /\ q.days = p.days
  BY DEF Anew
<1> HIDE DEF q
<1>2. Listed(q, last)
  BY <1>1 DEF GoodPlan, Listed
<1>3. Placed(q) = Placed(p)
  BY <1>1, <1>2, SamePlaces DEF GoodPlan
<1>4. Fresh(q, last)
  BY <1>1, <1>3 DEF GoodPlan, Fresh
<1>5. \A d : On(q, d) = On(p, d)
  BY <1>1 DEF On
<1>6. PutBack(p, q, {}, last)
  BY <1>1, <1>2, <1>5 DEF PutBack
<1> QED
  BY <1>1, <1>2, <1>4, <1>5, <1>6 DEF GoodPlan, q

\* The restoring of what is locked.

\* A finite set in some order has all its members.
LEMMA SetToSeqAll ==
  ASSUME NEW S, IsFiniteSet(S)
  PROVE  SetToSeq(S) \in Seq(S) /\ ToSet(SetToSeq(S)) = S
<1> DEFINE n == Cardinality(S)
           f == SetToSeq(S)
<1>1. n \in Nat /\ ExistsBijection(1 .. n, S)
  BY FS_CardinalityType
<1>2. \E g \in [1 .. n -> S] : IsInjective(g)
  BY <1>1 DEF ExistsBijection, Bijection, Injection
<1>3. f \in [1 .. n -> S] /\ IsInjective(f)
  BY <1>2 DEF SetToSeq
<1>4. f \in Injection(1 .. n, S)
  BY <1>3 DEF Injection, IsInjective
<1>5. Cardinality(1 .. n) = n
  <2>1. Cardinality(1 .. n) = IF 1 > n THEN 0 ELSE n - 1 + 1
    BY <1>1, FS_Interval
  <2> HIDE DEF n
  <2> QED
    BY <1>1, <2>1
<1>6. f \in Surjection(1 .. n, S)
  <2> HIDE DEF f
  <2>1. Cardinality(1 .. n) = Cardinality(S) <=> f \in Surjection(1 .. n, S)
    BY <1>4, FS_Injection
  <2> QED
    BY <1>5, <2>1
<1>7. f \in Seq(S) /\ DOMAIN f = 1 .. n
  BY <1>1, <1>3
<1> HIDE DEF f, n
<1>8. \A x \in S : \E i \in 1 .. n : f[i] = x
  BY <1>6 DEF Surjection
<1>9. \A i \in 1 .. n : f[i] \in S
  BY <1>3
<1>10. ToSet(f) = S
  BY <1>7, <1>8, <1>9 DEF ToSet
<1> QED
  BY <1>7, <1>10 DEF f

\* Where an event was last listed it had this id.
LEMMA LastListed ==
  ASSUME NEW last \in Nat, NEW p, Listed(p, last), NEW id \in IdsPlaced(p)
  PROVE  LET was == LastListing(p, id)
         IN  /\ was.day \in 0 .. last /\ was.at \in Nat \ {0}
             /\ \E key \in On(p, was.day) : IdOf(key) = id /\ was.event = p.event[key]
<1> DEFINE D == {d \in DOMAIN p.days : id \in IdsOn(p, d)}
           day == Max(D)
           K == {k \in DOMAIN p.days[day] : IdOf(p.days[day][k]) = id}
           at == Max(K)
           rec == [day |-> day, at |-> at, event |-> p.event[p.days[day][at]]]
<1>1. LastListing(p, id) = rec
  BY Zenon DEF LastListing
<1>2. DOMAIN p.days = 0 .. last /\ \A d \in 0 .. last : p.days[d] \in Seq(DOMAIN p.event)
  BY DEF Listed
<1>3. D # {} /\ D \in SUBSET (0 .. last)
  BY <1>2 DEF IdsPlaced
<1> HIDE DEF D
<1>4. day \in D
  BY <1>3, Greatest
<1>5. day \in 0 .. last /\ id \in IdsOn(p, day)
  BY <1>3, <1>4 DEF D
<1> HIDE DEF day
<1> DEFINE n == Len(p.days[day])
<1>6. n \in Nat /\ DOMAIN p.days[day] = 1 .. n
  BY <1>2, <1>5, LenProperties
<1>7. K # {}
  BY <1>5 DEF IdsOn, On, ToSet
<1>8. K \in SUBSET (0 .. n)
  <2> HIDE DEF n
  <2> QED
    BY <1>6
<1> HIDE DEF K, n
<1>9. at \in K
  BY <1>6, <1>7, <1>8, Greatest
<1>10. at \in DOMAIN p.days[day] /\ IdOf(p.days[day][at]) = id
  BY <1>9 DEF K
<1> HIDE DEF at
<1>11. at \in Nat \ {0} /\ p.days[day][at] \in On(p, day)
  BY <1>6, <1>10 DEF On, ToSet
<1>12. rec.day = day /\ rec.at = at /\ rec.event = p.event[p.days[day][at]]
  OBVIOUS
<1> HIDE DEF rec
<1> QED
  BY <1>1, <1>5, <1>10, <1>11, <1>12

LEMMA RestoredPlan ==
  ASSUME NEW last \in Nat, NEW p, Listed(p, last), NEW done, done \subseteq IdsPlaced(p),
         NEW r, PutBack(p, r, done, last), NEW id \in IdsPlaced(p)
  PROVE  PutBack(p, Restored(r, p, id), done \union {id}, last)
<1> DEFINE was == LastListing(p, id)
           gone(d) == {x \in On(r, d) : IdOf(x) = id}
           off == [d \in DOMAIN r.days |-> Without(r.days[d], gone(d))]
           at == Min({was.at, Len(off[was.day]) + 1})
           list == InsertAt(off[was.day], at, id)
           days == [off EXCEPT ![was.day] = list]
           event == With(r.event, id, was.event)
           q == Restored(r, p, id)
<1>1. q = [r EXCEPT !.event = event, !.days = days]
  BY Zenon DEF Restored
<1>2. /\ Listed(r, last) /\ DOMAIN r = {"event", "days", "conflicts", "unscheduled"}
      /\ DOMAIN r.days = 0 .. last /\ \A d \in 0 .. last : r.days[d] \in Seq(DOMAIN r.event)
      /\ DOMAIN r.event = DOMAIN p.event \union done
  BY DEF PutBack, Listed
<1>3. was.day \in 0 .. last /\ was.at \in Nat \ {0}
  BY LastListed
<1>4. PICK key \in On(p, was.day) : IdOf(key) = id /\ was.event = p.event[key]
  BY LastListed
<1>5. key \in DOMAIN p.event /\ GoodEvent(key, p.event[key])
  BY <1>3, PlacedEvents DEF Listed, GoodEvents
<1>6. GoodEvent(id, was.event) /\ IdOf(id) = id
  <2>1. CASE key[1] # "local"
    BY <1>4, <1>5, <2>1, IdsKept
  <2>2. CASE key[1] = "local"
    <3>1. p.event[key].attraction = None
      <4>1. \A a : VisitId(a)[1] # "local"
        BY DEF VisitId
      <4> QED
        BY <1>5, <2>2, <4>1 DEF GoodEvent
    <3>2. id = RideId(key[2]) /\ id # NoId
      BY <1>4, <2>2 DEF IdOf, RideId, NoId
    <3> QED
      BY <1>4, <1>5, <3>1, <3>2, IdsKept DEF GoodEvent
  <2> QED
    BY <2>1, <2>2
<1> HIDE DEF was
<1>7. DOMAIN event = DOMAIN r.event \union {id} /\ event[id] = was.event
      /\ \A x \in DOMAIN r.event \ {id} : event[x] = r.event[x]
  BY DEF With
<1> HIDE DEF event
<1>8. GoodEvents(event)
  BY <1>2, <1>6, <1>7 DEF Listed, GoodEvents
<1>9. \A d \in 0 .. last : off[d] \in Seq(DOMAIN r.event) /\ ToSet(off[d]) = On(r, d) \ gone(d)
  <2> TAKE d \in 0 .. last
  <2> DEFINE g == gone(d)
             t == r.days[d]
  <2>1. t \in Seq(DOMAIN r.event) /\ off[d] = Without(t, g)
    BY <1>2
  <2> HIDE DEF g, t, off
  <2>2. Without(t, g) \in Seq(DOMAIN r.event) /\ ToSet(Without(t, g)) = ToSet(t) \ g
    BY <2>1, WithoutSet
  <2> QED
    BY <2>1, <2>2 DEF On, t, g
<1>10. DOMAIN off = 0 .. last
  BY <1>2
<1>11. days = [d \in 0 .. last |-> IF d = was.day THEN list ELSE off[d]]
  BY <1>10
<1> HIDE DEF off, days
<1>12. at \in 1 .. Len(off[was.day]) + 1
  <2> DEFINE n == Len(off[was.day])
             T == {was.at, n + 1}
  <2>1. n \in Nat
    BY <1>3, <1>9, LenProperties
  <2> HIDE DEF n
  <2>2. T \in SUBSET Nat /\ T # {}
    BY <1>3, <2>1
  <2>3. \A x \in T : x = was.at \/ x = n + 1
    OBVIOUS
  <2>4. n + 1 \in T
    OBVIOUS
  <2> HIDE DEF T
  <2>5. Min(T) \in T /\ Min(T) <= n + 1
    BY <2>2, <2>4, Least
  <2>6. Min(T) \in 1 .. n + 1
    BY <1>3, <2>1, <2>3, <2>5
  <2> QED
    BY <2>6 DEF T, n
<1> HIDE DEF at
<1>13. list \in Seq(DOMAIN event) /\ ToSet(list) = ToSet(off[was.day]) \union {id}
  <2> DEFINE o == off[was.day]
  <2>1. o \in Seq(DOMAIN r.event) /\ DOMAIN r.event \subseteq DOMAIN event /\ id \in DOMAIN event
    BY <1>3, <1>7, <1>9
  <2>2. at \in 1 .. Len(o) + 1
    BY <1>12
  <2> HIDE DEF o
  <2>3. o \in Seq(DOMAIN event)
    BY <2>1
  <2>4. InsertAt(o, at, id) \in Seq(DOMAIN event)
        /\ ToSet(InsertAt(o, at, id)) = ToSet(o) \union {id}
    BY <2>1, <2>2, <2>3, Inserted
  <2> QED
    BY <2>4 DEF o
<1> HIDE DEF list
<1>14. \A d \in 0 .. last : days[d] = IF d = was.day THEN list ELSE off[d]
  BY <1>11
<1>15. DOMAIN days = 0 .. last
  BY <1>11
<1>16. \A d \in 0 .. last : days[d] \in Seq(DOMAIN event)
  <2> TAKE d \in 0 .. last
  <2>1. off[d] \in Seq(DOMAIN r.event) /\ DOMAIN r.event \subseteq DOMAIN event
    BY <1>7, <1>9
  <2>2. off[d] \in Seq(DOMAIN event)
    BY <2>1
  <2> QED
    BY <1>13, <1>14, <2>2
<1> HIDE DEF q
<1>17. /\ DOMAIN q = {"event", "days", "conflicts", "unscheduled"}
       /\ q.event = event /\ q.days = days
  BY <1>1, <1>2
<1>18. Listed(q, last)
  BY <1>8, <1>15, <1>16, <1>17 DEF Listed
<1>19. \A d \in 0 .. last : \A x :
         x \in On(q, d) <=> (x \in On(r, d) /\ IdOf(x) # id) \/ (x = id /\ d = was.day)
  <2> TAKE d \in 0 .. last
  <2>1. ToSet(off[d]) = On(r, d) \ gone(d)
    BY <1>9
  <2>2. On(q, d) = ToSet(days[d])
    BY <1>17 DEF On
  <2>3. CASE d = was.day
    BY <1>13, <1>14, <2>1, <2>2, <2>3
  <2>4. CASE d # was.day
    BY <1>14, <2>1, <2>2, <2>4
  <2> QED
    BY <2>3, <2>4
<1>20. DOMAIN q.event = DOMAIN p.event \union (done \union {id})
  BY <1>2, <1>7, <1>17
<1>21. \A x \in DOMAIN p.event \ (done \union {id}) : q.event[x] = p.event[x]
  BY <1>2, <1>7, <1>17 DEF PutBack
<1>22. \A d \in 0 .. last : \A x : IdOf(x) \notin done \union {id} =>
         (x \in On(q, d) <=> x \in On(p, d))
  BY <1>6, <1>19 DEF PutBack
<1>23. \A i \in done \union {id} :
         /\ i \in On(q, LastListing(p, i).day)
         /\ q.event[i] = LastListing(p, i).event
         /\ \A d \in 0 .. last : \A x \in On(q, d) :
               IdOf(x) = i => x = i /\ d = LastListing(p, i).day
  <2> TAKE i \in done \union {id}
  <2>1. CASE i = id
    BY <1>3, <1>6, <1>7, <1>17, <1>19, <2>1 DEF was
  <2>2. CASE i # id
    <3>1. i \in done /\ i \in IdsPlaced(p) /\ i \in DOMAIN r.event
      BY <1>2, <2>2
    <3>2. IdOf(i) = i
      BY <3>1, IdsKept DEF IdsPlaced, IdsOn
    <3>3. LastListing(p, i).day \in 0 .. last
      BY <3>1, LastListed
    <3>4. /\ i \in On(r, LastListing(p, i).day)
          /\ r.event[i] = LastListing(p, i).event
          /\ \A d \in 0 .. last : \A x \in On(r, d) :
                IdOf(x) = i => x = i /\ d = LastListing(p, i).day
      BY <3>1 DEF PutBack
    <3> QED
      BY <1>6, <1>7, <1>17, <1>19, <2>2, <3>1, <3>2, <3>3, <3>4
  <2> QED
    BY <2>1, <2>2
<1>24. PutBack(p, q, done \union {id}, last)
  BY <1>18, <1>20, <1>21, <1>22, <1>23 DEF PutBack
<1> QED
  BY <1>24 DEF q

LEMMA AllPutBack ==
  ASSUME NEW last \in Nat, NEW p, Listed(p, last), NEW f, PutBack(p, f, {}, last),
         NEW locked, IsFiniteSet(locked)
  PROVE  PutBack(p, RestoreLocked(p, f, locked), locked \intersect IdsPlaced(p), last)
<1> DEFINE ids == locked \intersect IdsPlaced(p)
           order == [id \in ids |-> OrderOf(id)]
           names == Sorted(SetToSeq(ids), order)
           step(y, k) == Restored(y, p, names[k])
           N == Len(names)
           is(g, n) == g = [k \in 0 .. n |-> IF k = 0 THEN f ELSE step(g[k - 1], k)]
           upTo == CHOOSE g : is(g, N)
<1>1. N \in Nat /\ DOMAIN names = 1 .. N /\ ToSet(names) = ids
  <2>1. IsFiniteSet(ids)
    BY FS_Subset
  <2> HIDE DEF ids, order
  <2>2. SetToSeq(ids) \in Seq(ids) /\ ToSet(SetToSeq(ids)) = ids
    BY <2>1, SetToSeqAll
  <2>3. names \in Seq(ids) /\ ToSet(names) = ToSet(SetToSeq(ids))
    BY <2>2, SortedSet
  <2> HIDE DEF names
  <2> QED
    BY <2>2, <2>3, LenProperties
<1>2. is(upTo, N)
  <2> DEFINE T == {n \in Nat : \E g : is(g, n)}
  <2> HIDE DEF step
  <2>1. is([k \in 0 .. 0 |-> f], 0)
    OBVIOUS
  <2>2. ASSUME NEW n \in Nat, NEW g, is(g, n) PROVE \E h : is(h, n + 1)
    <3>1. is([k \in 0 .. n + 1 |-> IF k = n + 1 THEN step(g[n], k) ELSE g[k]], n + 1)
      BY <2>2
    <3> HIDE DEF is
    <3> QED
      BY <3>1
  <2> HIDE DEF is
  <2>3. T \in SUBSET Nat /\ 0 \in T /\ \A n \in T : n + 1 \in T
    BY <2>1, <2>2
  <2>4. N \in T
    <3> HIDE DEF T
    <3> QED
      BY <1>1, <2>3, NatSet
  <2> QED
    BY <2>4
<1> HIDE DEF step
<1>3. upTo[0] = f /\ \A k \in 1 .. N : upTo[k] = step(upTo[k - 1], k)
  <2> HIDE DEF upTo, N
  <2> QED
    BY <1>1, <1>2
<1>4. RestoreLocked(p, f, locked) = upTo[N]
  BY DEF RestoreLocked, Loop, step, upTo, is, N, names, order, ids
<1> HIDE DEF is, upTo, names
<1> DEFINE head(k) == {names[n] : n \in 1 .. k}
<1>5. /\ head(0) = {} /\ head(N) = ids
      /\ \A k \in 0 .. N : head(k) \subseteq IdsPlaced(p)
      /\ \A k \in 0 .. N - 1 : head(k + 1) = head(k) \union {names[k + 1]}
  BY <1>1 DEF ToSet
<1>6. \A k \in 1 .. N : names[k] \in IdsPlaced(p)
  BY <1>1 DEF ToSet
<1> HIDE DEF head
<1>7. \A k \in 0 .. N : PutBack(p, upTo[k], head(k), last)
  <2> DEFINE holds(k) == PutBack(p, upTo[k], head(k), last)
             T == {k \in 0 .. N : holds(k)}
  <2>1. holds(0)
    BY <1>3, <1>5
  <2>2. ASSUME NEW k \in 0 .. N - 1, holds(k) PROVE holds(k + 1)
    <3>1. k + 1 \in 1 .. N /\ k + 1 - 1 = k /\ k \in 0 .. N
      BY <1>1
    <3>2. upTo[k + 1] = Restored(upTo[k], p, names[k + 1])
      BY <1>3, <3>1 DEF step
    <3>3. head(k) \subseteq IdsPlaced(p) /\ names[k + 1] \in IdsPlaced(p)
      BY <1>5, <1>6, <3>1
    <3>4. PutBack(p, Restored(upTo[k], p, names[k + 1]), head(k) \union {names[k + 1]}, last)
      BY <2>2, <3>3, RestoredPlan
    <3> QED
      BY <1>5, <3>2, <3>4
  <2> HIDE DEF holds
  <2>3. 0 \in T /\ \A k \in 0 .. N - 1 : k \in T => k + 1 \in T
    BY <1>1, <2>1, <2>2
  <2> HIDE DEF T
  <2>4. \A k \in 0 .. N : k \in T
    BY <1>1, <2>3, UpTo
  <2> QED
    BY <2>4 DEF T, holds
<1>8. PutBack(p, upTo[N], head(N), last)
  BY <1>1, <1>7
<1> QED
  BY <1>4, <1>5, <1>8

\* What is put back is a good plan with the attractions of the one before.
LEMMA PutBackGood ==
  ASSUME NEW last \in Nat, NEW p, GoodPlan(p, last), NEW done, done \subseteq IdsPlaced(p),
         NEW r, PutBack(p, r, done, last)
  PROVE  GoodPlan(r, last) /\ Attractions(p) \subseteq Attractions(r)
<1>1. Listed(p, last) /\ Fresh(p, last) /\ Listed(r, last)
  BY DEF GoodPlan, PutBack
<1>2. \A id \in done :
        /\ IdOf(id) = id
        /\ LastListing(p, id).day \in 0 .. last
        /\ \E key \in Placed(p) : /\ IdOf(key) = id
                                  /\ LastListing(p, id).event = p.event[key]
  <2> TAKE id \in done
  <2>1. IdOf(id) = id
    BY IdsKept DEF IdsPlaced, IdsOn
  <2>2. LastListing(p, id).day \in 0 .. last
        /\ \E key \in On(p, LastListing(p, id).day) :
              IdOf(key) = id /\ LastListing(p, id).event = p.event[key]
    BY <1>1, LastListed
  <2>3. PICK key \in On(p, LastListing(p, id).day) :
              IdOf(key) = id /\ LastListing(p, id).event = p.event[key]
    BY <2>2
  <2>4. key \in Placed(p)
    BY <1>1, <2>2, PlacedEvents
  <2> QED
    BY <2>1, <2>2, <2>3, <2>4
<1>3. /\ \A x : x \in Placed(p) <=> \E d \in 0 .. last : x \in On(p, d)
      /\ \A x : x \in Placed(r) <=> \E d \in 0 .. last : x \in On(r, d)
      /\ Placed(p) \subseteq DOMAIN p.event
  BY <1>1, PlacedEvents
<1>4. /\ DOMAIN r.event = DOMAIN p.event \union done
      /\ \A x \in DOMAIN p.event \ done : r.event[x] = p.event[x]
      /\ \A d \in 0 .. last : \A x : IdOf(x) \notin done => (x \in On(r, d) <=> x \in On(p, d))
      /\ \A id \in done :
            /\ id \in On(r, LastListing(p, id).day)
            /\ r.event[id] = LastListing(p, id).event
            /\ \A d \in 0 .. last : \A x \in On(r, d) : IdOf(x) = id => x = id
  BY DEF PutBack
<1>5. \A y \in Placed(r) : \E z \in Placed(p) : r.event[y] = p.event[z]
  <2> TAKE y \in Placed(r)
  <2>1. PICK d \in 0 .. last : y \in On(r, d)
    BY <1>3
  <2>2. CASE IdOf(y) \in done
    <3>1. y = IdOf(y)
      BY <1>4, <2>1, <2>2
    <3> QED
      BY <1>2, <1>4, <2>2, <3>1
  <2>3. CASE IdOf(y) \notin done
    <3>1. y \in On(p, d) /\ y \in Placed(p)
      BY <1>3, <1>4, <2>1, <2>3
    <3>2. y \notin done
      BY <1>2, <2>3
    <3> QED
      BY <1>3, <1>4, <3>1, <3>2
  <2> QED
    BY <2>2, <2>3
<1>6. Fresh(r, last)
  <2> SUFFICES ASSUME NEW a, NEW d \in 0 .. last, a # None, FreeAfterId(a, d) \in DOMAIN r.event,
                      NEW y \in Placed(r)
               PROVE  r.event[y].goesWith # a
    BY DEF Fresh
  <2>1. FreeAfterId(a, d) \in DOMAIN p.event
    BY <1>2, <1>3, <1>4, IdsKept
  <2>2. PICK z \in Placed(p) : r.event[y] = p.event[z]
    BY <1>5
  <2> QED
    BY <1>1, <2>1, <2>2 DEF Fresh
<1>7. Attractions(p) \subseteq Attractions(r)
  <2> SUFFICES ASSUME NEW a \in Attractions(p) PROVE a \in Attractions(r)
    OBVIOUS
  <2>1. a # None /\ \E y \in Placed(p) : p.event[y].attraction = a
    BY <1>1, AttractionsPlaced
  <2>2. PICK y \in Placed(p) : p.event[y].attraction = a
    BY <2>1
  <2>3. y = VisitId(a) /\ IdOf(y) = y
    <3>1. y = VisitId(a)
      BY <1>1, <1>3, <2>1, <2>2 DEF Listed, GoodEvents, GoodEvent
    <3> QED
      BY <3>1, IdsKept
  <2>4. y \in Placed(r) /\ r.event[y].attraction = a
    <3>1. CASE y \in done
      <4>1. PICK key \in Placed(p) : IdOf(key) = y /\ LastListing(p, y).event = p.event[key]
        BY <1>2, <3>1
      <4>2. key = y
        BY <2>3, <4>1, IdsKept
      <4>3. y \in Placed(r)
        BY <1>2, <1>3, <1>4, <3>1
      <4> QED
        BY <1>4, <2>2, <3>1, <4>1, <4>2, <4>3
    <3>2. CASE y \notin done
      <4>1. PICK d \in 0 .. last : y \in On(p, d)
        BY <1>3
      <4>2. y \in On(r, d)
        BY <1>4, <2>3, <3>2, <4>1
      <4> QED
        BY <1>3, <1>4, <2>2, <3>2, <4>2
    <3> QED
      BY <3>1, <3>2
  <2> QED
    BY <1>1, <2>1, <2>4, AttractionsPlaced
<1> QED
  BY <1>1, <1>6, <1>7 DEF GoodPlan

LEMMA ReviewedKeeps ==
  ASSUME NEW last, NEW p, GoodPlan(p, last), NEW before, NEW set, NEW e
  PROVE  LET q == Reviewed(before, p, set, e)
         IN  GoodPlan(q, last) /\ Keeps(p, q, e)
<1> DEFINE x == {<<"must_visit_unscheduled", a>> : a \in e.must \ Attractions(p)}
           y == {<<"pace_constraint_violation", d>> : d \in
                   {v \in DOMAIN p.days :
                     ~(PaceViolations(p, set, v) \subseteq PaceViolations(before, set, v))}}
           z == {<<"timeline_overlap", o>> : o \in Overlaps(p) \ Overlaps(before)}
           c == p.conflicts \union x \union y \union z
<1>1. Reviewed(before, p, set, e) = [p EXCEPT !.conflicts = c]
  BY Zenon DEF Reviewed
<1> HIDE DEF x, y, z
<1>2. p.conflicts \subseteq c
  OBVIOUS
<1> HIDE DEF c
<1> QED
  BY <1>1, <1>2, ToldKeeps

\* replan_itinerary: the edits one after the other, and then the review.
LEMMA ReplannedReviewed ==
  ASSUME NEW last \in Nat, NEW p, GoodPlan(p, last), NEW set, GoodSettings(set),
         NEW e, GoodEdit(e)
  PROVE  \E o, m : /\ PutBack(p, o, e.locked \intersect IdsPlaced(p), last)
                   /\ GoodPlan(o, last) /\ Attractions(p) \subseteq Attractions(o)
                   /\ GoodPlan(m, last) /\ Keeps(o, m, e)
                   /\ Replanned(p, set, e) = Reviewed(p, m, set, e)
<1> DEFINE c == {<<"locked_event_missing", id>> : id \in e.locked \ IdsPlaced(p)}
                  \union {<<"day_start_day_missing", d>> : d \in DOMAIN e.starts \ DOMAIN p.days}
           q == Replanned(p, set, e)
           f == Anew(p, c)
           o == RestoreLocked(p, f, e.locked)
           s == StartDays(o, e)
           r == RemoveAll(s, e)
           g == ForceAll(r, set, e)
           m == SpendAll(g, e)
<1>1. q = Reviewed(p, m, set, e)
  BY Zenon DEF Replanned, Anew
<1> HIDE DEF q, c
<1>2. Listed(p, last) /\ PutBack(p, f, {}, last) /\ IsFiniteSet(e.locked)
  BY AnewGood DEF GoodEdit, GoodPlan
<1> HIDE DEF f
<1>3. PutBack(p, o, e.locked \intersect IdsPlaced(p), last)
  BY <1>2, AllPutBack
<1> HIDE DEF o
<1>8. GoodPlan(o, last) /\ Attractions(p) \subseteq Attractions(o)
  BY <1>3, PutBackGood
<1>4. GoodPlan(s, last) /\ Keeps(o, s, e)
  BY <1>8, StartDaysKeep
<1> HIDE DEF s
<1>5. GoodPlan(r, last) /\ Keeps(s, r, e)
  BY <1>4, RemoveAllKeep
<1> HIDE DEF r
<1>6. GoodPlan(g, last) /\ Keeps(r, g, e)
  BY <1>5, ForceAllKeep
<1> HIDE DEF g
<1>7. GoodPlan(m, last) /\ Keeps(g, m, e)
  BY <1>6, SpendAllKeep
<1> HIDE DEF m
<1>9. Keeps(o, r, e)
  BY <1>4, <1>5, <1>8, Then
<1>10. Keeps(o, g, e)
  BY <1>5, <1>6, <1>8, <1>9, Then
<1>11. Keeps(o, m, e)
  BY <1>6, <1>7, <1>8, <1>10, Then
<1> QED
  BY <1>1, <1>3, <1>7, <1>8, <1>11 DEF q

\* What is locked is listed where it was last, once and at its time, unless what it goes
\* with is removed.
Stays(p, q, e, id) ==
    LET was == LastListing(p, id)
        listed == {d \in DOMAIN q.days : id \in IdsOn(q, d)}
    IN  \/ listed = {was.day} /\ id \in On(q, was.day) /\ q.event[id] = was.event
        \/ was.event.goesWith \in e.removed /\ listed = {}

LEMMA ReplannedKeeps ==
  ASSUME NEW last \in Nat, NEW p, GoodPlan(p, last), NEW set, GoodSettings(set),
         NEW e, GoodEdit(e)
  PROVE  LET q == Replanned(p, set, e)
         IN  /\ GoodPlan(q, last)
             /\ \A id \in IdsPlaced(p) \intersect e.locked : Stays(p, q, e, id)
             /\ \A a \in Attractions(p) \ Attractions(q) :
                   \/ a \in e.removed \ e.must
                   \/ a \in q.unscheduled /\ <<"forced_day_capacity", a>> \in q.conflicts
<1> DEFINE q == Replanned(p, set, e)
<1>1. PICK o, m : /\ PutBack(p, o, e.locked \intersect IdsPlaced(p), last)
                  /\ GoodPlan(o, last) /\ Attractions(p) \subseteq Attractions(o)
                  /\ GoodPlan(m, last) /\ Keeps(o, m, e)
                  /\ q = Reviewed(p, m, set, e)
  BY ReplannedReviewed
<1> HIDE DEF q
<1>2. GoodPlan(q, last) /\ Keeps(m, q, e)
  BY <1>1, ReviewedKeeps
<1>3. Keeps(o, q, e)
  BY <1>1, <1>2, Then
<1>4. Listed(p, last) /\ Listed(o, last) /\ Listed(q, last)
      /\ DOMAIN o.days = 0 .. last /\ DOMAIN q.days = 0 .. last
  BY <1>1, <1>2 DEF GoodPlan, Listed
<1>5. ASSUME NEW id \in IdsPlaced(p) \intersect e.locked PROVE Stays(p, q, e, id)
  <2> DEFINE was == LastListing(p, id)
             listed == {d \in DOMAIN q.days : id \in IdsOn(q, d)}
  <2>1. was.day \in 0 .. last
    BY <1>4, LastListed
  <2>2. IdOf(id) = id
    BY IdsKept DEF IdsPlaced, IdsOn
  <2>3. /\ id \in On(o, was.day) /\ o.event[id] = was.event /\ id \in DOMAIN o.event
        /\ \A d \in 0 .. last : \A x \in On(o, d) : IdOf(x) = id => x = id /\ d = was.day
    BY <1>1, <1>5 DEF PutBack
  <2>4. \A d \in 0 .. last : \A x : IdOf(x) = id =>
          /\ x \in On(q, d) => x \in On(o, d)
          /\ x \in On(o, d) =>
                \/ x \in On(q, d) /\ q.event[x] = o.event[x]
                \/ o.event[x].goesWith \in e.removed /\ x \notin Placed(q)
    BY <1>3, <1>4, <1>5, <2>3 DEF Keeps, Held
  <2> HIDE DEF was
  <2>5. \A d \in 0 .. last : \A x \in On(q, d) : IdOf(x) = id => x = id /\ d = was.day
    BY <2>3, <2>4
  <2>6. \A d \in 0 .. last : d \in listed <=> id \in On(q, d)
    BY <1>4, <2>2, <2>5 DEF IdsOn
  <2>7. listed \subseteq 0 .. last
    BY <1>4
  <2> HIDE DEF listed
  <2>8. listed \subseteq {was.day}
    BY <2>2, <2>5, <2>6, <2>7
  <2>9. CASE id \in On(q, was.day) /\ q.event[id] = o.event[id]
    <3>1. listed = {was.day}
      BY <2>1, <2>6, <2>8, <2>9
    <3> QED
      BY <2>3, <2>9, <3>1 DEF Stays, was, listed
  <2>10. CASE o.event[id].goesWith \in e.removed /\ id \notin Placed(q)
    <3>1. \A d \in 0 .. last : id \notin On(q, d)
      BY <1>4, <2>10, PlacedEvents
    <3>2. listed = {}
      BY <2>6, <2>7, <3>1
    <3> QED
      BY <2>3, <2>10, <3>2 DEF Stays, was, listed
  <2> QED
    BY <2>1, <2>2, <2>3, <2>4, <2>9, <2>10
<1>6. \A a \in Attractions(p) \ Attractions(q) :
        \/ a \in e.removed \ e.must
        \/ a \in q.unscheduled /\ <<"forced_day_capacity", a>> \in q.conflicts
  BY <1>1, <1>3 DEF Keeps
<1> QED
  BY <1>2, <1>5, <1>6 DEF q

\* What the planner installs lists events of the compiled draft, if anything.
LEMMA InstallGood ==
  ASSUME NEW last, NEW draft, GoodDraft(draft, last)
  PROVE  Install(draft) = NoPlan \/ GoodPlan(Install(draft), last)
<1> DEFINE key == [id \in DOMAIN draft.event |-> <<draft.event[id].start>> \o OrderOf(id)]
           days == [d \in DOMAIN draft.days |-> Sorted(draft.days[d], key)]
           q == [event |-> draft.event, days |-> days, conflicts |-> {}, unscheduled |-> {}]
<1>1. Install(draft) = NoPlan \/ Install(draft) = q
  BY DEF Install, Timetable
<1> HIDE DEF key
<1>2. DOMAIN days = 0 .. last /\ \A d \in 0 .. last : days[d] \in Seq(DOMAIN draft.event)
  BY SortedSet DEF GoodDraft
<1> HIDE DEF days
<1>3. /\ DOMAIN q = {"event", "days", "conflicts", "unscheduled"}
      /\ q.event = draft.event /\ q.days = days
  OBVIOUS
<1> HIDE DEF q
<1>4. Listed(q, last)
  BY <1>2, <1>3 DEF GoodDraft, Listed
<1>5. Fresh(q, last)
  BY <1>3, IdParts DEF GoodDraft, Fresh
<1> QED
  BY <1>1, <1>4, <1>5 DEF GoodPlan

\* A plan is installed only of a draft with both trains.
LEMMA InstalledOnly ==
  ASSUME NEW inp, NEW draft, PlanningState(inp, draft) \in InstallableStates
  PROVE  Has(draft, Outbound) /\ Has(draft, Return)
<1>1. "hard_constraints_clear" \in Requirements /\ "outbound_transport" \in Requirements
      /\ "return_transport" \in Requirements
  BY DEF Requirements
<1>2. Met(inp, draft) = Requirements
  <2> DEFINE met == Met(inp, draft)
  <2> HIDE DEF met
  <2>1. PlanningState(inp, draft) =
          CASE "hard_constraints_clear" \notin met -> "BLOCKED"
            [] "hard_constraints_clear" \in met /\ met # Requirements -> "COLLECTING_EVIDENCE"
            [] met = Requirements /\ ~(draft.blockers \subseteq {"HOTEL_DETAIL_PENDING"}) ->
                  "PARTIAL_READY"
            [] OTHER -> "PLAN_READY"
    BY DEF PlanningState, met
  <2>2. met = Requirements
    BY <1>1, <2>1 DEF InstallableStates
  <2> QED
    BY <2>2 DEF met
<1>3. "outbound_transport" \in Met(inp, draft) => Has(draft, Outbound)
  BY DEF Met
<1>4. "return_transport" \in Met(inp, draft) => Has(draft, Return)
  BY DEF Met
<1> QED
  BY <1>1, <1>2, <1>3, <1>4

LEMMA InstallSound ==
  ASSUME NEW set, NEW last, NEW draft, Sound(draft, set, last), GoodSettings(set),
         NEW p, p = Install(draft), p # NoPlan
  PROVE  /\ \A v \in VisitsOf(p) :
               /\ DayOf(p.event[v].start) = DayOf(p.event[CheckIn].end) =>
                     p.event[v].start >= p.event[CheckIn].end
               /\ DayOf(p.event[v].start) = DayOf(p.event[CheckOut].start) =>
                     p.event[v].end <= p.event[CheckOut].start
         /\ \A d \in DOMAIN p.days : \A i, j \in On(p, d) :
               i[1] \in {"meal", "free"} => ~Clash(p, i, j)
         /\ CheckIn \in DOMAIN p.event /\ CheckOut \in DOMAIN p.event
<1> DEFINE key == [id \in DOMAIN draft.event |-> <<draft.event[id].start>> \o OrderOf(id)]
           days == [d \in DOMAIN draft.days |-> Sorted(draft.days[d], key)]
           q == [event |-> draft.event, days |-> days, conflicts |-> {}, unscheduled |-> {}]
<1>1. p = q /\ PlanningState(input, draft) \in InstallableStates
  BY DEF Install, Timetable
<1> HIDE DEF key
<1>2. DOMAIN days = 0 .. last /\ \A d \in 0 .. last : ToSet(days[d]) = ToSet(draft.days[d])
  BY SortedSet DEF Sound, GoodDraft
<1> HIDE DEF days
<1>3. p.event = draft.event /\ p.days = days
  BY <1>1
<1> HIDE DEF q
<1>4. /\ Timed(draft, set) /\ Has(draft, Outbound) /\ Has(draft, Return)
      /\ CheckIn \in DOMAIN draft.event /\ CheckOut \in DOMAIN draft.event
      /\ draft.event[CheckIn].end = ArrivalReady(draft, set)
      /\ draft.event[CheckOut].start = ReturnCutoff(draft, set)
  BY <1>1, InstalledOnly DEF Sound
<1>5. \A d \in 0 .. last : ToSet(p.days[d]) \subseteq DOMAIN p.event
  BY <1>2, <1>3, DayEvents DEF Sound
<1>6. Placed(p) \subseteq DOMAIN p.event
  BY <1>2, <1>3, <1>5 DEF Placed, On
<1>7. \A v \in VisitsOf(p) :
        /\ DayOf(p.event[v].start) = DayOf(p.event[CheckIn].end) =>
              p.event[v].start >= p.event[CheckIn].end
        /\ DayOf(p.event[v].start) = DayOf(p.event[CheckOut].start) =>
              p.event[v].end <= p.event[CheckOut].start
  BY <1>3, <1>4, <1>6 DEF VisitsOf, Timed
<1>8. \A d \in DOMAIN p.days : \A i, j \in On(p, d) :
        i[1] \in {"meal", "free"} => ~Clash(p, i, j)
  BY <1>2, <1>3 DEF Sound, Neat, On, Clash
<1> QED
  BY <1>3, <1>4, <1>7, <1>8

-----------------------------------------------------------------------------
(* What the review of an edited plan tells.                                  *)

\* The events of a day in the order of their starts.
Agenda(p, d) == Sorted(p.days[d], [id \in On(p, d) |-> <<p.event[id].start>>])

LEMMA DaySorted ==
  ASSUME NEW last, NEW p, Listed(p, last), NEW d \in 0 .. last
  PROVE  LET t == Agenda(p, d)
         IN  /\ Len(t) \in Nat /\ DOMAIN t = 1 .. Len(t)
             /\ \A k \in 1 .. Len(t) : t[k] \in On(p, d)
             /\ \A id \in On(p, d) : \E k \in 1 .. Len(t) : t[k] = id
             /\ \A j, k \in 1 .. Len(t) :
                   j < k => p.event[t[j]].start <= p.event[t[k]].start
             /\ \A j, k \in 1 .. Len(t) : j # k =>
                   \E l, m \in DOMAIN p.days[d] :
                      l # m /\ p.days[d][l] = t[j] /\ p.days[d][m] = t[k]
<1> DEFINE S == On(p, d)
           s == p.days[d]
           time == [id \in S |-> p.event[id].start]
           key == [id \in S |-> <<p.event[id].start>>]
           t == Sorted(s, key)
<1>1. s \in Seq(S) /\ ToSet(s) = S
  <2>1. s \in Seq(DOMAIN p.event)
    BY DEF Listed
  <2>2. Len(s) \in Nat /\ s \in [1 .. Len(s) -> DOMAIN p.event]
    BY <2>1, LenProperties
  <2>3. \A i \in 1 .. Len(s) : s[i] \in ToSet(s)
    BY <2>2 DEF ToSet
  <2> HIDE DEF s
  <2>4. s \in [1 .. Len(s) -> ToSet(s)]
    BY <2>2, <2>3
  <2>5. s \in Seq(ToSet(s))
    BY <2>2, <2>4, SeqDef
  <2> QED
    BY <2>5 DEF On, s
<1>2. \A x \in S : time[x] \in Int /\ key[x] = <<time[x]>> /\ time[x] = p.event[x].start
  BY ListedTimes, PlacedEvents
<1> HIDE DEF time, key, S, s
<1>3. t \in Seq(S) /\ ToSet(t) = S /\ \A i, j \in DOMAIN t : i < j => time[t[i]] <= time[t[j]]
  BY <1>1, <1>2, SortedSet, SortedInOrder
<1>7. \A j, k \in DOMAIN Sorted(s, key) : j # k =>
        \E l, m \in DOMAIN s : l # m /\ s[l] = Sorted(s, key)[j] /\ s[m] = Sorted(s, key)[k]
  <2>1. \A x \in S : key[x] = <<time[x]>>
    BY <1>2
  <2> HIDE DEF t
  <2> QED
    BY <1>1, SortedPlaces
<1> HIDE DEF t
<1>4. Len(t) \in Nat /\ DOMAIN t = 1 .. Len(t) /\ \A k \in 1 .. Len(t) : t[k] \in S
  BY <1>3, LenProperties, ElementOfSeq
<1>5. \A id \in S : \E k \in 1 .. Len(t) : t[k] = id
  BY <1>3, <1>4 DEF ToSet
<1>6. \A j, k \in 1 .. Len(t) : j < k => p.event[t[j]].start <= p.event[t[k]].start
  BY <1>2, <1>3, <1>4
<1>8. \A j, k \in 1 .. Len(t) : j # k =>
        \E l, m \in DOMAIN s : l # m /\ s[l] = t[j] /\ s[m] = t[k]
  BY <1>4, <1>7 DEF t
<1> QED
  BY <1>4, <1>5, <1>6, <1>8, Zenon DEF t, key, S, s, Agenda

\* An overlap is a pair, and on a calm day there is none.
LEMMA CalmOverlaps ==
  ASSUME NEW last, NEW p, Listed(p, last), NEW d \in 0 .. last, NEW w \in OverlapsOn(p, d)
  PROVE  ~Calm(p, d) /\ w = <<w[1], w[2]>>
<1> DEFINE t == Agenda(p, d)
<1>1. /\ Len(t) \in Nat /\ DOMAIN t = 1 .. Len(t)
      /\ \A k \in 1 .. Len(t) : t[k] \in On(p, d)
      /\ \A id \in On(p, d) : \E k \in 1 .. Len(t) : t[k] = id
      /\ \A j, k \in 1 .. Len(t) :
            j < k => p.event[t[j]].start <= p.event[t[k]].start
      /\ \A j, k \in 1 .. Len(t) : j # k =>
            \E l, m \in DOMAIN p.days[d] :
               l # m /\ p.days[d][l] = t[j] /\ p.days[d][m] = t[k]
  BY DaySorted
<1>2. PICK k \in 1 .. Len(t) - 1 :
        /\ w = <<IdOf(t[k]), IdOf(t[k + 1])>>
        /\ p.event[t[k + 1]].overlaps # t[k] /\ p.event[t[k]].overlaps # t[k + 1]
        /\ p.event[t[k + 1]].start < p.event[t[k]].end
  BY Zenon DEF OverlapsOn, Agenda
<1> HIDE DEF t
<1>3. k \in 1 .. Len(t) /\ k + 1 \in 1 .. Len(t) /\ k < k + 1 /\ k # k + 1
  BY <1>1
<1>4. BeginsDuring(p, t[k], t[k + 1])
  BY <1>1, <1>2, <1>3 DEF BeginsDuring
<1>5. PICK l, m \in DOMAIN p.days[d] :
        l # m /\ p.days[d][l] = t[k] /\ p.days[d][m] = t[k + 1]
  BY <1>1, <1>3
<1> QED
  BY <1>2, <1>4, <1>5 DEF Calm

\* When two events lie on each other the earlier overlaps its neighbour.
LEMMA ClashOverlaps ==
  ASSUME NEW last, NEW p, Listed(p, last), NEW d \in 0 .. last,
         NEW i \in On(p, d), NEW j \in On(p, d), Clash(p, i, j),
         \A id \in On(p, d) : p.event[id].overlaps \notin {i, j}
  PROVE  OverlapsOn(p, d) # {}
<1> DEFINE t == Agenda(p, d)
           n == Len(t)
           tied(l, r) == p.event[r].overlaps = l \/ p.event[l].overlaps = r
<1>1. /\ n \in Nat /\ DOMAIN t = 1 .. n
      /\ \A k \in 1 .. n : t[k] \in On(p, d)
      /\ \A id \in On(p, d) : \E k \in 1 .. n : t[k] = id
      /\ \A h, k \in 1 .. n :
            h < k => p.event[t[h]].start <= p.event[t[k]].start
      /\ \A h, k \in 1 .. n : h # k =>
            \E l, m \in DOMAIN p.days[d] :
               l # m /\ p.days[d][l] = t[h] /\ p.days[d][m] = t[k]
  BY DaySorted
<1>2. \A id \in On(p, d) : /\ p.event[id].start \in Int /\ p.event[id].end \in Int
                           /\ id # NoId
  BY ListedTimes, PlacedEvents DEF Listed, GoodEvents, GoodEvent
<1>3. \A k \in 1 .. n - 1 :
        /\ ~tied(t[k], t[k + 1]) /\ p.event[t[k + 1]].start < p.event[t[k]].end
        => <<IdOf(t[k]), IdOf(t[k + 1])>> \in OverlapsOn(p, d)
  BY DEF OverlapsOn, Agenda
<1> HIDE DEF t, n
<1>4. ASSUME NEW a \in On(p, d), NEW b \in On(p, d), a # b,
             p.event[a].overlaps = NoId, p.event[b].start < p.event[a].end,
             \A id \in On(p, d) : p.event[id].overlaps # a,
             NEW u \in 1 .. n, NEW v \in 1 .. n, t[u] = a, t[v] = b, u < v
      PROVE  OverlapsOn(p, d) # {}
  <2> DEFINE A == {k \in 1 .. v - 1 : t[k] = a}
             k == Max(A)
  <2>1. u \in A /\ A \in SUBSET (0 .. n)
    BY <1>1, <1>4
  <2> HIDE DEF A
  <2>2. k \in A /\ \A l \in A : l <= k
    BY <1>1, <2>1, Greatest
  <2> HIDE DEF k
  <2>3. /\ k \in 1 .. v - 1 /\ t[k] = a /\ k \in 1 .. n - 1
        /\ k + 1 \in 1 .. n /\ k + 1 <= v
    BY <1>1, <1>4, <2>2 DEF A
  <2>4. t[k + 1] # a
    <3>1. CASE k + 1 = v
      BY <1>4, <3>1
    <3>2. CASE k + 1 < v
      <4>1. k + 1 \in 1 .. v - 1 /\ ~(k + 1 <= k)
        BY <1>4, <2>3, <3>2
      <4> QED
        BY <2>2, <4>1 DEF A
    <3> QED
      BY <2>3, <3>1, <3>2
  <2> DEFINE r == t[k + 1]
  <2>5. r \in On(p, d) /\ r # NoId
    BY <1>1, <1>2, <2>3
  <2>6. p.event[r].start <= p.event[b].start
    <3>1. CASE k + 1 = v
      BY <1>2, <1>4, <3>1
    <3>2. CASE k + 1 < v
      BY <1>1, <1>4, <2>3, <3>2
    <3> QED
      BY <2>3, <3>1, <3>2
  <2> HIDE DEF r
  <2>7. p.event[r].start < p.event[a].end
    <3> DEFINE rs == p.event[r].start
               bs == p.event[b].start
               ae == p.event[a].end
    <3>1. rs \in Int /\ bs \in Int /\ ae \in Int /\ rs <= bs /\ bs < ae
      BY <1>2, <1>4, <2>5, <2>6
    <3> HIDE DEF rs, bs, ae
    <3>2. rs < ae
      BY <3>1
    <3> QED
      BY <3>2 DEF rs, ae
  <2>8. ~tied(a, r)
    BY <1>4, <2>5
  <2>9. <<IdOf(a), IdOf(r)>> \in OverlapsOn(p, d)
    BY <1>3, <2>3, <2>7, <2>8 DEF r
  <2> QED
    BY <2>9
<1>5. /\ i # j /\ p.event[i].overlaps = NoId /\ p.event[j].overlaps = NoId
      /\ p.event[i].start < p.event[j].end /\ p.event[j].start < p.event[i].end
  BY <1>2 DEF Clash, LieOnEachOther, Meets
<1>6. PICK u \in 1 .. n : t[u] = i
  BY <1>1
<1>7. PICK v \in 1 .. n : t[v] = j
  BY <1>1
<1>8. u < v \/ v < u
  BY <1>1, <1>5, <1>6, <1>7
<1>9. CASE u < v
  BY <1>4, <1>5, <1>6, <1>7, <1>9
<1>10. CASE v < u
  BY <1>4, <1>5, <1>6, <1>7, <1>10
<1> QED
  BY <1>8, <1>9, <1>10

\* The overlaps are of the events and the days.
LEMMA SameOverlaps ==
  ASSUME NEW p, NEW q, q.event = p.event, q.days = p.days
  PROVE  Overlaps(q) = Overlaps(p)
<1>1. ASSUME NEW d PROVE OverlapsOn(q, d) = OverlapsOn(p, d)
  <2> DEFINE key(x) == [id \in On(x, d) |-> <<x.event[id].start>>]
             t(x) == Sorted(x.days[d], key(x))
  <2>1. key(q) = key(p) /\ q.days[d] = p.days[d]
    BY DEF On
  <2> HIDE DEF key
  <2>2. t(q) = t(p)
    BY <2>1
  <2> USE DEF key
  <2> HIDE DEF t
  <2>3. \A w : w \in OverlapsOn(q, d) <=> w \in OverlapsOn(p, d)
    <3> DEFINE tied(x, l, r) == x.event[r].overlaps = l \/ x.event[l].overlaps = r
               laps(x, s) == {<<IdOf(s[k]), IdOf(s[k + 1])>> : k \in
                 {n \in 1 .. Len(s) - 1 :
                    /\ ~tied(x, s[n], s[n + 1])
                    /\ x.event[s[n + 1]].start < x.event[s[n]].end}}
    <3>1. OverlapsOn(q, d) = laps(q, t(q)) /\ OverlapsOn(p, d) = laps(p, t(p))
      BY Zenon DEF OverlapsOn, t
    <3>2. \A w, s : w \in laps(q, s) <=> w \in laps(p, s)
      OBVIOUS
    <3> HIDE DEF laps
    <3> QED
      BY <2>2, <3>1, <3>2
  <2> QED
    <3> DEFINE A == OverlapsOn(q, d)
               B == OverlapsOn(p, d)
    <3>1. \A w : w \in A <=> w \in B
      BY <2>3
    <3> HIDE DEF A, B
    <3>2. A = B
      BY <3>1
    <3> QED
      BY <3>2 DEF A, B
<1> QED
  <2> DEFINE of(x, d) == {<<d, w[1], w[2]>> : w \in OverlapsOn(x, d)}
  <2>1. \A d : of(q, d) = of(p, d)
    BY <1>1
  <2> HIDE DEF of
  <2>2. Overlaps(q) = UNION {of(q, d) : d \in DOMAIN q.days}
        /\ Overlaps(p) = UNION {of(p, d) : d \in DOMAIN p.days}
    BY Zenon DEF Overlaps, of
  <2> QED
    BY <2>1, <2>2

LEMMA ToldOverlaps ==
  ASSUME NEW last \in Nat, NEW p, GoodPlan(p, last), NEW set, GoodSettings(set),
         NEW e, GoodEdit(e), NEW o \in Overlaps(Replanned(p, set, e)) \ Overlaps(p)
  PROVE  <<"timeline_overlap", o>> \in Replanned(p, set, e).conflicts
<1> DEFINE q == Replanned(p, set, e)
<1>1. PICK x, m : /\ PutBack(p, x, e.locked \intersect IdsPlaced(p), last)
                  /\ GoodPlan(x, last) /\ Attractions(p) \subseteq Attractions(x)
                  /\ GoodPlan(m, last) /\ Keeps(x, m, e)
                  /\ q = Reviewed(p, m, set, e)
  BY ReplannedReviewed
<1> HIDE DEF q
<1> DEFINE a == {<<"must_visit_unscheduled", y>> : y \in e.must \ Attractions(m)}
           b == {<<"pace_constraint_violation", y>> : y \in
                   {v \in DOMAIN m.days :
                     ~(PaceViolations(m, set, v) \subseteq PaceViolations(p, set, v))}}
           z == {<<"timeline_overlap", y>> : y \in Overlaps(m) \ Overlaps(p)}
           c == m.conflicts \union a \union b \union z
           r == [m EXCEPT !.conflicts = c]
<1>2. q = r
  BY <1>1, Zenon DEF Reviewed
<1> HIDE DEF a, b, c
<1>3. q.event = m.event /\ q.days = m.days /\ q.conflicts = c
  <2>1. r.event = m.event /\ r.days = m.days /\ r.conflicts = c
    BY <1>1, ToldPlan DEF GoodPlan
  <2> HIDE DEF r
  <2> QED
    BY <1>2, <2>1
<1>4. Overlaps(q) = Overlaps(m)
  BY <1>3, SameOverlaps
<1>5. o \in Overlaps(m) \ Overlaps(p)
  BY <1>4 DEF q
<1>6. <<"timeline_overlap", o>> \in c
  BY <1>5 DEF c
<1> QED
  BY <1>3, <1>6 DEF q

\* The review tells the overlaps of the edited plan that the one before had not.
LEMMA OverlapsTold ==
  ASSUME NEW last \in Nat, NEW p, GoodPlan(p, last), NEW set, GoodSettings(set),
         NEW e, GoodEdit(e), NEW d \in 0 .. last, NEW q, q = Replanned(p, set, e), Calm(p, d),
         NEW i \in On(q, d), NEW j \in On(q, d), Clash(q, i, j),
         \A id \in On(q, d) : q.event[id].overlaps \notin {i, j}
  PROVE  \E c \in q.conflicts : c[1] = "timeline_overlap" /\ c[2][1] = d
<1>1. GoodPlan(q, last)
  BY ReplannedKeeps
<1>2. Listed(p, last) /\ Listed(q, last) /\ DOMAIN q.days = 0 .. last /\ DOMAIN p.days = 0 .. last
  BY <1>1 DEF GoodPlan, Listed
<1>3. PICK w \in OverlapsOn(q, d) : TRUE
  BY <1>2, ClashOverlaps
<1> DEFINE o == <<d, w[1], w[2]>>
<1>4. o \in Overlaps(q)
  BY <1>2, <1>3 DEF Overlaps
<1>5. ASSUME o \in Overlaps(p) PROVE FALSE
  <2>1. PICK v \in 0 .. last : \E u \in OverlapsOn(p, v) : o = <<v, u[1], u[2]>>
    BY <1>2, <1>5 DEF Overlaps
  <2>2. PICK u \in OverlapsOn(p, v) : o = <<v, u[1], u[2]>>
    BY <2>1
  <2>3. v = d
    BY <2>2
  <2> QED
    BY <1>2, <2>2, <2>3, CalmOverlaps
<1>6. <<"timeline_overlap", o>> \in q.conflicts
  BY <1>4, <1>5, ToldOverlaps
<1> DEFINE told == <<"timeline_overlap", o>>
<1>7. told[1] = "timeline_overlap" /\ told[2][1] = d
  OBVIOUS
<1> QED
  <2> HIDE DEF told
  <2> QED
    BY <1>6, <1>7 DEF told

-----------------------------------------------------------------------------
(* Theorems.                                                                 *)

\* The inductive invariant: a trip with its evidence, and what is installed is a good plan.
PlanInv ==
    /\ \E c \in Cases : trip = c.trip /\ input = c.input
    /\ changes \in Nat
    /\ Installed => GoodPlan(plan, LastDay(trip))

LEMMA TripGood ==
  ASSUME PlanInv
  PROVE  GoodInput(input) /\ GoodTrip(trip) /\ LastDay(trip) \in Nat
<1>1. PICK c \in Cases : trip = c.trip /\ input = c.input
  BY DEF PlanInv
<1>2. GoodInput(input) /\ GoodTrip(trip)
  <2>1. /\ trip.earliest \in 0 .. DayLength - 1 /\ trip.latest \in Nat
        /\ \A dir \in DOMAIN input.train : input.train[dir] \in Nat \X Nat
        /\ input.routes \in Seq(Routes)
        /\ input.attractions.map \in Seq(Places) /\ input.attractions.web \in Seq(Places)
    BY <1>1, CasesAssumption DEF Routes, Places
  <2>2. \A dir \in DOMAIN input.train :
          input.train[dir][1] \in Nat /\ input.train[dir][2] \in Nat
    BY <2>1
  <2> QED
    BY <2>1, <2>2 DEF GoodInput, GoodTrip
<1> QED
  BY <1>2, EmptyGood DEF GoodTrip

\* One more change of an edit, and so all the edits that may be made.
LEMMA OneMoreGood ==
  ASSUME NEW p, NEW f, GoodEdit(f), NEW g \in OneMore(p, f)
  PROVE  GoodEdit(g)
<1> DEFINE more == {[f EXCEPT !.must = @ \union {a}] : a \in Attractions(p) \ f.must}
           fewer == {[f EXCEPT !.removed = @ \union {a}] : a \in Attractions(p) \ f.removed}
           held == {[f EXCEPT !.locked = @ \union {id}] : id \in IdsPlaced(p) \ f.locked}
           paced == {[f EXCEPT !.pace = q] : q \in {x \in Paces : f.pace = None}}
           put == {[f EXCEPT !.forced = With(@, a, d)] :
                    a \in Attractions(p) \ DOMAIN f.forced, d \in DOMAIN p.days}
           longer == {[f EXCEPT !.minutes = With(@, a, m)] :
                    a \in Attractions(p) \ DOMAIN f.minutes, m \in Lengths}
           later == {[f EXCEPT !.starts = With(@, d, t)] :
                    d \in DOMAIN p.days \ DOMAIN f.starts, t \in Clocks}
<1>0. g \in more \union fewer \union held \union paced \union put \union longer \union later
  BY DEF OneMore
<1>1. CASE g \in more
  BY <1>1, FS_AddElement DEF GoodEdit, Changed
<1>2. CASE g \in fewer
  BY <1>2, FS_AddElement DEF GoodEdit, Changed
<1>3. CASE g \in held
  BY <1>3, FS_AddElement DEF GoodEdit, Changed
<1>4. CASE g \in put
  <2>1. PICK a, d : g = [f EXCEPT !.forced = With(@, a, d)]
    BY <1>4
  <2>2. DOMAIN With(f.forced, a, d) = DOMAIN f.forced \union {a}
    BY DEF With
  <2> QED
    BY <2>1, <2>2, FS_AddElement DEF GoodEdit, Changed
<1>5. CASE g \in longer
  <2>1. PICK a, m : m \in Lengths /\ g = [f EXCEPT !.minutes = With(@, a, m)]
    BY <1>5
  <2>2. m \in Int
    BY <2>1, BoundsAssumption
  <2>3. DOMAIN With(f.minutes, a, m) = DOMAIN f.minutes \union {a}
        /\ \A b \in DOMAIN f.minutes \union {a} : With(f.minutes, a, m)[b] \in Int
    BY <2>2 DEF With, GoodEdit
  <2> QED
    BY <2>1, <2>3, FS_AddElement DEF GoodEdit, Changed
<1>6. CASE g \in later
  <2>1. PICK d, t : t \in Clocks /\ g = [f EXCEPT !.starts = With(@, d, t)]
    BY <1>6
  <2>2. t \in Int
    BY <2>1, BoundsAssumption
  <2>3. DOMAIN With(f.starts, d, t) = DOMAIN f.starts \union {d}
        /\ \A b \in DOMAIN f.starts \union {d} : With(f.starts, d, t)[b] \in Int
    BY <2>2 DEF With, GoodEdit
  <2> QED
    BY <2>1, <2>3, FS_AddElement DEF GoodEdit, Changed
<1>7. CASE g \in paced
  BY <1>7 DEF GoodEdit, Changed
<1> HIDE DEF more, fewer, held, paced, put, longer, later
<1> QED
  BY <1>0, <1>1, <1>2, <1>3, <1>4, <1>5, <1>6, <1>7

LEMMA EditsGood ==
  ASSUME NEW p, NEW room \in Nat, NEW e \in EditsOf(p, room)
  PROVE  GoodEdit(e)
<1> DEFINE first == {NoEdits}
           grown(E, i) == E \union UNION {OneMore(p, f) : f \in E}
           is(h, n) == h = [k \in 0 .. n |-> IF k = 0 THEN first ELSE grown(h[k - 1], k)]
           upTo == CHOOSE h : is(h, room)
<1> HIDE DEF first
<1>2. is(upTo, room)
  <2> DEFINE T == {n \in Nat : \E h : is(h, n)}
  <2> HIDE DEF grown
  <2>1. is([k \in 0 .. 0 |-> first], 0)
    OBVIOUS
  <2>2. ASSUME NEW n \in Nat, NEW f, is(f, n) PROVE \E g : is(g, n + 1)
    <3>1. is([k \in 0 .. n + 1 |-> IF k = n + 1 THEN grown(f[n], k) ELSE f[k]], n + 1)
      BY <2>2
    <3> HIDE DEF is
    <3> QED
      BY <3>1
  <2> HIDE DEF is
  <2>3. T \in SUBSET Nat /\ 0 \in T /\ \A n \in T : n + 1 \in T
    BY <2>1, <2>2
  <2>4. room \in T
    <3> HIDE DEF T
    <3> QED
      BY <2>3, NatSet
  <2> QED
    BY <2>4
<1> HIDE DEF grown
<1>3. upTo[0] = first /\ \A k \in 1 .. room : upTo[k] = grown(upTo[k - 1], k)
  <2> HIDE DEF upTo
  <2> QED
    BY <1>2
<1>4. e \in upTo[room]
  BY DEF EditsOf, Loop, grown, first
<1> HIDE DEF is, upTo
<1>5. \A k \in 0 .. room : \A f \in upTo[k] : GoodEdit(f)
  <2> DEFINE holds(k) == \A f \in upTo[k] : GoodEdit(f)
             T == {k \in 0 .. room : holds(k)}
  <2>1. holds(0)
    <3>1. DOMAIN <<>> = {}
      OBVIOUS
    <3>2. GoodEdit(NoEdits)
      BY <3>1, FS_EmptySet DEF NoEdits, GoodEdit, Changed
    <3> QED
      BY <1>3, <3>2 DEF first
  <2>2. ASSUME NEW k \in 0 .. room - 1, holds(k) PROVE holds(k + 1)
    <3>1. upTo[k + 1] = grown(upTo[k], k + 1)
      BY <1>3
    <3>2. upTo[k + 1] = upTo[k] \union UNION {OneMore(p, f) : f \in upTo[k]}
      BY <3>1 DEF grown
    <3> QED
      BY <2>2, <3>2, OneMoreGood
  <2> HIDE DEF holds
  <2>3. 0 \in T /\ \A k \in 0 .. room - 1 : k \in T => k + 1 \in T
    BY <2>1, <2>2
  <2> HIDE DEF T
  <2>4. \A k \in 0 .. room : k \in T
    BY <2>3, UpTo
  <2> QED
    BY <2>4 DEF T, holds
<1> QED
  BY <1>4, <1>5

\* What an edit is, and what it does to the plan.
LEMMA RevisedBy ==
  ASSUME PlanInv, Revise
  PROVE  /\ GoodEdit(edits') /\ edits' # NoEdits
         /\ \E set : GoodSettings(set) /\ plan' = Replanned(plan, set, edits')
         /\ changes' \in Nat
         /\ LastDay(trip) \in Nat /\ GoodPlan(plan, LastDay(trip))
<1>1. MaxChanges - changes \in Nat
  BY BoundsAssumption DEF PlanInv, Revise
<1>2. PICK e \in EditsOf(plan, MaxChanges - changes) :
        /\ plan' = Replanned(plan, Settings(IF e.pace = None THEN trip.pace ELSE e.pace), e)
        /\ edits' = e /\ changes' = changes + Size(e)
  BY DEF Revise
<1>3. GoodEdit(e) /\ e # NoEdits
  <2>1. GoodEdit(e)
    BY <1>1, EditsGood
  <2>2. e # NoEdits
    BY Zenon DEF EditsOf
  <2> QED
    BY <2>1, <2>2
<1>4. Size(e) \in Nat
  BY <1>3, FS_CardinalityType DEF Size, GoodEdit
<1>5. \E set : GoodSettings(set) /\ plan' = Replanned(plan, set, e)
  BY <1>2, SettingsGood
<1> QED
  BY <1>2, <1>3, <1>4, <1>5, TripGood DEF PlanInv, Revise

LEMMA ReviseKeeps ==
  ASSUME PlanInv, Revise
  PROVE  /\ GoodPlan(plan', LastDay(trip))
         /\ \A id \in IdsPlaced(plan) \intersect edits'.locked : Stays(plan, plan', edits', id)
         /\ \A a \in Attractions(plan) \ Attractions(plan') :
               \/ a \in edits'.removed \ edits'.must
               \/ a \in plan'.unscheduled /\ <<"forced_day_capacity", a>> \in plan'.conflicts
<1>1. PICK set : GoodSettings(set) /\ plan' = Replanned(plan, set, edits')
  BY RevisedBy
<1> QED
  BY <1>1, RevisedBy, ReplannedKeeps

\* A restart gives every listing of a ride an event of its own.
LEMMA ReloadKeeps ==
  ASSUME PlanInv, Reload
  PROVE  LET last == LastDay(trip)
             kin == [l \in RideListings(plan) |-> {l}]
         IN  /\ Installed /\ last \in Nat /\ GoodPlan(plan, last)
             /\ Kin(plan, kin) /\ plan' = Separated(plan, kin)
             /\ GoodPlan(plan', last)
             /\ UNCHANGED <<trip, input, now, state, edits, changes>>
<1> DEFINE kin == [l \in RideListings(plan) |-> {l}]
           last == LastDay(trip)
<1>1. \E l \in RideListings(plan) : TRUE
  BY DEF Reload
<1>2. Installed
  <2>1. DOMAIN <<>> = {}
    OBVIOUS
  <2>2. plan = NoPlan => DOMAIN plan.days = {}
    BY <2>1 DEF NoPlan
  <2> QED
    BY <1>1, <2>2 DEF RideListings, Installed
<1>3. Kin(plan, kin)
  BY DEF Kin
<1>4. /\ plan' = Separated(plan, kin)
      /\ UNCHANGED <<trip, input, now, state, edits, changes>>
  BY Zenon DEF Reload
<1>5. last \in Nat /\ GoodPlan(plan, last)
  BY <1>2, TripGood DEF PlanInv
<1>6. GoodPlan(Separated(plan, kin), last)
  <2>1. \A l \in DOMAIN kin : IdOf(Key(plan, l)) \notin NoEdits.locked
    BY DEF NoEdits
  <2> HIDE DEF kin, last
  <2> QED
    BY <1>3, <1>5, <2>1, SeparatedKeeps
<1> QED
  BY <1>2, <1>3, <1>4, <1>5, <1>6

LEMMA PlanInvStep ==
  ASSUME PlanInv, [Next]_vars
  PROVE  PlanInv'
<1>1. CASE RunPlanner
  <2>1. trip' = trip /\ input' = input /\ changes' = changes
        /\ plan' = Install(Compile(input, trip, now))
    BY <1>1 DEF RunPlanner
  <2>2. GoodDraft(Compile(input, trip, now), LastDay(trip))
    BY TripGood, CompileGood DEF Sound
  <2>3. plan' = NoPlan \/ GoodPlan(plan', LastDay(trip))
    BY <2>1, <2>2, InstallGood
  <2> QED
    BY <2>1, <2>3 DEF PlanInv, Installed
<1>2. CASE Revise
  <2>1. trip' = trip /\ input' = input
    BY <1>2 DEF Revise
  <2>2. GoodPlan(plan', LastDay(trip)) /\ changes' \in Nat
    BY <1>2, ReviseKeeps, RevisedBy
  <2> QED
    BY <2>1, <2>2 DEF PlanInv
<1>3. CASE Reload
  <2>1. /\ trip' = trip /\ input' = input /\ changes' = changes
        /\ GoodPlan(plan', LastDay(trip))
    BY <1>3, ReloadKeeps
  <2> QED
    BY <2>1 DEF PlanInv
<1>4. CASE UNCHANGED vars
  BY <1>4 DEF PlanInv, Installed, vars
<1> QED
  BY <1>1, <1>2, <1>3, <1>4 DEF Next

\* Of any trip, and any evidence whose routes have ids of their own and whose attractions
\* have names: whatever was compiled, and however often it was edited and loaded again, the
\* installed plan lists only events it has, every visit under the id of its attraction.
THEOREM PlansAreGood == Spec => []PlanInv
<1>1. Init => PlanInv
  BY DEF Init, PlanInv, Installed
<1>2. PlanInv /\ [Next]_vars => PlanInv'
  BY PlanInvStep
<1> QED
  BY <1>1, <1>2, PTL DEF Spec

\* An unedited plan has both times of the hotel.
HotelKept == Installed /\ edits = NoEdits =>
                CheckIn \in DOMAIN plan.event /\ CheckOut \in DOMAIN plan.event

\* The listings that come apart show the same events.
LEMMA SeparatedSame ==
  ASSUME NEW last, NEW p, Listed(p, last), NEW kin, Kin(p, kin), NEW q, q = Separated(p, kin)
  PROVE  /\ DOMAIN p.event \subseteq DOMAIN q.event
         /\ \A x \in DOMAIN p.event : x[1] # "local" => q.event[x] = p.event[x]
         /\ \A d \in 0 .. last :
               /\ DOMAIN q.days[d] = DOMAIN p.days[d]
               /\ \A k \in DOMAIN p.days[d] :
                     /\ q.event[q.days[d][k]] = p.event[p.days[d][k]]
                     /\ IdOf(q.days[d][k]) = IdOf(p.days[d][k])
<1> DEFINE r == Separated(p, kin)
<1>1. /\ Listed(r, last)
      /\ r.conflicts = p.conflicts /\ r.unscheduled = p.unscheduled
      /\ DOMAIN p.event \subseteq DOMAIN r.event
      /\ \A x \in DOMAIN r.event \ DOMAIN p.event : x[1] = "local"
      /\ \A x \in DOMAIN p.event : x[1] # "local" => r.event[x] = p.event[x]
      /\ \A d \in 0 .. last :
            /\ DOMAIN r.days[d] = DOMAIN p.days[d]
            /\ \A k \in DOMAIN p.days[d] :
                  /\ r.event[r.days[d][k]] = p.event[p.days[d][k]]
                  /\ IdOf(r.days[d][k]) = IdOf(p.days[d][k])
                  /\ <<d, k>> \notin DOMAIN kin => r.days[d][k] = p.days[d][k]
  BY SeparatedPlan
<1>2. q = r
  OBVIOUS
<1> HIDE DEF r
<1> QED
  BY <1>1, <1>2

\* The listings that come apart at a restart leave the plan sound.
LEMMA ReloadSound ==
  ASSUME PlanInv, PlanIsSound, HotelKept, Reload
  PROVE  PlanIsSound' /\ HotelKept'
<1> SUFFICES ASSUME edits = NoEdits
             PROVE  /\ PlanIsSound'
                    /\ CheckIn \in DOMAIN plan'.event /\ CheckOut \in DOMAIN plan'.event
  BY ReloadKeeps DEF PlanIsSound, HotelKept
<1> DEFINE q == plan'
           last == LastDay(trip)
           kin == [l \in RideListings(plan) |-> {l}]
<1>1. /\ Installed /\ last \in Nat /\ Listed(plan, last) /\ Listed(q, last)
      /\ Kin(plan, kin) /\ q = Separated(plan, kin)
  BY ReloadKeeps DEF GoodPlan
<1> HIDE DEF kin, last
<1>2. /\ DOMAIN plan.event \subseteq DOMAIN q.event
      /\ \A x \in DOMAIN plan.event : x[1] # "local" => q.event[x] = plan.event[x]
      /\ \A d \in 0 .. last :
            /\ DOMAIN q.days[d] = DOMAIN plan.days[d]
            /\ \A k \in DOMAIN plan.days[d] :
                  /\ q.event[q.days[d][k]] = plan.event[plan.days[d][k]]
                  /\ IdOf(q.days[d][k]) = IdOf(plan.days[d][k])
  BY <1>1, SeparatedSame
<1>3. /\ CheckIn \in DOMAIN q.event /\ CheckOut \in DOMAIN q.event
      /\ q.event[CheckIn] = plan.event[CheckIn] /\ q.event[CheckOut] = plan.event[CheckOut]
  BY <1>1, <1>2 DEF HotelKept, CheckIn, CheckOut
<1> HIDE DEF q
<1>4. DOMAIN q.days = 0 .. last /\ DOMAIN plan.days = 0 .. last
  BY <1>1 DEF Listed
<1>5. ASSUME NEW d \in 0 .. last, NEW x \in On(q, d)
      PROVE  \E u \in On(plan, d) : q.event[x] = plan.event[u] /\ IdOf(u) = IdOf(x)
  BY <1>2, <1>5 DEF On, ToSet
<1>6. \A x : x[1] # "local" => IdOf(x) = x
  BY DEF IdOf
<1>7. \A x : x[1] = "local" => IdOf(x)[1] = "local"
  BY DEF IdOf, RideId
<1>8. \A v \in VisitsOf(q) :
        /\ DayOf(q.event[v].start) = DayOf(q.event[CheckIn].end) =>
              q.event[v].start >= q.event[CheckIn].end
        /\ DayOf(q.event[v].start) = DayOf(q.event[CheckOut].start) =>
              q.event[v].end <= q.event[CheckOut].start
  <2> TAKE v \in VisitsOf(q)
  <2>1. PICK d \in 0 .. last : v \in On(q, d)
    BY <1>4 DEF VisitsOf, Placed
  <2>2. PICK u \in On(plan, d) : q.event[v] = plan.event[u]
    BY <1>5, <2>1
  <2>3. u \in VisitsOf(plan)
    BY <1>4, <2>2 DEF VisitsOf, Placed
  <2> QED
    BY <1>1, <1>3, <2>2, <2>3 DEF PlanIsSound
<1>9. \A d \in DOMAIN q.days : \A i, j \in On(q, d) :
        i[1] \in {"meal", "free"} => ~Clash(q, i, j)
  <2> SUFFICES ASSUME NEW d \in 0 .. last, NEW i \in On(q, d), NEW j \in On(q, d),
                      i[1] \in {"meal", "free"}
               PROVE  ~Clash(q, i, j)
    BY <1>4
  <2>1. PICK u \in On(plan, d) : q.event[i] = plan.event[u] /\ IdOf(u) = IdOf(i)
    BY <1>5
  <2>2. PICK w \in On(plan, d) : q.event[j] = plan.event[w] /\ IdOf(w) = IdOf(j)
    BY <1>5
  <2>3. u = i
    BY <1>6, <1>7, <2>1
  <2>4. w = i => j = i
    BY <1>6, <1>7, <2>2
  <2>5. ~Clash(plan, u, w)
    BY <1>1, <1>4, <2>3 DEF PlanIsSound
  <2> QED
    BY <2>1, <2>2, <2>3, <2>4, <2>5 DEF Clash
<1> QED
  BY <1>3, <1>8, <1>9 DEF PlanIsSound, q

\* compile() installs no visit that begins before check-in on the day of the arrival or ends
\* after check-out on the day of the departure, and no meal and no free time that lies on
\* another event; and a restart leaves it so.
THEOREM PlansAreSound == Spec => []PlanIsSound
<1>1. Init => PlanIsSound /\ HotelKept
  BY DEF Init, PlanIsSound, HotelKept, Installed
<1>2. PlanInv /\ PlanIsSound /\ HotelKept /\ [Next]_vars => PlanIsSound' /\ HotelKept'
  <2> SUFFICES ASSUME PlanInv, PlanIsSound, HotelKept, [Next]_vars
               PROVE  PlanIsSound' /\ HotelKept'
    OBVIOUS
  <2>1. CASE RunPlanner
    <3>1. plan' = Install(Compile(input, trip, now))
      BY <2>1 DEF RunPlanner
    <3>2. /\ GoodSettings(Settings(trip.pace))
          /\ Sound(Compile(input, trip, now), Settings(trip.pace), LastDay(trip))
      BY TripGood, SettingsGood, CompileGood
    <3> QED
      BY <3>1, <3>2, InstallSound DEF PlanIsSound, HotelKept, Installed, VisitsOf, Clash
  <2>2. CASE Revise
    <3>1. edits' # NoEdits
      BY <2>2, RevisedBy
    <3> QED
      BY <3>1 DEF PlanIsSound, HotelKept
  <2>3. CASE Reload
    BY <2>3, ReloadSound
  <2>4. CASE UNCHANGED vars
    BY <2>4 DEF PlanIsSound, HotelKept, Installed, VisitsOf, Clash, vars
  <2> QED
    BY <2>1, <2>2, <2>3, <2>4 DEF Next
<1> QED
  BY <1>1, <1>2, PlansAreGood, PTL DEF Spec

\* replan_itinerary leaves every locked event where it was last listed, at its time and
\* nowhere else, unless the attraction it goes with is removed; a ride that the compiler
\* listed twice, on the way from one attraction and to the next, too.
THEOREM LocksHold == Spec => LockedStay
<1> DEFINE Stay == changes' # changes =>
             \A id \in IdsPlaced(plan) \intersect edits'.locked :
                LET was == LastListing(plan, id)
                    listed == {d \in DOMAIN plan'.days : id \in IdsOn(plan', d)}
                IN  \/ /\ listed = {was.day} /\ id \in On(plan', was.day)
                       /\ plan'.event[id] = was.event
                    \/ was.event.goesWith \in edits'.removed /\ listed = {}
<1>1. PlanInv /\ [Next]_vars => [Stay]_vars
  <2> SUFFICES ASSUME PlanInv, Next, changes' # changes PROVE Stay
    OBVIOUS
  <2>1. Revise
    BY DEF Next, RunPlanner, Reload
  <2> QED
    BY <2>1, ReviseKeeps, Zenon DEF Stays
<1> HIDE DEF Stay
<1>2. LockedStay <=> [][Stay]_vars
  BY DEF LockedStay, Stay
<1> QED
  BY <1>1, <1>2, PlansAreGood, PTL DEF Spec

\* replan_itinerary loses no attraction: what is no longer in the plan was removed by the
\* user, or is named among the unscheduled and in a conflict.
THEOREM NobodyLost == Spec => NobodyIsLost
<1> DEFINE Kept == changes' # changes =>
             \A a \in Attractions(plan) \ Attractions(plan') :
               \/ a \in edits'.removed \ edits'.must
               \/ a \in plan'.unscheduled
                   /\ <<"forced_day_capacity", a>> \in plan'.conflicts
<1>1. PlanInv /\ [Next]_vars => [Kept]_vars
  <2> SUFFICES ASSUME PlanInv, Next, changes' # changes PROVE Kept
    OBVIOUS
  <2>1. Revise
    BY DEF Next, RunPlanner, Reload
  <2> QED
    BY <2>1, ReviseKeeps
<1> HIDE DEF Kept
<1>2. NobodyIsLost <=> [][Kept]_vars
  BY DEF NobodyIsLost, Kept
<1> QED
  BY <1>1, <1>2, PlansAreGood, PTL DEF Spec

\* replan_itinerary reports a day whose events lie on each other where nothing that was
\* listed on it before began during anything else, unless a meal is taken during one of the
\* two.
THEOREM OverlapsReported == Spec => OverlapsAreTold
<1> DEFINE Told == changes' # changes =>
             \A d \in DOMAIN plan.days :
                /\ Calm(plan, d)
                /\ \E i, j \in On(plan', d) :
                    /\ Clash(plan', i, j)
                    /\ \A id \in On(plan', d) : plan'.event[id].overlaps \notin {i, j}
                => \E c \in plan'.conflicts : c[1] = "timeline_overlap" /\ c[2][1] = d
<1>1. PlanInv /\ [Next]_vars => [Told]_vars
  <2> SUFFICES ASSUME PlanInv, Next, changes' # changes,
                      NEW d \in DOMAIN plan.days, Calm(plan, d),
                      NEW i \in On(plan', d), NEW j \in On(plan', d), Clash(plan', i, j),
                      \A id \in On(plan', d) : plan'.event[id].overlaps \notin {i, j}
               PROVE  \E c \in plan'.conflicts : c[1] = "timeline_overlap" /\ c[2][1] = d
    OBVIOUS
  <2>1. Revise
    BY DEF Next, RunPlanner, Reload
  <2>2. PICK set : GoodSettings(set) /\ plan' = Replanned(plan, set, edits')
    BY <2>1, RevisedBy
  <2>3. /\ GoodEdit(edits')
        /\ LastDay(trip) \in Nat /\ GoodPlan(plan, LastDay(trip))
    BY <2>1, RevisedBy
  <2>4. d \in 0 .. LastDay(trip)
    BY <2>3 DEF GoodPlan, Listed
  <2> QED
    BY <2>2, <2>3, <2>4, OverlapsTold
<1> HIDE DEF Told
<1>2. OverlapsAreTold <=> [][Told]_vars
  BY DEF OverlapsAreTold, Told
<1> QED
  BY <1>1, <1>2, PlansAreGood, PTL DEF Spec
=============================================================================
