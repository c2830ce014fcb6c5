----------------------------- MODULE KneeProofs -----------------------------
(***************************************************************************)
(* Proofs about Knee: for every sweep, plateau size and departure factor   *)
(* the walk of knee.py reports the lowest sustained departure, and with a  *)
(* factor of at least one it never walks through the lower half of the     *)
(* plateau.                                                                *)
(***************************************************************************)
EXTENDS Knee, Counting, SequenceTheorems

-----------------------------------------------------------------------------
(* The sort.                                                               *)

Point == [rate : Int, value : Int]

\* The sweeps the code does not refuse.
Distinct(p) == \A i, j \in DOMAIN p : i # j => p[i].rate # p[j].rate

LEMMA Indices ==
  ASSUME NEW m \in Nat
  PROVE  IsFiniteSet(1..m) /\ Cardinality(1..m) = m
<1>1. 1 \in Int /\ m \in Int
  OBVIOUS
<1> QED
  BY <1>1, FS_Interval

LEMMA Sorted ==
  ASSUME NEW p \in Seq(Point), Distinct(p)
  PROVE  LET s == ByRate(p)
             P == {p[j] : j \in DOMAIN p}
             n == Len(p)
         IN  /\ s \in Seq(Point) /\ Len(s) = n /\ DOMAIN s = 1..n
             /\ \A i \in 1..n : s[i] \in P
             /\ \A x \in P : \E i \in 1..n : s[i] = x
             /\ \A i, j \in 1..n : i < j => s[i].rate < s[j].rate
<1> DEFINE n == Len(p)
           S == 1..n
           P == {p[j] : j \in S}
           R == {r \in S \X S : p[r[1]].rate < p[r[2]].rate}
           rank == [j \in S |-> Cardinality(Below(S, R, j))]
           s == ByRate(p)
<1>1. n \in Nat /\ DOMAIN p = S /\ \A i \in S : p[i] \in Point
  BY LenProperties, ElementOfSeq
<1>2. \A i \in S : p[i].rate \in Int
  BY <1>1 DEF Point
<1>3. IsFiniteSet(S) /\ Cardinality(S) = n
  BY <1>1, Indices
<1>4. \A i, j \in S : <<i, j>> \in R <=> p[i].rate < p[j].rate
  OBVIOUS
<1>5. StrictOrder(S, R)
  <2>1. \A x \in S : <<x, x>> \notin R
    BY <1>2, <1>4
  <2>2. \A x, y \in S : x # y => <<x, y>> \in R \/ <<y, x>> \in R
    BY <1>1, <1>2, <1>4 DEF Distinct
  <2>3. \A x, y, z \in S : <<x, y>> \in R /\ <<y, z>> \in R => <<x, z>> \in R
    BY <1>2, <1>4
  <2> HIDE DEF R
  <2> QED
    BY <2>1, <2>2, <2>3 DEF StrictOrder
<1>6. \A j \in S : Below(S, R, j) = {i \in S : p[i].rate < p[j].rate}
  BY <1>4 DEF Below
<1> HIDE DEF R
<1>7. rank \in Bijection(S, 0..(n - 1))
  BY <1>3, <1>5, RankBijection
<1>8. /\ rank \in [S -> 0..(n - 1)]
      /\ \A i, j \in S : rank[i] = rank[j] => i = j
      /\ \A t \in 0..(n - 1) : \E j \in S : rank[j] = t
  <2> DEFINE N == 0..(n - 1)
  <2> HIDE DEF rank, S, N
  <2>1. rank \in Bijection(S, N)
    BY <1>7 DEF N
  <2>2. /\ rank \in [S -> N]
        /\ \A i, j \in S : rank[i] = rank[j] => i = j
        /\ \A t \in N : \E j \in S : rank[j] = t
    BY <2>1, Fun_BijectionProperties
  <2> QED
    BY <2>2 DEF N
<1>9. \A i, j \in S : p[i].rate < p[j].rate => rank[i] < rank[j]
  BY <1>3, <1>4, <1>5, RankBelow
<1>10. \A j \in S : rank[j] = Cardinality({i \in S : p[i].rate < p[j].rate})
  BY <1>6
<1> HIDE DEF rank
<1> DEFINE at(i) == CHOOSE j \in S : rank[j] = i - 1
<1>11. \A i \in S : at(i) \in S /\ rank[at(i)] = i - 1
  <2> SUFFICES ASSUME NEW i \in S PROVE at(i) \in S /\ rank[at(i)] = i - 1
    OBVIOUS
  <2>1. i - 1 \in 0..(n - 1)
    BY <1>1
  <2> QED
    BY <1>8, <2>1
<1>12. s = [i \in S |-> CHOOSE x \in P : Cardinality({j \in S : p[j].rate < x.rate}) = i - 1]
  BY <1>1 DEF ByRate
<1>13. ASSUME NEW i \in S PROVE s[i] = p[at(i)]
  <2> DEFINE is(x) == Cardinality({j \in S : p[j].rate < x.rate}) = i - 1
  <2>1. p[at(i)] \in P /\ is(p[at(i)])
    BY <1>10, <1>11
  <2>2. ASSUME NEW x \in P, is(x) PROVE x = p[at(i)]
    <3>1. PICK j \in S : x = p[j]
      OBVIOUS
    <3>2. rank[j] = i - 1
      BY <1>10, <2>2, <3>1
    <3>3. j = at(i)
      BY <1>8, <1>11, <3>2
    <3> QED
      BY <3>1, <3>3
  <2>3. s[i] = CHOOSE x \in P : is(x)
    BY <1>12
  <2> HIDE DEF is, at, s, P
  <2> QED
    BY <2>1, <2>2, <2>3
<1> HIDE DEF at, s
<1>14. /\ DOMAIN s = S
       /\ \A i \in S : s[i] \in P /\ s[i] \in Point
  BY <1>1, <1>11, <1>12, <1>13
<1>15. s \in Seq(Point) /\ Len(s) = n
  <2>1. s = [i \in 1..n |-> s[i]]
    BY <1>12, <1>14
  <2>2. s \in Seq(Point)
    BY <1>1, <1>14, <2>1, IsASeq
  <2> QED
    BY <1>1, <1>14, <2>2, LenProperties
<1>16. ASSUME NEW x \in P PROVE \E i \in S : s[i] = x
  <2>1. PICK j \in S : x = p[j]
    OBVIOUS
  <2>2. rank[j] \in 0..(n - 1)
    BY <1>8
  <2>3. rank[j] + 1 \in S /\ rank[j] = (rank[j] + 1) - 1
    BY <1>1, <2>2
  <2> DEFINE a == at(rank[j] + 1)
  <2>4. a \in S /\ rank[a] = rank[j]
    BY <1>11, <2>3
  <2>5. a = j
    <3> HIDE DEF a
    <3> QED
      BY <1>8, <2>4
  <2> QED
    BY <1>13, <2>1, <2>3, <2>5
<1>17. ASSUME NEW i \in S, NEW j \in S, i < j PROVE s[i].rate < s[j].rate
  <2>1. at(i) \in S /\ at(j) \in S /\ rank[at(i)] < rank[at(j)]
    BY <1>1, <1>11, <1>17
  <2>2. rank[at(i)] \in 0..(n - 1) /\ rank[at(j)] \in 0..(n - 1)
    BY <1>8, <2>1
  <2>3. at(i) # at(j)
    BY <2>1, <2>2
  <2>4. p[at(i)].rate # p[at(j)].rate
    BY <1>1, <2>1, <2>3 DEF Distinct
  <2>5. ~(p[at(j)].rate < p[at(i)].rate)
    BY <1>9, <2>1, <2>2
  <2>6. p[at(i)].rate < p[at(j)].rate
    BY <1>2, <2>1, <2>4, <2>5
  <2> QED
    BY <1>13, <2>6
<1>18. P = {p[j] : j \in DOMAIN p}
  BY <1>1
<1> HIDE DEF P
<1> QED
  BY <1>1, <1>14, <1>15, <1>16, <1>17, <1>18 DEF s

\* What the definitions of the properties count by rate is counted by index.
IsSorted(s, P) ==
  /\ s \in Seq(Point)
  /\ P = {s[i] : i \in 1..Len(s)}
  /\ \A i, j \in 1..Len(s) : i < j => s[i].rate < s[j].rate

LEMMA LowestByIndex ==
  ASSUME NEW s, IsSorted(s, PointSet), NEW k \in 0..Len(s)
  PROVE  Lowest(k) = {s[i] : i \in 1..k}
<1> DEFINE n == Len(s)
           P == PointSet
<1> HIDE DEF P
<1>1. IsSorted(s, P)
  BY DEF P
<1>2. n \in Nat /\ \A i \in 1..n : s[i] \in Point /\ s[i].rate \in Int
  <2>1. s \in Seq(Point)
    BY <1>1 DEF IsSorted
  <2>2. n \in Nat /\ \A i \in 1..n : s[i] \in Point
    BY <2>1, LenProperties, ElementOfSeq
  <2> QED
    BY <2>2 DEF Point
<1>3. \A i, j \in 1..n : s[j].rate < s[i].rate <=> j < i
  BY <1>1, <1>2 DEF IsSorted
<1>4. \A i, j \in 1..n : s[i] = s[j] => i = j
  BY <1>2, <1>3
<1>5. ASSUME NEW i \in 1..n
      PROVE  Cardinality({y \in P : y.rate < s[i].rate}) = i - 1
  <2>1. i - 1 \in Nat /\ \A j \in 1..n : j \in 1..(i - 1) <=> j < i
    BY <1>2
  <2>2. {y \in P : y.rate < s[i].rate} = {s[j] : j \in 1..(i - 1)}
    <3>1. ASSUME NEW y \in P, y.rate < s[i].rate PROVE y \in {s[j] : j \in 1..(i - 1)}
      <4>1. PICK j \in 1..n : y = s[j]
        BY <1>1 DEF IsSorted
      <4> QED
        BY <1>3, <2>1, <3>1, <4>1
    <3>2. ASSUME NEW j \in 1..(i - 1) PROVE s[j] \in P /\ s[j].rate < s[i].rate
      <4>1. j \in 1..n
        BY <1>2
      <4> QED
        BY <1>3, <2>1, <4>1, <1>1 DEF IsSorted
    <3> QED
      BY <3>1, <3>2
  <2>3. IsFiniteSet(1..(i - 1)) /\ Cardinality(1..(i - 1)) = i - 1
    BY <2>1, Indices
  <2> DEFINE S == 1..(i - 1)
  <2>4. \A a, b \in S : s[a] = s[b] => a = b
    <3>1. \A j \in S : j \in 1..n
      BY <1>2
    <3> QED
      BY <1>4, <3>1
  <2>5. IsFiniteSet(S)
    BY <2>3
  <2> HIDE DEF S
  <2>6. Cardinality({s[j] : j \in S}) = Cardinality(S)
    BY <2>4, <2>5, ImageSize
  <2> QED
    BY <2>2, <2>3, <2>6 DEF S
<1>6. \A i \in 1..n : Cardinality({y \in P : y.rate < s[i].rate}) < k <=> i \in 1..k
  BY <1>2, <1>5
<1>7. \A i \in 1..k : i \in 1..n
  BY <1>2
<1> DEFINE below(x) == Cardinality({y \in P : y.rate < x.rate})
<1>8. \A i \in 1..n : below(s[i]) < k <=> i \in 1..k
  BY <1>6
<1> HIDE DEF below
<1>9. {x \in P : below(x) < k} = {s[i] : i \in 1..k}
  BY <1>1, <1>7, <1>8 DEF IsSorted
<1> QED
  BY <1>9 DEF below, Lowest, P

-----------------------------------------------------------------------------
(* The median.                                                             *)

\* The two middle values, and what has at most half of the others on each
\* side.
HasHalves(f, S, v) ==
  /\ 2 * Cardinality(Under(f, S, v)) <= Cardinality(S)
  /\ 2 * Cardinality({x \in S : f[x] > v}) <= Cardinality(S)

LEMMA Halves ==
  ASSUME NEW S, IsFiniteSet(S), NEW f, \A x \in S : f[x] \in Int,
         NEW k, k = Cardinality(S), NEW a \in Int, NEW b \in Int,
         IsKth(f, S, (k + 1) \div 2, a), IsKth(f, S, k \div 2 + 1, b)
  PROVE  /\ a <= b
         /\ HasHalves(f, S, a) /\ HasHalves(f, S, b)
         /\ \A v \in Int : HasHalves(f, S, v) => a <= v /\ v <= b
<1>1. k \in Nat
  BY FS_CardinalityType
<1> DEFINE u(v) == Cardinality(Under(f, S, v))
           t(v) == Cardinality(UpTo(f, S, v))
           o(v) == Cardinality({x \in S : f[x] > v})
<1>2. \A v \in Int : u(v) \in Nat /\ t(v) \in Nat /\ t(v) + o(v) = k
  BY LevelSets, LevelsAddUp
<1>3. \A v \in Int : IsFiniteSet({x \in S : f[x] > v}) /\ o(v) \in Nat
  <2> SUFFICES ASSUME NEW v \in Int
               PROVE  IsFiniteSet({x \in S : f[x] > v}) /\ o(v) \in Nat
    OBVIOUS
  <2>1. {x \in S : f[x] > v} \in SUBSET S
    OBVIOUS
  <2> QED
    BY <2>1, FS_Subset, FS_CardinalityType
<1>4. \A v, w \in Int : v < w => t(v) <= u(w)
  <2> SUFFICES ASSUME NEW v \in Int, NEW w \in Int, v < w PROVE t(v) <= u(w)
    OBVIOUS
  <2>1. UpTo(f, S, v) \in SUBSET Under(f, S, w)
    BY DEF UpTo, Under
  <2> QED
    BY <2>1, LevelSets, FS_Subset
<1>5. /\ u(a) < (k + 1) \div 2 /\ t(a) >= (k + 1) \div 2
      /\ u(b) < k \div 2 + 1 /\ t(b) >= k \div 2 + 1
  BY DEF IsKth
<1> HIDE DEF u, t, o
<1>6. /\ (k + 1) \div 2 \in Nat /\ k \div 2 \in Nat
      /\ 2 * ((k + 1) \div 2) >= k /\ 2 * ((k + 1) \div 2) <= k + 1
      /\ 2 * (k \div 2) <= k /\ 2 * (k \div 2) >= k - 1
      /\ (k + 1) \div 2 <= k \div 2 + 1
  BY <1>1
<1> DEFINE h == (k + 1) \div 2
           l == k \div 2
<1> HIDE DEF h, l
<1>7. /\ h \in Nat /\ l \in Nat /\ 2 * h >= k /\ 2 * h <= k + 1
      /\ 2 * l <= k /\ 2 * l >= k - 1 /\ h <= l + 1
  BY <1>6 DEF h, l
<1>8. u(a) < h /\ t(a) >= h /\ u(b) < l + 1 /\ t(b) >= l + 1
  BY <1>5 DEF h, l
<1>9. ASSUME NEW x \in Nat, NEW y \in Nat, NEW z \in Nat, y + z = k
      PROVE  /\ 2 * x <= k /\ 2 * z <= k => x < l + 1 /\ y >= h
             /\ x < l + 1 /\ y >= h => 2 * x <= k /\ 2 * z <= k
  BY <1>1, <1>7, <1>9
<1>10. ASSUME NEW v \in Int
      PROVE  2 * u(v) <= k /\ 2 * o(v) <= k <=> u(v) < l + 1 /\ t(v) >= h
  BY <1>9, <1>2, <1>3
<1>11. a <= b
  BY <1>1, <1>2, <1>4, <1>7, <1>8
<1>12. \A v \in Int : 2 * u(v) <= k /\ 2 * o(v) <= k => a <= v /\ v <= b
  <2> SUFFICES ASSUME NEW v \in Int, 2 * u(v) <= k, 2 * o(v) <= k PROVE a <= v /\ v <= b
    OBVIOUS
  <2>1. u(v) < l + 1 /\ t(v) >= h
    BY <1>10
  <2>2. ~(v < a)
    BY <1>2, <1>4, <1>7, <1>8, <2>1
  <2>3. ~(b < v)
    BY <1>2, <1>4, <1>7, <1>8, <2>1
  <2> QED
    BY <2>2, <2>3
<1>13. \A v \in {a, b} : 2 * u(v) <= k /\ 2 * o(v) <= k
  <2>1. u(a) < l + 1 /\ t(b) >= h
    BY <1>1, <1>2, <1>7, <1>8
  <2> QED
    BY <1>10, <1>8, <2>1
<1> QED
  BY <1>11, <1>12, <1>13 DEF u, o, HasHalves

ValuesOf(s, k) == [i \in 1..k |-> s[i].value]

LEMMA RankedIsKth ==
  ASSUME NEW s \in Seq(Point), NEW k \in 1..Len(s), NEW j \in 1..k
  PROVE  /\ Ranked(s, k, j) \in Int
         /\ \E i \in 1..k : s[i].value = Ranked(s, k, j)
         /\ IsKth(ValuesOf(s, k), 1..k, j, Ranked(s, k, j))
<1> DEFINE f == ValuesOf(s, k)
           S == 1..k
           is(v) == IsKth(f, S, j, v)
<1>1. Len(s) \in Nat /\ \A i \in 1..Len(s) : s[i] \in Point
  BY LenProperties, ElementOfSeq
<1>2. k \in Nat /\ \A i \in S : s[i].value \in Int /\ f[i] = s[i].value
  BY <1>1 DEF Point, ValuesOf
<1>3. IsFiniteSet(S) /\ Cardinality(S) = k
  BY <1>2, Indices
<1>4. Ranked(s, k, j) = CHOOSE v \in {s[i].value : i \in S} : is(v)
  <2>1. \A v : /\ Under(f, S, v) = {i \in 1..k : s[i].value < v}
               /\ UpTo(f, S, v) = {i \in 1..k : s[i].value <= v}
    BY <1>2 DEF Under, UpTo
  <2>2. \A v : is(v) <=> /\ Cardinality({i \in 1..k : s[i].value < v}) < j
                        /\ Cardinality({i \in 1..k : s[i].value <= v}) >= j
    BY <2>1 DEF IsKth
  <2> HIDE DEF is
  <2> QED
    BY <2>2 DEF Ranked
<1>5. \E x \in S : is(f[x])
  <2> HIDE DEF S, f
  <2>1. j \in 1..Cardinality(S) /\ \A x \in S : f[x] \in Int
    BY <1>2, <1>3 DEF S
  <2> QED
    BY <1>3, <2>1, KthExists
<1> HIDE DEF is
<1>6. Ranked(s, k, j) \in {s[i].value : i \in S} /\ is(Ranked(s, k, j))
  BY <1>2, <1>4, <1>5
<1> QED
  BY <1>2, <1>6 DEF is

\* A point is a departure exactly when the walk finds it above the plateau.
LEMMA DepartureIsAbove ==
  ASSUME NEW s, IsSorted(s, PointSet), NEW k \in 1..Len(s),
         k = PlateauSize(points, plateau_points), NEW p \in 1..Len(s)
  PROVE  IsDeparture(s[p]) <=> Above(s, k, p)
<1> DEFINE n == Len(s)
           f == ValuesOf(s, k)
           K == 1..k
           low == {s[j] : j \in K}
           a == Ranked(s, k, (k + 1) \div 2)
           b == Ranked(s, k, k \div 2 + 1)
<1>1. n \in Nat /\ s \in Seq(Point) /\ \A i \in 1..n : s[i] \in Point
  <2>1. s \in Seq(Point)
    BY DEF IsSorted
  <2> QED
    BY <2>1, LenProperties, ElementOfSeq
<1>2. /\ \A i \in K : i \in 1..n /\ s[i].value \in Int /\ s[i].rate \in Int
                     /\ f[i] = s[i].value
      /\ k \in Nat /\ k >= 1
  <2>1. k \in Nat /\ k >= 1 /\ \A i \in K : i \in 1..n
    BY <1>1
  <2>2. \A q \in Point : q.value \in Int /\ q.rate \in Int
    BY DEF Point
  <2>3. \A i \in K : f[i] = s[i].value
    BY DEF ValuesOf
  <2> HIDE DEF K, f
  <2> QED
    BY <1>1, <2>1, <2>2, <2>3
<1>3. \A i, j \in K : s[i] = s[j] => i = j
  <2>1. \A i, j \in 1..n : i < j => s[i].rate < s[j].rate
    BY DEF IsSorted
  <2> HIDE DEF K, n
  <2> SUFFICES ASSUME NEW i \in K, NEW j \in K, s[i] = s[j], i # j PROVE FALSE
    OBVIOUS
  <2>2. i \in Int /\ j \in Int /\ (i < j \/ j < i)
    BY DEF K
  <2>3. s[i].rate < s[j].rate \/ s[j].rate < s[i].rate
    BY <1>2, <2>1, <2>2
  <2> QED
    BY <1>2, <2>3
<1>4. IsFiniteSet(K) /\ Cardinality(K) = k
  BY <1>2, Indices
<1>5. Lowest(k) = low
  <2>1. k \in 0..Len(s)
    BY <1>1
  <2> QED
    BY <2>1, LowestByIndex
<1> HIDE DEF K, f
<1>6. ASSUME NEW I \in SUBSET K
      PROVE  Cardinality({s[j] : j \in I}) = Cardinality(I)
  <2>1. IsFiniteSet(I) /\ \A i, j \in I : s[i] = s[j] => i = j
    BY <1>3, <1>4, FS_Subset
  <2> QED
    BY <2>1, ImageSize
<1>7. Cardinality(low) = k
  BY <1>4, <1>6
<1>8. ASSUME NEW v
      PROVE  /\ Cardinality({y \in low : y.value < v}) = Cardinality(Under(f, K, v))
             /\ Cardinality({y \in low : y.value > v}) = Cardinality({i \in K : f[i] > v})
  <2>1. {y \in low : y.value < v} = {s[j] : j \in Under(f, K, v)}
    BY <1>2 DEF Under
  <2>2. {y \in low : y.value > v} = {s[j] : j \in {i \in K : f[i] > v}}
    BY <1>2
  <2>3. Under(f, K, v) \in SUBSET K /\ {i \in K : f[i] > v} \in SUBSET K
    BY DEF Under
  <2> QED
    BY <1>6, <2>1, <2>2, <2>3
<1>9. (k + 1) \div 2 \in 1..k /\ k \div 2 + 1 \in 1..k
  BY <1>2
<1>10. /\ a \in Int /\ IsKth(f, K, (k + 1) \div 2, a) /\ \E i \in K : s[i].value = a
       /\ b \in Int /\ IsKth(f, K, k \div 2 + 1, b) /\ \E i \in K : s[i].value = b
  BY <1>1, <1>9, RankedIsKth DEF K, f
<1> HIDE DEF a, b
<1> DEFINE Mid(v) == HasHalves(f, K, v)
<1>11. (\A v \in Int : Mid(v) => a <= v /\ v <= b) /\ Mid(a) /\ Mid(b)
  <2>1. \A i \in K : f[i] \in Int
    BY <1>2
  <2>2. IsFiniteSet(K) /\ k = Cardinality(K) /\ a \in Int /\ b \in Int
    BY <1>4, <1>10
  <2>3. IsKth(f, K, (k + 1) \div 2, a) /\ IsKth(f, K, k \div 2 + 1, b)
    BY <1>10
  <2> QED
    BY <2>1, <2>2, <2>3, Halves
<1> DEFINE lowest == Lowest(PlateauSize(points, plateau_points))
           size == Cardinality(lowest)
           middle == {m \in lowest :
                        /\ 2 * Cardinality({y \in lowest : y.value < m.value}) <= size
                        /\ 2 * Cardinality({y \in lowest : y.value > m.value}) <= size}
<1>12. \A m : m \in middle <=> m \in low /\ Mid(m.value)
  <2>1. lowest = low /\ size = k
    BY <1>5, <1>7
  <2> HIDE DEF lowest, size, low
  <2>2. \A m \in low : Mid(m.value) <=>
           /\ 2 * Cardinality({y \in low : y.value < m.value}) <= k
           /\ 2 * Cardinality({y \in low : y.value > m.value}) <= k
    BY <1>4, <1>8 DEF HasHalves
  <2> QED
    BY <2>1, <2>2
<1> HIDE DEF Mid
<1>13. (\A m \in middle : m.value \in Int /\ a <= m.value /\ m.value <= b)
  <2>1. \A m \in low : m.value \in Int
    BY <1>2
  <2> QED
    BY <1>11, <1>12, <2>1
<1>14. (\E m \in middle : m.value = a) /\ (\E m \in middle : m.value = b)
  BY <1>10, <1>11, <1>12
<1> HIDE DEF middle
<1> DEFINE least == CHOOSE m \in middle : \A y \in middle : m.value <= y.value
           most == CHOOSE m \in middle : \A y \in middle : m.value >= y.value
<1>15. least.value = a
  <2>1. \E m \in middle : \A y \in middle : m.value <= y.value
    BY <1>10, <1>13, <1>14
  <2>2. least \in middle /\ \A y \in middle : least.value <= y.value
    BY <2>1
  <2> HIDE DEF least
  <2>3. least.value <= a
    BY <1>14, <2>2
  <2>4. least.value \in Int /\ a <= least.value /\ least.value <= b
    BY <1>13, <2>2
  <2> QED
    BY <1>10, <2>3, <2>4
<1>16. most.value = b
  <2>1. \E m \in middle : \A y \in middle : m.value >= y.value
    BY <1>10, <1>13, <1>14
  <2>2. most \in middle /\ \A y \in middle : most.value >= y.value
    BY <2>1
  <2> HIDE DEF most
  <2>3. most.value >= b
    BY <1>14, <2>2
  <2>4. most.value \in Int /\ a <= most.value /\ most.value <= b
    BY <1>13, <2>2
  <2> QED
    BY <1>10, <2>3, <2>4
<1>17. \A x : IsDeparture(x) <=>
               2 * Factor[2] * x.value > Factor[1] * (least.value + most.value)
  BY Zenon DEF IsDeparture, middle, least, most
<1>18. DoubledPlateau(s, k) = a + b
  BY DEF DoubledPlateau, a, b
<1> HIDE DEF least, most
<1> QED
  BY <1>15, <1>16, <1>17, <1>18 DEF Above

-----------------------------------------------------------------------------
(* The walk.                                                               *)

Walks(s, k, w) ==
  w = [i \in 1..Len(s) + 1 |->
         IF i > Len(s) THEN i
         ELSE IF w[i + 1] = i + 1 /\ Above(s, k, i) THEN i
         ELSE w[i + 1]]

LEMMA KneeIndexIsChosen ==
  ASSUME NEW s, NEW k
  PROVE  KneeIndex(s, k) = (CHOOSE w : Walks(s, k, w))[1]
BY DEF KneeIndex, Walks

\* The walk ends at the least index from which every point is above.
LEMMA KneeIndexIsLeast ==
  ASSUME NEW s \in Seq(Point), NEW k
  PROVE  LET m == KneeIndex(s, k)
             n == Len(s)
         IN  /\ m \in 1..n + 1
             /\ \A i \in 1..n : (\A j \in i..n : Above(s, k, j)) <=> m <= i
<1> DEFINE n == Len(s)
           D == 1..n + 1
           T == {i \in D : \A j \in i..n : Above(s, k, j)}
<1>1. n \in Nat
  BY LenProperties
<1>2. PICK m \in T : \A i \in T : m <= i
  <2>1. n + 1 \in T
    BY <1>1
  <2>2. T \subseteq Nat /\ T # {}
    BY <1>1, <2>1
  <2> HIDE DEF T
  <2> QED
    BY <2>2, LeastNat
<1>3. m \in D /\ \A j \in m..n : Above(s, k, j)
  BY <1>2
<1>4. \A i \in 1..n : (\A j \in i..n : Above(s, k, j)) <=> m <= i
  <2> SUFFICES ASSUME NEW i \in 1..n
               PROVE  (\A j \in i..n : Above(s, k, j)) <=> m <= i
    OBVIOUS
  <2>1. (\A j \in i..n : Above(s, k, j)) => m <= i
    BY <1>1, <1>2
  <2>2. m <= i => \A j \in i..n : j \in m..n
    BY <1>1, <1>3
  <2> QED
    BY <1>3, <2>1, <2>2
<1>5. m > 1 => ~Above(s, k, m - 1)
  <2>1. SUFFICES ASSUME m > 1, Above(s, k, m - 1) PROVE FALSE
    OBVIOUS
  <2>2. \A j \in (m - 1)..n : j = m - 1 \/ j \in m..n
    BY <1>1, <1>3
  <2>3. m - 1 \in T
    BY <1>1, <1>3, <2>1, <2>2
  <2> QED
    BY <1>1, <1>2, <1>3, <2>3
<1> HIDE DEF T
<1> DEFINE W == [i \in D |-> IF i >= m THEN i ELSE m]
<1>6. Walks(s, k, W)
  <2> DEFINE V == [i \in D |-> IF i > n THEN i
                               ELSE IF W[i + 1] = i + 1 /\ Above(s, k, i) THEN i
                               ELSE W[i + 1]]
  <2>1. ASSUME NEW i \in D PROVE W[i] = V[i]
    <3>1. CASE i > n
      BY <1>1, <1>3, <3>1
    <3>2. CASE i <= n /\ i >= m
      <4>1. i + 1 \in D /\ W[i + 1] = i + 1 /\ i \in m..n
        BY <1>1, <1>3, <3>2
      <4> QED
        BY <1>1, <1>3, <3>2, <4>1
    <3>3. CASE i <= n /\ i + 1 = m
      <4>1. i + 1 \in D /\ W[i + 1] = m /\ ~Above(s, k, i) /\ W[i] = m
        BY <1>1, <1>3, <1>5, <3>3
      <4> HIDE DEF W
      <4> QED
        BY <1>1, <3>3, <4>1
    <3>4. CASE i <= n /\ i + 1 < m
      <4>1. i + 1 \in D /\ W[i + 1] = m /\ W[i] = m /\ m # i + 1
        BY <1>1, <1>3, <3>4
      <4> HIDE DEF W
      <4> QED
        BY <1>1, <3>4, <4>1
    <3> QED
      BY <1>1, <1>3, <3>1, <3>2, <3>3, <3>4
  <2>2. W = V
    BY <2>1
  <2> QED
    BY <2>2 DEF Walks
<1>7. ASSUME NEW w, Walks(s, k, w) PROVE w[1] = m
  <2> DEFINE Q == {i \in D : w[i] # W[i]}
  <2>1. ASSUME Q # {} PROVE FALSE
    <3>1. IsFiniteSet(Q) /\ Q \subseteq Int
      <4>1. n + 1 \in Nat
        BY <1>1
      <4>2. IsFiniteSet(D)
        BY <4>1, Indices
      <4>3. Q \in SUBSET D
        OBVIOUS
      <4>4. D \subseteq Int
        BY <4>1
      <4> HIDE DEF D, Q
      <4> QED
        BY <4>2, <4>3, <4>4, FS_Subset
    <3> HIDE DEF Q
    <3>2. PICK g \in Q : \A i \in Q : g >= i
      BY <2>1, <3>1, FiniteExtremes
    <3> USE DEF Q
    <3>3. g \in D /\ w[g] # W[g]
      OBVIOUS
    <3>4. g <= n
      BY <1>1, <1>3, <1>6, <1>7, <3>3 DEF Walks
    <3>5. g + 1 \in D /\ g + 1 \notin Q
      BY <1>1, <3>2, <3>3, <3>4
    <3>6. w[g + 1] = W[g + 1]
      BY <3>5
    <3> HIDE DEF W
    <3> QED
      BY <1>1, <1>6, <1>7, <3>3, <3>4, <3>6 DEF Walks
  <2>2. 1 \in D /\ W[1] = m
    BY <1>1, <1>3
  <2> QED
    BY <2>1, <2>2
<1>8. KneeIndex(s, k) = m
  <2> DEFINE w == CHOOSE v : Walks(s, k, v)
  <2>1. Walks(s, k, w)
    <3> HIDE DEF W
    <3> QED
      BY <1>6
  <2>2. KneeIndex(s, k) = w[1]
    BY KneeIndexIsChosen
  <2> HIDE DEF w
  <2> QED
    BY <1>7, <2>1, <2>2
<1> QED
  BY <1>3, <1>4, <1>8

-----------------------------------------------------------------------------
(* The verdict.                                                            *)

\* The verdict, once there is one, is the one of DetectKnee on the sweep.
KneeInv ==
  /\ points \in Sweeps
  /\ plateau_points \in PlateauPoints
  /\ \/ verdict = [kind |-> "pending"]
     \/ verdict = DetectKnee(points, plateau_points)

\* The invariant holds in every reachable state (knee.py:60-118 returns one
\* result and keeps no state between calls).
THEOREM KneeInvariant == KneeSpec => []KneeInv
<1>1. KneeInit => KneeInv
  BY DEF KneeInit, KneeInv
<1>2. KneeInv /\ [Detect]_kneeVars => KneeInv'
  <2> SUFFICES ASSUME KneeInv, [Detect]_kneeVars PROVE KneeInv'
    OBVIOUS
  <2>1. CASE Detect
    BY <2>1 DEF Detect, KneeInv
  <2>2. CASE UNCHANGED kneeVars
    BY <2>2 DEF kneeVars, KneeInv
  <2> QED
    BY <2>1, <2>2
<1> QED
  BY <1>1, <1>2, PTL DEF KneeSpec

\* What a verdict that is not a refusal says of the sweep.
LEMMA Accepted ==
  ASSUME KneeInv, verdict.kind \in {"knee", "none"}
  PROVE  LET s == ByRate(points)
             k == PlateauSize(points, plateau_points)
             n == Len(s)
             m == KneeIndex(s, k)
         IN  /\ IsSorted(s, PointSet)
             /\ k \in 1..n
             /\ \A i \in 1..n : s[i].value > 0
             /\ m > n => verdict.kind = "none"
             /\ m <= n => /\ verdict.kind = "knee" /\ verdict.rate = s[m].rate
                          /\ verdict.plateau = k
<1> DEFINE s == ByRate(points)
           k == PlateauSize(points, plateau_points)
           n == Len(s)
           m == KneeIndex(s, k)
           bad == \/ Len(points) < MinSweepPoints
                  \/ \E i \in DOMAIN points : points[i].value <= 0
                  \/ \E i, j \in DOMAIN points : i # j /\ points[i].rate = points[j].rate
                  \/ k >= Len(points)
<1>1. verdict = DetectKnee(points, plateau_points)
  BY DEF KneeInv
<1>2. ~bad
  <2>1. bad => DetectKnee(points, plateau_points) = [kind |-> "refused"]
    BY DEF DetectKnee
  <2>2. bad => verdict.kind = "refused"
    BY <1>1, <2>1
  <2> HIDE DEF bad
  <2> QED
    BY <2>2
<1>3. points \in Seq(Point)
  BY KneeAssumption DEF KneeAssumption, KneeInv, Point
<1>4. Distinct(points)
  BY <1>2 DEF Distinct
<1>5. /\ s \in Seq(Point) /\ n = Len(points)
      /\ \A i \in 1..n : s[i] \in PointSet
      /\ \A x \in PointSet : \E i \in 1..n : s[i] = x
      /\ \A i, j \in 1..n : i < j => s[i].rate < s[j].rate
  BY <1>3, <1>4, Sorted DEF PointSet
<1>6. IsSorted(s, PointSet)
  <2> HIDE DEF s
  <2> QED
    BY <1>5 DEF IsSorted
<1>7. k \in 1..n
  <2>1. Len(points) \in Nat
    BY <1>3, LenProperties
  <2>2. plateau_points \in Nat
    BY KneeAssumption DEF KneeAssumption, KneeInv
  <2>3. k \in Nat /\ k >= 1
    BY <2>1, <2>2 DEF PlateauSize
  <2>4. ~(k >= Len(points))
    BY <1>2
  <2> HIDE DEF k
  <2> QED
    BY <1>5, <2>1, <2>3, <2>4
<1>8. \A i \in 1..n : s[i].value > 0
  <2>1. \A x \in PointSet : x.value > 0
    <3>1. \A i \in DOMAIN points : points[i].value \in Int
      <4>1. \A i \in DOMAIN points : points[i] \in Point
        BY <1>3, ElementOfSeq, LenProperties
      <4> QED
        BY <4>1 DEF Point
    <3>2. \A i \in DOMAIN points : ~(points[i].value <= 0)
      BY <1>2
    <3> QED
      BY <3>1, <3>2 DEF PointSet
  <2> HIDE DEF s
  <2> QED
    BY <1>5, <2>1
<1>9. verdict = IF m > Len(points) THEN [kind |-> "none"]
                ELSE [kind |-> "knee", rate |-> s[m].rate, plateau |-> k,
                      bracketed |-> m < Len(points),
                      confidence |-> Confidence(CrossIndex(s) - m \in {-1, 0, 1},
                                                m < Len(points))]
  BY <1>1, <1>2 DEF DetectKnee
<1>10. m \in 1..n + 1 /\ n \in Nat
  <2> HIDE DEF s, k
  <2> QED
    BY <1>5, KneeIndexIsLeast, LenProperties
<1> HIDE DEF s, k, m
<1>11. m > n => verdict.kind = "none"
  BY <1>5, <1>9
<1>12. m <= n => /\ verdict.kind = "knee" /\ verdict.rate = s[m].rate
                 /\ verdict.plateau = k
  BY <1>5, <1>9, <1>10
<1> QED
  BY <1>6, <1>7, <1>8, <1>11, <1>12 DEF s, k, m

LEMMA FirstSustained ==
  ASSUME KneeInv
  PROVE  KneeIsFirstSustained
<1> SUFFICES ASSUME verdict.kind \in {"knee", "none"}
             PROVE  KneeIsFirstSustained
  BY DEF KneeIsFirstSustained
<1> DEFINE s == ByRate(points)
           k == PlateauSize(points, plateau_points)
           n == Len(s)
           m == KneeIndex(s, k)
           sustained == {x \in PointSet : \A y \in PointSet : y.rate >= x.rate => IsDeparture(y)}
<1>1. /\ IsSorted(s, PointSet) /\ k \in 1..n
      /\ m > n => verdict.kind = "none"
      /\ m <= n => verdict.kind = "knee" /\ verdict.rate = s[m].rate
  BY Accepted
<1> HIDE DEF s
<1>2. /\ s \in Seq(Point) /\ PointSet = {s[i] : i \in 1..n} /\ n \in Nat
      /\ \A i \in 1..n : s[i].rate \in Int
      /\ \A i, j \in 1..n : i < j => s[i].rate < s[j].rate
  <2>1. s \in Seq(Point)
    BY <1>1 DEF IsSorted
  <2>2. n \in Nat /\ \A i \in 1..n : s[i] \in Point
    BY <2>1, LenProperties, ElementOfSeq
  <2> QED
    BY <1>1, <2>1, <2>2 DEF IsSorted, Point
<1>3. \A i, j \in 1..n : s[j].rate >= s[i].rate <=> j >= i
  BY <1>2
<1>4. \A i \in 1..n : IsDeparture(s[i]) <=> Above(s, k, i)
  BY <1>1, DepartureIsAbove
<1>5. /\ m \in 1..n + 1
      /\ \A i \in 1..n : (\A j \in i..n : Above(s, k, j)) <=> m <= i
  <2> HIDE DEF k
  <2> QED
    BY <1>2, KneeIndexIsLeast
<1> HIDE DEF k, m
<1>6. ASSUME NEW i \in 1..n
      PROVE  s[i] \in sustained <=> m <= i
  <2>1. s[i] \in sustained <=> \A j \in 1..n : s[j].rate >= s[i].rate => IsDeparture(s[j])
    BY <1>2
  <2>2. s[i] \in sustained <=> \A j \in 1..n : j >= i => Above(s, k, j)
    BY <1>3, <1>4, <2>1
  <2>3. \A j : j \in 1..n /\ j >= i <=> j \in i..n
    BY <1>2
  <2> QED
    BY <1>5, <2>2, <2>3
<1> HIDE DEF sustained
<1>7. \A x \in sustained : \E i \in 1..n : x = s[i] /\ m <= i
  <2>1. sustained \subseteq PointSet
    BY DEF sustained
  <2> QED
    BY <1>2, <1>6, <2>1
<1>8. CASE m > n
  <2>1. sustained = {}
    BY <1>2, <1>5, <1>7, <1>8
  <2>2. verdict.kind = "none"
    BY <1>1, <1>8
  <2> QED
    BY <2>1, <2>2 DEF KneeIsFirstSustained, sustained
<1>9. CASE m <= n
  <2>1. m \in 1..n /\ s[m] \in sustained
    BY <1>2, <1>5, <1>6, <1>9
  <2>2. \A x \in sustained : s[m].rate <= x.rate
    BY <1>3, <1>7, <2>1
  <2>3. verdict.kind = "knee" /\ verdict.rate = s[m].rate
    BY <1>1, <1>9
  <2> QED
    BY <2>1, <2>2, <2>3 DEF KneeIsFirstSustained, sustained, Found
<1> QED
  BY <1>2, <1>5, <1>8, <1>9

\* For every sweep, in whatever order its points are listed, the reported
\* knee is the lowest rate from which every point departs from the plateau,
\* and no knee is reported when the top point does not (knee.py:60-118).
THEOREM KneeIsTheFirstSustained == KneeSpec => []KneeIsFirstSustained
<1>1. KneeInv => KneeIsFirstSustained
  BY FirstSustained
<1> QED
  BY <1>1, KneeInvariant, PTL

\* A value at or below the lower median is not a departure.
LEMMA LowHalfStays ==
  ASSUME NEW f1 \in Nat, NEW f2 \in Nat, f1 >= f2,
         NEW a \in Nat, NEW b \in Nat, a <= b, NEW v \in Nat, v <= a
  PROVE  ~(2 * f2 * v > f1 * (a + b))
<1>1. ASSUME NEW x \in Nat, NEW y \in Nat, NEW z \in Nat, x <= y
      PROVE  z * x <= z * y /\ x * z <= y * z /\ z * x \in Nat /\ z * y \in Nat
                /\ x * z \in Nat /\ y * z \in Nat
  BY <1>1
<1>2. 2 * f2 * v = f2 * (2 * v) /\ 2 * v <= a + b /\ 2 * v \in Nat /\ a + b \in Nat
  OBVIOUS
<1>3. /\ f2 * (2 * v) <= f2 * (a + b) /\ f2 * (a + b) <= f1 * (a + b)
      /\ f2 * (2 * v) \in Nat /\ f2 * (a + b) \in Nat /\ f1 * (a + b) \in Nat
  BY <1>1, <1>2
<1> DEFINE x == 2 * f2 * v
           y == f2 * (a + b)
           z == f1 * (a + b)
<1>4. x <= y /\ y <= z /\ x \in Nat /\ y \in Nat /\ z \in Nat
  BY <1>2, <1>3
<1> HIDE DEF x, y, z
<1>5. ~(x > z)
  BY <1>4
<1> QED
  BY <1>5 DEF x, z

LEMMA LowerPlateau ==
  ASSUME KneeInv
  PROVE  KneeLeavesLowerPlateau
<1> SUFFICES ASSUME Found, Factor[1] >= Factor[2]
             PROVE  2 * Cardinality({x \in Lowest(verdict.plateau) : x.rate < verdict.rate})
                      >= verdict.plateau
  BY DEF KneeLeavesLowerPlateau
<1> DEFINE s == ByRate(points)
           k == PlateauSize(points, plateau_points)
           n == Len(s)
           m == KneeIndex(s, k)
<1>1. /\ IsSorted(s, PointSet) /\ k \in 1..n
      /\ \A i \in 1..n : s[i].value > 0
      /\ m > n => verdict.kind = "none"
      /\ m <= n => verdict.rate = s[m].rate /\ verdict.plateau = k
  BY Accepted DEF Found
<1> HIDE DEF s
<1>2. /\ s \in Seq(Point) /\ n \in Nat
      /\ \A i \in 1..n : s[i].rate \in Int /\ s[i].value \in Int
      /\ \A i, j \in 1..n : i < j => s[i].rate < s[j].rate
  <2>1. s \in Seq(Point)
    BY <1>1 DEF IsSorted
  <2>2. n \in Nat /\ \A i \in 1..n : s[i] \in Point
    BY <2>1, LenProperties, ElementOfSeq
  <2> QED
    BY <1>1, <2>1, <2>2 DEF IsSorted, Point
<1>3. /\ m \in 1..n + 1
      /\ \A i \in 1..n : (\A j \in i..n : Above(s, k, j)) <=> m <= i
  <2> HIDE DEF k
  <2> QED
    BY <1>2, KneeIndexIsLeast
<1> HIDE DEF k, m
<1>4. m \in 1..n /\ verdict.rate = s[m].rate /\ verdict.plateau = k
  BY <1>1, <1>2, <1>3 DEF Found
<1> DEFINE K == 1..k
           f == ValuesOf(s, k)
           a == Ranked(s, k, (k + 1) \div 2)
           b == Ranked(s, k, k \div 2 + 1)
<1>5. /\ k \in Nat /\ k >= 1 /\ \A i \in K : i \in 1..n
      /\ \A i \in K : f[i] = s[i].value /\ f[i] \in Int
      /\ (k + 1) \div 2 \in 1..k /\ k \div 2 + 1 \in 1..k
      /\ 2 * ((k + 1) \div 2) >= k /\ (k + 1) \div 2 <= k \div 2 + 1
  <2>1. k \in Nat /\ k >= 1 /\ \A i \in K : i \in 1..n
    BY <1>1, <1>2
  <2>2. \A i \in K : f[i] = s[i].value /\ f[i] \in Int
    BY <1>2, <2>1 DEF ValuesOf
  <2> QED
    BY <2>1, <2>2
<1>6. IsFiniteSet(K) /\ Cardinality(K) = k
  BY <1>5, Indices
<1>7. /\ a \in Int /\ IsKth(f, K, (k + 1) \div 2, a) /\ \E i \in K : s[i].value = a
      /\ b \in Int /\ IsKth(f, K, k \div 2 + 1, b) /\ \E i \in K : s[i].value = b
  BY <1>1, <1>2, <1>5, RankedIsKth
<1>8. \A i \in 1..n : Above(s, k, i) <=>
                        2 * Factor[2] * s[i].value > Factor[1] * (a + b)
  BY DEF Above, DoubledPlateau
<1> HIDE DEF K, f, a, b
<1>9. a <= b
  BY <1>5, <1>6, <1>7, KthMonotone
<1>10. a \in Nat /\ b \in Nat /\ \A i \in K : s[i].value \in Nat
  <2>1. \A i \in K : s[i].value \in Nat
    <3>1. \A i \in 1..n : s[i].value \in Int /\ s[i].value > 0
      BY <1>1, <1>2
    <3> QED
      BY <1>5, <3>1
  <2>2. /\ \E i \in K : s[i].value = a
        /\ \E i \in K : s[i].value = b
    BY <1>7
  <2> QED
    BY <2>1, <2>2
<1>11. Factor[1] \in Nat /\ Factor[2] \in Nat
  BY KneeAssumption DEF KneeAssumption
<1>12. \A i \in K : s[i].value <= a => ~Above(s, k, i)
  BY <1>5, <1>8, <1>9, <1>10, <1>11, LowHalfStays
<1>13. \A i \in UpTo(f, K, a) : i \in K /\ i < m
  <2> SUFFICES ASSUME NEW i \in UpTo(f, K, a) PROVE i \in K /\ i < m
    OBVIOUS
  <2>1. i \in K /\ ~Above(s, k, i)
    BY <1>5, <1>12 DEF UpTo
  <2>2. i \in 1..n /\ i \in i..n
    BY <1>2, <1>5, <2>1
  <2>3. ~(m <= i)
    BY <1>3, <2>1, <2>2
  <2> QED
    BY <1>4, <2>1, <2>2, <2>3
<1> DEFINE I == {i \in K : i < m}
<1>14. /\ IsFiniteSet(I) /\ Cardinality(I) \in Nat
       /\ Cardinality(UpTo(f, K, a)) \in Nat
       /\ Cardinality(UpTo(f, K, a)) <= Cardinality(I)
  <2>1. I \in SUBSET K /\ UpTo(f, K, a) \in SUBSET I
    BY <1>13
  <2>2. IsFiniteSet(I)
    BY <1>6, <2>1, FS_Subset
  <2> HIDE DEF I
  <2> QED
    BY <1>6, <2>1, <2>2, FS_Subset, FS_CardinalityType
<1>15. 2 * Cardinality(I) >= k
  <2>1. Cardinality(UpTo(f, K, a)) >= (k + 1) \div 2
    BY <1>7 DEF IsKth
  <2> QED
    BY <1>5, <1>14, <2>1
<1>16. {x \in Lowest(k) : x.rate < s[m].rate} = {s[i] : i \in I}
  <2>1. k \in 0..Len(s)
    BY <1>1, <1>2
  <2>2. Lowest(k) = {s[i] : i \in 1..k}
    BY <1>1, <2>1, LowestByIndex
  <2>3. Lowest(k) = {s[i] : i \in K}
    BY <2>2 DEF K
  <2>4. \A i \in K : s[i].rate < s[m].rate <=> i < m
    BY <1>2, <1>4, <1>5
  <2> DEFINE low == Lowest(k)
  <2>5. \A x : x \in low <=> \E i \in K : x = s[i]
    BY <2>3
  <2> HIDE DEF low
  <2>6. {x \in low : x.rate < s[m].rate} = {s[i] : i \in I}
    BY <2>4, <2>5
  <2> QED
    BY <2>6 DEF low
<1>17. Cardinality({s[i] : i \in I}) = Cardinality(I)
  <2>1. \A i, j \in I : s[i] = s[j] => i = j
    BY <1>2, <1>5
  <2> HIDE DEF I
  <2> QED
    BY <1>14, <2>1, ImageSize
<1> HIDE DEF I
<1> QED
  BY <1>4, <1>15, <1>16, <1>17

\* For every sweep, with a departure factor of at least one, at least half of
\* the plateau's points lie below the reported knee: the knee's interval has
\* a measured lower end (knee.py:94-118, 20-22).
THEOREM KneeLeavesTheLowerPlateau == KneeSpec => []KneeLeavesLowerPlateau
<1>1. KneeInv => KneeLeavesLowerPlateau
  BY LowerPlateau
<1> QED
  BY <1>1, KneeInvariant, PTL

=============================================================================
