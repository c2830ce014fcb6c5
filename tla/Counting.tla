------------------------------ MODULE Counting ------------------------------
(***************************************************************************)
(* Lemmas on finite sets, ranks and sums that the proof modules share.     *)
(* They define nothing of the system.  Induction over a finite set is the  *)
(* existence of a smallest counterexample.                                 *)
(***************************************************************************)
EXTENDS FiniteSetTheorems, FunctionTheorems, TLAPS

-----------------------------------------------------------------------------
(* Smallest elements.                                                      *)

LEMMA LeastNat ==
  ASSUME NEW T, T \subseteq Nat, T # {}
  PROVE  \E n \in T : \A m \in T : n <= m
<1>1. IsWellFoundedOn(OpToRel(<, Nat), Nat)
  BY NatLessThanWellFounded
<1>2. PICK n \in T : \A m \in T : <<m, n>> \notin OpToRel(<, Nat)
  BY <1>1, WFMin
<1>3. \A m \in T : ~(m < n)
  BY <1>2 DEF OpToRel
<1> QED
  BY <1>3

\* Among sets of subsets of a finite set there is one without a smaller one.
LEMMA LeastSubset ==
  ASSUME NEW S, IsFiniteSet(S), NEW Q, Q \subseteq SUBSET S, Q # {}
  PROVE  \E T \in Q : \A U \in Q : U \subseteq T => U = T
<1>1. IsWellFoundedOn(StrictSubsetOrdering(S), FiniteSubsetsOf(S))
  BY FS_StrictSubsetOrderingWellFounded
<1>2. Q \subseteq FiniteSubsetsOf(S)
  BY FS_FiniteSubsetsOfFinite
<1>3. PICK T \in Q : \A U \in Q : <<U, T>> \notin StrictSubsetOrdering(S)
  BY <1>1, <1>2, WFMin
<1> QED
  BY <1>3 DEF StrictSubsetOrdering

\* A finite set of integers has a least and a greatest element.
LEMMA FiniteExtremes ==
  ASSUME NEW S, IsFiniteSet(S)
  PROVE  S \subseteq Int /\ S # {} => /\ \E x \in S : \A y \in S : x <= y
                                     /\ \E x \in S : \A y \in S : x >= y
<1> DEFINE Q == {T \in SUBSET S : T \subseteq Int /\ T # {} /\
                   ~(/\ \E x \in T : \A y \in T : x <= y
                     /\ \E x \in T : \A y \in T : x >= y)}
<1>1. SUFFICES ASSUME Q # {} PROVE FALSE
  OBVIOUS
<1>2. Q \subseteq SUBSET S
  OBVIOUS
<1> HIDE DEF Q
<1>3. PICK T \in Q : \A U \in Q : U \subseteq T => U = T
  BY <1>2, <1>1, LeastSubset
<1> USE DEF Q
<1>4. PICK x \in T : TRUE
  OBVIOUS
<1>5. x \in Int /\ T \subseteq Int
  OBVIOUS
<1>6. CASE T = {x}
  BY <1>5, <1>6
<1>7. CASE T # {x}
  <2> DEFINE U == T \ {x}
  <2>1. U # {} /\ U \subseteq T /\ U # T /\ U \in SUBSET S
    BY <1>7
  <2>2. U \notin Q
    BY <1>3, <2>1
  <2>3. PICK a \in U : \A y \in U : a <= y
    BY <2>1, <2>2
  <2>4. PICK b \in U : \A y \in U : b >= y
    BY <2>1, <2>2
  <2>5. a \in Int /\ b \in Int /\ a \in T /\ b \in T /\ \A y \in T : y = x \/ y \in U
    BY <2>3, <2>4
  <2>6. \E m \in T : \A y \in T : m <= y
    BY <1>5, <2>3, <2>5
  <2>7. \E m \in T : \A y \in T : m >= y
    BY <1>5, <2>4, <2>5
  <2> QED
    BY <2>6, <2>7
<1> QED
  BY <1>6, <1>7

\* The image of a finite set under a function is finite.
LEMMA ImageFinite ==
  ASSUME NEW S, IsFiniteSet(S), NEW f
  PROVE  IsFiniteSet({f[x] : x \in S})
<1> DEFINE T == {f[x] : x \in S}
           g == [x \in S |-> f[x]]
<1>1. g \in Surjection(S, T)
  BY DEF Surjection
<1> QED
  BY <1>1, FS_Surjection

\* An injection keeps the number of elements.
LEMMA ImageSize ==
  ASSUME NEW S, IsFiniteSet(S), NEW g, \A x, y \in S : g[x] = g[y] => x = y
  PROVE  /\ IsFiniteSet({g[x] : x \in S})
         /\ Cardinality({g[x] : x \in S}) = Cardinality(S)
<1> DEFINE T == {g[x] : x \in S}
           h == [x \in S |-> g[x]]
<1>1. h \in Bijection(S, T)
  <2>1. h \in [S -> T]
    OBVIOUS
  <2>2. \A x, y \in S : h[x] = h[y] => x = y
    OBVIOUS
  <2>3. \A t \in T : \E x \in S : h[x] = t
    OBVIOUS
  <2> HIDE DEF T, h
  <2> QED
    BY <2>1, <2>2, <2>3, Fun_IsBij
<1> HIDE DEF T, h
<1>2. ExistsBijection(S, T)
  BY <1>1 DEF ExistsBijection
<1>3. IsFiniteSet(T) /\ Cardinality(T) = Cardinality(S)
  BY <1>2, FS_Bijection
<1> QED
  BY <1>3 DEF T

-----------------------------------------------------------------------------
(* Ranks: the elements of a finite set in a strict total order, given as    *)
(* the set of its pairs.                                                   *)

StrictOrder(S, R) ==
  /\ \A x \in S : <<x, x>> \notin R
  /\ \A x, y \in S : x # y => <<x, y>> \in R \/ <<y, x>> \in R
  /\ \A x, y, z \in S : <<x, y>> \in R /\ <<y, z>> \in R => <<x, z>> \in R

Below(S, R, x) == {y \in S : <<y, x>> \in R}

LEMMA RankBelow ==
  ASSUME NEW S, IsFiniteSet(S), NEW R, StrictOrder(S, R), NEW x \in S
  PROVE  /\ IsFiniteSet(Below(S, R, x))
         /\ Cardinality(Below(S, R, x)) \in 0..(Cardinality(S) - 1)
         /\ \A y \in S : <<y, x>> \in R =>
              Cardinality(Below(S, R, y)) < Cardinality(Below(S, R, x))
<1>1. Below(S, R, x) \in SUBSET (S \ {x})
  BY DEF Below, StrictOrder
<1>2. IsFiniteSet(S \ {x}) /\ Cardinality(S \ {x}) = Cardinality(S) - 1
  BY FS_RemoveElement
<1>3. /\ IsFiniteSet(Below(S, R, x))
      /\ Cardinality(Below(S, R, x)) <= Cardinality(S) - 1
  BY <1>1, <1>2, FS_Subset
<1>4. Cardinality(Below(S, R, x)) \in Nat /\ Cardinality(S) \in Nat
  BY <1>3, FS_CardinalityType
<1>5. ASSUME NEW y \in S, <<y, x>> \in R
      PROVE  Cardinality(Below(S, R, y)) < Cardinality(Below(S, R, x))
  <2>1. Below(S, R, y) \in SUBSET Below(S, R, x)
    BY <1>5 DEF Below, StrictOrder
  <2>2. y \in Below(S, R, x) /\ y \notin Below(S, R, y)
    BY <1>5 DEF Below, StrictOrder
  <2>3. /\ Cardinality(Below(S, R, y)) <= Cardinality(Below(S, R, x))
        /\ Cardinality(Below(S, R, y)) # Cardinality(Below(S, R, x))
    BY <1>3, <2>1, <2>2, FS_Subset
  <2>4. Cardinality(Below(S, R, y)) \in Nat
    BY <1>3, <2>1, FS_Subset, FS_CardinalityType
  <2> QED
    BY <1>4, <2>3, <2>4
<1> QED
  BY <1>3, <1>4, <1>5

\* The ranks are 0, 1, ... without a gap.
LEMMA RankBijection ==
  ASSUME NEW S, IsFiniteSet(S), NEW R, StrictOrder(S, R)
  PROVE  [x \in S |-> Cardinality(Below(S, R, x))] \in Bijection(S, 0..(Cardinality(S) - 1))
<1> DEFINE n == Cardinality(S)
           rank == [x \in S |-> Cardinality(Below(S, R, x))]
<1>1. n \in Nat
  BY FS_CardinalityType
<1>2. rank \in [S -> 0..(n - 1)]
  BY RankBelow
<1>3. \A x, y \in S : <<y, x>> \in R => rank[y] < rank[x]
  BY RankBelow
<1>4. \A x, y \in S : rank[x] = rank[y] => x = y
  <2> SUFFICES ASSUME NEW x \in S, NEW y \in S, rank[x] = rank[y], x # y PROVE FALSE
    OBVIOUS
  <2>1. rank[x] \in 0..(n - 1) /\ rank[y] \in 0..(n - 1)
    BY <1>2
  <2>2. rank[y] < rank[x] \/ rank[x] < rank[y]
    BY <1>3 DEF StrictOrder
  <2> QED
    BY <1>1, <2>1, <2>2
<1> HIDE DEF rank
<1>5. rank \in Injection(S, 0..(n - 1))
  BY <1>2, <1>4, Fun_IsInj
<1>6. IsFiniteSet(0..(n - 1)) /\ Cardinality(0..(n - 1)) = n
  <2>1. 0 \in Int /\ n - 1 \in Int
    BY <1>1
  <2> HIDE DEF n
  <2> QED
    BY <1>1, <2>1, FS_Interval
<1>7. rank \in Surjection(S, 0..(n - 1))
  <2> DEFINE T == 0..(n - 1)
  <2> HIDE DEF T
  <2>1. rank \in Injection(S, T) /\ IsFiniteSet(T) /\ Cardinality(S) = Cardinality(T)
    BY <1>5, <1>6 DEF T
  <2>2. rank \in Surjection(S, T)
    BY <2>1, FS_Injection
  <2> QED
    BY <2>2 DEF T
<1> QED
  BY <1>5, <1>7 DEF Bijection, rank

\* There are k elements of rank less than k, as long as there are k.
LEMMA RankCount ==
  ASSUME NEW S, IsFiniteSet(S), NEW R, StrictOrder(S, R), NEW k \in Nat
  PROVE  Cardinality({x \in S : Cardinality(Below(S, R, x)) < k}) =
           IF k < Cardinality(S) THEN k ELSE Cardinality(S)
<1> DEFINE n == Cardinality(S)
           rank == [x \in S |-> Cardinality(Below(S, R, x))]
           low == {x \in S : rank[x] < k}
           m == IF k < n THEN k ELSE n
<1>1. n \in Nat /\ m \in Nat /\ m <= n
  BY FS_CardinalityType
<1>2. rank \in Bijection(S, 0..(n - 1))
  BY RankBijection
<1> HIDE DEF rank
<1> DEFINE N == 0..(n - 1)
<1> HIDE DEF N
<1>3. rank \in Bijection(S, N)
  BY <1>2 DEF N
<1>4. /\ rank \in [S -> N]
      /\ \A a, b \in S : rank[a] = rank[b] => a = b
      /\ \A t \in N : \E s \in S : rank[s] = t
  BY <1>3, Fun_BijectionProperties
<1>5. /\ rank \in [S -> 0..(n - 1)]
      /\ \A a, b \in S : rank[a] = rank[b] => a = b
      /\ \A t \in 0..(n - 1) : \E s \in S : rank[s] = t
  BY <1>4 DEF N
<1> DEFINE g == [x \in low |-> rank[x]]
<1>6. g \in [low -> 0..(m - 1)]
  <2> SUFFICES ASSUME NEW x \in low PROVE rank[x] \in 0..(m - 1)
    OBVIOUS
  <2>1. rank[x] \in 0..(n - 1) /\ rank[x] < k
    BY <1>5
  <2> QED
    BY <1>1, <2>1
<1>7. \A a, b \in low : g[a] = g[b] => a = b
  BY <1>5
<1>8. \A t \in 0..(m - 1) : \E s \in low : g[s] = t
  <2> SUFFICES ASSUME NEW t \in 0..(m - 1) PROVE \E s \in low : g[s] = t
    OBVIOUS
  <2>1. t \in 0..(n - 1) /\ t < k
    BY <1>1
  <2>2. PICK s \in S : rank[s] = t
    BY <1>5, <2>1
  <2> QED
    BY <2>1, <2>2
<1>9. g \in Bijection(low, 0..(m - 1))
  BY <1>6, <1>7, <1>8, Fun_IsBij
<1>10. ExistsBijection(low, 0..(m - 1)) /\ IsFiniteSet(low)
  BY <1>9, FS_Subset DEF ExistsBijection
<1>11. Cardinality(0..(m - 1)) = Cardinality(low)
  BY <1>10, FS_Bijection
<1>12. Cardinality(0..(m - 1)) = m
  <2>1. ASSUME NEW l \in Nat PROVE Cardinality(0..(l - 1)) = l
    BY FS_Interval
  <2> QED
    BY <1>1, <2>1
<1>13. low = {x \in S : Cardinality(Below(S, R, x)) < k}
  BY DEF rank
<1> QED
  BY <1>11, <1>12, <1>13

-----------------------------------------------------------------------------
(* Sums over a finite set of indices.                                      *)

SumEquation(f, S, g) ==
  g = [s \in SUBSET S |->
         IF s = {} THEN 0
         ELSE f[CHOOSE x \in s : TRUE] + g[s \ {CHOOSE x \in s : TRUE}]]

LEMMA SumIsChosen ==
  ASSUME NEW f, NEW S
  PROVE  SumFunctionOnSet(f, S) = (CHOOSE g : SumEquation(f, S, g))[S]
BY DEF SumFunctionOnSet, FoldFunctionOnSet, MapThenFoldSet, SumEquation

\* Two solutions agree where both are defined.
LEMMA SumEquationUnique ==
  ASSUME NEW f, NEW S, NEW T, NEW g, NEW h,
         SumEquation(f, S, g), SumEquation(f, T, h), IsFiniteSet(T), T \subseteq S
  PROVE  \A s \in SUBSET T : g[s] = h[s]
<1> DEFINE Q == {s \in SUBSET T : g[s] # h[s]}
<1>1. SUFFICES ASSUME Q # {} PROVE FALSE
  OBVIOUS
<1>2. Q \subseteq SUBSET T
  OBVIOUS
<1> HIDE DEF Q
<1>3. PICK s \in Q : \A u \in Q : u \subseteq s => u = s
  BY <1>2, <1>1, LeastSubset
<1> USE DEF Q
<1> DEFINE p == CHOOSE x \in s : TRUE
<1>4. s # {} /\ p \in s
  BY DEF SumEquation
<1>5. g[s \ {p}] = h[s \ {p}]
  BY <1>3, <1>4
<1>6. g[s] = f[p] + g[s \ {p}] /\ h[s] = f[p] + h[s \ {p}]
  BY <1>4 DEF SumEquation
<1> QED
  BY <1>5, <1>6

LEMMA SumEquationSolvable ==
  ASSUME NEW f, NEW S, IsFiniteSet(S)
  PROVE  \E g : SumEquation(f, S, g)
<1> DEFINE Q == {T \in SUBSET S : ~\E g : SumEquation(f, T, g)}
<1>1. SUFFICES ASSUME Q # {} PROVE FALSE
  OBVIOUS
<1>2. Q \subseteq SUBSET S
  OBVIOUS
<1> HIDE DEF Q
<1>3. PICK T \in Q : \A u \in Q : u \subseteq T => u = T
  BY <1>2, <1>1, LeastSubset
<1> USE DEF Q
<1>4. \A u \in SUBSET T : u # T => \E g : SumEquation(f, u, g)
  BY <1>3
<1> DEFINE p(s) == CHOOSE x \in s : TRUE
           sol(s) == CHOOSE g : SumEquation(f, s, g)
           v(s) == IF s = {} THEN 0 ELSE f[p(s)] + sol(s \ {p(s)})[s \ {p(s)}]
           g == [s \in SUBSET T |-> v(s)]
<1>5. \A s \in SUBSET T : s # {} => p(s) \in s
  OBVIOUS
<1>6. ASSUME NEW s \in SUBSET T, s # T
      PROVE  sol(s)[s] = v(s)
  <2>1. SumEquation(f, s, sol(s))
    BY <1>4, <1>6
  <2>2. CASE s = {}
    BY <2>1, <2>2 DEF SumEquation
  <2>3. CASE s # {}
    <3> DEFINE r == s \ {p(s)}
    <3>1. r \in SUBSET T /\ r # T /\ r \subseteq s
      BY <1>5, <2>3
    <3>2. SumEquation(f, r, sol(r)) /\ IsFiniteSet(r)
      BY <1>4, <3>1, FS_Subset
    <3> HIDE DEF sol
    <3>3. sol(s)[r] = sol(r)[r]
      BY <2>1, <3>1, <3>2, SumEquationUnique
    <3>4. sol(s)[s] = f[p(s)] + sol(s)[r]
      BY <2>1, <2>3 DEF SumEquation
    <3> QED
      BY <2>3, <3>3, <3>4
  <2> QED
    BY <2>2, <2>3
<1> HIDE DEF sol
<1>7. SumEquation(f, T, g)
  <2>1. ASSUME NEW s \in SUBSET T, s # {} PROVE v(s) = f[p(s)] + g[s \ {p(s)}]
    <3>1. s \ {p(s)} \in SUBSET T /\ s \ {p(s)} # T
      BY <1>5, <2>1
    <3>2. g[s \ {p(s)}] = v(s \ {p(s)})
      BY <3>1
    <3>3. g[s \ {p(s)}] = sol(s \ {p(s)})[s \ {p(s)}]
      BY <1>6, <3>1, <3>2
    <3> QED
      BY <2>1, <3>3
  <2>2. g = [s \in SUBSET T |-> IF s = {} THEN 0 ELSE f[p(s)] + g[s \ {p(s)}]]
    <3> HIDE DEF p
    <3>1. \A s \in SUBSET T : v(s) = IF s = {} THEN 0 ELSE f[p(s)] + g[s \ {p(s)}]
      BY <2>1
    <3> HIDE DEF v
    <3> QED
      BY <3>1
  <2> QED
    BY <2>2 DEF SumEquation
<1> QED
  BY <1>3, <1>7

\* The recursion the sum is computed by.
LEMMA SumUnfolds ==
  ASSUME NEW f, NEW S, IsFiniteSet(S)
  PROVE  /\ SumFunctionOnSet(f, {}) = 0
         /\ S # {} => \E x \in S : SumFunctionOnSet(f, S) = f[x] + SumFunctionOnSet(f, S \ {x})
<1> DEFINE sol(s) == CHOOSE g : SumEquation(f, s, g)
<1>1. \A s \in SUBSET S : SumEquation(f, s, sol(s))
  BY FS_Subset, SumEquationSolvable
<1>2. \A s \in SUBSET S : SumFunctionOnSet(f, s) = sol(s)[s]
  BY SumIsChosen
<1> HIDE DEF sol
<1>3. SumFunctionOnSet(f, {}) = 0
  BY <1>1, <1>2 DEF SumEquation
<1>4. ASSUME S # {}
      PROVE  \E x \in S : SumFunctionOnSet(f, S) = f[x] + SumFunctionOnSet(f, S \ {x})
  <2> DEFINE p == CHOOSE x \in S : TRUE
  <2>1. p \in S
    BY <1>4
  <2>2. sol(S)[S] = f[p] + sol(S)[S \ {p}]
    BY <1>1, <1>4 DEF SumEquation
  <2>3. SumEquation(f, S, sol(S)) /\ SumEquation(f, S \ {p}, sol(S \ {p})) /\ IsFiniteSet(S \ {p})
    BY <1>1, FS_Subset
  <2>4. sol(S)[S \ {p}] = sol(S \ {p})[S \ {p}]
    BY <2>3, SumEquationUnique
  <2> QED
    BY <1>2, <2>1, <2>2, <2>4
<1> QED
  BY <1>3, <1>4

LEMMA SumType ==
  ASSUME NEW f, NEW S, IsFiniteSet(S), \A x \in S : f[x] \in Int
  PROVE  /\ SumFunctionOnSet(f, S) \in Int
         /\ (\A x \in S : f[x] >= 0) => SumFunctionOnSet(f, S) >= 0
<1> DEFINE good(T) == /\ SumFunctionOnSet(f, T) \in Int
                      /\ (\A x \in T : f[x] >= 0) => SumFunctionOnSet(f, T) >= 0
           Q == {T \in SUBSET S : ~good(T)}
<1>1. SUFFICES ASSUME Q # {} PROVE FALSE
  OBVIOUS
<1>2. Q \subseteq SUBSET S
  OBVIOUS
<1> HIDE DEF Q
<1>3. PICK T \in Q : \A u \in Q : u \subseteq T => u = T
  BY <1>2, <1>1, LeastSubset
<1> USE DEF Q
<1>4. IsFiniteSet(T)
  BY FS_Subset
<1>5. CASE T = {}
  BY <1>4, <1>5, SumUnfolds
<1>6. CASE T # {}
  <2>1. PICK x \in T : SumFunctionOnSet(f, T) = f[x] + SumFunctionOnSet(f, T \ {x})
    BY <1>4, <1>6, SumUnfolds
  <2>2. good(T \ {x})
    BY <1>3
  <2> QED
    BY <2>1, <2>2
<1> QED
  BY <1>5, <1>6

\* Any element may be taken out first.
LEMMA SumRemove ==
  ASSUME NEW f, NEW S, IsFiniteSet(S), \A x \in S : f[x] \in Int, NEW z \in S
  PROVE  SumFunctionOnSet(f, S) = f[z] + SumFunctionOnSet(f, S \ {z})
<1> DEFINE sum(T) == SumFunctionOnSet(f, T)
           good(T) == \A y \in T : sum(T) = f[y] + sum(T \ {y})
           Q == {T \in SUBSET S : ~good(T)}
<1>1. SUFFICES ASSUME Q # {} PROVE FALSE
  OBVIOUS
<1>2. Q \subseteq SUBSET S
  OBVIOUS
<1> HIDE DEF Q
<1>3. PICK T \in Q : \A u \in Q : u \subseteq T => u = T
  BY <1>2, <1>1, LeastSubset
<1> USE DEF Q
<1>4. PICK y \in T : sum(T) # f[y] + sum(T \ {y})
  OBVIOUS
<1>5. IsFiniteSet(T)
  BY FS_Subset
<1>6. PICK x \in T : sum(T) = f[x] + sum(T \ {x})
  BY <1>4, <1>5, SumUnfolds
<1>7. x # y
  BY <1>4, <1>6
<1>8. good(T \ {x}) /\ good(T \ {y})
  BY <1>3
<1>9. sum(T \ {x}) = f[y] + sum((T \ {x}) \ {y}) /\ sum(T \ {y}) = f[x] + sum((T \ {y}) \ {x})
  BY <1>7, <1>8
<1>10. (T \ {x}) \ {y} = (T \ {y}) \ {x}
  OBVIOUS
<1>11. IsFiniteSet((T \ {x}) \ {y}) /\ \A w \in (T \ {x}) \ {y} : f[w] \in Int
  BY FS_Subset
<1>12. sum((T \ {x}) \ {y}) \in Int /\ f[x] \in Int /\ f[y] \in Int
  BY <1>11, SumType
<1>13. sum(T \ {x}) = f[y] + sum((T \ {x}) \ {y}) /\ sum(T \ {y}) = f[x] + sum((T \ {x}) \ {y})
  BY <1>9, <1>10
<1> DEFINE a == sum((T \ {x}) \ {y})
           d == sum(T \ {x})
           e == sum(T \ {y})
           fx == f[x]
           fy == f[y]
<1>14. a \in Int /\ fx \in Int /\ fy \in Int /\ d = fy + a /\ e = fx + a
  BY <1>12, <1>13
<1>15. fx + d = fy + e
  <2> HIDE DEF a, d, e, fx, fy
  <2> QED
    BY <1>14
<1> QED
  BY <1>4, <1>6, <1>15

LEMMA SumAdd ==
  ASSUME NEW f, NEW S, IsFiniteSet(S), \A x \in S : f[x] \in Int, NEW z, z \notin S, f[z] \in Int
  PROVE  SumFunctionOnSet(f, S \cup {z}) = f[z] + SumFunctionOnSet(f, S)
<1>1. IsFiniteSet(S \cup {z}) /\ \A x \in S \cup {z} : f[x] \in Int
  BY FS_AddElement
<1>2. (S \cup {z}) \ {z} = S
  OBVIOUS
<1> QED
  BY <1>1, <1>2, SumRemove

\* Functions that agree on the indices have the same sum.
LEMMA SumSame ==
  ASSUME NEW f, NEW h, NEW S, IsFiniteSet(S), \A x \in S : f[x] \in Int /\ h[x] = f[x]
  PROVE  SumFunctionOnSet(f, S) = SumFunctionOnSet(h, S)
<1> DEFINE Q == {T \in SUBSET S : SumFunctionOnSet(f, T) # SumFunctionOnSet(h, T)}
<1>1. SUFFICES ASSUME Q # {} PROVE FALSE
  OBVIOUS
<1>2. Q \subseteq SUBSET S
  OBVIOUS
<1> HIDE DEF Q
<1>3. PICK T \in Q : \A u \in Q : u \subseteq T => u = T
  BY <1>2, <1>1, LeastSubset
<1> USE DEF Q
<1>4. IsFiniteSet(T)
  BY FS_Subset
<1>5. T # {}
  BY <1>4, SumUnfolds
<1>6. PICK x \in T : TRUE
  BY <1>5
<1>7. SumFunctionOnSet(f, T) = f[x] + SumFunctionOnSet(f, T \ {x})
  BY <1>4, SumRemove
<1>8. SumFunctionOnSet(h, T) = h[x] + SumFunctionOnSet(h, T \ {x})
  BY <1>4, SumRemove
<1>9. SumFunctionOnSet(f, T \ {x}) = SumFunctionOnSet(h, T \ {x})
  BY <1>3
<1> QED
  BY <1>7, <1>8, <1>9

\* ... and so do functions that agree along a bijection.
LEMMA SumAlong ==
  ASSUME NEW S, IsFiniteSet(S), NEW T, NEW b \in Bijection(S, T), NEW f, NEW h,
         \A x \in S : f[x] \in Int /\ h[b[x]] = f[x]
  PROVE  SumFunctionOnSet(f, S) = SumFunctionOnSet(h, T)
<1> DEFINE image(s) == {b[x] : x \in s}
           Q == {s \in SUBSET S : SumFunctionOnSet(f, s) # SumFunctionOnSet(h, image(s))}
<1>1. /\ b \in [S -> T]
      /\ \A x, y \in S : b[x] = b[y] => x = y
      /\ \A t \in T : \E x \in S : b[x] = t
  BY Fun_BijectionProperties
<1>2. image(S) = T
  BY <1>1
<1>3. SUFFICES ASSUME Q # {} PROVE FALSE
  BY <1>2
<1>4. Q \subseteq SUBSET S
  OBVIOUS
<1> HIDE DEF Q
<1>5. PICK s \in Q : \A u \in Q : u \subseteq s => u = s
  BY <1>3, <1>4, LeastSubset
<1> USE DEF Q
<1>6. IsFiniteSet(s)
  BY FS_Subset
<1>7. IsFiniteSet(T)
  BY FS_Surjection DEF Bijection
<1>8. image(s) \in SUBSET T
  BY <1>1
<1>9. IsFiniteSet(image(s)) /\ \A t \in image(s) : h[t] \in Int
  BY <1>7, <1>8, FS_Subset
<1>10. s # {}
  <2>1. s = {} => image(s) = {}
    OBVIOUS
  <2> QED
    BY <1>6, <2>1, SumUnfolds
<1>11. PICK x \in s : TRUE
  BY <1>10
<1>12. image(s \ {x}) = image(s) \ {b[x]}
  BY <1>1
<1>13. SumFunctionOnSet(f, s) = f[x] + SumFunctionOnSet(f, s \ {x})
  BY <1>6, SumRemove
<1>14. SumFunctionOnSet(h, image(s)) = h[b[x]] + SumFunctionOnSet(h, image(s) \ {b[x]})
  <2>1. b[x] \in image(s)
    OBVIOUS
  <2> HIDE DEF image
  <2> QED
    BY <1>9, <2>1, SumRemove
<1>15. SumFunctionOnSet(f, s \ {x}) = SumFunctionOnSet(h, image(s \ {x}))
  BY <1>5
<1> QED
  BY <1>12, <1>13, <1>14, <1>15

\* The sizes of the classes of a function add up to the size of its domain.
LEMMA SumOfClasses ==
  ASSUME NEW S, IsFiniteSet(S), NEW K, IsFiniteSet(K), NEW c \in [S -> K], NEW n,
         \A k \in K : n[k] = Cardinality({x \in S : c[x] = k})
  PROVE  SumFunctionOnSet(n, K) = Cardinality(S)
<1> DEFINE part(J) == {x \in S : c[x] \in J}
           Q == {J \in SUBSET K : SumFunctionOnSet(n, J) # Cardinality(part(J))}
<1>1. part(K) = S
  OBVIOUS
<1>2. SUFFICES ASSUME Q # {} PROVE FALSE
  BY <1>1
<1>3. Q \subseteq SUBSET K
  OBVIOUS
<1> HIDE DEF Q
<1>4. PICK J \in Q : \A u \in Q : u \subseteq J => u = J
  BY <1>2, <1>3, LeastSubset
<1> USE DEF Q
<1>5. IsFiniteSet(J)
  BY FS_Subset
<1>6. J # {}
  <2>1. J = {} => part(J) = {}
    OBVIOUS
  <2> QED
    BY <1>5, <2>1, SumUnfolds, FS_EmptySet
<1>7. PICK k \in J : TRUE
  BY <1>6
<1>8. ASSUME NEW j \in K PROVE n[j] \in Int
  <2> DEFINE cls == {x \in S : c[x] = j}
  <2>1. cls \in SUBSET S
    OBVIOUS
  <2> HIDE DEF cls
  <2>2. Cardinality(cls) \in Nat
    BY <2>1, FS_Subset, FS_CardinalityType
  <2> QED
    BY <2>2 DEF cls
<1>9. SumFunctionOnSet(n, J) = n[k] + SumFunctionOnSet(n, J \ {k})
  BY <1>5, <1>8, SumRemove
<1>10. SumFunctionOnSet(n, J \ {k}) = Cardinality(part(J \ {k}))
  BY <1>4
<1> DEFINE own == {x \in S : c[x] = k}
<1>11. part(J) = part(J \ {k}) \cup own /\ part(J \ {k}) \cap own = {}
  OBVIOUS
<1>12. IsFiniteSet(part(J \ {k})) /\ IsFiniteSet(own)
  BY FS_Subset
<1>13. Cardinality(part(J)) = Cardinality(part(J \ {k})) + Cardinality(own)
  <2> HIDE DEF part, own
  <2>1. /\ Cardinality(part(J)) = Cardinality(part(J \ {k})) + Cardinality(own)
                                     - Cardinality(part(J \ {k}) \cap own)
        /\ Cardinality(part(J \ {k}) \cap own) = 0
    BY <1>11, <1>12, FS_Union, FS_EmptySet
  <2>2. Cardinality(part(J \ {k})) \in Nat /\ Cardinality(own) \in Nat
    BY <1>12, FS_CardinalityType
  <2> QED
    BY <2>1, <2>2
<1>14. Cardinality(own) \in Nat /\ Cardinality(part(J \ {k})) \in Nat /\ n[k] = Cardinality(own)
  BY <1>12, FS_CardinalityType
<1> HIDE DEF part, own
<1> QED
  BY <1>9, <1>10, <1>13, <1>14

-----------------------------------------------------------------------------
(* The k-th smallest value of a function on a finite set.                  *)

Under(f, S, v) == {x \in S : f[x] < v}
UpTo(f, S, v) == {x \in S : f[x] <= v}

IsKth(f, S, k, v) ==
  /\ Cardinality(Under(f, S, v)) < k
  /\ Cardinality(UpTo(f, S, v)) >= k

LEMMA LevelSets ==
  ASSUME NEW S, IsFiniteSet(S), NEW f, NEW v
  PROVE  /\ IsFiniteSet(Under(f, S, v)) /\ Cardinality(Under(f, S, v)) \in Nat
         /\ IsFiniteSet(UpTo(f, S, v)) /\ Cardinality(UpTo(f, S, v)) \in Nat
<1>1. Under(f, S, v) \in SUBSET S /\ UpTo(f, S, v) \in SUBSET S
  BY DEF Under, UpTo
<1> QED
  BY <1>1, FS_Subset, FS_CardinalityType

LEMMA KthExists ==
  ASSUME NEW S, IsFiniteSet(S), NEW f, \A x \in S : f[x] \in Int,
         NEW k \in 1..Cardinality(S)
  PROVE  \E x \in S : IsKth(f, S, k, f[x])
<1> DEFINE n == Cardinality(S)
           V == {f[x] : x \in S}
           T == {v \in V : Cardinality(UpTo(f, S, v)) >= k}
<1>1. n \in Nat /\ k \in Nat /\ 1 <= k /\ k <= n
  BY FS_CardinalityType
<1>2. S # {}
  <2>1. Cardinality({}) = 0
    BY FS_EmptySet
  <2>2. S = {} => n = 0
    BY <2>1
  <2> QED
    BY <1>1, <2>2
<1>3. IsFiniteSet(V) /\ V # {} /\ V \subseteq Int
  BY <1>2, ImageFinite
<1>4. T # {}
  <2>1. PICK top \in V : \A v \in V : top >= v
    <3> HIDE DEF V
    <3> QED
      BY <1>3, FiniteExtremes
  <2>2. UpTo(f, S, top) = S
    BY <2>1 DEF UpTo
  <2>3. Cardinality(UpTo(f, S, top)) >= k
    BY <1>1, <2>2
  <2> QED
    BY <2>1, <2>3
<1>5. IsFiniteSet(T) /\ T \subseteq Int
  BY <1>3, FS_Subset
<1>6. PICK v \in T : \A u \in T : v <= u
  <2> HIDE DEF T
  <2> QED
    BY <1>4, <1>5, FiniteExtremes
<1>7. ASSUME Cardinality(Under(f, S, v)) >= k PROVE FALSE
  <2> DEFINE L == {f[x] : x \in Under(f, S, v)}
  <2>1. Under(f, S, v) # {}
    <3> DEFINE U == Under(f, S, v)
    <3>1. U = {} => Cardinality(U) = 0
      BY FS_EmptySet
    <3>2. Cardinality(U) >= 1 /\ Cardinality(U) \in Nat
      BY <1>1, <1>7, LevelSets
    <3> QED
      BY <3>1, <3>2
  <2>2. IsFiniteSet(L) /\ L # {} /\ L \subseteq Int /\ L \subseteq V
    <3>1. IsFiniteSet(Under(f, S, v))
      BY LevelSets
    <3>2. IsFiniteSet(L)
      <4>1. ASSUME NEW U, IsFiniteSet(U) PROVE IsFiniteSet({f[x] : x \in U})
        <5> HIDE DEF V, L
        <5> QED
          BY <4>1, ImageFinite
      <4> QED
        BY <3>1, <4>1
    <3>3. L # {}
      BY <2>1
    <3>4. Under(f, S, v) \subseteq S
      BY DEF Under
    <3> QED
      BY <3>2, <3>3, <3>4
  <2>3. PICK u \in L : \A l \in L : u >= l
    <3> HIDE DEF L
    <3> QED
      BY <2>2, FiniteExtremes
  <2>4. u \in V /\ u < v /\ u \in Int /\ v \in Int
    BY <1>5, <2>2, <2>3 DEF Under
  <2>5. UpTo(f, S, u) = Under(f, S, v)
    BY <2>3, <2>4 DEF UpTo, Under
  <2>6. u \in T
    BY <1>7, <2>4, <2>5
  <2> QED
    BY <1>6, <2>4, <2>6
<1>8. Cardinality(Under(f, S, v)) < k
  <2>1. Cardinality(Under(f, S, v)) \in Nat
    BY LevelSets
  <2> QED
    BY <1>1, <1>7, <2>1
<1>9. PICK x \in S : v = f[x]
  OBVIOUS
<1> QED
  BY <1>6, <1>8, <1>9 DEF IsKth

\* A later one is no smaller, so that there is at most one.
LEMMA KthMonotone ==
  ASSUME NEW S, IsFiniteSet(S), NEW f, \A x \in S : f[x] \in Int,
         NEW k \in Int, NEW l \in Int, k <= l,
         NEW u \in Int, NEW v \in Int, IsKth(f, S, k, u), IsKth(f, S, l, v)
  PROVE  u <= v
<1>1. SUFFICES ASSUME v < u PROVE FALSE
  OBVIOUS
<1>2. UpTo(f, S, v) \in SUBSET Under(f, S, u)
  BY <1>1 DEF UpTo, Under
<1>3. Cardinality(UpTo(f, S, v)) <= Cardinality(Under(f, S, u))
  BY <1>2, LevelSets, FS_Subset
<1>4. Cardinality(UpTo(f, S, v)) \in Nat /\ Cardinality(Under(f, S, u)) \in Nat
  BY LevelSets
<1> QED
  BY <1>3, <1>4 DEF IsKth

\* What is above, and what is not below.
LEMMA LevelsAddUp ==
  ASSUME NEW S, IsFiniteSet(S), NEW f, \A x \in S : f[x] \in Int, NEW v \in Int
  PROVE  /\ Cardinality(UpTo(f, S, v)) + Cardinality({x \in S : f[x] > v}) = Cardinality(S)
         /\ Cardinality(Under(f, S, v)) + Cardinality({x \in S : f[x] >= v}) = Cardinality(S)
<1>1. ASSUME NEW A \in SUBSET S
      PROVE  Cardinality(A) + Cardinality(S \ A) = Cardinality(S)
  <2> DEFINE B == S \ A
  <2>1. IsFiniteSet(A) /\ IsFiniteSet(B)
    BY FS_Subset
  <2>2. A \cup B = S /\ A \cap B = {}
    OBVIOUS
  <2> HIDE DEF B
  <2>3. Cardinality(A \cup B) = Cardinality(A) + Cardinality(B) - Cardinality(A \cap B)
    BY <2>1, FS_Union
  <2>4. Cardinality(A \cap B) = 0
    BY <2>2, FS_EmptySet
  <2>5. Cardinality(A) \in Nat /\ Cardinality(B) \in Nat
    BY <2>1, FS_CardinalityType
  <2>6. Cardinality(S) = Cardinality(A \cup B)
    BY <2>2, Zenon
  <2>7. Cardinality(S) = Cardinality(A) + Cardinality(B)
    BY <2>3, <2>4, <2>5, <2>6
  <2> USE DEF B
  <2> QED
    BY <2>7
<1>2. /\ S \ UpTo(f, S, v) = {x \in S : f[x] > v} /\ UpTo(f, S, v) \in SUBSET S
      /\ S \ Under(f, S, v) = {x \in S : f[x] >= v} /\ Under(f, S, v) \in SUBSET S
  BY DEF UpTo, Under
<1> QED
  BY <1>1, <1>2

-----------------------------------------------------------------------------
(* Sets that match element by element, and functions on them.              *)

Matches(f, S, T) ==
  /\ \A x \in S : f[x] \in T
  /\ \A x, y \in S : f[x] = f[y] => x = y
  /\ \A t \in T : \E x \in S : f[x] = t

LEMMA MatchedPart ==
  ASSUME NEW f, NEW S, NEW T, Matches(f, S, T), NEW A, A \subseteq S, NEW B, B \subseteq T,
         \A x \in S : x \in A <=> f[x] \in B
  PROVE  Matches(f, A, B)
BY DEF Matches

LEMMA MatchedSize ==
  ASSUME NEW f, NEW S, NEW T, Matches(f, S, T), IsFiniteSet(S)
  PROVE  IsFiniteSet(T) /\ Cardinality(T) = Cardinality(S) /\ (S = {} <=> T = {})
<1>1. T = {f[x] : x \in S}
  BY DEF Matches
<1>2. \A x, y \in S : f[x] = f[y] => x = y
  BY DEF Matches
<1>3. /\ IsFiniteSet({f[x] : x \in S})
      /\ Cardinality({f[x] : x \in S}) = Cardinality(S)
  BY <1>2, ImageSize
<1>4. S = {} <=> T = {}
  BY DEF Matches
<1> QED
  BY <1>1, <1>3, <1>4

LEMMA MatchedSum ==
  ASSUME NEW f, NEW S, NEW T, Matches(f, S, T), IsFiniteSet(S), NEW p, NEW q,
         \A x \in S : p[x] \in Int /\ q[f[x]] = p[x]
  PROVE  SumFunctionOnSet(p, S) = SumFunctionOnSet(q, T)
<1> DEFINE b == [x \in S |-> f[x]]
<1>1. /\ b \in [S -> T]
      /\ \A x, y \in S : b[x] = b[y] => x = y
      /\ \A t \in T : \E x \in S : b[x] = t
      /\ \A x \in S : q[b[x]] = p[x]
  BY DEF Matches
<1> HIDE DEF b
<1>2. b \in Bijection(S, T)
  BY <1>1 DEF Bijection, Injection, Surjection, IsInjective
<1>3. \A x \in S : p[x] \in Int /\ q[b[x]] = p[x]
  BY <1>1
<1> QED
  BY <1>2, <1>3, SumAlong

\* The k-th smallest value is the same for functions that match.
LEMMA MatchedKth ==
  ASSUME NEW f, NEW S, NEW T, Matches(f, S, T), IsFiniteSet(S), NEW p, NEW q,
         \A x \in S : p[x] \in Int /\ q[f[x]] = p[x],
         NEW k \in Int, NEW u \in Int, NEW v \in Int, IsKth(p, S, k, u), IsKth(q, T, k, v)
  PROVE  u = v
<1>1. Cardinality(Under(q, T, v)) = Cardinality(Under(p, S, v))
  <2> DEFINE A == Under(p, S, v)
             B == Under(q, T, v)
  <2>1. A \subseteq S /\ B \subseteq T /\ \A x \in S : x \in A <=> f[x] \in B
    BY DEF Under, Matches
  <2>2. IsFiniteSet(A)
    BY <2>1, FS_Subset
  <2> HIDE DEF A, B
  <2>3. Matches(f, A, B)
    BY <2>1, MatchedPart
  <2> QED
    BY <2>2, <2>3, MatchedSize DEF A, B
<1>2. Cardinality(UpTo(q, T, v)) = Cardinality(UpTo(p, S, v))
  <2> DEFINE A == UpTo(p, S, v)
             B == UpTo(q, T, v)
  <2>1. A \subseteq S /\ B \subseteq T /\ \A x \in S : x \in A <=> f[x] \in B
    BY DEF UpTo, Matches
  <2>2. IsFiniteSet(A)
    BY <2>1, FS_Subset
  <2> HIDE DEF A, B
  <2>3. Matches(f, A, B)
    BY <2>1, MatchedPart
  <2> QED
    BY <2>2, <2>3, MatchedSize DEF A, B
<1>3. IsKth(p, S, k, v)
  BY <1>1, <1>2 DEF IsKth
<1>4. u <= v /\ v <= u
  BY <1>3, KthMonotone
<1> QED
  BY <1>4

=============================================================================
