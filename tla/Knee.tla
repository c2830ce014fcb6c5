-------------------------------- MODULE Knee --------------------------------
(***************************************************************************)
(* knee.py: the saturation knee of a rate sweep.  A sweep is a sequence of *)
(* points [rate, value] in the order the caller lists them.  The plateau   *)
(* and the threshold are doubled and scaled by the departure factor's      *)
(* denominator, so every comparison is between integers.                   *)
(***************************************************************************)
EXTENDS Integers, Sequences, FiniteSets

CONSTANTS
  Sweeps,           \* the sweeps a caller may hand over
  PlateauPoints,    \* the plateau_points arguments a caller may pass; 0 is None
  Factor            \* departure_factor as <<numerator, denominator>>

KneeAssumption ==
  /\ Factor \in (Nat \ {0}) \X (Nat \ {0})
  /\ PlateauPoints \subseteq Nat
  /\ \A p \in Sweeps : p \in Seq([rate : Int, value : Int])
ASSUME KneeAssumption

VARIABLES points, plateau_points, verdict

kneeVars == <<points, plateau_points, verdict>>

-----------------------------------------------------------------------------
MinSweepPoints == 6

\* sorted(points, key=rate), for distinct rates.
ByRate(p) ==
  [i \in DOMAIN p |-> CHOOSE x \in {p[j] : j \in DOMAIN p} :
     Cardinality({j \in DOMAIN p : p[j].rate < x.rate}) = i - 1]

\* The lowest third, at least two points.
PlateauSize(p, pp) ==
  IF pp # 0 THEN pp
  ELSE IF Len(p) \div 3 > 2 THEN Len(p) \div 3 ELSE 2

\* Twice the k-th smallest of the first n values.
Ranked(sorted, n, k) ==
  CHOOSE v \in {sorted[i].value : i \in 1..n} :
    /\ Cardinality({i \in 1..n : sorted[i].value < v}) < k
    /\ Cardinality({i \in 1..n : sorted[i].value <= v}) >= k

DoubledPlateauVariant(sorted, k) ==
  2 * Ranked(sorted, k, 1)

\* Twice the median of the k lowest-rate values.
DoubledPlateau(sorted, k) ==
  Ranked(sorted, k, (k + 1) \div 2) + Ranked(sorted, k, k \div 2 + 1)

Above(sorted, k, i) ==
  2 * Factor[2] * sorted[i].value > Factor[1] * DoubledPlateau(sorted, k)

KneeIndexVariant(sorted, k) ==
  LET walk[i \in 1..Len(sorted) + 1] ==
        IF i > Len(sorted) THEN i
        ELSE IF Above(sorted, k, i) THEN i
        ELSE walk[i + 1]
  IN  walk[1]

\* The walk down from the top of the sweep: the index it has reached after
\* looking at all points from i on; Len + 1 when none is above.
KneeIndex(sorted, k) ==
  LET walk[i \in 1..Len(sorted) + 1] ==
        IF i > Len(sorted) THEN i
        ELSE IF walk[i + 1] = i + 1 /\ Above(sorted, k, i) THEN i
        ELSE walk[i + 1]
  IN  walk[1]

\* argmax of x_norm - y_norm, the first maximum, both sides multiplied by the
\* two ranges.
CrossIndex(sorted) ==
  LET n == Len(sorted)
      values == {sorted[i].value : i \in 1..n}
      low == CHOOSE v \in values : \A w \in values : v <= w
      high == CHOOSE v \in values : \A w \in values : v >= w
      bend(i) == (sorted[i].rate - sorted[1].rate) * (high - low)
                 - (sorted[i].value - low) * (sorted[n].rate - sorted[1].rate)
  IN  CHOOSE i \in 1..n : \A j \in 1..n : bend(i) > bend(j) \/ (bend(i) = bend(j) /\ i <= j)

\* Confidence in tenths.
Confidence(agree, bracketed) == IF agree /\ bracketed THEN 8 ELSE 5

\* [kind |-> "refused" | "none" | "knee", ...]
DetectKnee(p, pp) ==
  LET sorted == ByRate(p)
      k == PlateauSize(p, pp)
      at == KneeIndex(sorted, k)
      gap == CrossIndex(sorted) - at
  IN  CASE \/ Len(p) < MinSweepPoints
           \/ \E i \in DOMAIN p : p[i].value <= 0
           \/ \E i, j \in DOMAIN p : i # j /\ p[i].rate = p[j].rate
           \/ k >= Len(p) -> [kind |-> "refused"]
        [] OTHER ->
             IF at > Len(p) THEN [kind |-> "none"]
             ELSE [kind |-> "knee", rate |-> sorted[at].rate, plateau |-> k,
                   bracketed |-> at < Len(p),
                   confidence |-> Confidence(gap \in {-1, 0, 1}, at < Len(p))]

-----------------------------------------------------------------------------
KneeInit ==
  /\ points \in Sweeps
  /\ plateau_points \in PlateauPoints
  /\ verdict = [kind |-> "pending"]

Detect ==
  /\ verdict.kind = "pending"
  /\ verdict' = DetectKnee(points, plateau_points)
  /\ UNCHANGED <<points, plateau_points>>

KneeSpec == KneeInit /\ [][Detect]_kneeVars

-----------------------------------------------------------------------------
Found == verdict.kind = "knee"
PointSet == {points[i] : i \in DOMAIN points}
Lowest(k) == {x \in PointSet : Cardinality({y \in PointSet : y.rate < x.rate}) < k}

\* A point is a departure if it exceeds the factor times the median of the
\* plateau's points, the median being any value with half of them on either
\* side (averaged when there are two).
IsDeparture(x) ==
  LET low == Lowest(PlateauSize(points, plateau_points))
      n == Cardinality(low)
      middle == {m \in low : /\ 2 * Cardinality({y \in low : y.value < m.value}) <= n
                             /\ 2 * Cardinality({y \in low : y.value > m.value}) <= n}
      least == CHOOSE m \in middle : \A y \in middle : m.value <= y.value
      most == CHOOSE m \in middle : \A y \in middle : m.value >= y.value
  IN  2 * Factor[2] * x.value > Factor[1] * (least.value + most.value)

\* The reported knee is the lowest rate from which every point of the sweep
\* is a departure, and there is none when the top point is not one: the
\* definition knee.py's documentation gives, whatever the order in which the
\* points were listed (knee.py:9-11 against the walk at knee.py:94-103).
KneeIsFirstSustained ==
  verdict.kind \in {"knee", "none"} =>
    LET sustained == {x \in PointSet : \A y \in PointSet : y.rate >= x.rate => IsDeparture(y)}
    IN  IF sustained = {} THEN verdict.kind = "none"
        ELSE /\ Found
             /\ \A x \in sustained : verdict.rate <= x.rate
             /\ \E x \in sustained : verdict.rate = x.rate

\* The walk may run down into the plateau points themselves, but with a
\* factor of at least one it never passes the lower half of them: those stay
\* at or below the plateau, so the reported knee always has a measured point
\* below it, and the interval (previous point, knee] exists (knee.py:20-22).
KneeLeavesLowerPlateau ==
  Found /\ Factor[1] >= Factor[2] =>
    2 * Cardinality({x \in Lowest(verdict.plateau) : x.rate < verdict.rate}) >= verdict.plateau

=============================================================================
