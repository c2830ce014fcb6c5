--------------------------- MODULE ScheduleProofs ---------------------------
(***************************************************************************)
(* Proofs about module Schedule, for every workload, limit and draw: a     *)
(* plan ends for a declared reason, Build fails for one, and the groups    *)
(* are filled one after the other, whatever rounding does to the times;    *)
(* and the offsets of a plan whose phases do not repeat never go back, if  *)
(* rounding keeps the order of numbers.                                    *)
(***************************************************************************)
EXTENDS Schedule, Counting, SequenceTheorems, TLAPS

-----------------------------------------------------------------------------
(* Integer division.                                                       *)

LEMMA Division ==
  ASSUME NEW a \in Nat, NEW b \in Nat \ {0}
  PROVE  /\ a \div b \in 0..a
         /\ (a \div b) * b <= a /\ a < (a \div b) * b + b
<1>1. /\ a \div b \in Int /\ a = b * (a \div b) + (a % b) /\ a % b \in 0..(b - 1)
  OBVIOUS
<1>2. a \div b >= 0
  OBVIOUS
<1>3. b * (a \div b) = (a \div b) * b
  BY <1>1
<1>4. (a \div b) * b <= a /\ a < (a \div b) * b + b
  BY <1>1, <1>3
<1>5. a \div b <= a
  BY <1>1, <1>2, <1>4
<1> QED
  BY <1>1, <1>2, <1>4, <1>5

-----------------------------------------------------------------------------
(* The length of a plan, and why there are no more items.                  *)

Steps == {"begin", "next", "arrived", "stop", "items", "built", "error", "panic"}
Arriving == {"begin", "next", "arrived"}

\* The times are whatever rounding makes of them.
TypeInv ==
  /\ w \in Workloads /\ pc \in Steps
  /\ \E S : offsets \in Seq(S)

Reason ==
  \/ w.count > 0 /\ Len(offsets) = w.count
  \/ w.horizon > 0 /\ t >= w.horizon
  \/ Phased /\ ~w.repeat /\ t >= Cycle

LengthInv ==
  /\ pc \in Arriving => Len(offsets) <= MaxPlanned /\ (w.count > 0 => Len(offsets) < w.count)
  /\ pc \in {"stop", "items", "built"} =>
       /\ Reason
       /\ w.count > 0 => Len(offsets) <= w.count
       /\ Len(offsets) <= MaxPlanned \/ w.count = MaxPlanned + 1
  /\ pc \in {"items", "built"} => offsets # <<>>

PlanInv == TypeInv /\ LengthInv

\* One more offset, whatever number it is.
LEMMA OneMoreOffset ==
  ASSUME TypeInv, NEW x
  PROVE  /\ Len(offsets) \in Nat /\ DOMAIN offsets = 1..Len(offsets)
         /\ Len(Append(offsets, x)) = Len(offsets) + 1
         /\ DOMAIN Append(offsets, x) = 1..(Len(offsets) + 1)
         /\ \A i \in 1..Len(offsets) : Append(offsets, x)[i] = offsets[i]
         /\ Append(offsets, x)[Len(offsets) + 1] = x
         /\ \E S : Append(offsets, x) \in Seq(S)
<1>1. PICK S : offsets \in Seq(S)
  BY DEF TypeInv
<1> DEFINE T == S \cup {x}
<1>2. offsets \in Seq(T) /\ x \in T
  <2>1. /\ Len(offsets) \in Nat /\ DOMAIN offsets = 1..Len(offsets)
        /\ offsets \in [1..Len(offsets) -> S]
    BY <1>1, LenProperties
  <2>2. \A i \in 1..Len(offsets) : offsets[i] \in T
    BY <2>1
  <2>3. offsets = [i \in 1..Len(offsets) |-> offsets[i]]
    BY <2>1
  <2> HIDE DEF T
  <2>4. offsets \in Seq(T)
    BY <2>1, <2>2, <2>3, IsASeq
  <2> QED
    BY <2>4 DEF T
<1> HIDE DEF T
<1>3. /\ Append(offsets, x) \in Seq(T)
      /\ Len(Append(offsets, x)) = Len(offsets) + 1
      /\ \A i \in 1..Len(offsets) : Append(offsets, x)[i] = offsets[i]
      /\ Append(offsets, x)[Len(offsets) + 1] = x
  BY <1>2, AppendProperties
<1>4. Len(offsets) \in Nat /\ DOMAIN offsets = 1..Len(offsets)
  BY <1>2, LenProperties
<1>5. DOMAIN Append(offsets, x) = 1..(Len(offsets) + 1)
  BY <1>3, LenProperties
<1> QED
  BY <1>3, <1>4, <1>5

LEMMA AsLoaded ==
  ASSUME w \in Workloads
  PROVE  IsWorkload(w) /\ MaxPlanned \in Nat /\ w.count \in Nat /\ w.horizon \in Nat
BY ScheduleAssumption DEF ScheduleAssumption, IsWorkload

LEMMA PlanInit == Init => PlanInv
<1> SUFFICES ASSUME Init PROVE PlanInv
  OBVIOUS
<1>1. offsets = <<>> /\ Len(offsets) = 0 /\ pc = "begin" /\ w \in Workloads
  BY EmptySeq DEF Init
<1>2. TypeInv
  <2>1. offsets \in Seq(Nat)
    BY <1>1, EmptySeq
  <2> QED
    BY <1>1, <2>1 DEF TypeInv, Steps
<1>3. LengthInv
  BY <1>1, AsLoaded DEF LengthInv, Arriving
<1> QED
  BY <1>2, <1>3 DEF PlanInv

LEMMA ArriveInv == PlanInv /\ Arrive => PlanInv'
<1> SUFFICES ASSUME PlanInv, Arrive PROVE PlanInv'
  OBVIOUS
<1> DEFINE k == Len(offsets)
<1>1. pc = "arrived" /\ UNCHANGED <<w, t>> /\ w \in Workloads
  BY DEF PlanInv, TypeInv, Arrive
<1>2. /\ w.count \in Nat /\ MaxPlanned \in Nat /\ k \in Nat
      /\ k <= MaxPlanned /\ (w.count > 0 => k < w.count)
  BY <1>1, AsLoaded, OneMoreOffset DEF PlanInv, LengthInv, Arriving
<1>3. CASE w.horizon > 0 /\ t >= w.horizon
  <2>1. pc' = "stop" /\ UNCHANGED offsets
    BY <1>3 DEF Arrive
  <2>2. TypeInv'
    BY <1>1, <2>1 DEF PlanInv, TypeInv, Steps
  <2>3. LengthInv'
    BY <1>1, <1>2, <1>3, <2>1 DEF LengthInv, Arriving, Reason
  <2> QED
    BY <2>2, <2>3 DEF PlanInv
<1>4. CASE ~(w.horizon > 0 /\ t >= w.horizon)
  <2>1. /\ offsets' = Append(offsets, SendOffset)
        /\ pc' = IF w.count > 0 /\ Len(offsets') = w.count THEN "stop"
                 ELSE IF Len(offsets') > MaxPlanned THEN "error" ELSE "next"
    BY <1>4 DEF Arrive
  <2>2. Len(offsets') = k + 1 /\ \E S : offsets' \in Seq(S)
    BY <2>1, OneMoreOffset DEF PlanInv
  <2>3. TypeInv'
    BY <1>1, <2>1, <2>2 DEF TypeInv, Steps
  <2>4. LengthInv'
    <3>1. CASE w.count > 0 /\ k + 1 = w.count
      <4>1. pc' = "stop"
        BY <2>1, <2>2, <3>1
      <4> QED
        BY <1>1, <1>2, <2>2, <3>1, <4>1 DEF LengthInv, Arriving, Reason
    <3>2. CASE ~(w.count > 0 /\ k + 1 = w.count) /\ k + 1 > MaxPlanned
      <4>1. pc' = "error"
        BY <2>1, <2>2, <3>2
      <4> QED
        BY <4>1 DEF LengthInv, Arriving
    <3>3. CASE ~(w.count > 0 /\ k + 1 = w.count) /\ ~(k + 1 > MaxPlanned)
      <4>1. pc' = "next"
        BY <2>1, <2>2, <3>3
      <4>2. k + 1 <= MaxPlanned /\ (w.count > 0 => k + 1 < w.count)
        BY <1>2, <3>3
      <4> QED
        BY <1>1, <2>2, <4>1, <4>2 DEF LengthInv, Arriving
    <3> QED
      BY <3>1, <3>2, <3>3
  <2> QED
    BY <2>3, <2>4 DEF PlanInv
<1> QED
  BY <1>3, <1>4

\* What a step that leaves the offsets alone does to the invariant.
LEMMA QuietInv ==
  PlanInv /\ (Begin \/ Steady \/ Walk \/ Exhausted \/ Stop \/ Assign \/ Finish) => PlanInv'
<1> SUFFICES ASSUME PlanInv, Begin \/ Steady \/ Walk \/ Exhausted \/ Stop \/ Assign \/ Finish
             PROVE  PlanInv'
  OBVIOUS
<1>1. w' = w /\ offsets' = offsets
  BY DEF Begin, Steady, Walk, Exhausted, Stop, Assign, Finish
<1>2. w.count \in Nat /\ Len(offsets) \in Nat
  BY AsLoaded, OneMoreOffset DEF PlanInv, TypeInv
<1>3. pc' \in Steps
  BY DEF PlanInv, TypeInv, Steps, Begin, Steady, Walk, Exhausted, Stop, Assign, Finish
<1>4. TypeInv'
  BY <1>1, <1>3 DEF PlanInv, TypeInv
<1>5. LengthInv'
  <2>1. CASE Begin
    BY <1>1, <2>1 DEF PlanInv, LengthInv, Arriving, Begin
  <2>2. CASE Steady \/ Walk
    BY <1>1, <2>2 DEF PlanInv, LengthInv, Arriving, Steady, Walk
  <2>3. CASE Exhausted
    <3>1. pc = "next" /\ pc' = "stop" /\ t' = t /\ Phased /\ ~w.repeat /\ t >= Cycle
      BY <2>3 DEF Exhausted
    <3>2. Reason'
      BY <1>1, <3>1 DEF Reason, Phased, Cycle, Turn
    <3> QED
      BY <1>1, <1>2, <3>1, <3>2 DEF PlanInv, LengthInv, Arriving
  <2>4. CASE Stop \/ Assign \/ Finish
    <3>1. /\ pc \in {"stop", "items"} /\ t' = t /\ pc' \in {"error", "items", "panic", "built"}
          /\ pc = "stop" /\ pc' = "items" => offsets # <<>>
      BY <2>4 DEF Stop, Assign, Finish
    <3>2. Reason'
      BY <1>1, <3>1 DEF PlanInv, LengthInv, Reason, Phased, Cycle, Turn
    <3> QED
      BY <1>1, <3>1, <3>2, <2>4 DEF PlanInv, LengthInv, Arriving, Stop, Assign, Finish
  <2> QED
    BY <2>1, <2>2, <2>3, <2>4
<1> QED
  BY <1>4, <1>5 DEF PlanInv

LEMMA PlanStep == PlanInv /\ [Next]_vars => PlanInv'
<1> SUFFICES ASSUME PlanInv, [Next]_vars PROVE PlanInv'
  OBVIOUS
<1>1. CASE UNCHANGED vars
  <2>1. UNCHANGED <<w, pc, t, offsets>>
    BY <1>1 DEF vars
  <2> QED
    BY <2>1 DEF PlanInv, TypeInv, LengthInv, Reason, Phased, Cycle, Turn
<1> QED
  BY <1>1, QuietInv, ArriveInv DEF Next

\* The invariant of lengths holds whatever is drawn and however it is rounded
\* (schedule.go:222-242).
THEOREM PlanInvariant == Spec => []PlanInv
BY PlanInit, PlanStep, PTL DEF Spec

\* A plan is not cut short and not too long: it has the wanted number of
\* requests, or reaches the horizon or the end of its phases
\* (schedule.go:222-242).
THEOREM PlansEndForAReason == Spec => [](pc = "built" => EndsForAReason)
<1>1. PlanInv => (pc = "built" => EndsForAReason)
  BY DEF PlanInv, LengthInv, Reason, EndsForAReason
<1> QED
  BY <1>1, PlanInvariant, PTL

-----------------------------------------------------------------------------
(* The walk over phases that do not repeat, when rounding keeps the order. *)

TurnEquation(base, x, n, f) ==
  f = [k \in 0..n |->
         IF k = 0 THEN [rel |-> Round(x - base), end |-> base]
         ELSE [rel |-> Round(f[k - 1].rel - w.phases[k].duration),
               end |-> Round(f[k - 1].end + w.phases[k].duration)]]

LEMMA TurnIsChosen ==
  ASSUME NEW base, NEW x
  PROVE  Turn(base, x) = CHOOSE f : TurnEquation(base, x, Len(w.phases), f)
BY DEF Turn, TurnEquation

LEMMA TurnEquationSolvable ==
  ASSUME NEW base, NEW x, NEW n \in Nat
  PROVE  \E f : TurnEquation(base, x, n, f)
<1> DEFINE T == {m \in Nat : ~\E f : TurnEquation(base, x, m, f)}
<1>1. SUFFICES ASSUME T # {} PROVE FALSE
  OBVIOUS
<1>2. T \subseteq Nat
  OBVIOUS
<1> HIDE DEF T
<1>3. PICK m \in T : \A l \in T : m <= l
  BY <1>1, <1>2, LeastNat
<1> USE DEF T
<1> DEFINE start == [rel |-> Round(x - base), end |-> base]
           step(r, k) == [rel |-> Round(r.rel - w.phases[k].duration),
                          end |-> Round(r.end + w.phases[k].duration)]
<1>4. CASE m = 0
  <2> DEFINE f == [k \in 0..0 |-> start]
  <2>1. f = [k \in 0..0 |-> IF k = 0 THEN start ELSE step(f[k - 1], k)]
    OBVIOUS
  <2>2. TurnEquation(base, x, 0, f)
    BY <2>1 DEF TurnEquation
  <2> QED
    BY <1>4, <2>2
<1>5. CASE m # 0
  <2>1. m - 1 \in Nat /\ m \in Nat
    BY <1>5
  <2>2. PICK g : TurnEquation(base, x, m - 1, g)
    BY <1>3, <2>1
  <2> HIDE DEF start, step
  <2>3. g = [k \in 0..(m - 1) |-> IF k = 0 THEN start ELSE step(g[k - 1], k)]
    BY <2>2 DEF TurnEquation, start, step
  <2> DEFINE f == [k \in 0..m |-> IF k = m THEN step(g[m - 1], m) ELSE g[k]]
             h == [k \in 0..m |-> IF k = 0 THEN start ELSE step(f[k - 1], k)]
  <2>4. ASSUME NEW k \in 0..m PROVE f[k] = h[k]
    <3>1. CASE k = 0
      <4>1. k # m /\ k \in 0..(m - 1)
        BY <1>5, <2>1, <3>1
      <4> QED
        BY <2>3, <3>1, <4>1
    <3>2. CASE k # 0 /\ k # m
      <4>1. k \in 0..(m - 1) /\ k - 1 \in 0..m /\ k - 1 # m
        BY <2>1, <3>2
      <4>2. g[k] = step(g[k - 1], k) /\ f[k - 1] = g[k - 1]
        BY <2>3, <3>2, <4>1
      <4> QED
        BY <3>2, <4>2
    <3>3. CASE k = m
      <4>1. m - 1 \in 0..m /\ m - 1 # m
        BY <2>1
      <4>2. f[m - 1] = g[m - 1]
        BY <4>1
      <4> QED
        BY <1>5, <3>3, <4>2
    <3> QED
      BY <3>1, <3>2, <3>3
  <2>5. f = h
    BY <2>4
  <2>6. TurnEquation(base, x, m, f)
    <3> HIDE DEF f
    <3> QED
      BY <2>5 DEF TurnEquation, start, step
  <2> QED
    BY <2>6
<1> QED
  BY <1>4, <1>5

\* The recursion of phaseAt's loop.
LEMMA TurnUnfolds ==
  ASSUME NEW base, NEW x, w \in Workloads
  PROVE  /\ Turn(base, x)[0].rel = Round(x - base) /\ Turn(base, x)[0].end = base
         /\ \A k \in DOMAIN w.phases :
              /\ Turn(base, x)[k].rel = Round(Turn(base, x)[k - 1].rel - w.phases[k].duration)
              /\ Turn(base, x)[k].end = Round(Turn(base, x)[k - 1].end + w.phases[k].duration)
<1> DEFINE n == Len(w.phases)
           f == Turn(base, x)
           step(r, k) == [rel |-> Round(r.rel - w.phases[k].duration),
                          end |-> Round(r.end + w.phases[k].duration)]
           start == [rel |-> Round(x - base), end |-> base]
<1>1. n \in Nat /\ DOMAIN w.phases = 1..n
  BY AsLoaded, LenProperties DEF IsWorkload
<1>2. TurnEquation(base, x, n, f)
  BY <1>1, TurnEquationSolvable, TurnIsChosen
<1> HIDE DEF f, start, step
<1>3. f = [k \in 0..n |-> IF k = 0 THEN start ELSE step(f[k - 1], k)]
  BY <1>2 DEF TurnEquation, start, step
<1>4. f[0] = start /\ \A k \in 1..n : f[k] = step(f[k - 1], k)
  <2>1. 0 \in 0..n /\ \A k \in 1..n : k \in 0..n /\ k # 0
    BY <1>1
  <2> QED
    BY <1>3, <2>1
<1>5. start.rel = Round(x - base) /\ start.end = base
  BY DEF start
<1>6. ASSUME NEW k \in 1..n
      PROVE  /\ f[k].rel = Round(f[k - 1].rel - w.phases[k].duration)
             /\ f[k].end = Round(f[k - 1].end + w.phases[k].duration)
  <2>1. f[k] = step(f[k - 1], k)
    BY <1>4
  <2> QED
    BY <2>1 DEF step
<1> QED
  BY <1>1, <1>4, <1>5, <1>6 DEF f

LEMMA RoundsUp ==
  ASSUME Rounds(Int), NEW x \in Int, NEW d \in Nat
  PROVE  /\ Round(x) \in Int /\ Round(Round(x)) = Round(x)
         /\ Round(x) = x => Round(x + d) >= x
<1>1. x + d \in Int /\ x <= x + d
  OBVIOUS
<1> QED
  BY <1>1 DEF Rounds

LEMMA Durations ==
  ASSUME w \in Workloads
  PROVE  /\ Len(w.phases) \in Nat /\ DOMAIN w.phases = 1..Len(w.phases)
         /\ \A k \in DOMAIN w.phases : w.phases[k].duration \in Nat \ {0}
         /\ Phased => 1 \in DOMAIN w.phases
<1> DEFINE phases == w.phases
<1>1. phases \in Seq([duration : Nat \ {0}, positive : BOOLEAN])
  BY AsLoaded DEF IsWorkload
<1>2. Phased <=> phases # <<>>
  BY DEF Phased
<1> HIDE DEF phases
<1>3. /\ Len(phases) \in Nat /\ DOMAIN phases = 1..Len(phases)
      /\ \A k \in DOMAIN phases : phases[k] \in [duration : Nat \ {0}, positive : BOOLEAN]
      /\ phases # <<>> => Len(phases) # 0
  BY <1>1, ElementOfSeq, LenProperties, EmptySeq
<1>4. \A k \in DOMAIN phases : phases[k].duration \in Nat \ {0}
  BY <1>3
<1> QED
  BY <1>2, <1>3, <1>4 DEF phases

\* Turns from the start of the run: what is left of a time is less for an
\* earlier one, the ends are the same for both and never go back.
LEMMA TurnsInOrder ==
  ASSUME Rounds(Int), w \in Workloads, NEW x \in Int, NEW y \in Int, x <= y
  PROVE  \A k \in 0..Len(w.phases) :
           /\ Turn(0, x)[k].rel \in Int /\ Turn(0, y)[k].rel \in Int
           /\ Turn(0, x)[k].rel <= Turn(0, y)[k].rel
           /\ Turn(0, x)[k].end = Turn(0, y)[k].end
           /\ Turn(0, x)[k].end \in Int
           /\ Round(Turn(0, x)[k].end) = Turn(0, x)[k].end
<1> DEFINE n == Len(w.phases)
           a == Turn(0, x)
           b == Turn(0, y)
           d(k) == w.phases[k].duration
           Good(k) == /\ a[k].rel \in Int /\ b[k].rel \in Int /\ a[k].rel <= b[k].rel
                      /\ a[k].end = b[k].end /\ a[k].end \in Int /\ Round(a[k].end) = a[k].end
           T == {k \in 0..n : ~Good(k)}
<1>1. n \in Nat /\ DOMAIN w.phases = 1..n /\ \A k \in 1..n : d(k) \in Nat
  BY Durations
<1>2. /\ a[0].rel = Round(x - 0) /\ a[0].end = 0
      /\ b[0].rel = Round(y - 0) /\ b[0].end = 0
      /\ \A k \in 1..n : /\ a[k].rel = Round(a[k - 1].rel - d(k)) /\ a[k].end = Round(a[k - 1].end + d(k))
                         /\ b[k].rel = Round(b[k - 1].rel - d(k)) /\ b[k].end = Round(b[k - 1].end + d(k))
  <2>1. ASSUME NEW z \in Int
        PROVE  /\ Turn(0, z)[0].rel = Round(z - 0) /\ Turn(0, z)[0].end = 0
               /\ \A k \in 1..n : /\ Turn(0, z)[k].rel = Round(Turn(0, z)[k - 1].rel - d(k))
                                  /\ Turn(0, z)[k].end = Round(Turn(0, z)[k - 1].end + d(k))
    <3>1. Turn(0, z)[0].rel = Round(z - 0) /\ Turn(0, z)[0].end = 0
      BY TurnUnfolds
    <3>2. \A k \in DOMAIN w.phases :
            /\ Turn(0, z)[k].rel = Round(Turn(0, z)[k - 1].rel - w.phases[k].duration)
            /\ Turn(0, z)[k].end = Round(Turn(0, z)[k - 1].end + w.phases[k].duration)
      BY TurnUnfolds
    <3> QED
      BY <1>1, <3>1, <3>2, Zenon
  <2> QED
    BY <2>1, Zenon
<1> HIDE DEF a, b, d, n
<1>3. SUFFICES ASSUME T # {} PROVE FALSE
  BY DEF a, b, n
<1>4. T \subseteq Nat
  BY <1>1
<1> HIDE DEF T
<1>5. PICK m \in T : \A l \in T : m <= l
  BY <1>3, <1>4, LeastNat
<1> USE DEF T
<1>6. m \in 0..n /\ ~Good(m)
  BY <1>5
<1>7. CASE m = 0
  <2>1. x - 0 = x /\ y - 0 = y
    OBVIOUS
  <2>2. Good(0)
    BY <1>2, <2>1 DEF Rounds
  <2> QED
    BY <1>6, <1>7, <2>2
<1>8. CASE m # 0
  <2>1. m - 1 \in 0..n /\ m - 1 \notin T /\ m \in 1..n
    BY <1>1, <1>5, <1>6, <1>8
  <2>2. Good(m - 1)
    BY <2>1
  <2> DEFINE p == a[m - 1].rel - d(m)
             q == b[m - 1].rel - d(m)
             e == a[m - 1].end + d(m)
  <2>3. p \in Int /\ q \in Int /\ p <= q /\ e \in Int /\ e = b[m - 1].end + d(m)
    <3>1. d(m) \in Int
      BY <1>1, <2>1
    <3>2. /\ a[m - 1].rel \in Int /\ b[m - 1].rel \in Int /\ a[m - 1].rel <= b[m - 1].rel
          /\ a[m - 1].end \in Int /\ a[m - 1].end = b[m - 1].end
      BY <2>2
    <3> HIDE DEF Good
    <3> QED
      BY <3>1, <3>2
  <2>4. /\ a[m].rel = Round(p) /\ b[m].rel = Round(q)
        /\ a[m].end = Round(e) /\ b[m].end = Round(e)
    BY <1>2, <2>1, <2>3
  <2> HIDE DEF p, q, e
  <2>5. /\ Round(p) \in Int /\ Round(q) \in Int /\ Round(p) <= Round(q)
        /\ Round(e) \in Int /\ Round(Round(e)) = Round(e)
    BY <2>3 DEF Rounds
  <2>6. Good(m)
    BY <2>4, <2>5
  <2> QED
    BY <1>6, <2>6
<1> QED
  BY <1>7, <1>8

LEMMA EndsInOrder ==
  ASSUME Rounds(Int), w \in Workloads, NEW x \in Int, NEW j \in 0..Len(w.phases)
  PROVE  \A k \in j..Len(w.phases) : Turn(0, x)[j].end <= Turn(0, x)[k].end
<1> DEFINE n == Len(w.phases)
           a == Turn(0, x)
           d(k) == w.phases[k].duration
           T == {k \in j..n : ~(a[j].end <= a[k].end)}
<1>1. n \in Nat /\ j \in 0..n /\ DOMAIN w.phases = 1..n /\ \A k \in 1..n : d(k) \in Nat
  BY Durations
<1>2. \A k \in 0..n : a[k].end \in Int /\ Round(a[k].end) = a[k].end
  BY TurnsInOrder
<1>3. \A k \in 1..n : a[k].end = Round(a[k - 1].end + d(k))
  <2>1. \A k \in DOMAIN w.phases :
          Turn(0, x)[k].end = Round(Turn(0, x)[k - 1].end + w.phases[k].duration)
    BY TurnUnfolds
  <2> QED
    BY <1>1, <2>1, Zenon
<1> HIDE DEF a, d, n
<1>4. SUFFICES ASSUME T # {} PROVE FALSE
  BY DEF a, n
<1>5. T \subseteq Nat
  BY <1>1
<1> HIDE DEF T
<1>6. PICK m \in T : \A l \in T : m <= l
  BY <1>4, <1>5, LeastNat
<1> USE DEF T
<1>7. m \in j..n /\ ~(a[j].end <= a[m].end)
  BY <1>6
<1>8. m # j
  BY <1>1, <1>2, <1>7
<1>9. m - 1 \in j..n /\ m - 1 \notin T /\ m \in 1..n /\ m - 1 \in 0..n
  BY <1>1, <1>6, <1>7, <1>8
<1>10. a[j].end <= a[m - 1].end
  BY <1>9
<1>11. a[m].end >= a[m - 1].end
  BY <1>1, <1>2, <1>3, <1>9, RoundsUp
<1> QED
  BY <1>1, <1>2, <1>7, <1>9, <1>10, <1>11

LEMMA PhaseIndexIsFirst ==
  ASSUME w \in Workloads, ~w.repeat, NEW x
  PROVE  LET k == PhaseIndex(x)
             n == Len(w.phases)
             In(j) == Turn(0, x)[j - 1].rel < w.phases[j].duration
         IN  /\ k \in 1..n + 1
             /\ k \in 1..n => In(k)
             /\ \A j \in 1..n : In(j) => k <= j
<1> DEFINE n == Len(w.phases)
           In(j) == Turn(0, x)[j - 1].rel < w.phases[j].duration
           here == {j \in 1..n : In(j)}
<1>1. n \in Nat /\ DOMAIN w.phases = 1..n
  BY Durations
<1>2. Base(x) = 0
  BY DEF Base
<1>3. PhaseIndex(x) = IF here = {} THEN n + 1 ELSE CHOOSE k \in here : \A j \in here : k <= j
  BY <1>1, <1>2 DEF PhaseIndex
<1>4. CASE here = {}
  BY <1>1, <1>3, <1>4
<1>5. CASE here # {}
  <2>1. here \subseteq Nat
    OBVIOUS
  <2> HIDE DEF here
  <2>2. \E k \in here : \A j \in here : k <= j
    BY <1>5, <2>1, LeastNat
  <2>3. PhaseIndex(x) \in here /\ \A j \in here : PhaseIndex(x) <= j
    BY <1>3, <1>5, <2>2
  <2> USE DEF here
  <2> QED
    BY <1>1, <2>3
<1> QED
  BY <1>4, <1>5

\* A later time is never in a phase that ends earlier.
LEMMA PhaseEndsInOrder ==
  ASSUME Rounds(Int), w \in Workloads, Phased, ~w.repeat, NEW x \in Int, NEW y \in Int, x <= y
  PROVE  /\ PhaseEnd(x) \in Int /\ Round(PhaseEnd(x)) = PhaseEnd(x)
         /\ PhaseEnd(x) <= PhaseEnd(y)
<1> DEFINE n == Len(w.phases)
           a == Turn(0, x)
           b == Turn(0, y)
           k == PhaseIndex(x)
           l == PhaseIndex(y)
           E(i) == a[i].end
           d == w.phases[1].duration
           last == Round(E(n) + d)
<1>1. n \in Nat /\ DOMAIN w.phases = 1..n /\ d \in Nat
  BY Durations
<1>2. \A i \in 0..n : /\ a[i].rel \in Int /\ b[i].rel \in Int /\ a[i].rel <= b[i].rel
                      /\ b[i].end = E(i) /\ E(i) \in Int /\ Round(E(i)) = E(i)
  BY TurnsInOrder
<1>3. \A i \in 1..n : w.phases[i].duration \in Nat
  BY <1>1, Durations
<1>4. /\ k \in 1..n + 1 /\ l \in 1..n + 1
      /\ l \in 1..n => b[l - 1].rel < w.phases[l].duration
      /\ \A j \in 1..n : a[j - 1].rel < w.phases[j].duration => k <= j
  BY PhaseIndexIsFirst
<1>5. Base(x) = 0 /\ Base(y) = 0
  BY DEF Base
<1>6. PhaseEnd(x) = IF k \in 1..n THEN E(k) ELSE Round(a[k - 1].end + d)
  BY <1>1, <1>5 DEF PhaseEnd
<1>7. PhaseEnd(y) = IF l \in 1..n THEN b[l].end ELSE Round(b[l - 1].end + d)
  BY <1>1, <1>5 DEF PhaseEnd
<1>8. \A i \in 1..n : E(i) <= E(n)
  BY <1>1, EndsInOrder
<1>9. k \in 1..n => \A i \in k..n : E(k) <= E(i)
  BY <1>1, EndsInOrder
<1> HIDE DEF a, b, k, l, n, d, E
<1>10. PhaseEnd(x) = IF k \in 1..n THEN E(k) ELSE last
  <2>1. k \notin 1..n => k - 1 = n
    BY <1>1, <1>4
  <2> QED
    BY <1>6, <2>1 DEF E
<1>11. PhaseEnd(y) = IF l \in 1..n THEN E(l) ELSE last
  <2>1. l \notin 1..n => l - 1 = n
    BY <1>1, <1>4
  <2>2. n \in 0..n /\ \A i \in 1..n : i \in 0..n
    BY <1>1
  <2> QED
    BY <1>2, <1>7, <2>1, <2>2
<1>12. k <= l
  <2>1. CASE l = n + 1
    BY <1>1, <1>4, <2>1
  <2>2. CASE l \in 1..n
    <3>1. l - 1 \in 0..n
      BY <1>1, <2>2
    <3>2. a[l - 1].rel < w.phases[l].duration
      BY <1>2, <1>3, <1>4, <2>2, <3>1
    <3> QED
      BY <1>4, <2>2, <3>2
  <2> QED
    BY <1>1, <1>4, <2>1, <2>2
<1>13. n \in 0..n /\ E(n) + d \in Int
  BY <1>1, <1>2
<1>14. last \in Int /\ Round(last) = last /\ last >= E(n)
  BY <1>1, <1>2, <1>13, RoundsUp
<1> HIDE DEF last
<1>15. PhaseEnd(x) \in Int /\ Round(PhaseEnd(x)) = PhaseEnd(x)
  <2>1. \A i \in 1..n : i \in 0..n
    BY <1>1
  <2> QED
    BY <1>2, <1>10, <1>14, <2>1
<1>16. PhaseEnd(x) <= PhaseEnd(y)
  <2>1. CASE k \in 1..n /\ l \in 1..n
    <3>1. l \in k..n
      BY <1>1, <1>12, <2>1
    <3> QED
      BY <1>9, <1>10, <1>11, <2>1, <3>1
  <2>2. CASE k \in 1..n /\ l \notin 1..n
    <3>1. E(k) <= E(n) /\ E(k) \in Int /\ E(n) \in Int
      <4>1. k \in 0..n
        BY <1>1, <2>2
      <4> QED
        BY <1>2, <1>8, <1>13, <2>2, <4>1
    <3> QED
      BY <1>10, <1>11, <1>14, <2>2, <3>1
  <2>3. CASE k \notin 1..n /\ l \notin 1..n
    BY <1>10, <1>11, <1>14, <2>3
  <2>4. k \notin 1..n => l \notin 1..n
    BY <1>1, <1>4, <1>12
  <2> QED
    BY <2>1, <2>2, <2>3, <2>4
<1> QED
  BY <1>15, <1>16

\* The time is a rounded number that is not past the end of its phase, and no
\* offset is later.
OrderInv ==
  /\ t \in Nat /\ Round(t) = t
  /\ Phased => \A x \in {t} : x <= PhaseEnd(x)
  /\ \A i \in DOMAIN offsets : offsets[i] \in Int /\ offsets[i] <= SendOffset
  /\ InOrder

\* What the order rests on: it is not claimed of phases that repeat.
OneCycle == Rounds(Int) /\ ~w.repeat

LEMMA OrderInit == Init /\ OneCycle => OrderInv
<1> SUFFICES ASSUME Init, OneCycle PROVE OrderInv
  OBVIOUS
<1>1. t = 0 /\ offsets = <<>> /\ DOMAIN offsets = {} /\ w \in Workloads /\ Round(0) = 0
  BY EmptySeq DEF Init, OneCycle, Rounds
<1>2. Phased => t <= PhaseEnd(t)
  <2> SUFFICES ASSUME Phased PROVE 0 <= PhaseEnd(0)
    BY <1>1
  <2> DEFINE n == Len(w.phases)
             k == PhaseIndex(0)
             E(i) == Turn(0, 0)[i].end
             d == w.phases[1].duration
  <2>1. n \in Nat /\ DOMAIN w.phases = 1..n /\ d \in Nat
    BY <1>1, Durations
  <2>2. E(0) = 0
    BY <1>1, TurnUnfolds
  <2>3. \A i \in 0..n : E(i) \in Int /\ Round(E(i)) = E(i) /\ E(i) >= 0
    <3>1. 0 \in 0..n /\ 0 \in Int /\ 0 <= 0
      BY <2>1
    <3>2. \A i \in 0..n : E(i) \in Int /\ Round(E(i)) = E(i)
      BY <1>1, <3>1, TurnsInOrder DEF OneCycle
    <3>3. \A i \in 0..n : E(0) <= E(i)
      BY <1>1, <3>1, EndsInOrder DEF OneCycle
    <3> HIDE DEF E
    <3> QED
      BY <2>2, <3>2, <3>3
  <2>4. k \in 1..n + 1
    BY <1>1, PhaseIndexIsFirst DEF OneCycle
  <2>5. PhaseEnd(0) = IF k \in 1..n THEN E(k) ELSE Round(E(k - 1) + d)
    <3>1. Base(0) = 0
      BY DEF OneCycle, Base
    <3> QED
      BY <2>1, <3>1 DEF PhaseEnd
  <2> HIDE DEF n, k, E, d
  <2>6. CASE k \in 1..n
    <3>1. k \in 0..n
      BY <2>1, <2>6
    <3> QED
      BY <2>3, <2>5, <2>6, <3>1
  <2>7. CASE k \notin 1..n
    <3>1. k - 1 \in 0..n
      BY <2>1, <2>4, <2>7
    <3>2. E(k - 1) \in Int /\ Round(E(k - 1)) = E(k - 1) /\ E(k - 1) >= 0
      BY <2>3, <3>1
    <3>3. Round(E(k - 1) + d) >= E(k - 1) /\ Round(E(k - 1) + d) \in Int
      <4>1. E(k - 1) + d \in Int
        BY <2>1, <3>2
      <4> QED
        BY <2>1, <3>2, <4>1, RoundsUp DEF OneCycle
    <3> QED
      BY <2>5, <2>7, <3>2, <3>3
  <2> QED
    BY <2>6, <2>7
<1> QED
  BY <1>1, <1>2 DEF OrderInv, InOrder

LEMMA PhaseEndStays ==
  ASSUME w' = w
  PROVE  \A x : PhaseEnd(x)' = PhaseEnd(x)
<1>1. \A base, x : Turn(base, x)' = Turn(base, x)
  BY DEF Turn
<1>2. Cycle' = Cycle
  BY <1>1 DEF Cycle
<1>3. \A x : Base(x)' = Base(x)
  BY <1>2 DEF Base
<1> SUFFICES ASSUME NEW x PROVE PhaseEnd(x)' = PhaseEnd(x)
  OBVIOUS
<1>4. Turn(Base(x), x)' = Turn(Base(x), x)
  BY <1>3 DEF Turn
<1>5. PhaseIndex(x)' = PhaseIndex(x)
  BY <1>4 DEF PhaseIndex
<1> QED
  BY <1>4, <1>5 DEF PhaseEnd

\* A time that is no earlier keeps the order of the offsets.
LEMMA TimePasses ==
  ASSUME OneCycle, PlanInv, OrderInv, UNCHANGED <<w, offsets>>,
         t' \in Int, t <= t', Round(t') = t', Phased => t' <= PhaseEnd(t')
  PROVE  OrderInv'
<1>1. w' = w /\ offsets' = offsets
  OBVIOUS
<1>2. SendOffset \in Int /\ SendOffset' \in Int /\ SendOffset <= SendOffset'
  <2> DEFINE u == t'
  <2>1. t \in Int /\ u \in Int /\ 0 <= t /\ t <= u /\ 0 <= u
    BY DEF OrderInv
  <2> HIDE DEF u
  <2>2. Resolution \in Int /\ Resolution > 0
    BY ScheduleAssumption
  <2>3. /\ Quot(t, Resolution) \in Nat /\ Quot(u, Resolution) \in Nat
        /\ Quot(t, Resolution) <= Quot(u, Resolution)
    BY <2>1, <2>2 DEF OneCycle, Rounds
  <2>4. SendOffset' = Quot(u, Resolution)
    BY DEF SendOffset, u
  <2> QED
    BY <2>3, <2>4 DEF SendOffset
<1>3. Phased' <=> Phased
  BY <1>1 DEF Phased
<1>4. Phased' => \A x \in {t'} : x <= PhaseEnd(x)'
  <2>1. \A x : PhaseEnd(x)' = PhaseEnd(x)
    BY PhaseEndStays
  <2>2. \A x \in {t'} : Phased => x <= PhaseEnd(x)
    OBVIOUS
  <2> QED
    BY <1>3, <2>1, <2>2
<1>5. \A i \in DOMAIN offsets' : offsets'[i] \in Int /\ offsets'[i] <= SendOffset'
  BY <1>1, <1>2 DEF OrderInv
<1>6. InOrder'
  BY <1>1 DEF OrderInv, InOrder
<1>7. t' \in Nat
  BY DEF OrderInv
<1> QED
  BY <1>3, <1>4, <1>5, <1>6, <1>7 DEF OrderInv

LEMMA OrderStep == OneCycle /\ PlanInv /\ OrderInv /\ [Next]_vars => OrderInv'
<1> SUFFICES ASSUME OneCycle, PlanInv, OrderInv, [Next]_vars PROVE OrderInv'
  OBVIOUS
<1>1. t \in Nat /\ Round(t) = t /\ (Phased => t <= PhaseEnd(t)) /\ w \in Workloads
  BY DEF OrderInv, PlanInv, TypeInv
<1>2. CASE UNCHANGED <<w, t, offsets>>
  BY <1>1, <1>2, TimePasses
<1>3. CASE Steady
  <2>1. /\ ~Phased /\ UNCHANGED <<w, offsets>>
        /\ \E gap \in 0..MaxGap : t' = Round(t + gap)
    BY <1>3 DEF Steady
  <2>2. PICK gap \in Nat : t' = Round(t + gap)
    BY <2>1, ScheduleAssumption DEF ScheduleAssumption
  <2>3. t + gap \in Int
    BY <1>1, <2>2
  <2>4. t' \in Int /\ t <= t' /\ Round(t') = t'
    BY <1>1, <2>2, <2>3, RoundsUp DEF OneCycle
  <2> QED
    BY <2>1, <2>4, TimePasses
<1>4. CASE Walk
  <2>1. /\ Phased /\ UNCHANGED <<w, offsets>> /\ ~w.repeat
        /\ \/ \E gap \in 0..MaxGap : Round(t + gap) < PhaseEnd(t) /\ t' = Round(t + gap)
           \/ t' = PhaseEnd(t)
    BY <1>4 DEF Walk, Lands, OneCycle
  <2>2. PhaseEnd(t) \in Int /\ Round(PhaseEnd(t)) = PhaseEnd(t)
    BY <1>1, <2>1, PhaseEndsInOrder DEF OneCycle
  <2>3. t' \in Int /\ t <= t' /\ Round(t') = t' /\ t' <= PhaseEnd(t)
    <3>1. CASE t' = PhaseEnd(t)
      BY <1>1, <2>1, <2>2, <3>1
    <3>2. CASE \E gap \in 0..MaxGap : Round(t + gap) < PhaseEnd(t) /\ t' = Round(t + gap)
      <4>1. PICK gap \in Nat : t' = Round(t + gap) /\ Round(t + gap) < PhaseEnd(t)
        BY <3>2, ScheduleAssumption DEF ScheduleAssumption
      <4>2. t + gap \in Int
        BY <1>1, <4>1
      <4>3. t' \in Int /\ t <= t' /\ Round(t') = t'
        BY <1>1, <4>1, <4>2, RoundsUp DEF OneCycle
      <4> QED
        BY <2>2, <4>1, <4>3
    <3> QED
      BY <2>1, <3>1, <3>2
  <2>4. PhaseEnd(t) <= PhaseEnd(t') /\ PhaseEnd(t') \in Int
    BY <1>1, <2>1, <2>3, PhaseEndsInOrder DEF OneCycle
  <2>5. t' <= PhaseEnd(t')
    BY <2>2, <2>3, <2>4
  <2> QED
    BY <2>1, <2>3, <2>5, TimePasses
<1>5. CASE Arrive /\ offsets' # offsets
  <2> DEFINE k == Len(offsets)
  <2>1. /\ UNCHANGED <<w, t>> /\ offsets' = Append(offsets, SendOffset)
    BY <1>5 DEF Arrive
  <2>2. /\ k \in Nat /\ DOMAIN offsets = 1..k /\ DOMAIN offsets' = 1..(k + 1)
        /\ \A i \in 1..k : offsets'[i] = offsets[i]
        /\ offsets'[k + 1] = SendOffset
    BY <2>1, OneMoreOffset DEF PlanInv
  <2>3. SendOffset \in Int /\ SendOffset' = SendOffset
    BY <1>1, <2>1, ScheduleAssumption DEF OneCycle, Rounds, ScheduleAssumption, SendOffset
  <2>4. \A i \in 1..k : offsets[i] \in Int /\ offsets[i] <= SendOffset
    BY <2>2 DEF OrderInv
  <2>5. \A i \in 1..(k + 1) : offsets'[i] \in Int /\ offsets'[i] <= SendOffset
    BY <2>2, <2>3, <2>4
  <2>6. \A i, j \in 1..k : i <= j => offsets[i] <= offsets[j]
    BY <2>2 DEF OrderInv, InOrder
  <2>7. ASSUME NEW i \in 1..(k + 1), NEW j \in 1..(k + 1), i <= j
        PROVE  offsets'[i] <= offsets'[j]
    <3>1. CASE j = k + 1
      BY <2>2, <2>5, <3>1
    <3>2. CASE j \in 1..k
      <4>1. i \in 1..k
        BY <2>2, <2>7, <3>2
      <4> QED
        BY <2>2, <2>6, <2>7, <3>2, <4>1
    <3> QED
      BY <2>2, <3>1, <3>2
  <2>8. Phased' = Phased /\ \A x : PhaseEnd(x)' = PhaseEnd(x)
    BY <2>1, PhaseEndStays DEF Phased
  <2> HIDE DEF k
  <2> QED
    BY <1>1, <2>1, <2>2, <2>3, <2>5, <2>7, <2>8 DEF OrderInv, InOrder
<1>6. UNCHANGED <<w, t, offsets>> \/ Steady \/ Walk \/ (Arrive /\ offsets' # offsets)
  <2>1. CASE Arrive
    BY <2>1 DEF Arrive
  <2>2. CASE Begin \/ Exhausted \/ Stop \/ Assign \/ Finish \/ UNCHANGED vars
    BY <2>2 DEF Begin, Exhausted, Stop, Assign, Finish, vars
  <2> QED
    BY <2>1, <2>2 DEF Next
<1> QED
  BY <1>2, <1>3, <1>4, <1>5, <1>6

LEMMA OneCycleStays == PlanInv /\ [Next]_vars /\ OneCycle' => OneCycle
BY DEF Next, Begin, Steady, Walk, Exhausted, Arrive, Stop, Assign, Finish, vars, OneCycle

\* The offsets of a plan never go back, which is what Run assumes of them
\* (RunAssumption; schedule.go:222-238, 252-302): when rounding keeps the order
\* of numbers, for every constant rate and every list of phases that is walked
\* through once.
THEOREM PlansAreInOrder == Spec => [](Rounds(Int) /\ ~w.repeat => InOrder)
<1>1. Init => (OneCycle => OrderInv)
  BY OrderInit
<1>2. PlanInv /\ (OneCycle => OrderInv) /\ [Next]_vars => (OneCycle => OrderInv)'
  BY OrderStep, OneCycleStays
<1>3. (OneCycle => OrderInv) => (Rounds(Int) /\ ~w.repeat => InOrder)
  BY DEF OneCycle, OrderInv
<1> QED
  BY <1>1, <1>2, <1>3, PlanInvariant, PTL DEF Spec

-----------------------------------------------------------------------------
(* The prefix groups.                                                      *)

Members(g) == {i \in DOMAIN groups : groups[i] = g}

\* `full` groups are full and `rest` items are in the next one.
FilledTo(full, rest) ==
  /\ full \in Nat /\ rest \in Nat /\ rest < w.group_size
  /\ shared = full * w.group_size + rest
  /\ \A g \in 1..full : Cardinality(Members(g)) = w.group_size
  /\ Cardinality(Members(full + 1)) = rest
  /\ \A i \in DOMAIN groups : groups[i] \in 0..(full + 1)

InOneGroup == w.group_size = None
Counted == w.group_size # None /\ w.group_size > 0

FillInv ==
  /\ w \in Workloads /\ shared \in Nat /\ groups \in Seq(Int)
  /\ InOneGroup => \A i \in DOMAIN groups : groups[i] \in {0, 1}
  /\ Counted => \E full, rest \in Nat : FilledTo(full, rest)
  /\ InOneGroup \/ Counted =>
       \A i, j \in DOMAIN groups : i <= j /\ 0 \notin {groups[i], groups[j]} => groups[i] <= groups[j]

LEMMA NoGroupsYet ==
  ASSUME w \in Workloads, groups = <<>>, shared = 0
  PROVE  FillInv
<1>1. groups \in Seq(Int) /\ DOMAIN groups = {} /\ IsWorkload(w)
  BY EmptySeq, ScheduleAssumption DEF ScheduleAssumption
<1>2. \A g : Members(g) = {}
  BY <1>1 DEF Members
<1>3. \A g : Cardinality(Members(g)) = 0
  BY <1>2, FS_EmptySet
<1>4. Counted => FilledTo(0, 0)
  BY <1>1, <1>3 DEF Counted, FilledTo, IsWorkload
<1>5. 0 \in Nat
  OBVIOUS
<1> QED
  BY <1>1, <1>4, <1>5 DEF FillInv

\* What appending an item does to the members of the groups.
LEMMA OneMore ==
  ASSUME NEW S, S = groups, groups \in Seq(Int), NEW h \in Int, groups' = Append(groups, h)
  PROVE  /\ groups' \in Seq(Int)
         /\ DOMAIN groups' = DOMAIN groups \cup {Len(groups) + 1}
         /\ \A i \in DOMAIN groups : groups'[i] = groups[i] /\ i < Len(groups) + 1 /\ i \in Nat
         /\ groups'[Len(groups) + 1] = h /\ Len(groups) \in Nat
         /\ \A g : g # h => Members(g)' = Members(g)
         /\ Cardinality(Members(h)') = Cardinality(Members(h)) + 1
<1> DEFINE n == Len(groups)
<1>1. /\ n \in Nat /\ DOMAIN groups = 1..n
      /\ groups' \in Seq(Int) /\ Len(groups') = n + 1
      /\ \A i \in 1..n : groups'[i] = groups[i]
      /\ groups'[n + 1] = h
  BY AppendProperties, LenProperties
<1>2. DOMAIN groups' = 1..(n + 1)
  BY <1>1, LenProperties
<1> HIDE DEF n
<1>3. DOMAIN groups' = DOMAIN groups \cup {n + 1} /\ n + 1 \notin DOMAIN groups
  BY <1>1, <1>2
<1>4. \A g : g # h => Members(g)' = Members(g)
  BY <1>1, <1>3 DEF Members
<1>5. Members(h)' = Members(h) \cup {n + 1} /\ n + 1 \notin Members(h)
  BY <1>1, <1>3 DEF Members
<1>6. IsFiniteSet(Members(h))
  <2>1. IsFiniteSet(1..n) /\ Members(h) \subseteq 1..n
    BY <1>1, FS_Interval DEF Members
  <2> QED
    BY <2>1, FS_Subset
<1>7. Cardinality(Members(h)') = Cardinality(Members(h)) + 1
  BY <1>5, <1>6, FS_AddElement
<1>8. \A i \in DOMAIN groups : groups'[i] = groups[i] /\ i < n + 1 /\ i \in Nat
  BY <1>1
<1> QED
  BY <1>1, <1>3, <1>4, <1>7, <1>8 DEF n

\* The group the next sharing item goes to is the one that is being filled.
LEMMA GroupIsNext ==
  ASSUME w \in Workloads, Counted, NEW full \in Nat, NEW rest \in Nat, FilledTo(full, rest)
  PROVE  Group = full + 1 /\ w.group_size \in Nat \ {0}
<1> DEFINE s == w.group_size
           q == shared \div s
<1>1. s \in Nat \ {0} /\ s # None
  BY ScheduleAssumption DEF ScheduleAssumption, IsWorkload, Counted
<1>2. shared = full * s + rest /\ rest < s
  BY DEF FilledTo
<1>3. Group = q + 1
  BY <1>1 DEF Group, Quotient
<1> HIDE DEF s
<1>4. shared \in Nat
  BY <1>1, <1>2
<1>5. q \in Nat /\ q * s <= shared /\ shared < q * s + s
  BY <1>1, <1>4, Division
<1> HIDE DEF q
<1>6. q * s < (full + 1) * s /\ full * s < (q + 1) * s
  BY <1>1, <1>2, <1>5
<1>7. q < full + 1 /\ full < q + 1
  BY <1>1, <1>5, <1>6
<1>8. q = full
  BY <1>5, <1>7
<1> QED
  BY <1>1, <1>3, <1>8 DEF s

\* The order of the groups along the plan is kept by an item that shares
\* nothing and by one that joins the last group.
LEMMA OrderOfGroups ==
  ASSUME groups \in Seq(Int), NEW h \in Int, groups' = Append(groups, h),
         h = 0 \/ \A i \in DOMAIN groups : groups[i] <= h,
         \A i, j \in DOMAIN groups : i <= j /\ 0 \notin {groups[i], groups[j]} => groups[i] <= groups[j]
  PROVE  \A i, j \in DOMAIN groups' :
           i <= j /\ 0 \notin {groups'[i], groups'[j]} => groups'[i] <= groups'[j]
<1> DEFINE n == Len(groups) + 1
<1>1. /\ DOMAIN groups' = DOMAIN groups \cup {n} /\ groups'[n] = h
      /\ \A i \in DOMAIN groups : groups'[i] = groups[i] /\ i < n /\ i \in Nat
      /\ n \in Nat
  BY OneMore
<1> HIDE DEF n
<1>2. SUFFICES ASSUME NEW i \in DOMAIN groups', NEW j \in DOMAIN groups', i <= j,
                      groups'[i] # 0, groups'[j] # 0
               PROVE  groups'[i] <= groups'[j]
  OBVIOUS
<1>3. CASE j \in DOMAIN groups
  <2>1. i \in DOMAIN groups
    BY <1>1, <1>2, <1>3
  <2> QED
    BY <1>1, <1>2, <1>3, <2>1
<1>4. CASE j = n
  BY <1>1, <1>2, <1>4
<1> QED
  BY <1>1, <1>3, <1>4

LEMMA FillStep == PlanInv /\ FillInv /\ [Next]_vars => FillInv'
<1> SUFFICES ASSUME PlanInv, FillInv, [Next]_vars PROVE FillInv'
  OBVIOUS
<1>1. w' = w
  BY DEF Next, Begin, Steady, Exhausted, Walk, Arrive, Stop, Assign, Finish, vars
<1>2. CASE UNCHANGED <<groups, shared>>
  BY <1>1, <1>2 DEF FillInv, FilledTo, Members, InOneGroup, Counted
<1>3. CASE groups' = Append(groups, 0) /\ UNCHANGED shared
  <2>1. groups \in Seq(Int) /\ 0 \in Int
    BY DEF FillInv
  <2>2. /\ groups' \in Seq(Int)
        /\ DOMAIN groups' = DOMAIN groups \cup {Len(groups) + 1}
        /\ \A i \in DOMAIN groups : groups'[i] = groups[i]
        /\ groups'[Len(groups) + 1] = 0
        /\ \A g : g # 0 => Members(g)' = Members(g)
    BY <1>3, <2>1, OneMore
  <2>3. InOneGroup' => \A i \in DOMAIN groups' : groups'[i] \in {0, 1}
    BY <1>1, <2>2 DEF FillInv, InOneGroup
  <2>4. ASSUME Counted, NEW full \in Nat, NEW rest \in Nat, FilledTo(full, rest)
        PROVE  FilledTo(full, rest)'
    <3>1. \A g \in 1..(full + 1) : Members(g)' = Members(g)
      BY <2>2
    <3>2. \A i \in DOMAIN groups' : groups'[i] \in 0..(full + 1)
      BY <2>2, <2>4 DEF FilledTo
    <3> QED
      BY <1>1, <1>3, <2>4, <3>1, <3>2 DEF FilledTo
  <2>5. InOneGroup' \/ Counted' =>
          \A i, j \in DOMAIN groups' :
            i <= j /\ 0 \notin {groups'[i], groups'[j]} => groups'[i] <= groups'[j]
    BY <1>1, <1>3, <2>1, OrderOfGroups DEF FillInv, InOneGroup, Counted
  <2> QED
    BY <1>1, <1>3, <2>2, <2>3, <2>4, <2>5 DEF FillInv, Counted
<1>4. CASE groups' = Append(groups, Group) /\ shared' = shared + 1 /\ w.group_size # 0
  <2>1. groups \in Seq(Int) /\ shared \in Nat /\ IsWorkload(w)
    BY ScheduleAssumption DEF FillInv, ScheduleAssumption
  <2>2. CASE InOneGroup
    <3>1. Group = 1
      BY <2>2 DEF Group, InOneGroup
    <3>2. /\ groups' \in Seq(Int)
          /\ DOMAIN groups' = DOMAIN groups \cup {Len(groups) + 1}
          /\ \A i \in DOMAIN groups : groups'[i] = groups[i]
          /\ groups'[Len(groups) + 1] = 1
      BY <1>4, <2>1, <3>1, OneMore
    <3>3. \A i \in DOMAIN groups' : groups'[i] \in {0, 1}
      BY <2>2, <3>2 DEF FillInv
    <3>4. \A i, j \in DOMAIN groups' :
            i <= j /\ 0 \notin {groups'[i], groups'[j]} => groups'[i] <= groups'[j]
      BY <3>3
    <3> QED
      BY <1>1, <1>4, <2>1, <2>2, <3>2, <3>3, <3>4 DEF FillInv, InOneGroup, Counted
  <2>3. CASE Counted
    <3>1. PICK full \in Nat, rest \in Nat : FilledTo(full, rest)
      BY <2>3 DEF FillInv
    <3>2. Group = full + 1 /\ w.group_size \in Nat \ {0}
      BY <2>1, <2>3, <3>1, GroupIsNext DEF FillInv
    <3> DEFINE s == w.group_size
               h == full + 1
    <3>3. /\ groups' \in Seq(Int)
          /\ DOMAIN groups' = DOMAIN groups \cup {Len(groups) + 1}
          /\ \A i \in DOMAIN groups : groups'[i] = groups[i]
          /\ groups'[Len(groups) + 1] = h
          /\ \A g : g # h => Members(g)' = Members(g)
          /\ Cardinality(Members(h)') = Cardinality(Members(h)) + 1
      BY <1>4, <2>1, <3>2, OneMore
    <3>4. /\ full * s \in Nat /\ h * s = full * s + s
          /\ shared' = full * s + (rest + 1) /\ rest < s
      <4> DEFINE below == full * s
      <4>1. below \in Nat /\ h * s = below + s
        <5>1. \A a, b \in Nat : a * b \in Nat /\ (a + 1) * b = a * b + b
          OBVIOUS
        <5>2. s \in Nat
          BY <3>2
        <5> HIDE DEF s
        <5> QED
          BY <5>1, <5>2
      <4>2. shared = below + rest /\ shared' = shared + 1 /\ rest < s
        BY <1>4, <3>1 DEF FilledTo
      <4> HIDE DEF below
      <4>3. shared' = below + (rest + 1)
        BY <4>1, <4>2
      <4> QED
        BY <4>1, <4>2, <4>3 DEF below
    <3>5. /\ \A g \in 1..full : Cardinality(Members(g)') = s
          /\ Cardinality(Members(h)') = rest + 1
          /\ \A i \in DOMAIN groups' : groups'[i] \in 0..h
      <4>1. \A g \in 1..full : g # h
        OBVIOUS
      <4>2. \A g \in 1..full : Cardinality(Members(g)') = s
        BY <3>1, <3>3, <4>1 DEF FilledTo
      <4>3. Cardinality(Members(h)') = rest + 1
        BY <3>1, <3>3 DEF FilledTo
      <4>4. \A i \in DOMAIN groups' : groups'[i] \in 0..h
        BY <3>1, <3>3 DEF FilledTo
      <4> QED
        BY <4>2, <4>3, <4>4
    <3>6. ASSUME rest + 1 < s PROVE \E f, r \in Nat : FilledTo(f, r)'
      <4>1. FilledTo(full, rest + 1)'
        BY <1>1, <3>4, <3>5, <3>6 DEF FilledTo
      <4>2. rest + 1 \in Nat
        OBVIOUS
      <4> QED
        BY <4>1, <4>2
    <3>7. ASSUME rest + 1 = s PROVE \E f, r \in Nat : FilledTo(f, r)'
      <4>1. shared' = h * s + 0
        <5> DEFINE below == full * s
                   above == h * s
        <5>1. below \in Nat /\ above = below + s /\ shared' = below + (rest + 1)
          BY <3>4
        <5> HIDE DEF below, above
        <5>2. shared' = above + 0
          BY <3>2, <3>7, <5>1
        <5> QED
          BY <5>2 DEF above
      <4>2. \A g \in 1..h : Cardinality(Members(g)') = s
        BY <3>5, <3>7
      <4>3. Cardinality(Members(h + 1)') = 0
        <5>1. Members(h + 1)' = {}
          BY <3>5 DEF Members
        <5> QED
          BY <5>1, FS_EmptySet
      <4>4. FilledTo(h, 0)'
        BY <1>1, <3>2, <3>5, <4>1, <4>2, <4>3 DEF FilledTo
      <4>5. h \in Nat /\ 0 \in Nat
        OBVIOUS
      <4> QED
        BY <4>4, <4>5
    <3>8. \E f, r \in Nat : FilledTo(f, r)'
      BY <3>2, <3>4, <3>6, <3>7
    <3>9. \A i \in DOMAIN groups : groups[i] <= h
      BY <3>1 DEF FilledTo
    <3>10. \A i, j \in DOMAIN groups' :
            i <= j /\ 0 \notin {groups'[i], groups'[j]} => groups'[i] <= groups'[j]
      BY <1>4, <2>1, <2>3, <3>2, <3>9, OrderOfGroups DEF FillInv
    <3> QED
      BY <1>1, <1>4, <2>1, <2>3, <3>3, <3>8, <3>10 DEF FillInv, InOneGroup, Counted
  <2>4. CASE ~InOneGroup /\ ~Counted
    <3>1. w.group_size \in Int /\ w.group_size < 0
      BY <1>4, <2>1, <2>4 DEF InOneGroup, Counted, IsWorkload
    <3>2. Group \in Int
      <4> DEFINE a == -w.group_size
      <4>1. a \in Nat \ {0}
        BY <3>1
      <4> HIDE DEF a
      <4>2. shared \div a \in Int
        BY <2>1, <4>1
      <4>3. Group = -(shared \div a) + 1
        BY <2>4, <3>1 DEF Group, Quotient, InOneGroup, a
      <4> QED
        BY <4>2, <4>3
    <3>3. groups' \in Seq(Int)
      BY <1>4, <2>1, <3>2, AppendProperties
    <3> QED
      BY <1>1, <1>4, <2>1, <2>4, <3>3 DEF FillInv, InOneGroup, Counted
  <2> QED
    BY <2>2, <2>3, <2>4
<1>5. \/ UNCHANGED <<groups, shared>>
      \/ groups' = Append(groups, 0) /\ UNCHANGED shared
      \/ groups' = Append(groups, Group) /\ shared' = shared + 1 /\ w.group_size # 0
  BY DEF Next, Begin, Steady, Exhausted, Walk, Arrive, Stop, Assign, Finish, vars
<1> QED
  BY <1>2, <1>3, <1>4, <1>5

LEMMA FillMeansGroupsFill == FillInv => GroupsFill
<1> SUFFICES ASSUME FillInv, InOneGroup \/ Counted PROVE GroupsFill
  BY DEF GroupsFill, InOneGroup, Counted
<1> DEFINE used == {groups[i] : i \in DOMAIN groups} \ {0}
<1>1. \A i, j \in DOMAIN groups : i <= j /\ 0 \notin {groups[i], groups[j]} => groups[i] <= groups[j]
  BY DEF FillInv
<1>2. CASE InOneGroup
  <2>1. used = {} \/ used = {1}
    BY <1>2 DEF FillInv
  <2>2. used = 1..Cardinality(used)
    <3>1. 1..0 = {} /\ 1..1 = {1}
      OBVIOUS
    <3>2. Cardinality({}) = 0 /\ Cardinality({1}) = 1
      BY FS_EmptySet, FS_Singleton
    <3> HIDE DEF used
    <3> QED
      BY <2>1, <3>1, <3>2
  <2> QED
    BY <1>1, <1>2, <2>2 DEF GroupsFill, InOneGroup
<1>3. CASE Counted
  <2>1. PICK full \in Nat, rest \in Nat : FilledTo(full, rest)
    BY <1>3 DEF FillInv
  <2>2. w.group_size \in Nat \ {0}
    BY <1>3, <2>1, GroupIsNext DEF FillInv
  <2> DEFINE top == IF rest = 0 THEN full ELSE full + 1
  <2>3. \A g : IsFiniteSet(Members(g))
    <3>1. IsFiniteSet(DOMAIN groups)
      BY LenProperties, FS_Interval DEF FillInv
    <3> QED
      BY <3>1, FS_Subset DEF Members
  <2>4. \A g : Cardinality(Members(g)) # 0 <=> \E i \in DOMAIN groups : groups[i] = g
    <3>1. \A g : Cardinality(Members(g)) = 0 <=> Members(g) = {}
      BY <2>3, FS_EmptySet
    <3> QED
      BY <3>1 DEF Members
  <2>5. ASSUME NEW g \in 1..top PROVE g \in used
    <3>1. Cardinality(Members(g)) # 0 /\ g # 0
      <4>1. CASE g \in 1..full
        BY <2>1, <2>2, <4>1 DEF FilledTo
      <4>2. CASE g = full + 1 /\ rest # 0
        BY <2>1, <4>2 DEF FilledTo
      <4> QED
        BY <4>1, <4>2
    <3> QED
      BY <2>4, <3>1
  <2>6. ASSUME NEW g \in used PROVE g \in 1..top
    <3>1. PICK i \in DOMAIN groups : g = groups[i] /\ g # 0
      OBVIOUS
    <3>2. g \in 1..(full + 1)
      BY <2>1, <3>1 DEF FilledTo
    <3>3. Cardinality(Members(g)) # 0
      BY <2>4, <3>1
    <3>4. rest = 0 => g # full + 1
      BY <2>1, <3>3 DEF FilledTo
    <3> QED
      BY <3>2, <3>4
  <2>7. used = 1..top
    BY <2>5, <2>6
  <2>8. top \in Nat
    OBVIOUS
  <2>9. Cardinality(used) = top
    <3> HIDE DEF used, top
    <3>1. Cardinality(1..top) = top
      BY <2>8, FS_Interval
    <3> QED
      BY <2>7, <3>1
  <2>10. ASSUME NEW g \in used
         PROVE  /\ Cardinality(Members(g)) <= w.group_size
                /\ g + 1 \in used => Cardinality(Members(g)) = w.group_size
    <3>1. g \in 1..top /\ (g + 1 \in used => g + 1 \in 1..top)
      BY <2>6
    <3>2. g \in 1..full \/ g = full + 1
      BY <3>1
    <3>3. g + 1 \in used => g \in 1..full
      BY <3>1
    <3>4. CASE g \in 1..full
      BY <2>1, <2>2, <3>4 DEF FilledTo
    <3>5. CASE g = full + 1 /\ g + 1 \notin used
      BY <2>1, <2>2, <3>5 DEF FilledTo
    <3> QED
      BY <3>2, <3>3, <3>4, <3>5
  <2> HIDE DEF used, top
  <2>11. used = 1..Cardinality(used)
    BY <2>7, <2>9
  <2> QED
    BY <1>1, <2>10, <2>11 DEF GroupsFill, used, Members
<1> QED
  BY <1>2, <1>3

-----------------------------------------------------------------------------
(* Build fails for a declared reason, and a plan is whole.                 *)

EndInv ==
  /\ pc = "items" => Len(groups) <= Len(offsets)
  /\ pc = "built" => Len(groups) = Len(offsets)
  /\ pc = "error" => \/ w.type = "closed-loop" \/ Barren
                     \/ offsets = <<>> \/ Len(offsets) = MaxPlanned + 1
  /\ pc = "panic" => w.group_size = 0
  /\ pc \in {"begin", "next", "arrived", "stop"} => groups = <<>>

LEMMA EndStep == PlanInv /\ FillInv /\ EndInv /\ [Next]_vars => EndInv'
<1> SUFFICES ASSUME PlanInv, FillInv, EndInv, [Next]_vars PROVE EndInv'
  OBVIOUS
<1>1. CASE Begin
  BY <1>1 DEF Begin, EndInv, Barren, Phased
<1>2. CASE Steady \/ Exhausted \/ Walk
  BY <1>2 DEF Steady, Exhausted, Walk, EndInv
<1>3. CASE Arrive
  <2>1. /\ pc = "arrived" /\ UNCHANGED <<w, groups>> /\ groups = <<>>
        /\ pc' \in {"stop", "error", "next"}
    BY <1>3 DEF Arrive, EndInv
  <2>2. ASSUME pc' = "error" PROVE Len(offsets') = MaxPlanned + 1
    <3>1. Len(offsets') > MaxPlanned /\ offsets' = Append(offsets, SendOffset)
      BY <1>3, <2>2 DEF Arrive
    <3>2. Len(offsets') = Len(offsets) + 1 /\ Len(offsets) \in Nat
      BY <3>1, OneMoreOffset DEF PlanInv
    <3>3. Len(offsets) <= MaxPlanned /\ MaxPlanned \in Nat
      BY <2>1, ScheduleAssumption DEF PlanInv, LengthInv, Arriving, ScheduleAssumption
    <3> QED
      BY <3>1, <3>2, <3>3
  <2> QED
    BY <2>1, <2>2 DEF EndInv
<1>4. CASE Stop
  <2>1. /\ pc = "stop" /\ UNCHANGED <<w, offsets, groups>> /\ groups = <<>>
        /\ pc' = IF offsets = <<>> THEN "error" ELSE "items"
    BY <1>4 DEF Stop, EndInv
  <2>2. Len(groups) <= Len(offsets)
    BY <2>1, EmptySeq, LenProperties DEF PlanInv, TypeInv
  <2> QED
    BY <2>1, <2>2 DEF EndInv
<1>5. CASE Assign
  <2>1. /\ pc = "items" /\ Len(groups) < Len(offsets) /\ UNCHANGED <<w, offsets>>
        /\ \/ groups' = Append(groups, 0) /\ UNCHANGED pc
           \/ pc' = "panic" /\ w.group_size = 0
           \/ groups' = Append(groups, Group) /\ UNCHANGED pc
    BY <1>5 DEF Assign
  <2>2. Len(groups) \in Nat /\ Len(offsets) \in Nat
    BY LenProperties DEF PlanInv, TypeInv, FillInv
  <2>3. \A h : Len(Append(groups, h)) = Len(groups) + 1
    BY DEF FillInv
  <2> QED
    BY <2>1, <2>2, <2>3 DEF EndInv
<1>6. CASE Finish
  BY <1>6 DEF Finish, EndInv
<1>7. CASE UNCHANGED vars
  BY <1>7 DEF vars, EndInv, Barren, Phased
<1> QED
  BY <1>1, <1>2, <1>3, <1>4, <1>5, <1>6, <1>7 DEF Next

\* So do the ones of the groups and of the end of Build.
THEOREM FillInvariant == Spec => [](FillInv /\ EndInv)
<1>1. Init => FillInv
  BY NoGroupsYet DEF Init
<1>2. Init => EndInv
  BY DEF Init, EndInv
<1> QED
  BY <1>1, <1>2, PlanInvariant, FillStep, EndStep, PTL DEF Spec

\* Whatever is drawn and however it is rounded, a plan that is built has the
\* length the workload declares and its groups filled one after the other; and
\* Build fails only without arrivals, with too many, or on a group size of zero
\* (schedule.go:93-168, 172-249).
THEOREM BuildsForAReason ==
  Spec => []( /\ GroupsFill
              /\ pc = "built" => EndsForAReason /\ Len(groups) = Len(offsets)
              /\ pc = "error" => \/ w.type = "closed-loop" \/ Barren
                                 \/ offsets = <<>> \/ Len(offsets) = MaxPlanned + 1
              /\ pc = "panic" => w.group_size = 0 )
<1>1. PlanInv /\ FillInv /\ EndInv =>
        /\ GroupsFill
        /\ pc = "built" => EndsForAReason /\ Len(groups) = Len(offsets)
        /\ pc = "error" => \/ w.type = "closed-loop" \/ Barren
                           \/ offsets = <<>> \/ Len(offsets) = MaxPlanned + 1
        /\ pc = "panic" => w.group_size = 0
  <2> SUFFICES ASSUME PlanInv, FillInv, EndInv
               PROVE  /\ GroupsFill
                      /\ pc = "built" => EndsForAReason /\ Len(groups) = Len(offsets)
                      /\ pc = "error" => \/ w.type = "closed-loop" \/ Barren
                                         \/ offsets = <<>> \/ Len(offsets) = MaxPlanned + 1
                      /\ pc = "panic" => w.group_size = 0
    OBVIOUS
  <2>1. pc = "built" => EndsForAReason
    BY DEF PlanInv, LengthInv, Reason, EndsForAReason
  <2>2. GroupsFill
    BY FillMeansGroupsFill
  <2> QED
    BY <2>1, <2>2 DEF EndInv
<1> QED
  BY <1>1, PlanInvariant, FillInvariant, PTL

=============================================================================
