------------------------------ MODULE Schedule ------------------------------
(***************************************************************************)
(* internal/schedule: Build, the open-loop plan computed from the workload *)
(* before any traffic.  Times are the float64 numbers of the code: an      *)
(* integer in a fine unit, and every sum, difference, product and quotient *)
(* rounded (Round, Quot), since a walk over phases compares numbers that   *)
(* were added up in different orders.  A random draw is any number;        *)
(* lengths, cancel points and slow clients are drawn from streams of their *)
(* own and are left out, the prefix groups are kept.                       *)
(***************************************************************************)
EXTENDS Integers, Sequences, FiniteSets, Functions

CONSTANTS
  Workloads,   \* what workload.Load lets through
  Resolution,  \* units of time in one unit of SendOffset
  MaxPlanned,  \* maxPlannedRequests
  None,        \* an absent group_size
  MaxGap,      \* bound on one exponential draw
  MaxTime,     \* bound on the time reached
  Round(_),    \* the time next to a sum, difference or product
  Quot(_, _),  \* the whole part of a rounded quotient
  Blur(_)      \* how far rounding may have moved a boundary near a time

\* A workload's arrivals are those of a constant rate when it has no phases;
\* 0 stands for an absent request_count or duration.
IsWorkload(x) ==
  /\ x.type \in {"open-loop-poisson", "closed-loop"}
  /\ x.phases \in Seq([duration : Nat \ {0}, positive : BOOLEAN])
  /\ \A k \in DOMAIN x.phases : Round(x.phases[k].duration) = x.phases[k].duration
  /\ x.repeat \in BOOLEAN
  /\ x.repeat => x.phases # <<>>
  /\ x.count \in Nat /\ x.horizon \in Nat /\ (x.count > 0 <=> x.horizon = 0)
  /\ x.sharing \in {"none", "some", "all"} /\ x.group_size \in Int \cup {None}

\* Rounding gives a number that stays when it is rounded again, and keeps the
\* order; here over the numbers of T.
Rounds(T) ==
  /\ Round(0) = 0
  /\ \A x \in T : Round(x) \in Int /\ Round(Round(x)) = Round(x)
  /\ \A x, y \in T : x <= y => Round(x) <= Round(y)
  /\ \A b \in T : b > 0 =>
       /\ Quot(0, b) = 0
       /\ \A x \in T : x >= 0 => Quot(x, b) \in Nat
       /\ \A x, y \in T : 0 <= x /\ x <= y => Quot(x, b) <= Quot(y, b)

ASSUME ScheduleAssumption ==
  /\ Resolution \in Nat \ {0} /\ MaxPlanned \in Nat /\ MaxGap \in Nat /\ MaxTime \in Nat
  /\ \A x \in Workloads : IsWorkload(x)
  /\ Rounds(-MaxTime..MaxTime)

VARIABLES w,        \* the workload
          pc,       \* where Build is
          t,        \* the time reached, in seconds of the run
          offsets,  \* the send offsets so far
          groups,   \* the PrefixGroup of the items so far, 0 for a prompt of its own
          shared    \* sharingCount

vars == <<w, pc, t, offsets, groups, shared>>

Phased == w.phases # <<>>

\* phaseAt's loop: what is left of x and where the phase ends, after k phases
\* from `base`.
Turn(base, x) ==
  LET turn[k \in 0..Len(w.phases)] ==
        IF k = 0 THEN [rel |-> Round(x - base), end |-> base]
        ELSE [rel |-> Round(turn[k - 1].rel - w.phases[k].duration),
              end |-> Round(turn[k - 1].end + w.phases[k].duration)]
  IN  turn

Cycle == Turn(0, 0)[Len(w.phases)].end

Init ==
  /\ w \in Workloads /\ pc = "begin"
  /\ t = 0 /\ offsets = <<>> /\ groups = <<>> /\ shared = 0

\* Repeated phases that never send.
Barren == Phased /\ w.repeat /\ \A k \in DOMAIN w.phases : ~w.phases[k].positive

Begin ==
  /\ pc = "begin"
  /\ pc' = IF w.type = "closed-loop" \/ Barren THEN "error" ELSE "next"
  /\ UNCHANGED <<w, t, offsets, groups, shared>>

-----------------------------------------------------------------------------
(* nextArrivalFunc: one draw, or one turn of the walk over the phases.     *)

Base(x) == IF w.repeat THEN Round(Quot(x, Cycle) * Cycle) ELSE 0

\* phaseAt: the first phase that x lies in; Len + 1 when rounding leaves x past
\* them all, which is taken for the first phase of the next cycle.
PhaseIndex(x) ==
  LET here == {k \in DOMAIN w.phases : Turn(Base(x), x)[k - 1].rel < w.phases[k].duration}
  IN  IF here = {} THEN Len(w.phases) + 1 ELSE CHOOSE k \in here : \A j \in here : k <= j

PhaseEnd(x) ==
  LET turn == Turn(Base(x), x)
      k == PhaseIndex(x)
  IN  IF k \in DOMAIN w.phases THEN turn[k].end
      ELSE Round(turn[k - 1].end + w.phases[1].duration)

Sending(x) ==
  w.phases[IF PhaseIndex(x) \in DOMAIN w.phases THEN PhaseIndex(x) ELSE 1].positive

\* Variant: an arrival drawn beyond the end of its phase is kept.
LandsAnyway(cand, end) == TRUE
Lands(cand, end) == cand < end

Steady ==
  /\ pc = "next" /\ ~Phased
  /\ \E gap \in 0..MaxGap : t' = Round(t + gap) /\ t' <= MaxTime
  /\ pc' = "arrived"
  /\ UNCHANGED <<w, offsets, groups, shared>>

Exhausted ==
  /\ pc = "next" /\ Phased /\ ~w.repeat /\ t >= Cycle
  /\ pc' = "stop"
  /\ UNCHANGED <<w, t, offsets, groups, shared>>

\* A draw that crosses the end of the phase is discarded and made again from
\* there; a phase of rate zero is skipped.
Walk ==
  /\ pc = "next" /\ Phased /\ (w.repeat \/ t < Cycle)
  /\ \/ /\ Sending(t)
        /\ \E gap \in 0..MaxGap :
             Lands(Round(t + gap), PhaseEnd(t)) /\ t' = Round(t + gap)
        /\ pc' = "arrived"
     \/ t' = PhaseEnd(t) /\ UNCHANGED pc
  /\ t' <= MaxTime
  /\ UNCHANGED <<w, offsets, groups, shared>>

-----------------------------------------------------------------------------
(* arrivalOffsets.                                                         *)

SendOffset == Quot(t, Resolution)

\* The horizon is tested before the append, the limit after it, and not at
\* all when the wanted count is reached.
Arrive ==
  /\ pc = "arrived"
  /\ IF w.horizon > 0 /\ t >= w.horizon
     THEN pc' = "stop" /\ UNCHANGED offsets
     ELSE /\ offsets' = Append(offsets, SendOffset)
          /\ pc' = IF w.count > 0 /\ Len(offsets') = w.count THEN "stop"
                   ELSE IF Len(offsets') > MaxPlanned THEN "error" ELSE "next"
  /\ UNCHANGED <<w, t, groups, shared>>

Stop ==
  /\ pc = "stop"
  /\ pc' = IF offsets = <<>> THEN "error" ELSE "items"
  /\ UNCHANGED <<w, t, offsets, groups, shared>>

-----------------------------------------------------------------------------
(* Build's loop over the items: the sequential fill of the prefix groups.  *)

\* Go's integer division, which truncates, of a number that is not negative.
Quotient(a, b) == IF b > 0 THEN a \div b ELSE -(a \div (-b))

Group == IF w.group_size = None THEN 1 ELSE Quotient(shared, w.group_size) + 1

Shares == CASE w.sharing = "none" -> {FALSE}
            [] w.sharing = "some" -> BOOLEAN
            [] w.sharing = "all" -> {TRUE}

Assign ==
  /\ pc = "items" /\ Len(groups) < Len(offsets)
  /\ \/ /\ FALSE \in Shares
        /\ groups' = Append(groups, 0)
        /\ UNCHANGED <<pc, shared>>
     \/ /\ TRUE \in Shares /\ w.group_size = 0
        /\ pc' = "panic" /\ UNCHANGED <<groups, shared>>
     \/ /\ TRUE \in Shares /\ w.group_size # 0
        /\ groups' = Append(groups, Group)
        /\ shared' = shared + 1
        /\ UNCHANGED pc
  /\ UNCHANGED <<w, t, offsets>>

Finish ==
  /\ pc = "items" /\ Len(groups) = Len(offsets)
  /\ pc' = "built"
  /\ UNCHANGED <<w, t, offsets, groups, shared>>

Next == Begin \/ Steady \/ Exhausted \/ Walk \/ Arrive \/ Stop \/ Assign \/ Finish

Spec == Init /\ [][Next]_vars

-----------------------------------------------------------------------------
\* The rate is positive at time x, by the declaration and not by the walk.
Declared(k) == SumFunction([i \in 1..k |-> w.phases[i].duration])
SendsAt(x) ==
  \E k \in DOMAIN w.phases, n \in IF w.repeat THEN 0..x ELSE {0} :
    LET end == n * Declared(Len(w.phases)) + Declared(k)
    IN  w.phases[k].positive /\ end - w.phases[k].duration <= x /\ x < end

\* The plan a run executes: offsets never go back (RunAssumption).
InOrder == \A i, j \in DOMAIN offsets : i <= j => offsets[i] <= offsets[j]

\* Each offset is a truncated time before the horizon at which the workload
\* declares traffic, as far as rounding can tell.  Where it can not, a walk over
\* phases that do not repeat may fall off their end into the first one again.
AtDeclaredTimes ==
  \A i \in DOMAIN offsets :
    \E x \in 0..MaxTime :
      /\ Quot(x, Resolution) = offsets[i]
      /\ w.horizon > 0 => x < w.horizon
      /\ \/ ~Phased
         \/ \E y \in (x - Blur(x))..(x + Blur(x)) :
              \/ SendsAt(y)
              \/ Blur(x) > 0 /\ ~w.repeat /\ SendsAt(y - Declared(Len(w.phases)))

\* It has as many items as wanted, or the time was over; the limit holds,
\* except for a wanted count just above it.
EndsForAReason ==
  /\ offsets # <<>>
  /\ \/ w.count > 0 /\ Len(offsets) = w.count
     \/ w.horizon > 0 /\ t >= w.horizon
     \/ Phased /\ ~w.repeat /\ t >= Cycle
  /\ w.count > 0 => Len(offsets) <= w.count
  /\ Len(offsets) <= MaxPlanned \/ w.count = MaxPlanned + 1

\* Sharing items fill groups of group_size one after the other.
GroupsFill ==
  LET members(g) == {i \in DOMAIN groups : groups[i] = g}
      used == {groups[i] : i \in DOMAIN groups} \ {0}
  IN  w.group_size = None \/ w.group_size > 0 =>
        /\ used = 1..Cardinality(used)
        /\ \A i, j \in DOMAIN groups : i <= j /\ 0 \notin {groups[i], groups[j]} => groups[i] <= groups[j]
        /\ w.group_size # None =>
             \A g \in used : /\ Cardinality(members(g)) <= w.group_size
                             /\ g + 1 \in used => Cardinality(members(g)) = w.group_size

\* A plan is what the workload declares, whatever was drawn (schedule.go:93-168,
\* 192-303): order, times, length and groups; and Build fails only on a
\* workload without arrivals or with too many, or on a group size of zero.
PlanAsDeclared ==
  /\ InOrder /\ AtDeclaredTimes
  /\ pc = "built" => EndsForAReason /\ GroupsFill /\ Len(groups) = Len(offsets)
  /\ pc = "error" => \/ w.type = "closed-loop" \/ Barren
                     \/ offsets = <<>> \/ Len(offsets) = MaxPlanned + 1
  /\ pc = "panic" => w.group_size = 0

\* Build comes to an end on phases of which one sends: "a repeating phase
\* schedule with no positive-rate phase would cycle forever ... refuse it up
\* front" (schedule.go:195-196), and a Build that hangs is a failure
\* (schedule_test.go:339-365).  So a turn of the walk always gets on.
WalkAdvances == pc = "next" /\ Phased /\ (w.repeat \/ t < Cycle) => PhaseEnd(t) > t

=============================================================================
